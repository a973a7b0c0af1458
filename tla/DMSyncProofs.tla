----------------------------- MODULE DMSyncProofs -----------------------------
(***************************************************************************)
(* What DMSync guarantees for every number of processes, conversations and *)
(* fingerprints, and every choice of its times, limits and bounds.         *)
(***************************************************************************)
EXTENDS DMSync, FiniteSetTheorems, WellFoundedInduction, TLAPS

(* Equal tuples of these fields are equal identifiers and events, so there *)
(* are finitely many of them.                                              *)
LEMMA EventIdsAreFinite == IsFiniteSet(EventId)
<1> DEFINE Fields == Kinds \X (Convs \X Prints)
           id == [t \in Fields |-> [kind |-> t[1], conv |-> t[2][1], print |-> t[2][2]]]
<1>1. IsFiniteSet(Kinds)
  <2>1. Kinds = ({"created"} \cup {"read_changed"}) \cup {"updated"}
    BY DEF Kinds
  <2> QED
    BY <2>1, FS_Singleton, FS_Union
<1>2. IsFiniteSet(Fields)
  BY <1>1, SpoolAssumption, FS_Product
<1>3. id \in Surjection(Fields, EventId)
  <2>1. id \in [Fields -> EventId]
    BY DEF EventId
  <2>2. ASSUME NEW i \in EventId PROVE \E t \in Fields : id[t] = i
    <3>1. <<i.kind, <<i.conv, i.print>>>> \in Fields
      BY DEF EventId
    <3>2. id[<<i.kind, <<i.conv, i.print>>>>] = i
      BY <3>1 DEF EventId
    <3> QED
      BY <3>1, <3>2
  <2> QED
    BY <2>1, <2>2 DEF Surjection
<1> QED
  BY <1>2, <1>3, FS_Surjection

LEMMA SpoolIsFinite == ASSUME TypeOK PROVE IsFiniteSet(spool)
<1> DEFINE Fields == (1..MaxSeq) \X (EventId \X (0..MaxTime))
           event == [t \in Fields |-> [seq |-> t[1], id |-> t[2][1], at |-> t[2][2]]]
<1>1. IsFiniteSet(1..MaxSeq) /\ IsFiniteSet(0..MaxTime)
  BY SpoolAssumption, FS_Interval
<1>2. IsFiniteSet(Fields)
  BY <1>1, EventIdsAreFinite, FS_Product
<1>3. event \in Surjection(Fields, Event)
  <2>1. event \in [Fields -> Event]
    BY DEF Event
  <2>2. ASSUME NEW e \in Event PROVE \E t \in Fields : event[t] = e
    <3>1. <<e.seq, <<e.id, e.at>>>> \in Fields
      BY DEF Event
    <3>2. event[<<e.seq, <<e.id, e.at>>>>] = e
      BY <3>1 DEF Event
    <3> QED
      BY <3>1, <3>2
  <2> QED
    BY <2>1, <2>2 DEF Surjection
<1>4. IsFiniteSet(Event)
  BY <1>2, <1>3, FS_Surjection
<1> QED
  BY <1>4, FS_Subset DEF TypeOK, SpoolTypeOK

(* A batch has a last sequence. *)
LEMMA LastOfBatch ==
  ASSUME NEW batch \in SUBSET (1..MaxSeq), NEW start
  PROVE  /\ batch = {} => LastOf(batch, start) = start
         /\ batch # {} => /\ LastOf(batch, start) \in batch
                          /\ \A s \in batch : s <= LastOf(batch, start)
<1>1. CASE batch = {}
  BY <1>1 DEF LastOf
<1>2. CASE batch # {}
  <2> DEFINE rest == {MaxSeq - s : s \in batch}
             less == {t \in Nat \X Nat : t[1] < t[2]}
  <2>1. \A s \in batch : s \in Nat /\ MaxSeq - s \in Nat
    BY SpoolAssumption
  <2>2. rest \subseteq Nat /\ rest # {}
    BY <1>2, <2>1
  <2>3. IsWellFoundedOn(less, Nat)
    BY NatLessThanWellFounded DEF OpToRel
  <2> HIDE DEF less
  <2>5. \E r \in rest : \A t \in rest : <<t, r>> \notin less
    BY <2>2, <2>3, WFMin
  <2>6. PICK r \in rest : \A t \in rest : ~ (t < r)
    BY <2>2, <2>5 DEF less
  <2>7. PICK s \in batch : r = MaxSeq - s
    BY <2>6
  <2>8. \A t \in batch : ~ (MaxSeq - t < MaxSeq - s)
    BY <2>6, <2>7
  <2>4. \A t \in batch : t <= s
    BY <2>1, <2>8, SpoolAssumption
  <2> QED
    BY <1>2, <2>4 DEF LastOf
<1> QED
  BY <1>1, <1>2

-----------------------------------------------------------------------------
LEMMA InitType == Init => TypeOK
BY SpoolAssumption
   DEF Init, TypeOK, SpoolInit, SpoolTypeOK, Nothing, Summaries, MaybePrint, Pcs, NoOp, Op

(* The events of a batch number the sequence on, and are events.           *)
LEMMA BatchType ==
  ASSUME TypeOK, NEW p \in Owners, Commit(p)
  PROVE  /\ spool' \subseteq Event /\ lastSeq' \in 0..MaxSeq /\ lastSeq <= lastSeq'
         /\ \A e \in spool' : e \in spool \/ e.seq \in (lastSeq + 1)..lastSeq'
         /\ head' \in Head \cup {NoHead} /\ stored' \in Summaries
<1> DEFINE new == Inserted(op[p].ids)
<1>1. op[p] \in Op /\ lastSeq \in Nat /\ spool \subseteq Event
  BY SpoolAssumption DEF TypeOK, SpoolTypeOK
<1>2. new \subseteq EventId /\ Cardinality(new) \in Nat
  <2>1. new \subseteq EventId
    BY <1>1 DEF Inserted, Op
  <2> QED
    BY <2>1, EventIdsAreFinite, FS_Subset, FS_CardinalityType
<1>3. /\ lastSeq + Cardinality(new) <= MaxSeq
      /\ lastSeq' = lastSeq + Cardinality(new)
      /\ head' = IF head = NoHead THEN [gen |-> op[p].gen, ack |-> op[p].sequence] ELSE head
      /\ stored' = [c \in Convs |-> IF op[p].fetched[c] = NoPrint THEN stored[c]
                                     ELSE op[p].fetched[c]]
  BY DEF Commit, CommitBatch
<1>4. PICK numbering \in Numberings(new) :
        spool' = Newest(Recent(spool \cup Rows(new, numbering, op[p].at), op[p].at))
  BY DEF Commit, CommitBatch
<1>5. lastSeq' \in 0..MaxSeq /\ lastSeq <= lastSeq'
  BY <1>1, <1>2, <1>3, SpoolAssumption
<1>6. \A e \in Rows(new, numbering, op[p].at) : e \in Event /\ e.seq \in (lastSeq + 1)..lastSeq'
  <2> SUFFICES ASSUME NEW i \in new
               PROVE  /\ [seq |-> numbering[i], id |-> i, at |-> op[p].at] \in Event
                      /\ numbering[i] \in (lastSeq + 1)..lastSeq'
    BY DEF Rows
  <2>1. numbering[i] \in (lastSeq + 1)..lastSeq'
    BY <1>3, <1>4 DEF Numberings
  <2>2. numbering[i] \in 1..MaxSeq
    BY <2>1, <1>1, <1>5, SpoolAssumption
  <2>3. op[p].at \in 0..MaxTime
    BY <1>1 DEF Op
  <2> QED
    BY <2>1, <2>2, <2>3, <1>2 DEF Event
<1>7. spool' \subseteq spool \cup Rows(new, numbering, op[p].at)
  BY <1>4 DEF Newest, Recent
<1>8. head' \in Head \cup {NoHead} /\ stored' \in Summaries
  <2>1. head' \in Head \cup {NoHead}
    BY <1>1, <1>3 DEF TypeOK, SpoolTypeOK, Head, Op
  <2>2. stored' \in Summaries
    BY <1>1, <1>3 DEF TypeOK, SpoolTypeOK, Summaries, Op
  <2> QED
    BY <2>1, <2>2
<1> QED
  BY <1>1, <1>5, <1>6, <1>7, <1>8

(* What a step sets in the locals of its process has the type of Op.       *)
LEMMA OpType ==
  ASSUME NEW o \in Op
  PROVE  /\ \A g \in Nat : [o EXCEPT !.gen = g] \in Op
         /\ \A s \in 0..MaxSeq, b \in BOOLEAN, f \in BOOLEAN :
              [o EXCEPT !.sequence = s, !.since = b, !.first = f] \in Op
         /\ \A t \in 0..MaxTime : [o EXCEPT !.at = t] \in Op
         /\ \A f \in Summaries : [o EXCEPT !.fetched = f] \in Op
         /\ \A silent \in SUBSET Convs, ids \in SUBSET EventId :
              [o EXCEPT !.silent = silent, !.since = FALSE, !.ids = ids] \in Op
         /\ \A b \in SUBSET (1..MaxSeq), s \in 0..MaxSeq :
              [o EXCEPT !.batch = b, !.sequence = s] \in Op
         /\ [o EXCEPT !.batch = {}] \in Op
BY DEF Op

LEMMA NoOpType == NoOp \in Op /\ Nothing \in Summaries
BY SpoolAssumption DEF NoOp, Op, Nothing, Summaries, MaybePrint

LEMMA CommittedOpType ==
  ASSUME NEW o \in Op
  PROVE  [o EXCEPT !.fetched = Nothing, !.ids = {}, !.silent = {},
                   !.first = FALSE, !.at = 0] \in Op
<1>1. Nothing \in Summaries /\ 0 \in 0..MaxTime
  BY SpoolAssumption, NoOpType
<1> HIDE DEF Nothing
<1> QED
  BY <1>1 DEF Op

LEMMA StartType ==
  ASSUME TypeOK, NEW p \in Owners, NEW s \in 0..MaxSeq, NEW b \in BOOLEAN, Starts(p, s, b)
  PROVE  op' \in [Owners -> Op] /\ pc' \in [Owners -> Pcs]
<1>1. [op[p] EXCEPT !.sequence = s, !.since = b, !.first = b /\ head = NoHead] \in Op
  BY OpType DEF TypeOK
<1>2. op' = [op EXCEPT ![p] = [op[p] EXCEPT !.sequence = s, !.since = b,
                                            !.first = b /\ head = NoHead]]
  BY DEF Starts
<1> QED
  BY <1>1, <1>2 DEF Starts, Goto, Pcs, PollPcs, TypeOK

LEMMA StartFields ==
  ASSUME TypeOK, NEW p \in Owners, NEW s \in 0..MaxSeq, NEW b \in BOOLEAN, Starts(p, s, b)
  PROVE  /\ op'[p].sequence = s /\ (op'[p].first => b /\ head = NoHead)
         /\ op'[p].gen = op[p].gen /\ op'[p].silent = op[p].silent
         /\ pc'[p] = "lease"
<1> DEFINE f == b /\ head = NoHead
<1>1. op' = [op EXCEPT ![p] = [op[p] EXCEPT !.sequence = s, !.since = b, !.first = f]]
  BY DEF Starts
<1>2. f \in BOOLEAN /\ (f => b /\ head = NoHead)
  OBVIOUS
<1> HIDE DEF f
<1>3. op[p] \in Op /\ op \in [Owners -> Op] /\ pc \in [Owners -> Pcs]
  BY DEF TypeOK
<1>4. op'[p] = [op[p] EXCEPT !.sequence = s, !.since = b, !.first = f]
  BY <1>1, <1>3
<1> QED
  BY <1>2, <1>3, <1>4 DEF Op, Starts, Goto

(* Where a poll starts: at the beginning, at the head, or at an event that *)
(* was printed.                                                            *)
LEMMA PositionStarts ==
  ASSUME TypeOK, NEW p \in Owners, Position(p)
  PROVE  \E s \in 0..MaxSeq, b \in BOOLEAN :
           /\ Starts(p, s, b)
           /\ b /\ head = NoHead => s = 0
           /\ \/ s = 0
              \/ head # NoHead /\ s = head.ack
              \/ s \notin owed /\ \E e \in spool : e.seq = s
<1>1. \A e \in spool : e.seq \in 0..MaxSeq
  BY SpoolAssumption DEF TypeOK, SpoolTypeOK, Event
<1>2. 0 \in 0..MaxSeq /\ (head # NoHead => head.ack \in 0..MaxSeq)
  BY SpoolAssumption DEF TypeOK, SpoolTypeOK, Head
<1>3. CASE \E c \in Printed : ValidCursor(c) /\ Starts(p, c.seq, FALSE)
  <2>1. PICK c \in Printed : Starts(p, c.seq, FALSE)
    BY <1>3
  <2>2. c.seq = 0 \/ (c.seq \notin owed /\ \E e \in spool : e.seq = c.seq)
    BY DEF Printed
  <2> QED
    BY <1>1, <1>2, <2>1, <2>2
<1>4. CASE Starts(p, IF head = NoHead THEN 0 ELSE head.ack, TRUE)
  <2>1. CASE head = NoHead
    BY <1>2, <1>4, <2>1
  <2>2. CASE head # NoHead
    BY <1>2, <1>4, <2>2
  <2> QED
    BY <2>1, <2>2
<1>5. CASE head # NoHead /\ Starts(p, head.ack, FALSE)
  BY <1>2, <1>5
<1> QED
  BY <1>3, <1>4, <1>5 DEF Position

LEMMA EventForType ==
  ASSUME NEW c \in Convs, NEW old \in MaybePrint, NEW new \in Prints
  PROVE  /\ EventFor(c, old, new) \in EventId
         /\ EventFor(c, old, new).conv = c /\ EventFor(c, old, new).print = new
BY DEF EventFor, EventId, Kinds

LEMMA StepType == Typed /\ [Next]_vars => TypeOK'
<1> SUFFICES ASSUME Typed, [Next]_vars PROVE TypeOK'
  OBVIOUS
<1>0. /\ pc \in [Owners -> Pcs] /\ op \in [Owners -> Op] /\ SpoolTypeOK
      /\ signedIn \in BOOLEAN /\ owed \subseteq 1..MaxSeq /\ known \subseteq Convs \X Prints
      /\ NoOp \in Op /\ TypeOK
  BY NoOpType DEF TypeOK, Typed
<1>1. ASSUME NEW p \in Owners, Identity(p) PROVE TypeOK'
  <2>1. [op[p] EXCEPT !.gen = generation] \in Op
    BY <1>0, OpType DEF SpoolTypeOK
  <2> QED
    BY <1>0, <1>1, <2>1 DEF Identity, Goto, Pcs, PollPcs, rows, history, TypeOK, SpoolTypeOK
<1>2. ASSUME NEW p \in Owners, Position(p) PROVE TypeOK'
  <2>1. \E s \in 0..MaxSeq, b \in BOOLEAN : Starts(p, s, b)
    BY <1>0, <1>2, PositionStarts
  <2>2. op' \in [Owners -> Op] /\ pc' \in [Owners -> Pcs]
    BY <1>0, <2>1, StartType
  <2> QED
    BY <1>0, <1>2, <2>2 DEF Position, rows, history, TypeOK, SpoolTypeOK
<1>3. ASSUME NEW p \in Owners, Acquire(p) PROVE TypeOK'
  <2>1. [op[p] EXCEPT !.at = now] \in Op
    BY <1>0, OpType DEF SpoolTypeOK
  <2>2. lease' \in Lease
    BY <1>0, <1>3, SpoolAssumption DEF Acquire, AcquireLease, Lease, SpoolTypeOK
  <2> QED
    BY <1>0, <1>3, <2>1, <2>2 DEF Acquire, Goto, Pcs, PollPcs, history, TypeOK, SpoolTypeOK
<1>4. ASSUME NEW p \in Owners, Fetch(p) PROVE TypeOK'
  <2>1. \A f \in Summaries : [op[p] EXCEPT !.fetched = f] \in Op
    BY <1>0, OpType
  <2> QED
    BY <1>0, <1>4, <2>1 DEF Fetch, Goto, Pcs, PollPcs, rows, history, TypeOK, SpoolTypeOK
<1>5. ASSUME NEW p \in Owners, Compare(p) PROVE TypeOK'
  <2>1. \A c \in Changed(p) : /\ c \in Convs /\ stored[c] \in MaybePrint
                              /\ op[p].fetched[c] \in Prints
    BY <1>0 DEF Changed, SpoolTypeOK, Summaries, MaybePrint, Op
  <2>2. \A S \in SUBSET Changed(p) :
           {EventFor(c, stored[c], op[p].fetched[c]) : c \in S} \subseteq EventId
    BY <2>1, EventForType
  <2>3. PICK silent \in Silences(p) :
          op' = [op EXCEPT ![p].silent = Changed(p) \cap silent, ![p].since = FALSE,
                           ![p].ids = {EventFor(c, stored[c], op[p].fetched[c]) :
                                         c \in Changed(p) \ silent}]
    BY <1>5 DEF Compare
  <2> DEFINE ids == {EventFor(c, stored[c], op[p].fetched[c]) : c \in Changed(p) \ silent}
  <2>4. ids \subseteq EventId /\ Changed(p) \cap silent \in SUBSET Convs
    BY <2>1, <2>2
  <2> HIDE DEF ids
  <2>5. [op[p] EXCEPT !.silent = Changed(p) \cap silent, !.since = FALSE, !.ids = ids] \in Op
    BY <1>0, <2>4, OpType
  <2>6. op' \in [Owners -> Op]
    BY <1>0, <2>3, <2>5 DEF ids
  <2> QED
    BY <1>0, <1>5, <2>6 DEF Compare, Goto, Pcs, PollPcs, rows, history, TypeOK, SpoolTypeOK
<1>6. ASSUME NEW p \in Owners, Commit(p) PROVE TypeOK'
  <2>1. op' \in [Owners -> Op]
    BY <1>0, <1>6, CommittedOpType DEF Commit
  <2>2. known' \subseteq Convs \X Prints
    <3>1. \A i \in op[p].ids : <<i.conv, i.print>> \in Convs \X Prints
      BY <1>0 DEF Op, EventId
    <3>2. \A c \in op[p].silent : <<c, op[p].fetched[c]>> \in Convs \X Prints
      BY <1>0 DEF Op, Typed, SilentIsFetched
    <3> QED
      BY <1>0, <1>6, <3>1, <3>2 DEF Commit, Announces
  <2>3. owed' \subseteq 1..MaxSeq
    <3>1. lastSeq \in Nat /\ lastSeq' \in 0..MaxSeq
      BY <1>0, <1>6, BatchType, SpoolAssumption DEF SpoolTypeOK
    <3>2. (lastSeq + 1)..lastSeq' \subseteq 1..MaxSeq
      BY <3>1, SpoolAssumption
    <3> QED
      BY <1>0, <1>6, <3>2 DEF Commit
  <2>4. SpoolTypeOK'
    BY <1>0, <1>6, BatchType DEF Commit, SpoolTypeOK
  <2> QED
    BY <1>0, <1>6, <2>1, <2>2, <2>3, <2>4 DEF Commit, Goto, Pcs, PollPcs, TypeOK
<1>7. ASSUME NEW p \in Owners, Read(p) PROVE TypeOK'
  <2>1. PICK batch \in EventsAfter(op[p].sequence, Limit) :
          op' = [op EXCEPT ![p].batch = batch, ![p].sequence = LastOf(batch, op[p].sequence)]
    BY <1>7 DEF Read
  <2>2. batch \subseteq 1..MaxSeq
    BY <1>0 DEF EventsAfter, SpoolTypeOK, Event
  <2>3. LastOf(batch, op[p].sequence) \in 0..MaxSeq
    <3>1. op[p].sequence \in 0..MaxSeq /\ 1..MaxSeq \subseteq 0..MaxSeq
      BY <1>0, SpoolAssumption DEF Op
    <3> QED
      BY <2>2, <3>1, LastOfBatch
  <2>4. [op[p] EXCEPT !.batch = batch, !.sequence = LastOf(batch, op[p].sequence)] \in Op
    BY <1>0, <2>2, <2>3, OpType
  <2>5. op' \in [Owners -> Op]
    BY <1>0, <2>1, <2>4
  <2> QED
    BY <1>0, <1>7, <2>5
    DEF Read, ReleaseLease, Goto, Pcs, history, TypeOK, SpoolTypeOK
<1>8. ASSUME NEW p \in Owners, Emit(p) PROVE TypeOK'
  <2>1. [op[p] EXCEPT !.batch = {}] \in Op
    BY <1>0, OpType
  <2>2. op' \in [Owners -> Op]
    BY <1>0, <1>8, <2>1 DEF Emit, Exit
  <2>3. owed' \subseteq owed
    BY <1>8 DEF Emit
  <2> QED
    BY <1>0, <1>8, <2>2, <2>3 DEF Emit, Exit, Goto, Pcs, rows, TypeOK, SpoolTypeOK
<1>9. ASSUME NEW p \in Owners, Ack(p) PROVE TypeOK'
  <2>1. head' \in Head \cup {NoHead}
    <3>1. CASE UNCHANGED head
      BY <1>0, <3>1 DEF SpoolTypeOK
    <3>2. CASE CanAdvance(op[p].gen, op[p].sequence) /\ Advance(op[p].sequence)
      BY <1>0, <3>2 DEF CanAdvance, Advance, SpoolTypeOK, Head, Op
    <3> QED
      BY <1>9, <3>1, <3>2 DEF Ack
  <2> QED
    BY <1>0, <1>9, <2>1 DEF Ack, Exit, Goto, Pcs, history, TypeOK, SpoolTypeOK
<1>10. ASSUME NEW p \in Owners, Fail(p) PROVE TypeOK'
  BY <1>0, <1>10 DEF Fail, ReleaseLease, Exit, Goto, Pcs, history, TypeOK, SpoolTypeOK
<1>11. ASSUME NEW p \in Owners, Stop(p) PROVE TypeOK'
  BY <1>0, <1>11 DEF Stop, Exit, Goto, Pcs, rows, history, TypeOK, SpoolTypeOK
<1>12. CASE StoreRead
  <2>1. PICK c \in Convs, print \in Prints :
          StoreSummary(c, print) /\ known' = known \cup {<<c, print>>}
    BY <1>12 DEF StoreRead
  <2>2. stored' \in Summaries
    BY <1>0, <2>1 DEF StoreSummary, SpoolTypeOK, Summaries, MaybePrint
  <2> QED
    BY <1>0, <1>12, <2>1, <2>2 DEF StoreRead, TypeOK, SpoolTypeOK
<1>13. CASE SignOut
  <2>1. generation' \in Nat /\ stored' \in Summaries /\ spool' = {} /\ head' = NoHead
    BY <1>0, <1>13, NoOpType DEF SignOut, DeleteAccountData, SpoolTypeOK
  <2> QED
    BY <1>0, <1>13, <2>1 DEF SignOut, DeleteAccountData, TypeOK, SpoolTypeOK
<1>14. CASE SignIn
  BY <1>0, <1>14 DEF SignIn, rows, history, TypeOK, SpoolTypeOK
<1>15. CASE Tick
  BY <1>0, <1>15, SpoolAssumption DEF Tick, rows, history, TypeOK, SpoolTypeOK
<1>16. CASE UNCHANGED vars
  BY <1>0, <1>16 DEF vars, rows, history, TypeOK, SpoolTypeOK
<1> QED
  BY <1>1, <1>2, <1>3, <1>4, <1>5, <1>6, <1>7, <1>8, <1>9, <1>10, <1>11, <1>12,
     <1>13, <1>14, <1>15, <1>16
  DEF Next, Process, Poll

LEMMA InitTyped == Init => Typed
BY InitType DEF Init, Typed, SilentIsFetched, NoOp

(* A step of a process leaves the others where they are. *)
LEMMA StepIsMine ==
  ASSUME TypeOK, NEW p \in Owners, Process(p), NEW q \in Owners, q # p
  PROVE  pc'[q] = pc[q] /\ op'[q] = op[q]
<1>1. pc \in [Owners -> Pcs] /\ op \in [Owners -> Op]
  BY DEF TypeOK
<1>2. CASE Poll(p)
  BY <1>1, <1>2
  DEF Poll, Identity, Position, Starts, Acquire, Fetch, Compare, Commit, Read, Fail, Exit, Goto
<1>3. CASE Emit(p) \/ Ack(p) \/ Stop(p)
  BY <1>1, <1>3 DEF Emit, Ack, Stop, Exit, Goto
<1> QED
  BY <1>2, <1>3 DEF Process

LEMMA StepTyped == Typed /\ [Next]_vars => Typed'
<1> SUFFICES ASSUME Typed, [Next]_vars PROVE SilentIsFetched'
  BY StepType DEF Typed
<1>1. op \in [Owners -> Op] /\ pc \in [Owners -> Pcs] /\ TypeOK /\ SilentIsFetched
  BY DEF Typed, TypeOK
<1> DEFINE Fits(q) == /\ pc'[q] # "commit" => op'[q].silent = {}
                      /\ \A c \in op'[q].silent : op'[q].fetched[c] \in Prints
<1>2. ASSUME NEW p \in Owners, Process(p) PROVE SilentIsFetched'
  <2>1. Fits(p)
    <3>1. CASE Compare(p)
      <4>1. \A c \in Changed(p) : op[p].fetched[c] \in Prints
        BY <1>1 DEF Changed, Op, Summaries, MaybePrint
      <4>2. op'[p].silent \subseteq Changed(p) /\ op'[p].fetched = op[p].fetched
        BY <1>1, <3>1 DEF Compare, Op
      <4>3. pc'[p] = "commit"
        BY <1>1, <3>1 DEF Compare, Goto
      <4> QED
        BY <4>1, <4>2, <4>3
    <3>2. CASE Exit(p)
      BY <1>1, <3>2 DEF Exit, NoOp
    <3>3. CASE Identity(p) \/ Position(p) \/ Acquire(p) \/ Fetch(p) \/ Read(p) \/ Emit(p)
      <4>1. op[p].silent = {}
        BY <1>1, <3>3
        DEF SilentIsFetched, Identity, Position, Acquire, Fetch, Read, Emit
      <4>2. op'[p].silent = {}
        <5>1. CASE Position(p)
          BY <1>1, <4>1, <5>1, PositionStarts, StartFields
        <5>2. CASE Identity(p) \/ Acquire(p) \/ Fetch(p) \/ Read(p)
          BY <1>1, <4>1, <5>2 DEF Identity, Acquire, Fetch, Read, Op
        <5>3. CASE Emit(p)
          BY <1>1, <4>1, <5>3 DEF Emit, Exit, NoOp, Op
        <5> QED
          BY <3>3, <5>1, <5>2, <5>3
      <4> QED
        BY <4>2
    <3>4. CASE Commit(p)
      BY <1>1, <3>4 DEF Commit, Op
    <3> QED
      BY <1>2, <3>1, <3>2, <3>3, <3>4 DEF Process, Poll, Fail, Ack, Stop
  <2>2. ASSUME NEW q \in Owners, q # p PROVE Fits(q)
    BY <1>1, <1>2, <2>2, StepIsMine DEF SilentIsFetched
  <2> QED
    BY <2>1, <2>2 DEF SilentIsFetched
<1>3. ASSUME UNCHANGED <<pc, op>> PROVE SilentIsFetched'
  BY <1>1, <1>3 DEF SilentIsFetched
<1> QED
  BY <1>2, <1>3 DEF Next, StoreRead, SignOut, SignIn, Tick, vars

(* Every variable keeps its type: sequences and cursors stay within the    *)
(* bound, and every row comes from a poll of some conversation.            *)
THEOREM TypeCorrect == Spec => []TypeOK
<1>1. Typed => TypeOK
  BY DEF Typed
<1> QED
  BY InitTyped, StepTyped, <1>1, PTL DEF Spec

-----------------------------------------------------------------------------
(* What the steps of a cycle set in the locals of their process.           *)
LEMMA IdentityFields ==
  ASSUME TypeOK, NEW p \in Owners, Identity(p)
  PROVE  /\ pc'[p] = "position"
         /\ op'[p].gen = generation /\ op'[p].sequence = op[p].sequence
         /\ op'[p].first = op[p].first
<1>1. op[p] \in Op /\ op \in [Owners -> Op] /\ pc \in [Owners -> Pcs]
  BY DEF TypeOK
<1>2. op'[p] = [op[p] EXCEPT !.gen = generation]
  BY <1>1 DEF Identity
<1> QED
  BY <1>1, <1>2 DEF Identity, Goto, Op

LEMMA AcquireFields ==
  ASSUME TypeOK, NEW p \in Owners, Acquire(p)
  PROVE  /\ pc'[p] = "fetch"
         /\ op'[p].gen = op[p].gen /\ op'[p].sequence = op[p].sequence
         /\ op'[p].first = op[p].first
<1>1. op[p] \in Op /\ op \in [Owners -> Op] /\ pc \in [Owners -> Pcs]
  BY DEF TypeOK
<1>2. op'[p] = [op[p] EXCEPT !.at = now]
  BY <1>1 DEF Acquire
<1> QED
  BY <1>1, <1>2 DEF Acquire, Goto, Op

LEMMA FetchFields ==
  ASSUME TypeOK, NEW p \in Owners, Fetch(p)
  PROVE  /\ pc'[p] = "compare"
         /\ op'[p].gen = op[p].gen /\ op'[p].sequence = op[p].sequence
         /\ op'[p].first = op[p].first
<1>1. op[p] \in Op /\ op \in [Owners -> Op] /\ pc \in [Owners -> Pcs]
  BY DEF TypeOK
<1>2. PICK fetched \in Summaries : op'[p] = [op[p] EXCEPT !.fetched = fetched]
  BY <1>1 DEF Fetch
<1> QED
  BY <1>1, <1>2 DEF Fetch, Goto, Op

LEMMA CompareFields ==
  ASSUME TypeOK, NEW p \in Owners, Compare(p)
  PROVE  /\ pc[p] = "compare" /\ pc'[p] = "commit"
         /\ op'[p].gen = op[p].gen /\ op'[p].sequence = op[p].sequence
         /\ op'[p].first = op[p].first /\ op'[p].fetched = op[p].fetched
         /\ \E silent \in Silences(p) :
              /\ op'[p].silent = Changed(p) \cap silent
              /\ op'[p].ids = {EventFor(c, stored[c], op[p].fetched[c]) :
                                 c \in Changed(p) \ silent}
<1>1. op[p] \in Op /\ op \in [Owners -> Op] /\ pc \in [Owners -> Pcs]
  BY DEF TypeOK
<1>2. PICK silent \in Silences(p) :
        op' = [op EXCEPT ![p].silent = Changed(p) \cap silent, ![p].since = FALSE,
                         ![p].ids = {EventFor(c, stored[c], op[p].fetched[c]) :
                                       c \in Changed(p) \ silent}]
  BY DEF Compare
<1> DEFINE quiet == Changed(p) \cap silent
           ids == {EventFor(c, stored[c], op[p].fetched[c]) : c \in Changed(p) \ silent}
<1>3. op' = [op EXCEPT ![p].silent = quiet, ![p].since = FALSE, ![p].ids = ids]
  BY <1>2
<1>4. pc[p] = "compare" /\ pc'[p] = "commit"
  BY <1>1 DEF Compare, Goto
<1> HIDE DEF quiet, ids
<1>5. op'[p] = [op[p] EXCEPT !.silent = quiet, !.since = FALSE, !.ids = ids]
  BY <1>1, <1>3
<1>6. /\ op'[p].gen = op[p].gen /\ op'[p].sequence = op[p].sequence
      /\ op'[p].first = op[p].first /\ op'[p].fetched = op[p].fetched
      /\ op'[p].silent = quiet /\ op'[p].ids = ids
  BY <1>1, <1>5 DEF Op
<1> QED
  BY <1>4, <1>6 DEF quiet, ids

LEMMA CommitFields ==
  ASSUME TypeOK, NEW p \in Owners, Commit(p)
  PROVE  /\ pc[p] = "commit" /\ pc'[p] = "read"
         /\ op'[p].gen = op[p].gen /\ op'[p].sequence = op[p].sequence
         /\ op'[p].first = FALSE
<1>1. op[p] \in Op /\ op \in [Owners -> Op] /\ pc \in [Owners -> Pcs]
  BY DEF TypeOK
<1>2. op'[p] = [op[p] EXCEPT !.fetched = Nothing, !.ids = {}, !.silent = {},
                             !.first = FALSE, !.at = 0]
  BY <1>1 DEF Commit
<1>3. pc[p] = "commit" /\ pc'[p] = "read"
  BY <1>1 DEF Commit, Goto
<1> QED
  BY <1>1, <1>2, <1>3 DEF Op

LEMMA ReadFields ==
  ASSUME TypeOK, NEW p \in Owners, Read(p)
  PROVE  /\ pc[p] = "read" /\ pc'[p] = "emit"
         /\ op'[p].gen = op[p].gen /\ op'[p].first = op[p].first
         /\ op'[p].batch \in EventsAfter(op[p].sequence, Limit)
         /\ op'[p].sequence = LastOf(op'[p].batch, op[p].sequence)
<1>1. op[p] \in Op /\ op \in [Owners -> Op] /\ pc \in [Owners -> Pcs]
  BY DEF TypeOK
<1>2. PICK batch \in EventsAfter(op[p].sequence, Limit) :
        op' = [op EXCEPT ![p].batch = batch, ![p].sequence = LastOf(batch, op[p].sequence)]
  BY DEF Read
<1> DEFINE last == LastOf(batch, op[p].sequence)
<1>3. op' = [op EXCEPT ![p].batch = batch, ![p].sequence = last]
  BY <1>2
<1>4. pc[p] = "read" /\ pc'[p] = "emit"
  BY <1>1 DEF Read, Goto
<1> HIDE DEF last
<1>5. op'[p] = [op[p] EXCEPT !.batch = batch, !.sequence = last]
  BY <1>1, <1>3
<1>6. /\ op'[p].gen = op[p].gen /\ op'[p].first = op[p].first
      /\ op'[p].batch = batch /\ op'[p].sequence = last
  BY <1>1, <1>5 DEF Op
<1> QED
  BY <1>4, <1>6 DEF last

LEMMA EmitFields ==
  ASSUME TypeOK, NEW p \in Owners, Emit(p)
  PROVE  /\ pc[p] = "emit"
         /\ \/ /\ pc'[p] = "ack" /\ owed' = owed \ op[p].batch
               /\ op'[p].gen = op[p].gen /\ op'[p].sequence = op[p].sequence
               /\ op'[p].first = op[p].first
            \/ /\ pc'[p] = "idle" /\ op'[p] = NoOp
               /\ \E last \in op[p].batch :
                    owed' = owed \ {s \in op[p].batch : s < last}
<1>1. op[p] \in Op /\ op \in [Owners -> Op] /\ pc \in [Owners -> Pcs]
  BY DEF TypeOK
<1>2. CASE owed' = owed \ op[p].batch /\ op' = [op EXCEPT ![p].batch = {}] /\ Goto(p, "ack")
  <2>1. op'[p] = [op[p] EXCEPT !.batch = {}]
    BY <1>1, <1>2
  <2> QED
    BY <1>1, <1>2, <2>1 DEF Emit, Goto, Op
<1>3. CASE /\ \E last \in op[p].batch : owed' = owed \ {s \in op[p].batch : s < last}
           /\ Exit(p)
  <2>1. pc'[p] = "idle" /\ op'[p] = NoOp
    BY <1>1, <1>3 DEF Exit, Goto
  <2> QED
    BY <1>3, <2>1 DEF Emit
<1> QED
  BY <1>2, <1>3 DEF Emit

LEMMA ExitFields ==
  ASSUME TypeOK, NEW p \in Owners, Exit(p)
  PROVE  /\ pc'[p] = "idle" /\ op'[p] = NoOp
BY DEF TypeOK, Exit, Goto

(* What a step of a process does to its generation and to where it is.     *)
LEMMA ProcessFields ==
  ASSUME TypeOK, NEW p \in Owners, Process(p)
  PROVE  /\ generation' = generation /\ signedIn' = signedIn
         /\ op'[p].gen \in {0, generation, op[p].gen}
         /\ pc'[p] \in {"compare", "commit"} =>
              /\ op'[p].gen = op[p].gen
              /\ Fetch(p) \/ (Compare(p) /\ pc[p] = "compare")
<1>1. generation' = generation /\ signedIn' = signedIn
  BY DEF Process, Poll, Identity, Position, Acquire, Fetch, Compare, Commit, Read, Fail,
         Emit, Ack, Stop, rows
<1>2. CASE Exit(p)
  BY <1>1, <1>2, ExitFields DEF NoOp
<1>3. CASE Position(p)
  BY <1>1, <1>3, PositionStarts, StartFields
<1>4. CASE Identity(p)
  BY <1>1, <1>4, IdentityFields
<1>5. CASE Acquire(p)
  BY <1>1, <1>5, AcquireFields
<1>6. CASE Fetch(p)
  BY <1>1, <1>6, FetchFields
<1>7. CASE Compare(p)
  BY <1>1, <1>7, CompareFields
<1>8. CASE Commit(p)
  BY <1>1, <1>8, CommitFields
<1>9. CASE Read(p)
  BY <1>1, <1>9, ReadFields
<1>10. CASE Emit(p)
  BY <1>1, <1>10, EmitFields DEF NoOp
<1> QED
  BY <1>2, <1>3, <1>4, <1>5, <1>6, <1>7, <1>8, <1>9, <1>10
  DEF Process, Poll, Ack, Fail, Stop

LEMMA StepGenerations == Typed /\ GenerationsArePast /\ [Next]_vars => GenerationsArePast'
<1> SUFFICES ASSUME Typed, GenerationsArePast, [Next]_vars PROVE GenerationsArePast'
  OBVIOUS
<1>1. TypeOK /\ generation \in Nat /\ \A p \in Owners : op[p].gen \in Nat
  BY DEF Typed, TypeOK, SpoolTypeOK, Op
<1>2. ASSUME NEW p \in Owners, Process(p) PROVE GenerationsArePast'
  BY <1>1, <1>2, ProcessFields, StepIsMine DEF GenerationsArePast
<1>3. CASE SignOut
  BY <1>1, <1>3 DEF SignOut, DeleteAccountData, GenerationsArePast
<1>4. CASE UNCHANGED <<op, generation>>
  BY <1>4 DEF GenerationsArePast
<1> QED
  BY <1>2, <1>3, <1>4 DEF Next, StoreRead, SignIn, Tick, rows, vars

LEMMA InitLeaving == Init => Leaving
BY DEF Init, SpoolInit, NoOp, Leaving, GenerationsArePast, ScansAreSignedIn, SignedOutIsEmpty

(* An advance keeps the generation and moves the head forward. *)
LEMMA AdvanceMovesOn ==
  ASSUME TypeOK, NEW p \in Owners, Ack(p)
  PROVE  \/ head' = head
         \/ /\ head # NoHead /\ head' # NoHead
            /\ head'.gen = head.gen /\ op[p].gen = head.gen
            /\ head'.ack = op[p].sequence /\ head'.ack > head.ack
<1>1. CASE UNCHANGED head
  BY <1>1
<1>2. CASE CanAdvance(op[p].gen, op[p].sequence) /\ Advance(op[p].sequence)
  <2>1. head \in Head /\ head # NoHead /\ op[p].sequence \in 0..MaxSeq
    BY <1>2 DEF CanAdvance, TypeOK, SpoolTypeOK, Op
  <2>2. head' = [head EXCEPT !.ack = IF op[p].sequence <= head.ack THEN head.ack
                                     ELSE op[p].sequence]
    BY <1>2 DEF Advance
  <2>3. head' # NoHead
    BY <2>1, <2>2, SpoolAssumption DEF Head
  <2> QED
    BY <1>2, <2>1, <2>2, <2>3, SpoolAssumption DEF CanAdvance, Head
<1> QED
  BY <1>1, <1>2 DEF Ack

LEMMA StepLeaving == Typed /\ Leaving /\ [Next]_vars => Leaving'
<1> SUFFICES ASSUME Typed, Leaving, [Next]_vars PROVE ScansAreSignedIn' /\ SignedOutIsEmpty'
  BY StepGenerations DEF Leaving
<1>1. /\ TypeOK /\ SpoolTypeOK /\ GenerationsArePast /\ ScansAreSignedIn /\ SignedOutIsEmpty
      /\ generation \in Nat /\ \A p \in Owners : op[p].gen \in Nat
  BY DEF Typed, TypeOK, SpoolTypeOK, Op, Leaving
<1>2. ASSUME NEW p \in Owners, Process(p) PROVE ScansAreSignedIn'
  <2>1. ASSUME pc'[p] \in {"compare", "commit"}, op'[p].gen = generation' PROVE signedIn'
    BY <1>1, <1>2, <2>1, ProcessFields DEF Fetch, ScansAreSignedIn
  <2>2. ASSUME NEW q \in Owners, q # p, pc'[q] \in {"compare", "commit"},
               op'[q].gen = generation'
        PROVE  signedIn'
    BY <1>1, <1>2, <2>2, ProcessFields, StepIsMine DEF ScansAreSignedIn
  <2> QED
    BY <2>1, <2>2 DEF ScansAreSignedIn
<1>3. ASSUME NEW p \in Owners, Commit(p) PROVE SignedOutIsEmpty'
  <2>1. generation = op[p].gen /\ (head # NoHead => head.gen = generation)
    BY <1>3 DEF Commit, Committable
  <2>2. signedIn
    BY <1>1, <1>3, <2>1 DEF Commit, ScansAreSignedIn
  <2>3. head' = IF head = NoHead THEN [gen |-> op[p].gen, ack |-> op[p].sequence] ELSE head
    BY <1>3 DEF Commit, CommitBatch
  <2>4. op[p].sequence \in Nat
    BY <1>1, SpoolAssumption DEF TypeOK, Op
  <2>5. head' # NoHead /\ head'.gen = generation
    BY <1>1, <2>1, <2>3, <2>4, SpoolAssumption
  <2> QED
    BY <1>3, <2>2, <2>5 DEF Commit, SignedOutIsEmpty
<1>4. ASSUME NEW p \in Owners, Ack(p) PROVE SignedOutIsEmpty'
  BY <1>1, <1>4, AdvanceMovesOn DEF Ack, SignedOutIsEmpty
<1>5. CASE SignOut
  BY <1>1, <1>5
  DEF SignOut, DeleteAccountData, ScansAreSignedIn, SignedOutIsEmpty, GenerationsArePast
<1>6. CASE SignIn
  BY <1>1, <1>6 DEF SignIn, rows, ScansAreSignedIn, SignedOutIsEmpty
<1>7. ASSUME UNCHANGED <<head, spool, generation, signedIn>> PROVE SignedOutIsEmpty'
  BY <1>1, <1>7 DEF SignedOutIsEmpty
<1>8. ASSUME UNCHANGED <<pc, op, generation, signedIn>> PROVE ScansAreSignedIn'
  BY <1>1, <1>8 DEF ScansAreSignedIn
<1>9. ASSUME NEW p \in Owners, Process(p) PROVE SignedOutIsEmpty'
  BY <1>3, <1>4, <1>7, <1>9
  DEF Process, Poll, Identity, Position, Acquire, Fetch, Compare, Read, Fail, Emit, Stop, rows
<1> QED
  BY <1>2, <1>5, <1>6, <1>7, <1>8, <1>9 DEF Next, StoreRead, Tick, rows, vars

(* No poll, commit or acknowledgement that is under way when the account   *)
(* signs out brings back a head or an event.                               *)
THEOREM SignOutIsFinal == Spec => []SignedOutIsEmpty
<1>1. Leaving => SignedOutIsEmpty
  BY DEF Leaving
<1> QED
  BY InitTyped, StepTyped, InitLeaving, StepLeaving, <1>1, PTL DEF Spec

-----------------------------------------------------------------------------
LEMMA HeadStep ==
  ASSUME Typed, [Next]_vars, head # NoHead, head' # NoHead
  PROVE  head'.gen = head.gen /\ head'.ack >= head.ack
<1>1. TypeOK /\ head.ack \in Nat
  BY SpoolAssumption DEF Typed, TypeOK, SpoolTypeOK, Head
<1>2. ASSUME NEW p \in Owners, Ack(p) PROVE head'.gen = head.gen /\ head'.ack >= head.ack
  <2>1. op[p].sequence \in Nat
    BY <1>1, SpoolAssumption DEF TypeOK, Op
  <2> QED
    BY <1>1, <1>2, <2>1, AdvanceMovesOn
<1>3. ASSUME NEW p \in Owners, Commit(p) PROVE head' = head
  BY <1>3 DEF Commit, CommitBatch
<1>4. ASSUME NEW p \in Owners, Process(p), ~ Ack(p) PROVE head' = head
  BY <1>3, <1>4
  DEF Process, Poll, Identity, Position, Acquire, Fetch, Compare, Read, Fail, Emit, Stop, rows
<1>5. ~ SignOut
  BY DEF SignOut, DeleteAccountData
<1> QED
  BY <1>1, <1>2, <1>4, <1>5 DEF Next, StoreRead, SignIn, Tick, rows, vars

(* Whatever the order in which processes acknowledge their output, the     *)
(* head of a generation never moves back.                                  *)
THEOREM HeadAdvances == Spec => HeadOnlyAdvances
<1>1. Typed /\ [Next]_vars =>
        [(head # NoHead /\ head' # NoHead) =>
           head'.gen = head.gen /\ head'.ack >= head.ack]_vars
  BY HeadStep
<1> QED
  BY InitTyped, StepTyped, <1>1, PTL DEF Spec, HeadOnlyAdvances

-----------------------------------------------------------------------------
LEMMA InitComparing == Init => Comparing
BY DEF Init, SpoolInit, NoOp, Nothing, Comparing, GenerationsArePast, ScansAreKnown,
       ComparedIsKnown

(* A comparison finds each fetched summary unchanged, silent or announced. *)
LEMMA ComparisonIsComplete ==
  ASSUME TypeOK, NEW p \in Owners, Compare(p), ComparedIsKnown,
         NEW c \in Convs, op'[p].fetched[c] # NoPrint
  PROVE  <<c, op'[p].fetched[c]>> \in known \cup Announces(p)'
<1>1. stored \in Summaries /\ op[p].fetched \in Summaries
  BY DEF TypeOK, SpoolTypeOK, Op
<1>2. op'[p].fetched = op[p].fetched
  BY CompareFields
<1>3. PICK silent \in Silences(p) :
        /\ op'[p].silent = Changed(p) \cap silent
        /\ op'[p].ids = {EventFor(d, stored[d], op[p].fetched[d]) : d \in Changed(p) \ silent}
  BY CompareFields
<1>4. CASE c \notin Changed(p)
  <2>1. op[p].fetched[c] = stored[c]
    BY <1>2, <1>4 DEF Changed
  <2> QED
    BY <1>2, <2>1 DEF ComparedIsKnown
<1>5. CASE c \in Changed(p) \cap silent
  BY <1>2, <1>3, <1>5 DEF Announces
<1>6. CASE c \in Changed(p) \ silent
  <2> DEFINE i == EventFor(c, stored[c], op[p].fetched[c])
  <2>1. i \in op'[p].ids
    BY <1>3, <1>6
  <2>2. stored[c] \in MaybePrint /\ op[p].fetched[c] \in Prints
    BY <1>1, <1>2 DEF Summaries, MaybePrint
  <2>3. i.conv = c /\ i.print = op'[p].fetched[c]
    BY <1>2, <2>2, EventForType
  <2> HIDE DEF i
  <2>4. <<i.conv, i.print>> \in Announces(p)'
    BY <2>1 DEF Announces
  <2> QED
    BY <2>3, <2>4
<1> QED
  BY <1>4, <1>5, <1>6

LEMMA StepComparing == Typed /\ Comparing /\ [Next]_vars => Comparing'
<1> SUFFICES ASSUME Typed, Comparing, [Next]_vars PROVE ScansAreKnown' /\ ComparedIsKnown'
  BY StepGenerations DEF Comparing
<1>1. /\ TypeOK /\ GenerationsArePast /\ ScansAreKnown /\ ComparedIsKnown
      /\ generation \in Nat /\ \A p \in Owners : op[p].gen \in Nat
  BY DEF Typed, TypeOK, SpoolTypeOK, Op, Comparing
<1>2. ASSUME NEW p \in Owners, Process(p) PROVE ScansAreKnown'
  <2>1. known \subseteq known' /\ generation' = generation
    BY <1>2
    DEF Process, Poll, Identity, Position, Acquire, Fetch, Compare, Commit, Read, Fail,
        Emit, Ack, Stop, rows, history
  <2> SUFFICES ASSUME NEW q \in Owners, pc'[q] = "commit", op'[q].gen = generation',
                      NEW c \in Convs, op'[q].fetched[c] # NoPrint
               PROVE  <<c, op'[q].fetched[c]>> \in known' \cup Announces(q)'
    BY DEF ScansAreKnown
  <2>2. CASE q = p
    <3>1. Compare(p)
      BY <1>1, <1>2, <2>2, ProcessFields, FetchFields
    <3> QED
      BY <1>1, <2>1, <2>2, <3>1, ComparisonIsComplete
  <2>3. CASE q # p
    <3>1. pc'[q] = pc[q] /\ op'[q] = op[q]
      BY <1>1, <1>2, <2>3, StepIsMine
    <3>2. Announces(q)' = Announces(q)
      BY <3>1 DEF Announces
    <3> QED
      BY <1>1, <2>1, <3>1, <3>2 DEF ScansAreKnown
  <2> QED
    BY <2>2, <2>3
<1>3. ASSUME NEW p \in Owners, Commit(p) PROVE ComparedIsKnown'
  <2>1. pc[p] = "commit" /\ op[p].gen = generation
    BY <1>1, <1>3, CommitFields DEF Commit, Committable
  <2>2. stored' = [c \in Convs |-> IF op[p].fetched[c] = NoPrint THEN stored[c]
                                   ELSE op[p].fetched[c]]
    BY <1>3 DEF Commit, CommitBatch
  <2>3. known' = known \cup Announces(p)
    BY <1>3 DEF Commit
  <2> SUFFICES ASSUME NEW c \in Convs, stored'[c] # NoPrint PROVE <<c, stored'[c]>> \in known'
    BY DEF ComparedIsKnown
  <2>4. CASE op[p].fetched[c] = NoPrint
    BY <1>1, <2>2, <2>3, <2>4 DEF ComparedIsKnown
  <2>5. CASE op[p].fetched[c] # NoPrint
    BY <1>1, <2>1, <2>2, <2>3, <2>5 DEF ScansAreKnown
  <2> QED
    BY <2>4, <2>5
<1>4. ASSUME NEW p \in Owners, Process(p) PROVE ComparedIsKnown'
  <2>1. Commit(p) \/ UNCHANGED <<stored, known>>
    BY <1>4
    DEF Process, Poll, Identity, Position, Acquire, Fetch, Compare, Read, Fail, Emit, Ack,
        Stop, rows, history
  <2> QED
    BY <1>1, <1>3, <2>1 DEF ComparedIsKnown
<1>5. CASE StoreRead
  <2>1. PICK d \in Convs, print \in Prints :
          StoreSummary(d, print) /\ known' = known \cup {<<d, print>>}
    BY <1>5 DEF StoreRead
  <2>2. ComparedIsKnown'
    BY <1>1, <2>1 DEF StoreSummary, ComparedIsKnown, TypeOK, SpoolTypeOK, Summaries
  <2>3. \A p \in Owners : Announces(p)' = Announces(p)
    BY <1>5 DEF StoreRead, Announces
  <2>4. ScansAreKnown'
    BY <1>1, <1>5, <2>1, <2>3 DEF StoreRead, ScansAreKnown
  <2> QED
    BY <2>2, <2>4
<1>6. CASE SignOut
  <2>1. generation' = generation + 1 /\ stored' = Nothing /\ op' = op
    BY <1>6 DEF SignOut, DeleteAccountData
  <2>2. \A p \in Owners : op'[p].gen # generation'
    BY <1>1, <2>1 DEF GenerationsArePast
  <2> QED
    BY <2>1, <2>2 DEF Nothing, ComparedIsKnown, ScansAreKnown
<1>7. CASE UNCHANGED <<pc, op, generation, stored, known>>
  BY <1>1, <1>7 DEF ScansAreKnown, ComparedIsKnown, Announces
<1> QED
  BY <1>2, <1>4, <1>5, <1>6, <1>7 DEF Next, SignIn, Tick, rows, history, vars

(* Whatever is under way when a poll stops, fails or loses its generation, *)
(* the next poll compares with summaries that were announced or stored on  *)
(* purpose, and so misses no change.                                       *)
THEOREM ChangesAreAnnounced == Spec => []ComparedIsKnown
<1>1. Comparing => ComparedIsKnown
  BY DEF Comparing
<1> QED
  BY InitTyped, StepTyped, InitComparing, StepComparing, <1>1, PTL DEF Spec

-----------------------------------------------------------------------------
LEMMA Numbers ==
  ASSUME TypeOK
  PROVE  /\ lastSeq \in Nat /\ (head # NoHead => head.ack \in Nat)
         /\ \A e \in spool : e.seq \in Nat /\ 1 <= e.seq
         /\ \A p \in Owners : op[p].sequence \in Nat /\ op[p].batch \subseteq 1..MaxSeq
BY SpoolAssumption DEF TypeOK, SpoolTypeOK, Head, Event, Op

(* What is new in the spool has a new sequence, and nobody printed it.     *)
LEMMA SpoolStep ==
  ASSUME Typed, [Next]_vars
  PROVE  /\ lastSeq' \in Nat /\ lastSeq <= lastSeq'
         /\ \A e \in spool' : e \in spool \/ (e.seq \in owed' /\ lastSeq < e.seq)
         /\ \A e \in spool' : e.seq \in Nat /\ (e \in spool \/ e.seq <= lastSeq')
         /\ \A s \in owed' : s \in owed \/ lastSeq < s
<1>1. TypeOK /\ lastSeq \in Nat /\ \A e \in spool : e.seq \in Nat
  BY Numbers DEF Typed
<1>2. ASSUME NEW p \in Owners, Commit(p)
      PROVE  /\ lastSeq' \in Nat /\ lastSeq <= lastSeq'
             /\ owed' = owed \cup ((lastSeq + 1)..lastSeq')
             /\ \A e \in spool' : e \in spool \/ e.seq \in (lastSeq + 1)..lastSeq'
  <2>1. owed' = owed \cup ((lastSeq + 1)..lastSeq')
    BY <1>2 DEF Commit
  <2>2. /\ lastSeq' \in 0..MaxSeq /\ lastSeq <= lastSeq'
        /\ \A e \in spool' : e \in spool \/ e.seq \in (lastSeq + 1)..lastSeq'
    BY <1>1, <1>2, BatchType
  <2> QED
    BY <2>1, <2>2, SpoolAssumption
<1>3. CASE \E p \in Owners : Commit(p)
  BY <1>1, <1>2, <1>3
<1>4. CASE UNCHANGED <<spool, lastSeq>> /\ owed' \subseteq owed
  BY <1>1, <1>4
<1>5. CASE SignOut
  BY <1>1, <1>5 DEF SignOut, DeleteAccountData
<1>6. ASSUME NEW p \in Owners, Process(p), ~ Commit(p)
      PROVE  UNCHANGED <<spool, lastSeq>> /\ owed' \subseteq owed
  BY <1>6
  DEF Process, Poll, Identity, Position, Acquire, Fetch, Compare, Read, Fail, Emit, Ack,
      Stop, rows, history
<1> QED
  BY <1>3, <1>4, <1>5, <1>6 DEF Next, StoreRead, SignIn, Tick, rows, history, vars

LEMMA PrintedStays ==
  ASSUME Typed, [Next]_vars, NEW s \in Nat, s <= lastSeq, PrintedUpTo(s)
  PROVE  PrintedUpTo(s)'
<1>1. lastSeq \in Nat
  BY Numbers DEF Typed
<1> SUFFICES ASSUME NEW e \in spool', e.seq <= s PROVE e.seq \notin owed'
  BY DEF PrintedUpTo
<1>2. e.seq \in Nat /\ ~ (lastSeq < e.seq)
  BY <1>1, SpoolStep
<1> QED
  BY <1>2, SpoolStep DEF PrintedUpTo

LEMMA InitPrinting == Init => Printing
BY DEF Init, SpoolInit, NoOp, Printing, SequencesArePast, PrintedInOrder, PrintedUpTo,
       FirstStartsAtZero, StartsArePrinted, BatchesAreWhole, AcknowledgedWasPrinted

(* Where a poll starts, all is printed below. *)
LEMMA StartIsPrinted ==
  ASSUME TypeOK, Printing, NEW p \in Owners, Position(p)
  PROVE  /\ pc'[p] = "lease"
         /\ op'[p].sequence \in Nat /\ op'[p].sequence <= lastSeq
         /\ PrintedUpTo(op'[p].sequence)
         /\ op'[p].first => op'[p].sequence = 0
<1>1. PICK s \in 0..MaxSeq, b \in BOOLEAN :
        /\ Starts(p, s, b)
        /\ b /\ head = NoHead => s = 0
        /\ \/ s = 0
           \/ head # NoHead /\ s = head.ack
           \/ s \notin owed /\ \E e \in spool : e.seq = s
  BY PositionStarts
<1>2. /\ pc'[p] = "lease" /\ op'[p].sequence = s
      /\ op'[p].first => b /\ head = NoHead
  BY <1>1, StartFields
<1>3. s \in Nat
  BY SpoolAssumption
<1>4. CASE s = 0
  BY <1>1, <1>2, <1>4, Numbers DEF PrintedUpTo
<1>5. CASE head # NoHead /\ s = head.ack
  BY <1>1, <1>2, <1>3, <1>5
  DEF Printing, SequencesArePast, AcknowledgedWasPrinted, PrintedUpTo
<1>6. CASE s \notin owed /\ \E e \in spool : e.seq = s
  BY <1>1, <1>2, <1>3, <1>6 DEF Printing, SequencesArePast, PrintedInOrder
<1> QED
  BY <1>1, <1>4, <1>5, <1>6

(* A batch leaves out nothing between its start and its last event.        *)
LEMMA BatchIsWhole ==
  ASSUME TypeOK, Printing, NEW p \in Owners, Read(p)
  PROVE  /\ op'[p].sequence \in Nat /\ op'[p].sequence <= lastSeq
         /\ \A s \in op'[p].batch : s <= op'[p].sequence
         /\ \A e \in spool :
              e.seq <= op'[p].sequence /\ e.seq \in owed => e.seq \in op'[p].batch
<1> DEFINE start == op[p].sequence
           later == {e \in spool : e.seq > start}
           before(e) == {x \in later : x.seq < e.seq}
           batch == {e.seq : e \in {d \in later : Cardinality(before(d)) < Limit}}
           last == LastOf(batch, start)
<1>1. op'[p].batch = batch /\ op'[p].sequence = last /\ pc[p] = "read"
  BY ReadFields DEF EventsAfter
<1>2. /\ start \in Nat /\ start <= lastSeq /\ lastSeq \in Nat
      /\ \A e \in spool : e.seq \in Nat /\ e.seq <= lastSeq
  BY Numbers DEF Printing, SequencesArePast
<1>3. batch \in SUBSET (1..MaxSeq)
  BY DEF TypeOK, SpoolTypeOK, Event
<1>4. \A s \in batch : \E d \in later : d.seq = s /\ Cardinality(before(d)) < Limit
  OBVIOUS
<1>5. IsFiniteSet(spool)
  BY SpoolIsFinite
<1>6. \A d \in spool, e \in spool : e.seq <= d.seq =>
        /\ Cardinality(before(e)) <= Cardinality(before(d))
        /\ Cardinality(before(e)) \in Nat /\ Cardinality(before(d)) \in Nat
  <2> SUFFICES ASSUME NEW d \in spool, NEW e \in spool, e.seq <= d.seq
               PROVE  /\ Cardinality(before(e)) <= Cardinality(before(d))
                      /\ Cardinality(before(e)) \in Nat /\ Cardinality(before(d)) \in Nat
    OBVIOUS
  <2>1. before(e) \subseteq before(d)
    BY <1>2
  <2>2. IsFiniteSet(before(d))
    BY <1>5, FS_Subset
  <2>3. IsFiniteSet(before(e))
    BY <1>5, FS_Subset
  <2> HIDE DEF before
  <2> QED
    BY <2>1, <2>2, <2>3, FS_Subset, FS_CardinalityType
<1>7. \A e \in later : (\E d \in later : e.seq <= d.seq /\ Cardinality(before(d)) < Limit)
                        => e.seq \in batch
  <2> SUFFICES ASSUME NEW e \in later, NEW d \in later, e.seq <= d.seq,
                      Cardinality(before(d)) < Limit
               PROVE  Cardinality(before(e)) < Limit
    OBVIOUS
  <2>1. /\ Cardinality(before(e)) <= Cardinality(before(d))
        /\ Cardinality(before(e)) \in Nat /\ Cardinality(before(d)) \in Nat
    BY <1>6
  <2> HIDE DEF before
  <2> QED
    BY <2>1, SyncAssumption
<1>8. \A e \in spool : e.seq <= start => e.seq \notin owed
  BY <1>1 DEF Printing, StartsArePrinted, PrintedUpTo
<1> HIDE DEF batch, before
<1>9. /\ batch = {} => last = start
      /\ batch # {} => last \in batch /\ \A s \in batch : s <= last
  BY <1>3, LastOfBatch
<1>10. CASE batch = {}
  BY <1>1, <1>2, <1>8, <1>9, <1>10
<1>11. CASE batch # {}
  <2>1. PICK d \in later : d.seq = last /\ Cardinality(before(d)) < Limit
    BY <1>4, <1>9, <1>11
  <2>2. last \in Nat /\ last <= lastSeq
    BY <1>2, <2>1
  <2>3. ASSUME NEW e \in spool, e.seq <= last, e.seq \in owed PROVE e.seq \in batch
    <3>1. e \in later
      BY <1>2, <1>8, <2>3
    <3> QED
      BY <1>7, <2>1, <2>3, <3>1
  <2> QED
    BY <1>1, <1>9, <1>11, <2>2, <2>3
<1> QED
  BY <1>10, <1>11

(* An output, whole or broken, prints in order, and the process goes on    *)
(* only from a start below which all is printed.                           *)
LEMMA OutputIsInOrder ==
  ASSUME TypeOK, Printing, NEW p \in Owners, Emit(p)
  PROVE  /\ PrintedInOrder'
         /\ op'[p].sequence \in Nat /\ op'[p].sequence <= lastSeq
         /\ PrintedUpTo(op[p].sequence)'
         /\ op'[p].first => op'[p].sequence = 0
<1>1. /\ \A s \in op[p].batch : s \in Nat /\ s <= op[p].sequence
      /\ \A e \in spool :
           e.seq <= op[p].sequence /\ e.seq \in owed => e.seq \in op[p].batch
      /\ op[p].sequence \in Nat /\ op[p].sequence <= lastSeq /\ lastSeq \in Nat
      /\ op[p].first => op[p].sequence = 0
  BY EmitFields, Numbers DEF Printing, BatchesAreWhole, SequencesArePast, FirstStartsAtZero
<1>2. /\ \A e \in spool : e.seq \in Nat /\ 1 <= e.seq
      /\ spool' = spool
      /\ \A e, d \in spool : e.seq \notin owed /\ d.seq <= e.seq => d.seq \notin owed
  BY Numbers DEF Emit, rows, Printing, PrintedInOrder, PrintedUpTo
<1>3. CASE /\ owed' = owed \ op[p].batch
           /\ op'[p].sequence = op[p].sequence /\ op'[p].first = op[p].first
  <2>1. PrintedUpTo(op[p].sequence)'
    BY <1>1, <1>2, <1>3 DEF PrintedUpTo
  <2>2. ASSUME NEW e \in spool, NEW d \in spool, e.seq \notin owed', d.seq <= e.seq
        PROVE  d.seq \notin owed'
    <3>1. CASE e.seq \notin owed
      BY <1>2, <1>3, <2>2, <3>1
    <3>2. CASE e.seq \in op[p].batch
      BY <1>1, <1>2, <1>3, <2>2, <3>2
    <3> QED
      BY <1>3, <2>2, <3>1, <3>2
  <2> QED
    BY <1>1, <1>2, <1>3, <2>1, <2>2 DEF PrintedInOrder, PrintedUpTo
<1>4. CASE /\ op'[p] = NoOp
           /\ \E last \in op[p].batch : owed' = owed \ {s \in op[p].batch : s < last}
  <2>1. op'[p].sequence = 0 /\ op'[p].first = FALSE
    BY <1>4 DEF NoOp
  <2>2. PICK last \in op[p].batch : owed' = owed \ {s \in op[p].batch : s < last}
    BY <1>4
  <2>3. ASSUME NEW e \in spool, NEW d \in spool, e.seq \notin owed', d.seq <= e.seq
        PROVE  d.seq \notin owed'
    <3>1. CASE e.seq \notin owed
      BY <1>2, <2>2, <2>3, <3>1
    <3>2. CASE e.seq \in op[p].batch /\ e.seq < last
      BY <1>1, <1>2, <2>2, <2>3, <3>2
    <3> QED
      BY <2>2, <2>3, <3>1, <3>2
  <2>4. PrintedUpTo(op[p].sequence)'
    BY <1>2, <2>1 DEF PrintedUpTo
  <2> QED
    BY <1>1, <1>2, <2>1, <2>3, <2>4 DEF PrintedInOrder, PrintedUpTo
<1> QED
  BY <1>3, <1>4, EmitFields

(* What a step leaves to its process.                                      *)
LEMMA MyPrinting ==
  ASSUME Typed, Printing, [Next]_vars, NEW p \in Owners, Process(p)
  PROVE  /\ op'[p].sequence <= lastSeq'
         /\ op'[p].first => op'[p].sequence = 0 /\ pc'[p] # "read"
         /\ pc'[p] # "emit" => PrintedUpTo(op[p].sequence)'
         /\ pc'[p] = "emit" =>
              /\ \A s \in op'[p].batch : s <= op'[p].sequence
              /\ \A e \in spool' :
                   e.seq <= op'[p].sequence /\ e.seq \in owed' => e.seq \in op'[p].batch
<1>1. /\ TypeOK /\ lastSeq \in Nat /\ lastSeq' \in Nat /\ lastSeq <= lastSeq'
      /\ op[p].sequence \in Nat /\ op[p].sequence <= lastSeq
      /\ op[p].first => op[p].sequence = 0 /\ pc[p] # "read"
      /\ pc[p] # "emit" => PrintedUpTo(op[p].sequence)
  BY Numbers, SpoolStep DEF Typed, Printing, SequencesArePast, FirstStartsAtZero, StartsArePrinted
<1>2. CASE Exit(p)
  <2>1. pc'[p] = "idle" /\ op'[p].sequence = 0 /\ op'[p].first = FALSE
    BY <1>1, <1>2, ExitFields DEF NoOp
  <2>2. PrintedUpTo(0)
    BY <1>1, Numbers DEF PrintedUpTo
  <2>3. PrintedUpTo(0)'
    BY <1>1, <2>2, PrintedStays
  <2> QED
    BY <1>1, <2>1, <2>3 DEF PrintedUpTo
<1>3. CASE /\ pc[p] # "emit" /\ pc'[p] # "emit" /\ op'[p].sequence = op[p].sequence
           /\ (op'[p].first => op[p].first /\ pc'[p] # "read")
  <2>1. PrintedUpTo(op[p].sequence)
    BY <1>1, <1>3
  <2>2. ASSUME NEW s \in Nat, s = op[p].sequence PROVE PrintedUpTo(s)'
    BY <1>1, <2>1, <2>2, PrintedStays
  <2>3. PrintedUpTo(op[p].sequence)'
    BY <1>1, <1>3, <2>2 DEF PrintedUpTo
  <2>4. op'[p].sequence <= lastSeq'
    BY <1>1, <1>3
  <2> QED
    BY <1>1, <1>3, <2>3, <2>4
<1>4. CASE Position(p)
  <2>1. /\ pc'[p] = "lease"
        /\ op'[p].sequence \in Nat /\ op'[p].sequence <= lastSeq
        /\ PrintedUpTo(op'[p].sequence)
        /\ op'[p].first => op'[p].sequence = 0
    BY <1>1, <1>4, StartIsPrinted
  <2>2. PrintedUpTo(op[p].sequence)'
    BY <1>4, <2>1 DEF Position, rows, history, PrintedUpTo
  <2> QED
    BY <1>1, <2>1, <2>2
<1>5. CASE Read(p)
  <2>1. spool' = spool /\ owed' = owed /\ pc'[p] = "emit" /\ ~ op'[p].first
    BY <1>1, <1>5, ReadFields DEF Read, history
  <2>2. /\ op'[p].sequence \in Nat /\ op'[p].sequence <= lastSeq
        /\ \A s \in op'[p].batch : s <= op'[p].sequence
        /\ \A e \in spool :
             e.seq <= op'[p].sequence /\ e.seq \in owed => e.seq \in op'[p].batch
    BY <1>1, <1>5, BatchIsWhole
  <2> QED
    BY <1>1, <2>1, <2>2
<1>6. CASE Emit(p)
  <2>1. pc'[p] \in {"ack", "idle"}
    BY <1>1, <1>6, EmitFields
  <2> QED
    BY <1>1, <1>6, <2>1, OutputIsInOrder
<1>7. CASE Identity(p) \/ Acquire(p) \/ Fetch(p) \/ Compare(p) \/ Commit(p)
  <2>1. pc[p] # "emit"
    BY <1>7 DEF Identity, Acquire, Fetch, Compare, Commit
  <2> QED
    BY <1>1, <1>3, <1>7, <2>1, IdentityFields, AcquireFields, FetchFields, CompareFields,
       CommitFields
<1> QED
  BY <1>2, <1>4, <1>5, <1>6, <1>7 DEF Process, Poll, Fail, Ack, Stop

(* What a step leaves to the processes that do not take it.                *)
LEMMA OthersPrinting ==
  ASSUME Typed, Printing, [Next]_vars, NEW q \in Owners, pc'[q] = pc[q], op'[q] = op[q]
  PROVE  /\ op'[q].sequence <= lastSeq'
         /\ op'[q].first => op'[q].sequence = 0 /\ pc'[q] # "read"
         /\ pc'[q] # "emit" => PrintedUpTo(op[q].sequence)'
         /\ pc'[q] = "emit" =>
              /\ \A s \in op'[q].batch : s <= op'[q].sequence
              /\ \A e \in spool' :
                   e.seq <= op'[q].sequence /\ e.seq \in owed' => e.seq \in op'[q].batch
<1>1. /\ TypeOK /\ lastSeq \in Nat /\ lastSeq' \in Nat /\ lastSeq <= lastSeq'
      /\ op[q].sequence \in Nat /\ op[q].sequence <= lastSeq
      /\ op[q].first => op[q].sequence = 0 /\ pc[q] # "read"
      /\ pc[q] # "emit" => PrintedUpTo(op[q].sequence)
  BY Numbers, SpoolStep DEF Typed, Printing, SequencesArePast, FirstStartsAtZero, StartsArePrinted
<1>2. ASSUME pc[q] # "emit" PROVE PrintedUpTo(op[q].sequence)'
  <2>1. ASSUME NEW s \in Nat, s = op[q].sequence PROVE PrintedUpTo(s)'
    BY <1>1, <1>2, <2>1, PrintedStays
  <2> QED
    BY <1>1, <2>1 DEF PrintedUpTo
<1>3. ASSUME pc[q] = "emit"
      PROVE  /\ \A s \in op[q].batch : s <= op[q].sequence
             /\ \A e \in spool' :
                  e.seq <= op[q].sequence /\ e.seq \in owed' => e.seq \in op[q].batch
  <2>1. /\ \A s \in op[q].batch : s <= op[q].sequence
        /\ \A e \in spool :
             e.seq <= op[q].sequence /\ e.seq \in owed => e.seq \in op[q].batch
    BY <1>3 DEF Printing, BatchesAreWhole
  <2>2. ASSUME NEW e \in spool', e.seq <= op[q].sequence, e.seq \in owed'
        PROVE  e \in spool /\ e.seq \in owed
    <3>1. e.seq \in Nat /\ ~ (lastSeq < e.seq)
      BY <1>1, <2>2, SpoolStep
    <3> QED
      BY <2>2, <3>1, SpoolStep
  <2> QED
    BY <2>1, <2>2
<1> QED
  BY <1>1, <1>2, <1>3

LEMMA StepSequences == Typed /\ Printing /\ [Next]_vars => SequencesArePast'
<1> SUFFICES ASSUME Typed, Printing, [Next]_vars PROVE SequencesArePast'
  OBVIOUS
<1>1. /\ TypeOK /\ lastSeq \in Nat /\ lastSeq' \in Nat /\ lastSeq <= lastSeq'
      /\ \A e \in spool : e.seq \in Nat /\ e.seq <= lastSeq
      /\ head # NoHead => head.ack \in Nat /\ head.ack <= lastSeq
      /\ \A p \in Owners : op[p].sequence \in Nat /\ op[p].sequence <= lastSeq
  BY Numbers, SpoolStep DEF Typed, Printing, SequencesArePast
<1>2. \A e \in spool' : e.seq <= lastSeq'
  BY <1>1, SpoolStep
<1>3. ASSUME NEW p \in Owners PROVE op'[p].sequence <= lastSeq'
  <2>1. CASE Process(p)
    BY <2>1, MyPrinting
  <2>2. CASE pc'[p] = pc[p] /\ op'[p] = op[p]
    BY <2>2, OthersPrinting
  <2>3. CASE \E q \in Owners : q # p /\ Process(q)
    BY <1>1, <2>2, <2>3, StepIsMine
  <2> QED
    BY <2>1, <2>2, <2>3 DEF Next, StoreRead, SignOut, SignIn, Tick, vars
<1>4. head' # NoHead => head'.ack <= lastSeq'
  <2>1. CASE UNCHANGED head
    BY <1>1, <2>1
  <2>2. ASSUME NEW p \in Owners, Commit(p) PROVE head' # NoHead => head'.ack <= lastSeq'
    BY <1>1, <2>2 DEF Commit, CommitBatch
  <2>3. ASSUME NEW p \in Owners, Ack(p) PROVE head' # NoHead => head'.ack <= lastSeq'
    BY <1>1, <2>3, AdvanceMovesOn
  <2>4. CASE SignOut
    BY <2>4 DEF SignOut, DeleteAccountData
  <2>5. ASSUME NEW p \in Owners, Process(p) PROVE head' # NoHead => head'.ack <= lastSeq'
    BY <2>1, <2>2, <2>3, <2>5
    DEF Process, Poll, Identity, Position, Acquire, Fetch, Compare, Read, Fail, Emit, Stop,
        rows
  <2> QED
    BY <2>1, <2>4, <2>5 DEF Next, StoreRead, SignIn, Tick, rows, vars
<1> QED
  BY <1>2, <1>3, <1>4 DEF SequencesArePast

LEMMA StepOrder == Typed /\ Printing /\ [Next]_vars => PrintedInOrder'
<1> SUFFICES ASSUME Typed, Printing, [Next]_vars PROVE PrintedInOrder'
  OBVIOUS
<1>1. /\ TypeOK /\ lastSeq \in Nat
      /\ \A e \in spool : e.seq \in Nat /\ e.seq <= lastSeq
      /\ \A e, d \in spool : e.seq \notin owed /\ d.seq <= e.seq => d.seq \notin owed
  BY Numbers DEF Typed, Printing, SequencesArePast, PrintedInOrder, PrintedUpTo
<1>2. ASSUME NEW p \in Owners, Emit(p) PROVE PrintedInOrder'
  BY <1>1, <1>2, OutputIsInOrder
<1>3. ASSUME owed \subseteq owed' PROVE PrintedInOrder'
  <2> SUFFICES ASSUME NEW e \in spool', NEW d \in spool', e.seq \notin owed', d.seq <= e.seq
               PROVE  d.seq \notin owed'
    BY DEF PrintedInOrder, PrintedUpTo
  <2>1. e \in spool /\ e.seq \notin owed /\ d.seq \in Nat
    BY <1>3, SpoolStep
  <2>2. ~ (lastSeq < d.seq)
    BY <1>1, <2>1
  <2>3. d \in spool
    BY <2>2, SpoolStep
  <2> QED
    BY <1>1, <2>1, <2>2, <2>3, SpoolStep
<1>4. CASE SignOut
  BY <1>4 DEF SignOut, DeleteAccountData, PrintedInOrder
<1>5. ASSUME NEW p \in Owners, Process(p), ~ Emit(p) PROVE owed \subseteq owed'
  BY <1>5
  DEF Process, Poll, Identity, Position, Acquire, Fetch, Compare, Commit, Read, Fail, Ack,
      Stop, history
<1> QED
  BY <1>2, <1>3, <1>4, <1>5 DEF Next, StoreRead, SignIn, Tick, history, vars

LEMMA StepAcknowledged == Typed /\ Printing /\ [Next]_vars => AcknowledgedWasPrinted'
<1> SUFFICES ASSUME Typed, Printing, [Next]_vars PROVE AcknowledgedWasPrinted'
  OBVIOUS
<1>1. /\ TypeOK /\ \A e \in spool' : e.seq \in Nat
      /\ head # NoHead => /\ head.ack \in Nat /\ head.ack <= lastSeq
                          /\ PrintedUpTo(head.ack)
      /\ \A e \in spool : e.seq \in Nat /\ 1 <= e.seq
  BY Numbers, SpoolStep
  DEF Typed, Printing, SequencesArePast, AcknowledgedWasPrinted, PrintedUpTo
<1>2. ASSUME UNCHANGED head PROVE AcknowledgedWasPrinted'
  <2>1. ASSUME NEW s \in Nat, head # NoHead, s = head.ack PROVE PrintedUpTo(s)'
    BY <1>1, <2>1, PrintedStays
  <2> QED
    BY <1>1, <1>2, <2>1 DEF AcknowledgedWasPrinted, PrintedUpTo
<1>3. ASSUME NEW p \in Owners, Commit(p) PROVE AcknowledgedWasPrinted'
  <2>1. CASE head # NoHead
    BY <1>2, <1>3, <2>1 DEF Commit, CommitBatch
  <2>2. CASE head = NoHead
    <3>1. op[p].first
      BY <1>3, <2>2 DEF Commit, Committable
    <3>2. head' = [gen |-> op[p].gen, ack |-> 0]
      BY <1>3, <2>2, <3>1 DEF Commit, CommitBatch, Printing, FirstStartsAtZero
    <3>3. TypeOK'
      BY StepTyped DEF Typed
    <3>4. \A e \in spool' : 1 <= e.seq
      BY <3>3, SpoolAssumption DEF TypeOK, SpoolTypeOK, Event
    <3> QED
      BY <1>1, <3>2, <3>4 DEF AcknowledgedWasPrinted
  <2> QED
    BY <2>1, <2>2
<1>4. ASSUME NEW p \in Owners, Ack(p) PROVE AcknowledgedWasPrinted'
  <2>1. CASE UNCHANGED head
    BY <1>2, <2>1
  <2>2. CASE head' # NoHead /\ head'.ack = op[p].sequence
    <3>1. PrintedUpTo(op[p].sequence) /\ spool' = spool /\ owed' = owed
      BY <1>4 DEF Ack, history, Printing, StartsArePrinted
    <3> QED
      BY <2>2, <3>1 DEF AcknowledgedWasPrinted, PrintedUpTo
  <2> QED
    BY <1>1, <1>4, <2>1, <2>2, AdvanceMovesOn
<1>5. CASE SignOut
  BY <1>5 DEF SignOut, DeleteAccountData, AcknowledgedWasPrinted
<1>6. ASSUME NEW p \in Owners, Process(p) PROVE AcknowledgedWasPrinted'
  BY <1>2, <1>3, <1>4, <1>6
  DEF Process, Poll, Identity, Position, Acquire, Fetch, Compare, Read, Fail, Emit, Stop, rows
<1> QED
  BY <1>2, <1>5, <1>6 DEF Next, StoreRead, SignIn, Tick, rows, vars

LEMMA StepPrinting == Typed /\ Printing /\ [Next]_vars => Printing'
<1> SUFFICES ASSUME Typed, Printing, [Next]_vars
             PROVE  FirstStartsAtZero' /\ StartsArePrinted' /\ BatchesAreWhole'
  BY StepSequences, StepOrder, StepAcknowledged DEF Printing
<1> DEFINE Mine(q) ==
      /\ op'[q].first => op'[q].sequence = 0 /\ pc'[q] # "read"
      /\ pc'[q] # "emit" => PrintedUpTo(op[q].sequence)'
      /\ pc'[q] = "emit" =>
           /\ \A s \in op'[q].batch : s <= op'[q].sequence
           /\ \A e \in spool' :
                e.seq <= op'[q].sequence /\ e.seq \in owed' => e.seq \in op'[q].batch
<1>1. ASSUME NEW q \in Owners PROVE Mine(q)
  <2>1. CASE Process(q)
    BY <2>1, MyPrinting
  <2>2. CASE pc'[q] = pc[q] /\ op'[q] = op[q]
    BY <2>2, OthersPrinting
  <2>3. CASE \E p \in Owners : q # p /\ Process(p)
    BY <2>2, <2>3, StepIsMine DEF Typed
  <2> QED
    BY <2>1, <2>2, <2>3 DEF Next, StoreRead, SignOut, SignIn, Tick, vars
<1> QED
  BY <1>1 DEF FirstStartsAtZero, StartsArePrinted, BatchesAreWhole

(* However outputs break and processes stop, replay and overtake each      *)
(* other, the head passes no event of the spool that nobody printed.       *)
THEOREM AcknowledgementsFollowOutput == Spec => []AcknowledgedWasPrinted
<1>1. Printing => AcknowledgedWasPrinted
  BY DEF Printing
<1> QED
  BY InitTyped, StepTyped, InitPrinting, StepPrinting, <1>1, PTL DEF Spec
===============================================================================
