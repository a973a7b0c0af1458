--------------------------- MODULE SecretStoreProofs ---------------------------
(***************************************************************************)
(* Proofs of the safety properties of SecretStore, for any number of        *)
(* processes, parts and values.                                             *)
(***************************************************************************)
EXTENDS SecretStore, TLAPS

LEMMA ValuesHaveParts ==
  ASSUME NEW v \in Values
  PROVE  /\ v \in Seq(Parts) /\ Len(v) \in 1..MaxParts /\ v # None
         /\ \A i \in 1..Len(v) : v[i] \in Parts
<1>1. PICK n \in 1..MaxParts : v \in [1..n -> Parts]
  BY StoreAssumption
<1>2. v \in Seq(Parts) /\ Len(v) = n
  BY <1>1, StoreAssumption
<1> QED BY <1>1, <1>2, StoreAssumption

LEMMA Counts ==
  ASSUME NEW v \in Values \cup {None}
  PROVE  /\ Count(v) \in 0..MaxParts
         /\ v \in Values /\ ~ Short(v) => Count(v) = Len(v) /\ Len(v) \in 2..MaxParts
         /\ v \in Values /\ Short(v) => Count(v) = 0 /\ Len(v) = 1
         /\ v = None => Count(v) = 0
<1> USE StoreAssumption
<1>1. CASE v = None
  BY <1>1 DEF Count
<1>2. CASE v \in Values
  <2>1. Len(v) \in 1..MaxParts /\ v # None
    BY <1>2, ValuesHaveParts
  <2> QED BY <1>2, <2>1 DEF Count, Short
<1> QED BY <1>1, <1>2

(* Operations that are changed, begun and ended. *)
LEMMA AloneUpdate ==
  ASSUME NEW o \in Op,
         NEW u, u = [o EXCEPT !.alone = FALSE]
  PROVE  /\ u \in Op /\ u.pc = o.pc /\ u.value = o.value /\ u.old = o.old /\ u.at = o.at
         /\ u.alone = FALSE
BY DEF Op
LEMMA StartIsAnOp ==
  ASSUME NEW step \in Pcs, NEW v \in Values \cup {None}, NEW b \in BOOLEAN
  PROVE  /\ Start(step, v, b) \in Op
         /\ Start(step, v, b).pc = step /\ Start(step, v, b).value = v
         /\ Start(step, v, b).at = 1 /\ Start(step, v, b).alone = b
<1>1. 0 \in 0..MaxParts /\ 1 \in 0..MaxParts + 1 /\ <<>> \in Seq(Parts)
  BY StoreAssumption
<1>2. Start(step, v, b) \in Op
  BY <1>1 DEF Start, Op
<1>3. /\ Start(step, v, b).pc = step /\ Start(step, v, b).value = v
      /\ Start(step, v, b).at = 1 /\ Start(step, v, b).alone = b
  BY DEF Start
<1> QED BY <1>2, <1>3
LEMMA IdleIsAnOp == Idle \in Op /\ Idle.pc = "idle" /\ Idle.value = None /\ ~ Idle.alone
<1>1. "idle" \in Pcs
  BY DEF Pcs
<1>2. None \in Values \cup {None} /\ FALSE \in BOOLEAN
  OBVIOUS
<1> QED BY <1>1, <1>2, StartIsAnOp DEF Idle

-----------------------------------------------------------------------------
(* The control of an operation: where it is says what its value is, and how  *)
(* far it is.                                                                 *)
OpRight(o) ==
  /\ o.pc \in {"chunk", "surplus", "gather"} => o.value # None /\ ~ Short(o.value)
  /\ o.pc \in {"chunk", "gather"} => o.at \in 1..Len(o.value)
  /\ o.pc = "count" => o.at = 1
  /\ o.pc = "base" => o.value # None
  /\ o.pc = "delete" => o.value = None
  /\ o.pc = "surplus" => o.at > Len(o.value)
  /\ o.pc = "clear" => o.at >= 1 /\ (o.value # None => Short(o.value))
  /\ o.pc = "undo" => o.at >= 1
  /\ o.pc \in {"idle", "gather"} => ~ o.alone

(* What the entries b and ch hold of the value of an operation without others. *)
Matches(v, ch, n) == \A i \in 1..n : ch[i] = v[i]
Achieves(o, b, ch) ==
  o.alone =>
    /\ o.pc = "chunk" => Matches(o.value, ch, o.at - 1)
    /\ o.pc = "base" /\ ~ Short(o.value) => Matches(o.value, ch, Len(o.value))
    /\ o.pc = "surplus" => b = o.value /\ Matches(o.value, ch, Len(o.value))
    /\ o.pc = "clear" => b = o.value

(* The chunk entries that are empty during an operation, if all went well.  *)
Leaves(o, b, ch) ==
  \A i \in Indices :
    /\ o.pc = "count" /\ i > Count(b) => ch[i] = None
    /\ o.pc = "chunk" /\ i > o.old /\ i >= o.at => ch[i] = None
    /\ o.pc = "base" /\ i > o.old /\ i > Count(o.value) => ch[i] = None
    /\ o.pc = "delete" /\ i > o.old => ch[i] = None
    /\ o.pc = "surplus" /\ i > Len(o.value) /\ (i < o.at \/ i > o.old) => ch[i] = None
    /\ o.pc = "clear" /\ (i < o.at \/ i > o.old) => ch[i] = None

Alone(p) ==
  /\ op[p].alone => \A q \in Procs \ {p} : ~ Writing(q)
  /\ ~ untidy /\ Writing(p) => op[p].alone

SettledRight == settled # Unknown => (\A p \in Procs : ~ Writing(p)) /\ Readable = settled

IInv ==
  /\ TypeOK
  /\ \A p \in Procs :
       /\ OpRight(op[p]) /\ Alone(p) /\ (op[p].value # None => op[p].value \in written)
       /\ Achieves(op[p], base, chunks) /\ (~ untidy => Leaves(op[p], base, chunks))
  /\ base # None => base \in written
  /\ ReadsAreWhole /\ SettledRight /\ NothingIsLeftOver

LEMMA Initially == Init => IInv
<1> SUFFICES ASSUME Init PROVE IInv
  OBVIOUS
<1> USE StoreAssumption
<1>1. op \in [Procs -> Op] /\ \A p \in Procs : op[p] = Idle
  BY IdleIsAnOp DEF Init
<1>2. TypeOK
  BY <1>1 DEF Init, TypeOK
<1>3. \A p \in Procs : ~ Writing(p) /\ OpRight(op[p]) /\ Alone(p) /\ op[p].value = None
  BY <1>1, IdleIsAnOp DEF Writing, OpRight, Alone
<1>4. \A p \in Procs : Achieves(op[p], base, chunks) /\ Leaves(op[p], base, chunks)
  BY <1>1, IdleIsAnOp DEF Achieves, Leaves
<1>5. ReadsAreWhole /\ SettledRight /\ NothingIsLeftOver
  BY <1>3 DEF Init, ReadsAreWhole, SettledRight, NothingIsLeftOver, Readable
<1> QED BY <1>2, <1>3, <1>4, <1>5 DEF IInv, Init

(* A step of an operation under way that leaves it under way. *)
LEMMA Worked ==
  ASSUME IInv, NEW p \in Procs, Writing(p), NEW u \in Op, op' = [op EXCEPT ![p] = u],
         u.pc \notin {"idle", "gather"}, u.value = op[p].value, u.alone = op[p].alone,
         base' \in Values \cup {None}, chunks' \in [Indices -> Parts \cup {None}],
         base' # None => base' \in written, UNCHANGED <<written, returned, settled>>,
         untidy' \in {untidy, TRUE}, OpRight(u), Achieves(u, base', chunks'),
         ~ untidy' => Leaves(u, base', chunks')
  PROVE  IInv'
<1>1. /\ op \in [Procs -> Op] /\ op' \in [Procs -> Op] /\ op'[p] = u
      /\ \A q \in Procs \ {p} : op'[q] = op[q]
  BY DEF IInv, TypeOK
<1>2. TypeOK'
  BY <1>1 DEF IInv, TypeOK
<1>3. settled = Unknown
  BY DEF IInv, SettledRight
<1>4. SettledRight' /\ ReadsAreWhole' /\ (base' # None => base' \in written')
  BY <1>3 DEF SettledRight, IInv, ReadsAreWhole
<1>5. Writing(p)' /\ NothingIsLeftOver'
  BY <1>1 DEF Writing, NothingIsLeftOver
<1>6. /\ OpRight(op'[p]) /\ (op'[p].value # None => op'[p].value \in written')
      /\ Achieves(op'[p], base', chunks') /\ (~ untidy' => Leaves(op'[p], base', chunks'))
  BY <1>1 DEF IInv
<1>7. Alone(p)'
  <2>1. \A q \in Procs \ {p} : Writing(q)' <=> Writing(q)
    BY <1>1 DEF Writing
  <2>2. Alone(p)
    BY DEF IInv
  <2> QED BY <1>1, <2>1, <2>2 DEF Alone
<1>8. ASSUME NEW q \in Procs \ {p}
      PROVE  /\ OpRight(op'[q]) /\ Alone(q)' /\ (op'[q].value # None => op'[q].value \in written')
             /\ Achieves(op'[q], base', chunks') /\ (~ untidy' => Leaves(op'[q], base', chunks'))
  <2>1. ~ op[q].alone /\ (~ untidy => ~ Writing(q))
    BY DEF IInv, Alone
  <2>2. Writing(q)' <=> Writing(q)
    BY <1>1 DEF Writing
  <2>3. Alone(q)'
    BY <1>1, <2>1, <2>2 DEF Alone
  <2>4. ~ untidy' => Leaves(op'[q], base', chunks')
    BY <1>1, <2>1 DEF Writing, Leaves
  <2> QED BY <1>1, <2>1, <2>3, <2>4 DEF IInv, Achieves
<1> QED BY <1>2, <1>4, <1>5, <1>6, <1>7, <1>8 DEF IInv

(* The end of an operation: it gave up, or it did what it was called for.   *)
LEMMA Finished ==
  ASSUME IInv, NEW p \in Procs, Writing(p), op' = [op EXCEPT ![p] = Idle],
         base' \in Values \cup {None}, chunks' \in [Indices -> Parts \cup {None}],
         base' # None => base' \in written, UNCHANGED <<written, returned>>,
         \/ settled' = settled /\ untidy' = TRUE
         \/ /\ settled' = IF op[p].alone THEN op[p].value ELSE settled
            /\ untidy' = untidy
            /\ op[p].alone => Readable' = op[p].value
            /\ ~ untidy => \A i \in Indices : i > Count(base') => chunks'[i] = None
  PROVE  IInv'
<1>1. /\ op \in [Procs -> Op] /\ op' \in [Procs -> Op] /\ op'[p] = Idle
      /\ \A q \in Procs \ {p} : op'[q] = op[q]
  BY IdleIsAnOp DEF IInv, TypeOK
<1>2. TypeOK'
  BY <1>1 DEF IInv, TypeOK, Op
<1>3. settled = Unknown /\ (op[p].alone => \A q \in Procs \ {p} : ~ Writing(q))
  BY DEF IInv, SettledRight, Alone
<1>4. SettledRight'
  BY <1>1, <1>3, IdleIsAnOp DEF SettledRight, Writing
<1>5. NothingIsLeftOver'
  BY DEF NothingIsLeftOver
<1>6. ReadsAreWhole' /\ (base' # None => base' \in written')
  BY DEF IInv, ReadsAreWhole
<1>7. ASSUME NEW q \in Procs
      PROVE  /\ OpRight(op'[q]) /\ Alone(q)' /\ (op'[q].value # None => op'[q].value \in written')
             /\ Achieves(op'[q], base', chunks') /\ (~ untidy' => Leaves(op'[q], base', chunks'))
  <2>1. CASE q = p
    BY <1>1, <2>1, IdleIsAnOp DEF OpRight, Alone, Writing, Achieves, Leaves
  <2>2. CASE q # p
    <3>1. ~ op[q].alone /\ (~ untidy' => ~ Writing(q))
      BY <2>2 DEF IInv, Alone
    <3>2. Writing(q)' <=> Writing(q)
      BY <1>1, <2>2 DEF Writing
    <3>3. Alone(q)'
      BY <1>1, <2>2, <3>1, <3>2 DEF Alone
    <3>4. ~ untidy' => Leaves(op'[q], base', chunks')
      BY <1>1, <2>2, <3>1 DEF Writing, Leaves
    <3> QED BY <1>1, <2>2, <3>1, <3>3, <3>4 DEF IInv, Achieves
  <2> QED BY <2>1, <2>2
<1> QED BY <1>2, <1>4, <1>5, <1>6, <1>7 DEF IInv

(* A step of a Get: nothing is written. *)
LEMMA WasRead ==
  ASSUME IInv, NEW p \in Procs, ~ Writing(p), NEW u \in Op, op' = [op EXCEPT ![p] = u],
         u.pc \in {"idle", "gather"}, OpRight(u), u.value # None => u.value \in written,
         UNCHANGED <<entries, written, settled, untidy>>,
         returned' \subseteq Seq(Parts), returned' \subseteq written
  PROVE  IInv'
<1>1. /\ op \in [Procs -> Op] /\ op' \in [Procs -> Op] /\ op'[p] = u
      /\ \A q \in Procs \ {p} : op'[q] = op[q]
  BY DEF IInv, TypeOK
<1>2. UNCHANGED <<base, chunks, written, settled, untidy>>
  BY DEF entries
<1>3. TypeOK'
  BY <1>1, <1>2 DEF IInv, TypeOK
<1>4. \A q \in Procs : Writing(q)' <=> Writing(q)
  BY <1>1 DEF Writing
<1>5. SettledRight' /\ NothingIsLeftOver' /\ ReadsAreWhole'
  BY <1>2, <1>4 DEF IInv, SettledRight, NothingIsLeftOver, Readable, ReadsAreWhole
<1>6. ASSUME NEW q \in Procs
      PROVE  /\ OpRight(op'[q]) /\ Alone(q)' /\ (op'[q].value # None => op'[q].value \in written')
             /\ Achieves(op'[q], base', chunks') /\ (~ untidy' => Leaves(op'[q], base', chunks'))
  <2>1. CASE q = p
    <3>1. ~ u.alone
      BY DEF OpRight
    <3> QED BY <1>1, <1>2, <1>4, <2>1, <3>1 DEF IInv, Alone, Achieves, Leaves
  <2>2. CASE q # p
    <3>1. Alone(q)'
      BY <1>1, <1>2, <1>4, <2>2 DEF IInv, Alone
    <3> QED BY <1>1, <1>2, <2>2, <3>1 DEF IInv
  <2> QED BY <2>1, <2>2
<1> QED BY <1>2, <1>3, <1>5, <1>6 DEF IInv

-----------------------------------------------------------------------------
LEMMA Facts ==
  ASSUME IInv, NEW p \in Procs
  PROVE  /\ op \in [Procs -> Op] /\ op[p] \in Op /\ op[p].pc \in Pcs
         /\ op[p].value \in Values \cup {None} /\ op[p].old \in 0..MaxParts
         /\ op[p].at \in 0..MaxParts + 1 /\ op[p].got \in Seq(Parts) /\ op[p].alone \in BOOLEAN
         /\ base \in Values \cup {None} /\ chunks \in [Indices -> Parts \cup {None}]
         /\ written \subseteq Values /\ untidy \in BOOLEAN
         /\ OpRight(op[p]) /\ Alone(p) /\ (op[p].value # None => op[p].value \in written)
         /\ Achieves(op[p], base, chunks) /\ (~ untidy => Leaves(op[p], base, chunks))
         /\ (base # None => base \in written)
<1>1. op \in [Procs -> Op]
  BY DEF IInv, TypeOK
<1>2. op[p] \in Op
  BY <1>1
<1> QED BY <1>1, <1>2 DEF IInv, TypeOK, Op

LEMMA BeginHolds ==
  ASSUME IInv, NEW p \in Procs, NEW value \in Values \cup {None}, Begin(p, value)
  PROVE  IInv'
<1> USE StoreAssumption
<1> DEFINE others == {q \in Procs : Writing(q)}
           new == Start("count", value, others = {})
<1>1. new \in Op /\ new.pc = "count" /\ new.value = value /\ new.at = 1 /\ new.alone = (others = {})
  <2>1. "count" \in Pcs
    BY DEF Pcs
  <2>2. CASE others = {}
    BY <2>1, <2>2, StartIsAnOp
  <2>3. CASE others # {}
    <3>1. new = Start("count", value, FALSE) /\ FALSE \in BOOLEAN
      BY <2>3
    <3> HIDE DEF new
    <3> QED BY <2>1, <2>3, <3>1, StartIsAnOp
  <2> QED BY <2>2, <2>3
<1> HIDE DEF new
<1>2. /\ op' = [q \in Procs |-> IF q = p THEN new ELSE [op[q] EXCEPT !.alone = FALSE]]
      /\ op[p].pc = "idle" /\ written' = written \cup ({value} \ {None})
      /\ settled' = Unknown /\ untidy' = (untidy \/ others # {})
      /\ UNCHANGED <<base, chunks, returned>>
  BY DEF Begin, new, entries
<1> HIDE DEF others
<1>3. op'[p] = new
  BY <1>2
<1>4. ASSUME NEW q \in Procs \ {p}
      PROVE  /\ op'[q] \in Op /\ op'[q].pc = op[q].pc /\ op'[q].value = op[q].value
             /\ op'[q].old = op[q].old /\ op'[q].at = op[q].at /\ ~ op'[q].alone
  BY <1>2, Facts, AloneUpdate
<1>5. op' \in [Procs -> Op]
  BY <1>1, <1>2, <1>4
<1>6. TypeOK'
  BY <1>2, <1>5 DEF IInv, TypeOK
<1>7. \A q \in Procs \ {p} : Writing(q)' <=> Writing(q)
  BY <1>4 DEF Writing
<1>8. Writing(p)' /\ ~ Writing(p) /\ p \notin others
  BY <1>1, <1>2, <1>3 DEF Writing, others
<1>9. SettledRight' /\ NothingIsLeftOver' /\ ReadsAreWhole' /\ (base' # None => base' \in written')
  BY <1>2, <1>8 DEF SettledRight, NothingIsLeftOver, ReadsAreWhole, IInv
<1>10. /\ OpRight(op'[p]) /\ Alone(p)' /\ (op'[p].value # None => op'[p].value \in written')
       /\ Achieves(op'[p], base', chunks')
  <2>1. OpRight(new) /\ Achieves(new, base', chunks')
    BY <1>1 DEF OpRight, Achieves
  <2>2. Alone(p)'
    BY <1>1, <1>2, <1>3, <1>7 DEF Alone, others
  <2> QED BY <1>1, <1>2, <1>3, <2>1, <2>2
<1>11. ~ untidy' => Leaves(op'[p], base', chunks')
  <2>1. ~ untidy' => \A i \in Indices : i > Count(base) => chunks[i] = None
    BY <1>2, <1>8 DEF IInv, NothingIsLeftOver, others
  <2> QED BY <1>1, <1>2, <1>3, <2>1 DEF Leaves
<1>12. ASSUME NEW q \in Procs \ {p}
       PROVE  /\ OpRight(op'[q]) /\ Alone(q)' /\ (op'[q].value # None => op'[q].value \in written')
              /\ Achieves(op'[q], base', chunks') /\ (~ untidy' => Leaves(op'[q], base', chunks'))
  <2>1. OpRight(op'[q]) /\ Achieves(op'[q], base', chunks')
    BY <1>4, Facts DEF OpRight, Achieves
  <2>2. op'[q].value # None => op'[q].value \in written'
    BY <1>2, <1>4, Facts
  <2>3. ~ untidy' => ~ Writing(q)
    BY <1>2 DEF others
  <2>4. Alone(q)'
    BY <1>4, <1>7, <2>3 DEF Alone
  <2>5. ~ untidy' => Leaves(op'[q], base', chunks')
    BY <1>4, <2>3 DEF Writing, Leaves
  <2> QED BY <2>1, <2>2, <2>4, <2>5
<1> QED BY <1>6, <1>9, <1>10, <1>11, <1>12 DEF IInv

LEMMA CountHolds ==
  ASSUME IInv, NEW p \in Procs, CountOld(p)
  PROVE  IInv'
<1> USE StoreAssumption
<1>1. PICK old \in {Count(base), 0} :
        /\ op' = [op EXCEPT ![p].old = old, ![p].pc =
                    IF op[p].value = None THEN "delete"
                    ELSE IF Short(op[p].value) THEN "base" ELSE "chunk"]
        /\ untidy' = (untidy \/ old # Count(base))
  BY DEF CountOld
<1>2. op[p].pc = "count" /\ UNCHANGED <<base, chunks, written, returned, settled>>
  BY DEF CountOld, entries
<1> DEFINE step == IF op[p].value = None THEN "delete"
                   ELSE IF Short(op[p].value) THEN "base" ELSE "chunk"
           u == [op[p] EXCEPT !.old = old, !.pc = step]
<1>3. step \in Pcs /\ old \in 0..MaxParts
  BY Facts, Counts DEF Pcs
<1>4. /\ u \in Op /\ u.pc = step /\ u.value = op[p].value /\ u.old = old /\ u.at = op[p].at
      /\ u.alone = op[p].alone
  <2>1. u = [op[p] EXCEPT !.old = old, !.pc = step]
    OBVIOUS
  <2>2. op[p] \in Op
    BY Facts
  <2> HIDE DEF u, step
  <2> QED BY <1>3, <2>1, <2>2 DEF Op
<1>5. op' = [op EXCEPT ![p] = u]
  BY <1>1
<1> HIDE DEF u
<1>6. Writing(p) /\ u.pc \notin {"idle", "gather"}
  BY <1>2, <1>4 DEF Writing
<1>7. OpRight(u) /\ Achieves(u, base, chunks)
  <2>1. u.at = 1 /\ (u.value # None => Len(u.value) \in 1..MaxParts /\ 1 \in 1..Len(u.value))
    BY <1>2, <1>4, Facts, ValuesHaveParts DEF OpRight
  <2> QED BY <1>4, <2>1 DEF OpRight, Achieves, Matches
<1>8. ~ untidy' => Leaves(u, base, chunks)
  <2>1. CASE untidy'
    BY <2>1
  <2>2. CASE ~ untidy'
    <3>1. old = Count(base) /\ Leaves(op[p], base, chunks)
      BY <1>1, <2>2, Facts
    <3> QED BY <1>2, <1>4, <3>1 DEF Leaves
  <2> QED BY <2>1, <2>2
<1>9. untidy' \in {untidy, TRUE}
  BY <1>1, Facts
<1> QED BY <1>2, <1>4, <1>5, <1>6, <1>7, <1>8, <1>9, Facts, Worked

LEMMA WriteChunkHolds ==
  ASSUME IInv, NEW p \in Procs, WriteChunk(p)
  PROVE  IInv'
<1> USE StoreAssumption
<1> DEFINE i == op[p].at
           v == op[p].value
<1>1. /\ op[p].pc = "chunk" /\ Writing(p) /\ UNCHANGED <<base, written, returned, settled, untidy>>
  BY DEF WriteChunk, Writing, history
<1>2. /\ v \in Values /\ ~ Short(v) /\ i \in 1..Len(v) /\ Len(v) \in 2..MaxParts /\ v[i] \in Parts
      /\ Count(v) = Len(v)
  BY <1>1, Facts, ValuesHaveParts, Counts DEF OpRight
<1>3. /\ op[p] \in Op /\ op \in [Procs -> Op] /\ op[p].old \in 0..MaxParts
      /\ chunks \in [Indices -> Parts \cup {None}]
      /\ Achieves(op[p], base, chunks) /\ (~ untidy => Leaves(op[p], base, chunks))
  BY Facts
<1>4. ASSUME chunks' = [chunks EXCEPT ![i] = v[i]]
      PROVE  /\ chunks' \in [Indices -> Parts \cup {None}]
             /\ chunks'[i] = v[i] /\ \A j \in Indices \ {i} : chunks'[j] = chunks[j]
             /\ op[p].alone => Matches(v, chunks', i)
  <2>1. i \in Indices /\ \A j \in 1..Len(v) : j \in Indices
    BY <1>2 DEF Indices
  <2>2. chunks'[i] = v[i] /\ \A j \in Indices \ {i} : chunks'[j] = chunks[j]
    BY <1>3, <1>4, <2>1
  <2>3. op[p].alone => Matches(v, chunks, i - 1)
    BY <1>1, <1>3 DEF Achieves
  <2>4. op[p].alone => Matches(v, chunks', i)
    BY <1>2, <2>1, <2>2, <2>3 DEF Matches
  <2> QED BY <1>2, <1>3, <1>4, <2>1, <2>2, <2>4
<1>5. CASE chunks' = [chunks EXCEPT ![i] = v[i]] /\ i = Len(v) /\ op' = [op EXCEPT ![p].pc = "base"]
  <2> DEFINE u == [op[p] EXCEPT !.pc = "base"]
  <2>1. op' = [op EXCEPT ![p] = u]
    BY <1>5
  <2>2. /\ u \in Op /\ u.pc = "base" /\ u.value = v /\ u.old = op[p].old /\ u.alone = op[p].alone
    BY <1>3 DEF Op, Pcs
  <2> HIDE DEF u
  <2>3. OpRight(u) /\ Achieves(u, base', chunks')
    BY <1>2, <1>4, <1>5, <2>2 DEF OpRight, Achieves
  <2>4. ~ untidy' => Leaves(u, base', chunks')
    BY <1>1, <1>2, <1>3, <1>4, <1>5, <2>2 DEF Leaves, Indices
  <2> QED BY <1>1, <1>4, <1>5, <2>1, <2>2, <2>3, <2>4, Facts, Worked
<1>6. CASE chunks' = [chunks EXCEPT ![i] = v[i]] /\ i # Len(v) /\ op' = [op EXCEPT ![p].at = i + 1]
  <2> DEFINE u == [op[p] EXCEPT !.at = i + 1]
  <2>1. op' = [op EXCEPT ![p] = u]
    BY <1>6
  <2>2. /\ u \in Op /\ u.pc = "chunk" /\ u.value = v /\ u.old = op[p].old /\ u.at = i + 1
        /\ u.alone = op[p].alone
    <3> DEFINE n == i + 1
    <3>1. n \in 0..MaxParts + 1 /\ u = [op[p] EXCEPT !.at = n]
      BY <1>1, <1>2, <1>3
    <3> HIDE DEF n, u
    <3>2. /\ u \in Op /\ u.pc = op[p].pc /\ u.value = v /\ u.old = op[p].old /\ u.at = n
          /\ u.alone = op[p].alone
      BY <1>3, <3>1 DEF Op
    <3> QED BY <1>1, <3>2 DEF n
  <2> HIDE DEF u
  <2>3. OpRight(u)
    BY <1>2, <1>6, <2>2 DEF OpRight
  <2>4. Achieves(u, base', chunks')
    BY <1>2, <1>4, <1>6, <2>2 DEF Achieves
  <2>5. ~ untidy' => Leaves(u, base', chunks')
    BY <1>1, <1>2, <1>3, <1>4, <1>6, <2>2 DEF Leaves, Indices
  <2> QED BY <1>1, <1>4, <1>6, <2>1, <2>2, <2>3, <2>4, <2>5, Facts, Worked
<1>7. CASE chunks' = chunks /\ op' = [op EXCEPT ![p].pc = "undo", ![p].old = i - 1, ![p].at = 1]
  <2> DEFINE u == [op[p] EXCEPT !.pc = "undo", !.old = i - 1, !.at = 1]
  <2>1. op' = [op EXCEPT ![p] = u]
    BY <1>7
  <2>2. i - 1 \in 0..MaxParts /\ 1 \in 0..MaxParts + 1
    BY <1>2
  <2>3. u \in Op /\ u.pc = "undo" /\ u.value = v /\ u.at = 1 /\ u.alone = op[p].alone
    <3> HIDE DEF i
    <3> QED BY <1>3, <2>2 DEF Op, Pcs
  <2> HIDE DEF u
  <2>4. OpRight(u) /\ Achieves(u, base', chunks') /\ Leaves(u, base', chunks')
    BY <2>3 DEF OpRight, Achieves, Leaves
  <2> QED BY <1>1, <1>3, <1>7, <2>1, <2>3, <2>4, Facts, Worked
<1> QED BY <1>5, <1>6, <1>7 DEF WriteChunk

LEMMA UndoHolds ==
  ASSUME IInv, NEW p \in Procs, Undo(p)
  PROVE  IInv'
<1> USE StoreAssumption
<1>1. op[p].pc = "undo" /\ Writing(p) /\ UNCHANGED <<base, written, returned>>
  BY DEF Undo, Writing
<1>2. /\ op[p] \in Op /\ op[p].at \in Nat /\ op[p].at >= 1 /\ op[p].old \in 0..MaxParts
      /\ chunks \in [Indices -> Parts \cup {None}]
  BY <1>1, Facts DEF OpRight
<1>3. CASE op[p].at <= op[p].old
  <2> DEFINE u == [op[p] EXCEPT !.at = @ + 1]
  <2>1. /\ op' = [op EXCEPT ![p] = u] /\ chunks' \in [Indices -> Parts \cup {None}]
        /\ UNCHANGED <<settled, untidy>>
    BY <1>2, <1>3 DEF Undo
  <2>2. /\ u \in Op /\ u.pc = "undo" /\ u.value = op[p].value /\ u.at = op[p].at + 1
        /\ u.alone = op[p].alone
    BY <1>1, <1>2, <1>3 DEF Op
  <2> HIDE DEF u
  <2>3. OpRight(u) /\ Achieves(u, base', chunks') /\ Leaves(u, base', chunks')
    BY <1>2, <2>2 DEF OpRight, Achieves, Leaves
  <2> QED BY <1>1, <2>1, <2>2, <2>3, Facts, Worked
<1>4. CASE ~ op[p].at <= op[p].old
  <2>1. op' = [op EXCEPT ![p] = Idle] /\ chunks' = chunks /\ settled' = settled /\ untidy' = TRUE
    BY <1>1, <1>4 DEF Undo, GiveUp
  <2> QED BY <1>1, <2>1, Facts, Finished
<1> QED BY <1>3, <1>4

LEMMA WriteBaseHolds ==
  ASSUME IInv, NEW p \in Procs, WriteBase(p)
  PROVE  IInv'
<1> USE StoreAssumption
<1> DEFINE v == op[p].value
<1>1. op[p].pc = "base" /\ Writing(p) /\ UNCHANGED <<chunks, written, returned>>
  BY DEF WriteBase, Writing
<1>2. v \in Values /\ v \in written /\ Len(v) \in 1..MaxParts
  BY <1>1, Facts, ValuesHaveParts DEF OpRight
<1>3. /\ op[p] \in Op /\ op[p].old \in 0..MaxParts
      /\ Achieves(op[p], base, chunks) /\ (~ untidy => Leaves(op[p], base, chunks))
  BY Facts
<1>4. CASE base' = v /\ Short(v) /\ op' = [op EXCEPT ![p].pc = "clear", ![p].at = 1]
           /\ UNCHANGED <<settled, untidy>>
  <2> DEFINE u == [op[p] EXCEPT !.pc = "clear", !.at = 1]
  <2>1. op' = [op EXCEPT ![p] = u]
    BY <1>4
  <2>2. /\ u \in Op /\ u.pc = "clear" /\ u.value = v /\ u.old = op[p].old /\ u.at = 1
        /\ u.alone = op[p].alone
    <3>1. "clear" \in Pcs /\ 1 \in 0..MaxParts + 1 /\ u = [op[p] EXCEPT !.pc = "clear", !.at = 1]
      BY DEF Pcs
    <3> HIDE DEF u
    <3> QED BY <1>3, <3>1 DEF Op
  <2> HIDE DEF u
  <2>3. OpRight(u) /\ Achieves(u, base', chunks')
    BY <1>4, <2>2 DEF OpRight, Achieves
  <2>4. ~ untidy' => Leaves(u, base', chunks')
    BY <1>1, <1>2, <1>3, <1>4, <2>2, Counts DEF Leaves, Indices
  <2> QED BY <1>1, <1>2, <1>4, <2>1, <2>2, <2>3, <2>4, Facts, Worked
<1>5. CASE base' = v /\ ~ Short(v) /\ op' = [op EXCEPT ![p].pc = "surplus", ![p].at = Len(v) + 1]
           /\ UNCHANGED <<settled, untidy>>
  <2> DEFINE n == Len(v) + 1
             u == [op[p] EXCEPT !.pc = "surplus", !.at = n]
  <2>1. op' = [op EXCEPT ![p] = u]
    BY <1>5
  <2>2. n \in 0..MaxParts + 1 /\ n > Len(v)
    BY <1>2
  <2>3. /\ u \in Op /\ u.pc = "surplus" /\ u.value = v /\ u.old = op[p].old /\ u.at = n
        /\ u.alone = op[p].alone
    <3> HIDE DEF n
    <3> QED BY <1>3, <2>2 DEF Op, Pcs
  <2> HIDE DEF u
  <2>4. OpRight(u) /\ Achieves(u, base', chunks')
    BY <1>1, <1>2, <1>3, <1>5, <2>2, <2>3 DEF OpRight, Achieves
  <2>5. ~ untidy' => Leaves(u, base', chunks')
    <3>1. Count(v) = Len(v)
      BY <1>2, <1>5, Counts
    <3> QED BY <1>1, <1>2, <1>3, <1>5, <2>3, <3>1 DEF Leaves, Indices
  <2> QED BY <1>1, <1>2, <1>5, <2>1, <2>3, <2>4, <2>5, Facts, Worked
<1>6. CASE UNCHANGED base /\ GiveUp(p)
  BY <1>1, <1>6, Facts, Finished DEF GiveUp
<1> QED BY <1>4, <1>5, <1>6 DEF WriteBase

LEMMA ClearSurplusHolds ==
  ASSUME IInv, NEW p \in Procs, ClearSurplus(p)
  PROVE  IInv'
<1> USE StoreAssumption
<1> DEFINE v == op[p].value
           i == op[p].at
<1>1. op[p].pc = "surplus" /\ Writing(p) /\ UNCHANGED <<base, written, returned>>
  BY DEF ClearSurplus, Writing
<1>2. /\ v \in Values /\ ~ Short(v) /\ Len(v) \in 2..MaxParts /\ i > Len(v) /\ i \in Nat
      /\ Count(v) = Len(v)
  BY <1>1, Facts, Counts DEF OpRight
<1>3. /\ op[p] \in Op /\ op[p].old \in 0..MaxParts /\ chunks \in [Indices -> Parts \cup {None}]
      /\ op[p].alone => base = v /\ Matches(v, chunks, Len(v))
      /\ ~ untidy => Leaves(op[p], base, chunks) /\ op[p].alone
  BY <1>1, Facts DEF Achieves, Alone
<1>4. CASE i <= op[p].old
  <2> DEFINE u == [op[p] EXCEPT !.at = @ + 1]
  <2>1. i \in Indices
    BY <1>2, <1>3, <1>4 DEF Indices
  <2>2. /\ op' = [op EXCEPT ![p] = u] /\ settled' = settled
        /\ \/ chunks' = [chunks EXCEPT ![i] = None] /\ untidy' = untidy
           \/ chunks' = chunks /\ untidy' = TRUE
    BY <1>4 DEF ClearSurplus
  <2>3. /\ u \in Op /\ u.pc = "surplus" /\ u.value = v /\ u.old = op[p].old /\ u.at = i + 1
        /\ u.alone = op[p].alone
    BY <1>1, <1>2, <1>3, <1>4 DEF Op
  <2> HIDE DEF u
  <2>4. /\ chunks' \in [Indices -> Parts \cup {None}]
        /\ \A j \in Indices \ {i} : chunks'[j] = chunks[j]
        /\ ~ untidy' => ~ untidy /\ chunks'[i] = None
    BY <1>3, <2>1, <2>2
  <2>5. OpRight(u)
    BY <1>2, <2>3 DEF OpRight
  <2>6. Achieves(u, base', chunks')
    <3>1. \A j \in 1..Len(v) : j \in Indices \ {i}
      BY <1>2 DEF Indices
    <3>2. Matches(v, chunks, Len(v)) => Matches(v, chunks', Len(v))
      BY <2>4, <3>1 DEF Matches
    <3> QED BY <1>1, <1>3, <2>3, <3>2 DEF Achieves
  <2>7. ~ untidy' => Leaves(u, base', chunks')
    BY <1>1, <1>2, <1>3, <2>3, <2>4 DEF Leaves, Indices
  <2> QED BY <1>1, <2>2, <2>3, <2>4, <2>5, <2>6, <2>7, Facts, Worked
<1>5. CASE ~ i <= op[p].old
  <2>1. /\ op' = [op EXCEPT ![p] = Idle] /\ chunks' = chunks /\ untidy' = untidy
        /\ settled' = IF op[p].alone THEN v ELSE settled
    BY <1>5 DEF ClearSurplus, Succeed
  <2>2. op[p].alone => Readable' = v
    BY <1>1, <1>2, <1>3, <2>1 DEF Readable, Matches
  <2>3. ~ untidy => \A j \in Indices : j > Count(base') => chunks'[j] = None
    BY <1>1, <1>2, <1>3, <1>5, <2>1 DEF Leaves, Indices
  <2> QED BY <1>1, <2>1, <2>2, <2>3, Facts, Finished
<1> QED BY <1>4, <1>5

LEMMA DeleteBaseHolds ==
  ASSUME IInv, NEW p \in Procs, DeleteBase(p)
  PROVE  IInv'
<1> USE StoreAssumption
<1>1. op[p].pc = "delete" /\ Writing(p) /\ UNCHANGED <<chunks, written, returned>>
  BY DEF DeleteBase, Writing
<1>2. /\ op[p] \in Op /\ op[p].value = None /\ op[p].old \in 0..MaxParts
      /\ ~ untidy => Leaves(op[p], base, chunks)
  BY <1>1, Facts DEF OpRight
<1>3. CASE base' = None /\ op' = [op EXCEPT ![p].pc = "clear", ![p].at = 1]
           /\ UNCHANGED <<settled, untidy>>
  <2> DEFINE u == [op[p] EXCEPT !.pc = "clear", !.at = 1]
  <2>1. op' = [op EXCEPT ![p] = u]
    BY <1>3
  <2>2. /\ u \in Op /\ u.pc = "clear" /\ u.value = None /\ u.old = op[p].old /\ u.at = 1
        /\ u.alone = op[p].alone
    <3>1. "clear" \in Pcs /\ 1 \in 0..MaxParts + 1 /\ u = [op[p] EXCEPT !.pc = "clear", !.at = 1]
      BY DEF Pcs
    <3> HIDE DEF u
    <3> QED BY <1>2, <3>1 DEF Op
  <2> HIDE DEF u
  <2>3. OpRight(u) /\ Achieves(u, base', chunks')
    BY <1>3, <2>2 DEF OpRight, Achieves
  <2>4. ~ untidy' => Leaves(u, base', chunks')
    BY <1>1, <1>2, <1>3, <2>2 DEF Leaves, Indices
  <2> QED BY <1>1, <1>2, <1>3, <2>1, <2>2, <2>3, <2>4, Facts, Worked
<1>4. CASE UNCHANGED base /\ GiveUp(p)
  BY <1>1, <1>4, Facts, Finished DEF GiveUp
<1> QED BY <1>3, <1>4 DEF DeleteBase

LEMMA ClearHolds ==
  ASSUME IInv, NEW p \in Procs, Clear(p)
  PROVE  IInv'
<1> USE StoreAssumption
<1> DEFINE v == op[p].value
           i == op[p].at
<1>1. op[p].pc = "clear" /\ Writing(p) /\ UNCHANGED <<base, written, returned>>
  BY DEF Clear, Writing
<1>2. v \in Values \cup {None} /\ (v # None => Short(v)) /\ i \in Nat /\ i >= 1 /\ Count(v) = 0
  BY <1>1, Facts DEF OpRight, Count
<1>3. /\ op[p] \in Op /\ op[p].old \in 0..MaxParts /\ chunks \in [Indices -> Parts \cup {None}]
      /\ op[p].alone => base = v
      /\ ~ untidy => Leaves(op[p], base, chunks) /\ op[p].alone
  BY <1>1, Facts DEF Achieves, Alone
<1>4. CASE i <= op[p].old /\ chunks' = [chunks EXCEPT ![i] = None]
           /\ op' = [op EXCEPT ![p].at = i + 1] /\ UNCHANGED <<settled, untidy>>
  <2> DEFINE u == [op[p] EXCEPT !.at = i + 1]
  <2>1. i \in Indices /\ op' = [op EXCEPT ![p] = u]
    BY <1>2, <1>3, <1>4 DEF Indices
  <2>2. /\ u \in Op /\ u.pc = "clear" /\ u.value = v /\ u.old = op[p].old /\ u.at = i + 1
        /\ u.alone = op[p].alone
    <3> DEFINE n == i + 1
    <3>1. n \in 0..MaxParts + 1 /\ u = [op[p] EXCEPT !.at = n]
      BY <1>1, <1>2, <1>3, <1>4
    <3> HIDE DEF n, u
    <3>2. /\ u \in Op /\ u.pc = op[p].pc /\ u.value = v /\ u.old = op[p].old /\ u.at = n
          /\ u.alone = op[p].alone
      BY <1>3, <3>1 DEF Op
    <3> QED BY <1>1, <3>2 DEF n
  <2> HIDE DEF u
  <2>3. /\ chunks' \in [Indices -> Parts \cup {None}] /\ chunks'[i] = None
        /\ \A j \in Indices \ {i} : chunks'[j] = chunks[j]
    BY <1>3, <1>4, <2>1
  <2>4. OpRight(u) /\ Achieves(u, base', chunks')
    BY <1>1, <1>2, <1>3, <2>2 DEF OpRight, Achieves
  <2>5. ~ untidy' => Leaves(u, base', chunks')
    BY <1>1, <1>2, <1>3, <1>4, <2>2, <2>3 DEF Leaves, Indices
  <2> QED BY <1>1, <1>4, <2>1, <2>2, <2>3, <2>4, <2>5, Facts, Worked
<1>5. CASE UNCHANGED chunks /\ GiveUp(p)
  BY <1>1, <1>5, Facts, Finished DEF GiveUp
<1>6. CASE ~ i <= op[p].old /\ Succeed(p) /\ UNCHANGED chunks
  <2>1. op[p].alone => Readable' = v
    BY <1>1, <1>2, <1>3, <1>6 DEF Readable
  <2>2. ~ untidy => \A j \in Indices : j > Count(base') => chunks'[j] = None
    BY <1>1, <1>2, <1>3, <1>6 DEF Leaves, Indices
  <2> QED BY <1>1, <1>6, <2>1, <2>2, Facts, Finished DEF Succeed
<1> QED BY <1>4, <1>5, <1>6 DEF Clear

LEMMA GetHolds ==
  ASSUME IInv, NEW p \in Procs, Get(p)
  PROVE  IInv'
<1> USE StoreAssumption
<1>1. /\ op[p].pc = "idle" /\ ~ Writing(p) /\ base # None
      /\ UNCHANGED <<entries, written, settled, untidy>>
  BY DEF Get, Writing
<1>2. /\ base \in Values /\ base \in written /\ base \in Seq(Parts) /\ Len(base) \in 1..MaxParts
      /\ op[p] \in Op /\ op \in [Procs -> Op] /\ OpRight(op[p])
      /\ op[p].value # None => op[p].value \in written
  BY <1>1, Facts, ValuesHaveParts
<1>3. returned \subseteq Seq(Parts) /\ returned \subseteq written
  BY DEF IInv, TypeOK, ReadsAreWhole
<1>4. CASE Short(base)
  <2>1. returned' = returned \cup {base} /\ op' = [op EXCEPT ![p] = op[p]]
    BY <1>2, <1>4 DEF Get
  <2> QED BY <1>1, <1>2, <1>3, <2>1, WasRead
<1>5. CASE ~ Short(base)
  <2> DEFINE u == Start("gather", base, FALSE)
  <2>1. op' = [op EXCEPT ![p] = u] /\ returned' = returned
    BY <1>5 DEF Get
  <2>2. "gather" \in Pcs /\ FALSE \in BOOLEAN
    BY DEF Pcs
  <2>3. u \in Op /\ u.pc = "gather" /\ u.value = base /\ u.at = 1 /\ u.alone = FALSE
    <3>1. base \in Values \cup {None} /\ u = Start("gather", base, FALSE)
      BY <1>2
    <3> HIDE DEF u
    <3> QED BY <2>2, <3>1, StartIsAnOp
  <2> HIDE DEF u
  <2>4. OpRight(u)
    BY <1>1, <1>2, <1>5, <2>3 DEF OpRight
  <2> QED BY <1>1, <1>2, <1>3, <2>1, <2>3, <2>4, WasRead
<1> QED BY <1>4, <1>5

LEMMA GatherHolds ==
  ASSUME IInv, NEW p \in Procs, Gather(p)
  PROVE  IInv'
<1> USE StoreAssumption
<1> DEFINE i == op[p].at
           v == op[p].value
           got == Append(op[p].got, chunks[i])
<1>1. /\ op[p].pc = "gather" /\ ~ Writing(p) /\ chunks[i] # None
      /\ UNCHANGED <<entries, written, settled, untidy>>
  BY DEF Gather, Writing
<1>2. v \in Values /\ v \in written /\ i \in 1..Len(v) /\ ~ Short(v) /\ ~ op[p].alone
  BY <1>1, Facts DEF OpRight
<1>3. Len(v) \in 1..MaxParts /\ i \in Indices
  BY <1>2, ValuesHaveParts DEF Indices
<1>4. op[p] \in Op /\ got \in Seq(Parts)
  BY <1>1, <1>3, Facts
<1>5. returned \subseteq Seq(Parts) /\ returned \subseteq written
  BY DEF IInv, TypeOK, ReadsAreWhole
<1>6. CASE i < Len(v)
  <2> DEFINE u == [op[p] EXCEPT !.at = i + 1, !.got = got]
  <2>1. op' = [op EXCEPT ![p] = u] /\ returned' = returned
    BY <1>6 DEF Gather
  <2>2. i + 1 \in 0..MaxParts + 1 /\ i + 1 \in 1..Len(v)
    BY <1>2, <1>3, <1>6
  <2>3. u \in Op /\ u.pc = "gather" /\ u.value = v /\ u.at = i + 1 /\ u.alone = op[p].alone
    <3> HIDE DEF got
    <3> QED BY <1>1, <1>4, <2>2 DEF Op
  <2> HIDE DEF u
  <2>4. OpRight(u)
    BY <1>2, <2>2, <2>3 DEF OpRight
  <2> QED BY <1>1, <1>2, <1>5, <2>1, <2>3, <2>4, WasRead
<1>7. CASE ~ i < Len(v)
  <2>1. op' = [op EXCEPT ![p] = Idle] /\ returned' = returned \cup ({got} \cap {v})
    BY <1>7 DEF Gather
  <2>2. OpRight(Idle)
    BY IdleIsAnOp DEF OpRight
  <2> HIDE DEF got
  <2>3. returned' \subseteq Seq(Parts) /\ returned' \subseteq written
    BY <1>2, <1>4, <1>5, <2>1
  <2> QED BY <1>1, <2>1, <2>2, <2>3, IdleIsAnOp, WasRead
<1> QED BY <1>6, <1>7

LEMMA StopHolds ==
  ASSUME IInv, NEW p \in Procs, Stop(p)
  PROVE  IInv'
<1>1. /\ op' = [op EXCEPT ![p] = Idle] /\ untidy' = (untidy \/ Writing(p))
      /\ UNCHANGED <<base, chunks, written, returned, settled>>
  BY DEF Stop, GiveUp, entries
<1>2. CASE Writing(p)
  BY <1>1, <1>2, Facts, Finished
<1>3. CASE ~ Writing(p)
  <2>1. OpRight(Idle)
    BY IdleIsAnOp DEF OpRight
  <2>2. returned \subseteq Seq(Parts) /\ returned \subseteq written /\ untidy \in BOOLEAN
    BY DEF IInv, TypeOK, ReadsAreWhole
  <2> QED BY <1>1, <1>3, <2>1, <2>2, IdleIsAnOp, WasRead DEF entries
<1> QED BY <1>2, <1>3

LEMMA Onwards == IInv /\ [Next]_vars => IInv'
<1> SUFFICES ASSUME IInv, [Next]_vars PROVE IInv'
  OBVIOUS
<1>1. CASE UNCHANGED vars
  BY <1>1 DEF vars, entries, history, IInv, TypeOK, Alone, Writing, ReadsAreWhole,
       SettledRight, Readable, NothingIsLeftOver
<1>2. CASE Next
  BY <1>2, BeginHolds, CountHolds, WriteChunkHolds, UndoHolds, WriteBaseHolds,
     ClearSurplusHolds, DeleteBaseHolds, ClearHolds, GetHolds, GatherHolds, StopHolds DEF Next
<1> QED BY <1>1, <1>2

LEMMA Always == Spec => []IInv
BY Initially, Onwards, PTL DEF Spec

-----------------------------------------------------------------------------
(* TypeOK: in particular a Get never goes on with a missing chunk. *)
THEOREM TypeCorrect == Spec => []TypeOK
<1>1. IInv => TypeOK
  BY DEF IInv
<1> QED BY <1>1, Always, PTL

(* What is read was set, whole. *)
THEOREM WholeReads == Spec => []ReadsAreWhole
<1>1. IInv => ReadsAreWhole
  BY DEF IInv
<1> QED BY <1>1, Always, PTL

(* What was set or deleted last, and alone, is what is found. *)
THEOREM SettledReadable == Spec => []SettledIsReadable
<1>1. IInv => SettledIsReadable
  BY DEF IInv, SettledRight, SettledIsReadable
<1> QED BY <1>1, Always, PTL

(* Without failures and overlaps, nothing of an old value is left. *)
THEOREM LeavesNothing == Spec => []NothingIsLeftOver
<1>1. IInv => NothingIsLeftOver
  BY DEF IInv
<1> QED BY <1>1, Always, PTL
=============================================================================
