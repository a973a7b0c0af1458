-------------------------------- MODULE DMSync --------------------------------
(***************************************************************************)
(* kcli dm poll and kcli dm watch (internal/dmsync, internal/app/sync.go): *)
(* processes of one profile that observe the remote inbox, spool what      *)
(* changed, print it and acknowledge what they printed.  A step is one     *)
(* statement, one transaction, one inbox scan or one output; a process may *)
(* stop between any two of them.  The model is the view of one account:    *)
(* another one that signs in looks like a sign-out of this one.            *)
(***************************************************************************)
EXTENDS EventSpool

CONSTANTS
  Limit,          \* events of one poll
  MaxGenerations  \* bound on sign-outs

ASSUME SyncAssumption ==
  Limit \in Nat \ {0} /\ MaxGenerations \in Nat

VARIABLES
  signedIn,       \* whether the account is signed in
  pc, op,         \* per process: next step and local variables
  owed,           \* history: sequences of events nobody has printed
  known           \* history: conversations and fingerprints announced by an
                  \* event, or stored on purpose without one

rows == <<generation, head, spool, lastSeq, stored, lease>>
history == <<owed, known>>
vars == <<now, rows, signedIn, pc, op, history>>

-----------------------------------------------------------------------------
PollPcs == {"position", "lease", "fetch", "compare", "commit", "read"}
Pcs == {"idle", "emit", "ack"} \cup PollPcs

(* The locals of one cycle.  sequence is its start, and then the sequence  *)
(* of its result; since says whether --since is given.                     *)
Op == [gen : Nat, sequence : 0..MaxSeq, since : BOOLEAN, first : BOOLEAN, at : 0..MaxTime,
       fetched : Summaries, ids : SUBSET EventId, silent : SUBSET Convs,
       batch : SUBSET (1..MaxSeq)]
NoOp == [gen |-> 0, sequence |-> 0, since |-> FALSE, first |-> FALSE, at |-> 0,
         fetched |-> Nothing, ids |-> {}, silent |-> {}, batch |-> {}]

TypeOK ==
  /\ SpoolTypeOK
  /\ signedIn \in BOOLEAN
  /\ pc \in [Owners -> Pcs] /\ op \in [Owners -> Op]
  /\ owed \subseteq 1..MaxSeq
  /\ known \subseteq Convs \X Prints

Init ==
  /\ SpoolInit
  /\ signedIn = TRUE
  /\ pc = [p \in Owners |-> "idle"] /\ op = [p \in Owners |-> NoOp]
  /\ owed = {} /\ known = {}

-----------------------------------------------------------------------------
Goto(p, step) == pc' = [pc EXCEPT ![p] = step]
Exit(p) == Goto(p, "idle") /\ op' = [op EXCEPT ![p] = NoOp]

(* CursorIdentity, the first step of a cycle.  A poll is one cycle, a watch *)
(* one after another.  The account was signed in when the command began    *)
(* (dmClient), and may no longer be.                                       *)
Identity(p) ==
  /\ pc[p] = "idle"
  /\ op' = [op EXCEPT ![p].gen = generation]
  /\ Goto(p, "position")
  /\ UNCHANGED <<now, rows, signedIn, history>>

(* CursorHead and startPosition, with --after, --since or neither.  Any    *)
(* cursor that a process printed may be given.                             *)
Printed == [gen : 0..generation, seq : {0} \cup ({e.seq : e \in spool} \ owed)]
Starts(p, start, since) ==
  /\ op' = [op EXCEPT ![p].sequence = start, ![p].since = since,
                      ![p].first = since /\ head = NoHead]
  /\ Goto(p, "lease")
Position(p) ==
  /\ pc[p] = "position"
  /\ \/ \E c \in Printed : ValidCursor(c) /\ Starts(p, c.seq, FALSE)
     \/ Starts(p, IF head = NoHead THEN 0 ELSE head.ack, TRUE)
     \/ head # NoHead /\ head.gen = op[p].gen /\ Starts(p, head.ack, FALSE)
  /\ UNCHANGED <<now, rows, signedIn, history>>

(* The lease, and the time of the observation. *)
Acquire(p) ==
  /\ pc[p] = "lease"
  /\ AcquireLease(p)
  /\ op' = [op EXCEPT ![p].at = now]
  /\ Goto(p, "fetch")
  /\ UNCHANGED <<now, generation, head, spool, lastSeq, stored,
                 signedIn, history>>

(* fetchConversations reads two pages, or five in every 120th cycle.  Any  *)
(* conversations may be on them, and they may have changed since.          *)
Fetch(p) ==
  /\ pc[p] = "fetch" /\ signedIn
  /\ \E fetched \in Summaries : op' = [op EXCEPT ![p].fetched = fetched]
  /\ Goto(p, "compare")
  /\ UNCHANGED <<now, rows, signedIn, history>>

(* The stored summaries, and the events of those that differ.  --since now *)
(* announces nothing, --since a time nothing that is older.                *)
Silences(p) == IF op[p].since THEN SUBSET Convs ELSE {{}}
Changed(p) == {c \in Convs : op[p].fetched[c] \notin {NoPrint, stored[c]}}
Compare(p) ==
  /\ pc[p] = "compare"
  /\ \E silent \in Silences(p) :
       op' = [op EXCEPT ![p].silent = Changed(p) \cap silent, ![p].since = FALSE,
                        ![p].ids = {EventFor(c, stored[c], op[p].fetched[c]) :
                                      c \in Changed(p) \ silent}]
  /\ Goto(p, "commit")
  /\ UNCHANGED <<now, rows, signedIn, history>>

Announces(p) == {<<i.conv, i.print>> : i \in op[p].ids}
                  \cup {<<c, op[p].fetched[c]>> : c \in op[p].silent}
Commit(p) ==
  /\ pc[p] = "commit"
  /\ Committable(op[p].gen, op[p].first)
  /\ CommitBatch(op[p].gen, op[p].sequence, op[p].fetched, op[p].ids, op[p].at)
  /\ known' = known \cup Announces(p)
  /\ owed' = owed \cup ((lastSeq + 1)..lastSeq')
  /\ op' = [op EXCEPT ![p].fetched = Nothing, ![p].ids = {}, ![p].silent = {},
                      ![p].first = FALSE, ![p].at = 0]
  /\ Goto(p, "read")
  /\ UNCHANGED <<now, generation, lease, signedIn>>

(* The events after the start, and the release of the lease. *)
LastOf(batch, start) ==
  IF batch = {} THEN start ELSE CHOOSE s \in batch : \A t \in batch : t <= s
Read(p) ==
  /\ pc[p] = "read"
  /\ \E batch \in EventsAfter(op[p].sequence, Limit) :
       op' = [op EXCEPT ![p].batch = batch,
                        ![p].sequence = LastOf(batch, op[p].sequence)]
  /\ ReleaseLease(p)
  /\ Goto(p, "emit")
  /\ UNCHANGED <<now, generation, head, spool, lastSeq, stored,
                 signedIn, history>>

-----------------------------------------------------------------------------
(* The output of the whole batch reaches the consumer, or of a part of it  *)
(* when the output breaks or the process ends.                             *)
Emit(p) ==
  /\ pc[p] = "emit"
  /\ \/ /\ owed' = owed \ op[p].batch
        /\ op' = [op EXCEPT ![p].batch = {}]
        /\ Goto(p, "ack")
     \/ /\ \E last \in op[p].batch : owed' = owed \ {s \in op[p].batch : s < last}
        /\ Exit(p)
  /\ UNCHANGED <<now, rows, signedIn, known>>

(* AdvanceCursorHead of a watch, DMAcknowledge of a poll.                  *)
Ack(p) ==
  /\ pc[p] = "ack"
  /\ \/ /\ CanAdvance(op[p].gen, op[p].sequence)
        /\ Advance(op[p].sequence)
     \/ ~ CanAdvance(op[p].gen, op[p].sequence) /\ UNCHANGED head
  /\ Exit(p)
  /\ UNCHANGED <<now, generation, spool, lastSeq, stored, lease, signedIn, history>>

(* An error of the cycle, a missing start or a lease that is held: the     *)
(* lease is released.                                                      *)
Fail(p) ==
  /\ pc[p] \in PollPcs
  /\ ReleaseLease(p)
  /\ Exit(p)
  /\ UNCHANGED <<now, generation, head, spool, lastSeq, stored, signedIn, history>>

(* A signal, a crash, or --no-advance after the output. *)
Stop(p) ==
  /\ pc[p] # "idle"
  /\ Exit(p)
  /\ UNCHANGED <<now, rows, signedIn, history>>

-----------------------------------------------------------------------------
(* dm list and dm get store each summary they read, dm mark-read what it   *)
(* made of one.  They do not look at the account or the generation again,  *)
(* so they store it after a sign-out.                                      *)
StoreRead ==
  /\ \E c \in Convs, print \in Prints :
       StoreSummary(c, print) /\ known' = known \cup {<<c, print>>}
  /\ UNCHANGED <<now, generation, head, spool, lastSeq, lease,
                 signedIn, pc, op, owed>>

(* AuthLogout, or AuthStoreAccount for another account. *)
SignOut ==
  /\ signedIn /\ signedIn' = FALSE
  /\ generation < MaxGenerations
  /\ DeleteAccountData
  /\ owed' = {} /\ known' = {}
  /\ UNCHANGED <<now, lease, pc, op>>

(* AuthStoreAccount.  Over another account it would advance the generation *)
(* once more, which makes more commits fail and nothing else.              *)
SignIn ==
  /\ ~ signedIn /\ signedIn' = TRUE
  /\ UNCHANGED <<now, rows, pc, op, history>>

Tick ==
  /\ now < MaxTime
  /\ now' = now + 1
  /\ UNCHANGED <<rows, signedIn, pc, op, history>>

Poll(p) ==
  \/ Identity(p) \/ Position(p) \/ Acquire(p) \/ Fetch(p) \/ Compare(p)
  \/ Commit(p) \/ Read(p) \/ Fail(p)
Process(p) == Poll(p) \/ Emit(p) \/ Ack(p) \/ Stop(p)
Next == (\E p \in Owners : Process(p)) \/ StoreRead \/ SignOut \/ SignIn \/ Tick
Spec == Init /\ [][Next]_vars

-----------------------------------------------------------------------------
(* An event in the spool that an acknowledgement covers was printed, by    *)
(* whichever process: broken outputs, replays from old cursors, several    *)
(* pollers and expired leases do not make the head pass an unprinted one.  *)
AcknowledgedWasPrinted ==
  \A e \in spool : head # NoHead /\ e.seq <= head.ack => e.seq \notin owed

(* What the next poll compares with was announced to the consumers or      *)
(* stored without an announcement on purpose, since the last sign-out: no  *)
(* poll that began before it brings a forgotten summary back, and no crash *)
(* separates a stored change from its event.                               *)
ComparedIsKnown ==
  \A c \in Convs : stored[c] # NoPrint => <<c, stored[c]>> \in known

(* Cursors do not outlive a sign-out: an account that is signed out has no *)
(* head and no events, whatever was under way, and the head of one that is *)
(* signed in is of the current generation.                                 *)
SignedOutIsEmpty ==
  /\ ~ signedIn => head = NoHead /\ spool = {}
  /\ head # NoHead => head.gen = generation
  /\ spool # {} => head # NoHead

(* Outputs that are acknowledged out of order do not move the head back.   *)
HeadOnlyAdvances ==
  [][(head # NoHead /\ head' # NoHead) => head'.gen = head.gen /\ head'.ack >= head.ack]_vars

(* Delivery is at least once (app/sync.go): every event of this generation *)
(* that an acknowledgement covers was printed, those that retention has    *)
(* removed included.                                                       *)
AtLeastOnce == head # NoHead => \A seq \in owed : head.ack < seq

-----------------------------------------------------------------------------
(* What types alone do not say: a silent change is to a fetched summary.   *)
SilentIsFetched ==
  \A p \in Owners :
    /\ pc[p] # "commit" => op[p].silent = {}
    /\ \A c \in op[p].silent : op[p].fetched[c] \in Prints
Typed == TypeOK /\ SilentIsFetched

(* Why a sign-out is final: a poll belongs to the generation it read, and  *)
(* reads the inbox only while the account is signed in.                    *)
GenerationsArePast == \A p \in Owners : op[p].gen <= generation
ScansAreSignedIn ==
  \A p \in Owners : pc[p] \in {"compare", "commit"} /\ op[p].gen = generation => signedIn
Leaving == GenerationsArePast /\ ScansAreSignedIn /\ SignedOutIsEmpty

(* Why a summary is known when it is stored: it was when it was compared,  *)
(* or the batch announces it.                                              *)
ScansAreKnown ==
  \A p \in Owners : pc[p] = "commit" /\ op[p].gen = generation =>
    \A c \in Convs : op[p].fetched[c] # NoPrint =>
      <<c, op[p].fetched[c]>> \in known \cup Announces(p)
Comparing == GenerationsArePast /\ ScansAreKnown /\ ComparedIsKnown

(* Why the head passes only what was printed: sequences grow, everybody    *)
(* prints in their order from a start below which all is printed, and a    *)
(* batch leaves out nothing above it.                                      *)
PrintedUpTo(seq) == \A e \in spool : e.seq <= seq => e.seq \notin owed
SequencesArePast ==
  /\ \A e \in spool : e.seq <= lastSeq
  /\ head # NoHead => head.ack <= lastSeq
  /\ \A p \in Owners : op[p].sequence <= lastSeq
PrintedInOrder == \A e \in spool : e.seq \notin owed => PrintedUpTo(e.seq)
FirstStartsAtZero ==
  \A p \in Owners : op[p].first => op[p].sequence = 0 /\ pc[p] # "read"
StartsArePrinted ==
  \A p \in Owners : pc[p] # "emit" => PrintedUpTo(op[p].sequence)
BatchesAreWhole ==
  \A p \in Owners : pc[p] = "emit" =>
    /\ \A s \in op[p].batch : s <= op[p].sequence
    /\ \A e \in spool :
         e.seq <= op[p].sequence /\ e.seq \in owed => e.seq \in op[p].batch
Printing ==
  /\ SequencesArePast /\ PrintedInOrder /\ FirstStartsAtZero
  /\ StartsArePrinted /\ BatchesAreWhole /\ AcknowledgedWasPrinted
=============================================================================
