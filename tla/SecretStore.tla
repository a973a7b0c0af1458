------------------------------ MODULE SecretStore ------------------------------
(***************************************************************************)
(* One secret in the OS keyring (internal/secret/keyring.go).  A value that *)
(* is too long for an entry is stored in parts, in chunk entries beside a   *)
(* base entry that then holds a manifest: their number and the digest of    *)
(* the value.  Commands in several processes set, delete and get it; each   *)
(* access to the keyring is atomic, may fail, and a process may end after   *)
(* any of them.                                                             *)
(*                                                                         *)
(* A value is the sequence of its parts (split).  Digests do not collide,   *)
(* so that a manifest is represented by its value: a base entry of several  *)
(* parts is a manifest.                                                     *)
(***************************************************************************)
EXTENDS Naturals, Sequences

CONSTANTS
  Procs,
  Parts,
  Values,        \* the values that are set
  MaxParts,
  None,          \* no entry, nothing found
  Unknown        \* an outcome that nothing is said of

ASSUME StoreAssumption ==
  /\ MaxParts \in Nat \ {0}
  /\ Values \subseteq UNION {[1..n -> Parts] : n \in 1..MaxParts}
  /\ None \notin Values /\ None \notin Parts
  /\ Unknown \notin Values /\ Unknown # None

VARIABLES
  base,          \* the base entry
  chunks,        \* the chunk entries
  op,            \* the operation of each process
  written,       \* history: values some Set was called with
  returned,      \* history: values some Get returned
  settled,       \* history: what the last operation achieved, run alone
  untidy         \* history: operations failed, overlapped or were cut off

entries == <<base, chunks>>
history == <<written, returned, settled, untidy>>
vars == <<entries, op, history>>

Indices == 1..MaxParts
Pcs == {"idle", "count", "chunk", "undo", "base", "surplus", "delete", "clear",
        "gather"}
Op == [pc : Pcs, value : Values \cup {None}, old : 0..MaxParts, at : 0..MaxParts + 1,
       got : Seq(Parts), alone : BOOLEAN]
Start(step, value, alone) ==
  [pc |-> step, value |-> value, old |-> 0, at |-> 1, got |-> <<>>, alone |-> alone]
Idle == Start("idle", None, FALSE)

TypeOK ==
  /\ base \in Values \cup {None} /\ chunks \in [Indices -> Parts \cup {None}]
  /\ op \in [Procs -> Op]
  /\ written \subseteq Values /\ returned \subseteq Seq(Parts)
  /\ settled \in Values \cup {None, Unknown} /\ untidy \in BOOLEAN

Init ==
  /\ base = None /\ chunks = [i \in Indices |-> None]
  /\ op = [p \in Procs |-> Idle]
  /\ written = {} /\ returned = {} /\ settled = None /\ untidy = FALSE

Short(v) == Len(v) = 1
Count(v) == IF v = None \/ Short(v) THEN 0 ELSE Len(v)
Writing(p) == op[p].pc \notin {"idle", "gather"}

-----------------------------------------------------------------------------
(* Set(value), and Delete with no value. *)
Begin(p, value) ==
  LET others == {q \in Procs : Writing(q)} IN
  /\ op[p].pc = "idle"
  /\ op' = [q \in Procs |->
              IF q = p THEN Start("count", value, others = {})
              ELSE [op[q] EXCEPT !.alone = FALSE]]
  /\ written' = written \cup ({value} \ {None})
  /\ settled' = Unknown
  /\ untidy' = (untidy \/ others # {})
  /\ UNCHANGED <<entries, returned>>

Succeed(p) ==
  /\ op' = [op EXCEPT ![p] = Idle]
  /\ settled' = IF op[p].alone THEN op[p].value ELSE settled
  /\ UNCHANGED untidy

(* An error ends the operation, and so does the end of its process. *)
GiveUp(p) ==
  /\ op' = [op EXCEPT ![p] = Idle]
  /\ untidy' = (untidy \/ Writing(p))
  /\ UNCHANGED settled

(* oldChunkCount: an entry that cannot be read counts as none. *)
CountOld(p) ==
  /\ op[p].pc = "count"
  /\ \E old \in {Count(base), 0} :
       /\ op' = [op EXCEPT ![p].old = old, ![p].pc =
                    IF op[p].value = None THEN "delete"
                    ELSE IF Short(op[p].value) THEN "base" ELSE "chunk"]
       /\ untidy' = (untidy \/ old # Count(base))
  /\ UNCHANGED <<entries, written, returned, settled>>

WriteChunk(p) ==
  LET i == op[p].at
      v == op[p].value
  IN
  /\ op[p].pc = "chunk"
  /\ \/ /\ chunks' = [chunks EXCEPT ![i] = v[i]]
        /\ op' = IF i = Len(v) THEN [op EXCEPT ![p].pc = "base"] ELSE [op EXCEPT ![p].at = i + 1]
     \/ /\ UNCHANGED chunks
        /\ op' = [op EXCEPT ![p].pc = "undo", ![p].old = i - 1, ![p].at = 1]
  /\ UNCHANGED <<base, history>>

(* The chunks before one that failed are removed again, errors ignored. *)
Undo(p) ==
  /\ op[p].pc = "undo"
  /\ IF op[p].at <= op[p].old
       THEN /\ \/ chunks' = [chunks EXCEPT ![op[p].at] = None]
               \/ UNCHANGED chunks
            /\ op' = [op EXCEPT ![p].at = @ + 1]
            /\ UNCHANGED <<settled, untidy>>
       ELSE GiveUp(p) /\ UNCHANGED chunks
  /\ UNCHANGED <<base, written, returned>>

WriteBase(p) ==
  LET v == op[p].value IN
  /\ op[p].pc = "base"
  /\ \/ /\ base' = v
        /\ op' = IF Short(v) THEN [op EXCEPT ![p].pc = "clear", ![p].at = 1]
                  ELSE [op EXCEPT ![p].pc = "surplus", ![p].at = Len(v) + 1]
        /\ UNCHANGED <<settled, untidy>>
     \/ UNCHANGED base /\ GiveUp(p)
  /\ UNCHANGED <<chunks, written, returned>>

ClearSurplusFromStart(p) ==   \* mutant: the clean-up begins at the first chunk
  /\ op[p].pc = "surplus"
  /\ \/ /\ op[p].old > Len(op[p].value)
        /\ chunks' = [i \in Indices |-> IF i <= op[p].old THEN None ELSE chunks[i]]
     \/ op[p].old <= Len(op[p].value) /\ UNCHANGED chunks
  /\ Succeed(p)
  /\ UNCHANGED <<base, written, returned>>

(* What a longer old value leaves is removed, errors ignored ... *)
ClearSurplus(p) ==
  /\ op[p].pc = "surplus"
  /\ IF op[p].at <= op[p].old
       THEN /\ \/ chunks' = [chunks EXCEPT ![op[p].at] = None] /\ UNCHANGED untidy
               \/ untidy' = TRUE /\ UNCHANGED chunks
            /\ op' = [op EXCEPT ![p].at = @ + 1]
            /\ UNCHANGED settled
       ELSE Succeed(p) /\ UNCHANGED chunks
  /\ UNCHANGED <<base, written, returned>>

DeleteBase(p) ==
  /\ op[p].pc = "delete"
  /\ \/ /\ base' = None
        /\ op' = [op EXCEPT ![p].pc = "clear", ![p].at = 1]
        /\ UNCHANGED <<settled, untidy>>
     \/ UNCHANGED base /\ GiveUp(p)
  /\ UNCHANGED <<chunks, written, returned>>

ClearAllButLast(p) ==   \* mutant: the last chunk is left
  /\ op[p].pc = "clear"
  /\ chunks' = [i \in Indices |-> IF i < op[p].old THEN None ELSE chunks[i]]
  /\ Succeed(p)
  /\ UNCHANGED <<base, written, returned>>

(* ... and all of them below a short value or none (deleteChunks). *)
Clear(p) ==
  /\ op[p].pc = "clear"
  /\ IF op[p].at <= op[p].old
       THEN \/ /\ chunks' = [chunks EXCEPT ![op[p].at] = None]
               /\ op' = [op EXCEPT ![p].at = @ + 1]
               /\ UNCHANGED <<settled, untidy>>
            \/ UNCHANGED chunks /\ GiveUp(p)
       ELSE Succeed(p) /\ UNCHANGED chunks
  /\ UNCHANGED <<base, written, returned>>

-----------------------------------------------------------------------------
(* Get: the base entry, then the chunks of a manifest, one by one. *)
Get(p) ==
  /\ op[p].pc = "idle" /\ base # None
  /\ IF Short(base)
       THEN returned' = returned \cup {base} /\ UNCHANGED op
       ELSE /\ op' = [op EXCEPT ![p] = Start("gather", base, FALSE)]
            /\ UNCHANGED returned
  /\ UNCHANGED <<entries, written, settled, untidy>>

GatherMissing(p) ==   \* mutant: a missing chunk does not end the search
  LET i == op[p].at
      got == Append(op[p].got, chunks[i])
  IN
  /\ op[p].pc = "gather"
  /\ IF i < Len(op[p].value)
       THEN op' = [op EXCEPT ![p].at = i + 1, ![p].got = got] /\ UNCHANGED returned
       ELSE /\ returned' = returned \cup ({got} \cap {op[p].value})
            /\ op' = [op EXCEPT ![p] = Idle]
  /\ UNCHANGED <<entries, written, settled, untidy>>

GatherUnchecked(p) ==   \* mutant: the digest is not compared
  LET i == op[p].at
      got == Append(op[p].got, chunks[i])
  IN
  /\ op[p].pc = "gather" /\ chunks[i] # None
  /\ IF i < Len(op[p].value)
       THEN op' = [op EXCEPT ![p].at = i + 1, ![p].got = got] /\ UNCHANGED returned
       ELSE returned' = returned \cup {got} /\ op' = [op EXCEPT ![p] = Idle]
  /\ UNCHANGED <<entries, written, settled, untidy>>

(* A chunk that is missing or cannot be read, or a digest that differs:     *)
(* nothing is found.                                                        *)
Gather(p) ==
  LET i == op[p].at
      got == Append(op[p].got, chunks[i])
  IN
  /\ op[p].pc = "gather" /\ chunks[i] # None
  /\ IF i < Len(op[p].value)
       THEN op' = [op EXCEPT ![p].at = i + 1, ![p].got = got] /\ UNCHANGED returned
       ELSE /\ returned' = returned \cup ({got} \cap {op[p].value})
            /\ op' = [op EXCEPT ![p] = Idle]
  /\ UNCHANGED <<entries, written, settled, untidy>>

Stop(p) ==
  /\ op[p].pc # "idle"
  /\ GiveUp(p)
  /\ UNCHANGED <<entries, written, returned>>

Next ==
  \E p \in Procs :
    \/ \E value \in Values \cup {None} : Begin(p, value)
    \/ CountOld(p) \/ WriteChunk(p) \/ Undo(p) \/ WriteBase(p) \/ ClearSurplus(p)
    \/ DeleteBase(p) \/ Clear(p) \/ Get(p) \/ Gather(p) \/ Stop(p)

Spec == Init /\ [][Next]_vars

-----------------------------------------------------------------------------
(* What a Get finds in the entries as they are. *)
Readable ==
  IF base # None /\ (Short(base) \/ \A i \in 1..Len(base) : chunks[i] = base[i])
    THEN base ELSE None

(* A Get returns a value that was set, whole, also when it reads the parts   *)
(* while other commands replace them and when values have parts in common.   *)
ReadsAreWhole == returned \subseteq written

(* The last Set or Delete that succeeded while no other one was running is   *)
(* what is found, whatever failed, crashed or overlapped before it.          *)
SettledIsReadable == settled # Unknown => Readable = settled

(* As long as every Set and Delete succeeds and none overlap, no part of an  *)
(* old secret is left in the keyring (keyring_test.go:87).                   *)
NothingIsLeftOver ==
  ~ untidy /\ (\A p \in Procs : ~ Writing(p)) =>
    \A i \in Indices : i > Count(base) => chunks[i] = None
=============================================================================
