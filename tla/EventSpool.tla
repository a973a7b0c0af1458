------------------------------ MODULE EventSpool ------------------------------
(***************************************************************************)
(* The rows one account has in the synchronization tables and the          *)
(* statements on them: internal/state/sync_queries.go, and the deletion of *)
(* the rows in auth_queries.go.  Every operator stands for one transaction *)
(* or one statement.  A summary is its fingerprint: summaries that differ  *)
(* in nothing the fingerprint covers are the same.                         *)
(***************************************************************************)
EXTENDS Naturals, FiniteSets

CONSTANTS
  Convs, Prints,    \* conversations, and fingerprints of their summaries
  UnreadOf,         \* the unread state a fingerprint stands for
  NoPrint, NoHead, NoLease,
  Owners,           \* lease owners
  LeaseTTL,         \* SyncLeaseTTL, in ticks
  Retention,        \* DefaultEventRetention, in ticks
  MaxEvents,        \* DefaultEventLimit
  MaxTime, MaxSeq   \* bounds on the clock and the sequence

ASSUME SpoolAssumption ==
  /\ LeaseTTL \in Nat /\ Retention \in Nat /\ MaxTime \in Nat /\ MaxSeq \in Nat
  /\ MaxEvents \in Nat \ {0}
  /\ IsFiniteSet(Convs) /\ IsFiniteSet(Prints)
  /\ UnreadOf \in [Prints -> BOOLEAN]
  /\ NoPrint \notin Prints
  /\ NoLease \notin [owner : Owners, expires : Nat]
  /\ NoHead \notin [gen : Nat, ack : Nat]

VARIABLES
  now,              \* the machine's clock
  generation,       \* cursor_generation
  head,             \* the account's row of cursor_heads
  spool,            \* its events
  lastSeq,          \* the AUTOINCREMENT counter of events
  stored,           \* its conversations: their fingerprints
  lease             \* the dm-sync row of leases

MaybePrint == Prints \cup {NoPrint}
Summaries == [Convs -> MaybePrint]
Head == [gen : Nat, ack : 0..MaxSeq]
Kinds == {"created", "read_changed", "updated"}
EventId == [kind : Kinds, conv : Convs, print : Prints]
Event == [seq : 1..MaxSeq, id : EventId, at : 0..MaxTime]
Lease == [owner : Owners, expires : 0..(MaxTime + LeaseTTL)]

SpoolTypeOK ==
  /\ now \in 0..MaxTime /\ generation \in Nat
  /\ head \in Head \cup {NoHead}
  /\ spool \subseteq Event /\ lastSeq \in 0..MaxSeq
  /\ stored \in Summaries
  /\ lease \in Lease \cup {NoLease}

Nothing == [c \in Convs |-> NoPrint]
SpoolInit ==
  /\ now = 0 /\ generation = 0 /\ head = NoHead
  /\ spool = {} /\ lastSeq = 0
  /\ stored = Nothing /\ lease = NoLease

-----------------------------------------------------------------------------
(* AcquireSyncLease, ReleaseSyncLease *)
LeaseFree(p) == lease # NoLease => lease.owner = p \/ lease.expires <= now
AcquireLease(p) == LeaseFree(p) /\ lease' = [owner |-> p, expires |-> now + LeaseTTL]
ReleaseLease(p) ==
  lease' = IF lease # NoLease /\ lease.owner = p THEN NoLease ELSE lease

(* ValidateCursor *)
HasRow(seq) == \E e \in spool : e.seq = seq
ValidCursor(c) ==
  /\ c.gen = generation
  /\ head # NoHead /\ head.gen = c.gen
  /\ c.seq = 0 \/ c.seq = head.ack \/ HasRow(c.seq)

(* The event of a summary that replaces another one (conversationEvents).  *)
(* stableEventID makes equal events of one conversation the same.          *)
EventFor(c, old, new) ==
  [conv |-> c, print |-> new,
   kind |-> IF old = NoPrint THEN "created"
            ELSE IF UnreadOf[old] # UnreadOf[new] THEN "read_changed" ELSE "updated"]

-----------------------------------------------------------------------------
(* CommitSyncBatch: the generation and the head must be those of the poll; *)
(* a first poll inserts the head, unless another one has.                  *)
CommittableAnyGeneration(gen, first) == first \/ head # NoHead   \* mutant
Committable(gen, first) ==
  /\ generation = gen
  /\ IF head = NoHead THEN first ELSE head.gen = gen

(* An event whose ID has a row is not inserted again. *)
Inserted(ids) == ids \ {e.id : e \in spool}
Rows(ids, numbering, at) == {[seq |-> numbering[i], id |-> i, at |-> at] : i \in ids}
Numberings(ids) ==
  {f \in [ids -> (lastSeq + 1)..(lastSeq + Cardinality(ids))] :
     \A i, j \in ids : f[i] = f[j] => i = j}

Recent(events, at) == {e \in events : e.at + Retention >= at}
Newest(events) == {e \in events : Cardinality({d \in events : d.seq > e.seq}) < MaxEvents}

CommitBatch(gen, start, fetched, ids, at) ==
  LET new == Inserted(ids)
  IN  /\ lastSeq + Cardinality(new) <= MaxSeq
      /\ \E numbering \in Numberings(new) :
           spool' = Newest(Recent(spool \cup Rows(new, numbering, at), at))
      /\ lastSeq' = lastSeq + Cardinality(new)
      /\ head' = IF head = NoHead THEN [gen |-> gen, ack |-> start] ELSE head
      /\ stored' = [c \in Convs |-> IF fetched[c] = NoPrint THEN stored[c] ELSE fetched[c]]

-----------------------------------------------------------------------------
(* Mutant: LIMIT without ORDER BY. *)
EventsAfterUnordered(start, limit) ==
  {S \in SUBSET {e.seq : e \in {d \in spool : d.seq > start}} : Cardinality(S) <= limit}

(* ReadEventsAfter: the sequences of the first events after start. *)
EventsAfter(start, limit) ==
  LET later == {e \in spool : e.seq > start}
  IN  {{e.seq : e \in {d \in later : Cardinality({x \in later : x.seq < d.seq}) < limit}}}

(* AdvanceCursorHead *)
CanAdvance(gen, seq) ==
  /\ head # NoHead /\ head.gen = gen
  /\ seq <= head.ack \/ HasRow(seq)
AdvanceToAny(seq) == head' = [head EXCEPT !.ack = seq]   \* mutant
Advance(seq) == head' = [head EXCEPT !.ack = IF seq <= @ THEN @ ELSE seq]

(* UpsertConversationSummary *)
StoreSummary(c, print) == stored' = [stored EXCEPT ![c] = print]

(* authDeleteAccountData and authAdvanceGeneration: the lease stays. *)
DeleteAccountData ==
  /\ generation' = generation + 1
  /\ head' = NoHead /\ spool' = {} /\ stored' = Nothing
  /\ UNCHANGED lastSeq
=============================================================================
