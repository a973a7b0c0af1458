---------------------------- MODULE WebsiteProofs ----------------------------
(***************************************************************************)
(* What serves the public website, for every number of clients, commands   *)
(* and readers: requests are paced, a search steps over nothing it         *)
(* fetched, the index of sellers forgets for a cause, and the metadata     *)
(* that is served is recent.                                               *)
(***************************************************************************)
EXTENDS MCWebsite, FiniteSetTheorems, FunctionTheorems, WellFoundedInduction, TLAPS

(* The later of two instants. *)
LEMMA LaterOfTwo ==
  ASSUME NEW s \in Nat, NEW t \in Nat
  PROVE  Later(s, t) \in Nat /\ s <= Later(s, t) /\ t <= Later(s, t)
           /\ (Later(s, t) = s \/ Later(s, t) = t)
BY DEF Later

(* A client starts after every slot that was reserved before. *)
LEMMA SlotStartIsLater ==
  ASSUME TypeOK, NEW c \in Clients
  PROVE  SlotStart(seen[c]) \in Nat /\ next <= SlotStart(seen[c])
<1>1. seen[c] \in Nat /\ next \in Nat
  BY SpacingAssumption DEF TypeOK, RateTypeOK
<1> QED
  BY <1>1, LaterOfTwo DEF SlotStart

-----------------------------------------------------------------------------
LEMMA InitTyped == Init => Typed
BY SpacingAssumption, PacingAssumption
   DEF Init, Typed, TypeOK, RateTypeOK, RateInit, RequestsLeft, Asking, Pcs

LEMMA StepTyped == Typed /\ [Next]_vars => Typed'
<1> SUFFICES ASSUME Typed, [Next]_vars PROVE Typed'
  OBVIOUS
<1> USE SpacingAssumption, PacingAssumption
        DEF Typed, TypeOK, RateTypeOK, RequestsLeft, Asking, Pcs
<1>1. ASSUME NEW c \in Clients, Begin(c) PROVE Typed'
  BY <1>1 DEF Begin, Goto, ReadClock, history
<1>2. ASSUME NEW c \in Clients, Check(c) PROVE Typed'
  BY <1>2 DEF Check, Goto, ReadClock, Finish, history
<1>3. ASSUME NEW c \in Clients, Reserve(c) PROVE Typed'
  <2>1. SlotStart(seen[c]) \in Nat
    BY SlotStartIsLater
  <2>2. next' \in Nat
    BY <1>3, <2>1 DEF Reserve, ReserveSlot
  <2> QED
    BY <1>3, <2>1, <2>2 DEF Reserve, Goto, Finish, history
<1>4. ASSUME NEW c \in Clients, Wake(c) PROVE Typed'
  BY <1>4 DEF Wake, Goto, ReadClock, history
<1>5. ASSUME NEW c \in Clients, Recheck(c) PROVE Typed'
  BY <1>5 DEF Recheck, Goto, Finish, history
<1>6. ASSUME NEW c \in Clients, Dispatch(c) PROVE Typed'
  <2>1. [client |-> c, slot |-> slot[c], at |-> now] \in Request
    BY DEF Request
  <2> QED
    BY <1>6, <2>1 DEF Dispatch, Goto
<1>7. ASSUME NEW c \in Clients, Answer(c) PROVE Typed'
  <2>1. ASSUME NEW r \in RetryAfters PROVE Later(MinCooldown, r) \in Nat
    BY LaterOfTwo
  <2>2. delay' \in [Clients -> Nat]
    BY <1>7, <2>1 DEF Answer, Finish
  <2> QED
    BY <1>7, <2>2 DEF Answer, Goto, ReadClock, Finish, history
<1>8. ASSUME NEW c \in Clients, Persist(c) PROVE Typed'
  <2>1. seen[c] + delay[c] \in Nat
    OBVIOUS
  <2>2. cooldown' \in Nat /\ quiet' \in Nat
    BY <1>8, <2>1, LaterOfTwo DEF Persist, SetCooldown
  <2> QED
    BY <1>8, <2>2 DEF Persist, Goto, Finish
<1>9. ASSUME NEW c \in Clients, Stop(c) PROVE Typed'
  BY <1>9 DEF Stop, Goto, Finish, history
<1>10. CASE Tick
  BY <1>10 DEF Tick, local, history
<1>11. CASE UNCHANGED vars
  BY <1>11 DEF vars, local, history
<1> QED
  BY <1>1, <1>2, <1>3, <1>4, <1>5, <1>6, <1>7, <1>8, <1>9, <1>10, <1>11
  DEF Next, Client

(* Every variable keeps its type, and an operation never exceeds its       *)
(* number of requests.                                                     *)
THEOREM TypeCorrect == Spec => []TypeOK
<1>1. Typed => TypeOK
  BY DEF Typed
<1> QED
  BY InitTyped, StepTyped, <1>1, PTL DEF Spec

-----------------------------------------------------------------------------
LEMMA InitPacing == Init => Pacing
BY DEF Init, Pacing, Starts, NoneEarly, RequestsArePaced, Holding

(* Steps that neither reserve nor dispatch: no client begins to hold a     *)
(* slot, and the requests stay what they are.                              *)
LEMMA QuietStepPaced ==
  ASSUME Typed, Pacing, UNCHANGED <<requests, next>>, now <= now', now' \in Nat,
         \A c \in Clients : pc'[c] \in Holding => pc[c] \in Holding /\ slot'[c] = slot[c],
         \A c \in Clients : pc'[c] \in {"recheck", "dispatch"} =>
           slot'[c] <= now'
  PROVE  Pacing'
BY DEF Pacing, Starts, NoneEarly, RequestsArePaced, Apart, Typed, TypeOK, RateTypeOK, Request

LEMMA StepPacing == Typed /\ Pacing /\ [Next]_vars => Pacing'
<1> SUFFICES ASSUME Typed, Pacing, [Next]_vars PROVE Pacing'
  OBVIOUS
<1> USE SpacingAssumption DEF Typed, TypeOK, RateTypeOK
<1>1. ASSUME NEW c \in Clients, Begin(c) PROVE Pacing'
  BY <1>1, QuietStepPaced DEF Begin, Goto, history, Holding, Pacing, NoneEarly
<1>2. ASSUME NEW c \in Clients, Check(c) PROVE Pacing'
  BY <1>2, QuietStepPaced DEF Check, Goto, Finish, history, Holding, Pacing, NoneEarly
<1>3. ASSUME NEW c \in Clients, Reserve(c) PROVE Pacing'
  <2>1. CASE ~ Fits(seen[c], QueueLimit) /\ Finish(c) /\ UNCHANGED next
    BY <1>3, <2>1, QuietStepPaced DEF Reserve, Goto, Finish, history, Holding, Pacing, NoneEarly
  <2>2. CASE /\ \E j \in Jitters : ReserveSlot(seen[c], j)
             /\ slot' = [slot EXCEPT ![c] = SlotStart(seen[c])]
             /\ Goto(c, "sleep")
    <3>1. SlotStart(seen[c]) \in Nat /\ next <= SlotStart(seen[c])
      BY SlotStartIsLater
    <3>2. /\ next' \in Nat /\ SlotStart(seen[c]) + Spacing <= next'
          /\ next + Spacing <= next'
      BY <2>2, <3>1 DEF ReserveSlot
    <3>3. /\ slot'[c] = SlotStart(seen[c]) /\ pc'[c] = "sleep"
          /\ \A d \in Clients \ {c} : slot'[d] = slot[d] /\ pc'[d] = pc[d]
      BY <2>2 DEF Goto
    <3>4. UNCHANGED <<now, requests>>
      BY <1>3 DEF Reserve, history
    <3>5. RequestsArePaced'
      BY <3>4 DEF Pacing, RequestsArePaced, Apart
    <3>6. NoneEarly'
      BY <3>3, <3>4 DEF Pacing, NoneEarly
    <3>7. \A r \in requests : r.slot \in Nat
      BY DEF Request
    <3>8. Starts'
      BY <3>1, <3>2, <3>3, <3>4, <3>7 DEF Pacing, Starts, Apart, Holding
    <3> QED
      BY <3>5, <3>6, <3>8 DEF Pacing
  <2> QED
    BY <1>3, <2>1, <2>2 DEF Reserve
<1>4. ASSUME NEW c \in Clients, Wake(c) PROVE Pacing'
  BY <1>4, QuietStepPaced DEF Wake, Goto, history, Holding, Pacing, NoneEarly
<1>5. ASSUME NEW c \in Clients, Recheck(c) PROVE Pacing'
  BY <1>5, QuietStepPaced DEF Recheck, Goto, Finish, history, Holding, Pacing, NoneEarly
<1>6. ASSUME NEW c \in Clients, Dispatch(c) PROVE Pacing'
  <2> DEFINE q == [client |-> c, slot |-> slot[c], at |-> now]
  <2>1. /\ requests' = requests \cup {q} /\ UNCHANGED <<now, next, slot>>
        /\ pc[c] = "dispatch" /\ pc'[c] = "wait"
        /\ \A d \in Clients \ {c} : pc'[d] = pc[d]
    BY <1>6 DEF Dispatch, Goto
  <2>2. \A r \in requests : r.slot \in Nat
    BY DEF Request
  <2>3. /\ q.slot = slot[c] /\ q.at = now /\ slot[c] \in Nat
        /\ slot[c] <= now /\ slot[c] + Spacing <= next
        /\ \A r \in requests : Apart(r.slot, slot[c])
        /\ \A d \in Clients : pc[d] \in Holding /\ d # c => Apart(slot[c], slot[d])
    BY <2>1 DEF Pacing, Starts, NoneEarly, Holding
  <2>4. \A s, t \in Nat : Apart(s, t) => Apart(t, s)
    BY DEF Apart
  <2>5. RequestsArePaced'
    <3>1. \A r \in requests' : r.slot <= r.at
      BY <2>1, <2>3 DEF Pacing, RequestsArePaced
    <3>2. \A r, s \in requests' : r # s => Apart(r.slot, s.slot)
      BY <2>1, <2>2, <2>3, <2>4 DEF Pacing, RequestsArePaced
    <3> QED
      BY <3>1, <3>2 DEF RequestsArePaced, Apart
  <2>6. NoneEarly'
    BY <2>1 DEF Pacing, NoneEarly
  <2>7. Starts'
    <3>1. \A r \in requests' : r.slot + Spacing <= next'
      BY <2>1, <2>3 DEF Pacing, Starts
    <3>2. ASSUME NEW d \in Clients, pc'[d] \in Holding
          PROVE  /\ slot'[d] + Spacing <= next'
                 /\ \A r \in requests' : Apart(r.slot, slot'[d])
                 /\ \A f \in Clients : pc'[f] \in Holding /\ f # d => Apart(slot'[d], slot'[f])
      <4>1. d # c /\ pc[d] \in Holding
        BY <2>1, <3>2 DEF Holding
      <4>2. \A f \in Clients : pc'[f] \in Holding => pc[f] \in Holding
        BY <2>1 DEF Holding
      <4> QED
        BY <2>1, <2>3, <4>1, <4>2 DEF Pacing, Starts
    <3> QED
      BY <3>1, <3>2 DEF Starts, Apart
  <2> QED
    BY <2>5, <2>6, <2>7 DEF Pacing
<1>7. ASSUME NEW c \in Clients, Answer(c) PROVE Pacing'
  BY <1>7, QuietStepPaced DEF Answer, Goto, Finish, history, Holding, Pacing, NoneEarly
<1>8. ASSUME NEW c \in Clients, Persist(c) PROVE Pacing'
  BY <1>8, QuietStepPaced DEF Persist, Goto, Finish, Holding, Pacing, NoneEarly
<1>9. ASSUME NEW c \in Clients, Stop(c) PROVE Pacing'
  BY <1>9, QuietStepPaced DEF Stop, Goto, Finish, history, Holding, Pacing, NoneEarly
<1>10. CASE Tick
  BY <1>10, QuietStepPaced DEF Tick, local, history, Pacing, NoneEarly
<1>11. CASE UNCHANGED vars
  BY <1>11, QuietStepPaced DEF vars, local, history, Pacing, NoneEarly
<1> QED
  BY <1>1, <1>2, <1>3, <1>4, <1>5, <1>6, <1>7, <1>8, <1>9, <1>10, <1>11
  DEF Next, Client

(* No two requests of any clients share a start or have starts less than   *)
(* Spacing apart, and none is early, however the clients are interleaved,  *)
(* held up and stopped.                                                    *)
THEOREM Paced == Spec => []RequestsArePaced
<1>1. Pacing => RequestsArePaced
  BY DEF Pacing
<1> QED
  BY InitTyped, StepTyped, InitPacing, StepPacing, <1>1, PTL DEF Spec

-----------------------------------------------------------------------------
LEMMA InitSilence == Init => Silence
BY DEF Init, RateInit, Silence, ClocksPast, SilenceIsKept

LEMMA StepSilence == Typed /\ Silence /\ [Next]_vars => Silence'
<1> SUFFICES ASSUME Typed, Silence, [Next]_vars PROVE Silence'
  OBVIOUS
<1> USE SpacingAssumption DEF Typed, TypeOK, RateTypeOK, Silence, ClocksPast, SilenceIsKept
<1>1. ASSUME NEW c \in Clients, Begin(c) PROVE Silence'
  BY <1>1 DEF Begin, Goto, ReadClock, history
<1>2. ASSUME NEW c \in Clients, Check(c) PROVE Silence'
  BY <1>2 DEF Check, Goto, ReadClock, Finish, history
<1>3. ASSUME NEW c \in Clients, Reserve(c) PROVE Silence'
  BY <1>3 DEF Reserve, Goto, Finish, history
<1>4. ASSUME NEW c \in Clients, Wake(c) PROVE Silence'
  BY <1>4 DEF Wake, Goto, ReadClock, history
<1>5. ASSUME NEW c \in Clients, Recheck(c) PROVE Silence'
  <2>1. pc'[c] = "dispatch" => quiet <= now
    BY <1>5 DEF Recheck, Goto, Finish, Cooling
  <2> QED
    BY <1>5, <2>1 DEF Recheck, Goto, Finish, history
<1>6. ASSUME NEW c \in Clients, Dispatch(c) PROVE Silence'
  BY <1>6 DEF Dispatch, Goto
<1>7. ASSUME NEW c \in Clients, Answer(c) PROVE Silence'
  BY <1>7 DEF Answer, Goto, ReadClock, Finish, history
<1>8. ASSUME NEW c \in Clients, Persist(c) PROVE Silence'
  <2> DEFINE until == seen[c] + delay[c]
  <2>1. until \in Nat
    OBVIOUS
  <2>2. quiet' = Later(quiet, until) /\ cooldown' = Later(cooldown, until)
    BY <1>8 DEF Persist, SetCooldown
  <2>3. quiet' <= cooldown'
    BY <2>1, <2>2 DEF Later
  <2>4. /\ cleared' = {d \in Clients : pc[d] = "dispatch"} /\ now' = now
        /\ pc' = [pc EXCEPT ![c] = "idle"] /\ seen' = [seen EXCEPT ![c] = 0]
    BY <1>8 DEF Persist, Finish, Goto
  <2> QED
    BY <2>3, <2>4
<1>9. ASSUME NEW c \in Clients, Stop(c) PROVE Silence'
  BY <1>9 DEF Stop, Goto, Finish, history
<1>10. CASE Tick
  BY <1>10 DEF Tick, local, history
<1>11. CASE UNCHANGED vars
  BY <1>11 DEF vars, local, history
<1> QED
  BY <1>1, <1>2, <1>3, <1>4, <1>5, <1>6, <1>7, <1>8, <1>9, <1>10, <1>11
  DEF Next, Client

(* A recorded 429 silences every client that has not passed its last check *)
(* for as long as the longest of the recorded answers asks.                *)
THEOREM Silenced == Spec => []SilenceIsKept
<1>1. Silence => SilenceIsKept
  BY DEF Silence
<1> QED
  BY InitTyped, StepTyped, InitSilence, StepSilence, <1>1, PTL DEF Spec

-----------------------------------------------------------------------------
LEMMA InitQueueing == Init => Queueing
BY SpacingAssumption, PacingAssumption DEF Init, RateInit, Queueing, ClocksPast, QueueIsBounded

LEMMA StepQueueing == Typed /\ Queueing /\ [Next]_vars => Queueing'
<1> SUFFICES ASSUME Typed, Queueing, [Next]_vars PROVE Queueing'
  OBVIOUS
<1> USE SpacingAssumption, PacingAssumption
        DEF Typed, TypeOK, RateTypeOK, Queueing, ClocksPast, QueueIsBounded
<1>1. ASSUME NEW c \in Clients, Begin(c) PROVE Queueing'
  BY <1>1 DEF Begin, ReadClock
<1>2. ASSUME NEW c \in Clients, Check(c) PROVE Queueing'
  BY <1>2 DEF Check, ReadClock, Finish
<1>3. ASSUME NEW c \in Clients, Reserve(c) PROVE Queueing'
  <2>1. CASE ~ Fits(seen[c], QueueLimit) /\ Finish(c) /\ UNCHANGED next
    BY <1>3, <2>1 DEF Reserve, Finish
  <2>2. CASE /\ Fits(seen[c], QueueLimit)
             /\ \E j \in Jitters : ReserveSlot(seen[c], j)
             /\ UNCHANGED seen
    <3>1. SlotStart(seen[c]) \in Nat
      BY SlotStartIsLater
    <3>2. PICK j \in Jitters : next' = SlotStart(seen[c]) + Spacing + j
      BY <2>2 DEF ReserveSlot
    <3>3. j \in Nat /\ j <= MaxJitter
      OBVIOUS
    <3>4. SlotStart(seen[c]) <= now + QueueLimit
      BY <2>2, <3>1 DEF Fits
    <3> QED
      BY <1>3, <2>2, <3>1, <3>2, <3>3, <3>4 DEF Reserve
  <2> QED
    BY <1>3, <2>1, <2>2 DEF Reserve
<1>4. ASSUME NEW c \in Clients, Wake(c) PROVE Queueing'
  BY <1>4 DEF Wake, ReadClock
<1>5. ASSUME NEW c \in Clients, Recheck(c) PROVE Queueing'
  BY <1>5 DEF Recheck, Finish
<1>6. ASSUME NEW c \in Clients, Dispatch(c) PROVE Queueing'
  BY <1>6 DEF Dispatch
<1>7. ASSUME NEW c \in Clients, Answer(c) PROVE Queueing'
  BY <1>7 DEF Answer, ReadClock, Finish
<1>8. ASSUME NEW c \in Clients, Persist(c) PROVE Queueing'
  BY <1>8 DEF Persist, Finish
<1>9. ASSUME NEW c \in Clients, Stop(c) PROVE Queueing'
  BY <1>9 DEF Stop, Finish
<1>10. CASE Tick
  BY <1>10 DEF Tick, local
<1>11. CASE UNCHANGED vars
  BY <1>11 DEF vars, local
<1> QED
  BY <1>1, <1>2, <1>3, <1>4, <1>5, <1>6, <1>7, <1>8, <1>9, <1>10, <1>11
  DEF Next, Client

(* No number of waiting clients pushes the queue beyond its limit. *)
THEOREM BoundedQueue == Spec => []QueueIsBounded
<1>1. Queueing => QueueIsBounded
  BY DEF Queueing
<1> QED
  BY InitTyped, StepTyped, InitQueueing, StepQueueing, <1>1, PTL DEF Spec

-----------------------------------------------------------------------------
(* The first of some numbers. *)
LEMMA FirstOf ==
  ASSUME NEW S \in SUBSET Nat, S # {}
  PROVE  \E m \in S : \A k \in S : m <= k
<1>1. PICK m \in S : \A k \in S : ~ (<<k, m>> \in OpToRel(<, Nat))
  BY NatLessThanWellFounded, WFMin
<1>2. ASSUME NEW k \in S PROVE m <= k
  <2>1. ~ (<<k, m>> \in OpToRel(<, Nat)) BY <1>1
  <2> QED BY <2>1 DEF OpToRel
<1> QED BY <1>2

LEMMA PageTypes ==
  ASSUME NEW page \in Page
  PROVE  /\ \E n \in Nat : DOMAIN page.rows = 1..n
         /\ \A i \in DOMAIN page.rows : page.rows[i] \in Ads
         /\ page.flawed \in BOOLEAN /\ page.next \in Nat \cup {NoPage, Unreported}
<1>1. page.rows \in Rows BY DEF Page
<1>2. PICK n \in 0..MaxRows : page.rows \in [1..n -> Ads] BY <1>1 DEF Rows
<1>3. n \in Nat BY <1>2, SearchAssumption
<1> QED BY <1>2, <1>3 DEF Page

LEMMA NewIdsAreAds ==
  ASSUME NEW page \in Page
  PROVE  /\ NewIds(page) \subseteq Ads /\ NewIds(page) \cap search.seen = {}
         /\ KeptIds(page) \subseteq Ads
<1>1. \A i \in Scanned(page) : i \in DOMAIN page.rows BY DEF Scanned
<1> QED BY <1>1, PageTypes DEF NewIds, KeptIds, IsNew

(* A page that was not cut shows nothing that the search has not seen then.  *)
LEMMA ShownIsSeen ==
  ASSUME NEW page \in Page, ~ Unscanned(page)
  PROVE  {page.rows[i] : i \in DOMAIN page.rows} \subseteq search.seen \cup NewIds(page)
<1> SUFFICES ASSUME NEW i \in DOMAIN page.rows
             PROVE  page.rows[i] \in search.seen \cup NewIds(page)
  OBVIOUS
<1>0. PICK n \in Nat : DOMAIN page.rows = 1..n BY PageTypes
<1> DEFINE S == {j \in 1..n : page.rows[j] = page.rows[i]}
<1>1. S \in SUBSET Nat /\ S # {} BY <1>0
<1>2. PICK m \in S : \A k \in S : m <= k BY <1>1, FirstOf
<1>3. m \in 1..n /\ page.rows[m] = page.rows[i] BY <1>2
<1>4. m \in Scanned(page) BY <1>0, <1>3 DEF Unscanned
<1>5. ASSUME page.rows[i] \notin search.seen PROVE IsNew(page, m)
  <2>1. ASSUME NEW j \in 1..(m - 1), page.rows[j] = page.rows[m] PROVE FALSE
    <3>1. j \in S BY <1>3, <2>1
    <3> QED BY <1>2, <1>3, <2>1, <3>1
  <2> QED BY <1>3, <1>5, <2>1 DEF IsNew
<1> QED BY <1>3, <1>4, <1>5 DEF NewIds

(* A page is only cut by the listing that fills the output.                  *)
LEMMA CutIsFull ==
  ASSUME NEW page \in Page, Unscanned(page), search \in Search
  PROVE  Cardinality(search.returned \cup KeptIds(page)) >= search.limit
<1>0. PICK n \in Nat : DOMAIN page.rows = 1..n BY PageTypes
<1> DEFINE S == {j \in 1..n : Fills(page, j)}
<1>1. S # {}
  <2>1. PICK i \in 1..n : i \notin Scanned(page) BY <1>0 DEF Unscanned, Scanned
  <2>2. PICK j \in 1..(i - 1) : Fills(page, j) BY <1>0, <2>1 DEF Scanned
  <2>3. j \in 1..n BY <1>0, <2>1, <2>2
  <2> QED BY <2>2, <2>3
<1>2. PICK m \in S : \A k \in S : m <= k
  <2>1. S \in SUBSET Nat OBVIOUS
  <2> HIDE DEF S
  <2> QED BY <1>1, <2>1, FirstOf
<1>3. m \in 1..n /\ Fills(page, m) BY <1>2
<1>4. \A k \in 1..m : k \in Scanned(page)
  <2>1. ASSUME NEW k \in 1..m, NEW j \in 1..(k - 1), Fills(page, j) PROVE FALSE
    <3>1. j \in S BY <1>3, <2>1
    <3> QED BY <1>2, <1>3, <2>1, <3>1
  <2>2. \A k \in 1..m : k \in DOMAIN page.rows BY <1>0, <1>3
  <2> QED BY <2>1, <2>2 DEF Scanned
<1>5. KeptUpTo(page, m) \subseteq KeptIds(page)
  BY <1>4 DEF KeptUpTo, KeptIds, NewIds, IsKept
<1> DEFINE T == search.returned \cup KeptIds(page)
           U == search.returned \cup KeptUpTo(page, m)
<1>6. search.returned \subseteq Ads BY DEF Search
<1>7. T \subseteq Ads BY <1>6, NewIdsAreAds
<1>8. IsFiniteSet(T) BY <1>7, SearchAssumption, FS_Subset
<1>9. U \in SUBSET T BY <1>5
<1>10. Cardinality(U) <= Cardinality(T) BY <1>8, <1>9, FS_Subset
<1>11. Cardinality(U) = search.limit BY <1>3 DEF Fills
<1> QED BY <1>10, <1>11

-----------------------------------------------------------------------------
(* What holds between the steps of a search.  seen is what was returned and  *)
(* what the user excluded; all that was shown was seen, unless a page was    *)
(* cut; and every page without a new listing was counted.                    *)
Underway == search.phase \in {"fetch", "found"}
Accounted ==
  /\ search.returned = search.seen \ Excluded
  /\ search.phase # "done" => search.offered \subseteq search.seen
  /\ search.phase = "done" =>
       \/ search.offered \subseteq search.seen
       \/ search.truncated /\ search.partial /\ search.next = NoPage
Counted ==
  /\ search.phase \notin {"done", "failed"} => search.noNew <= 1
  /\ search.fetches <= 2 * Cardinality(search.seen) + search.noNew
SearchInv == SearchTypeOK /\ Accounted /\ Counted /\ CompleteMeansExhausted

LEMMA SearchTypes ==
  ASSUME search \in Search
  PROVE  /\ search.page \in Nat /\ search.limit \in Nat /\ search.fetches \in Nat
         /\ search.noNew \in 0..2 /\ search.partial \in BOOLEAN /\ search.truncated \in BOOLEAN
         /\ search.seen \subseteq Ads /\ search.returned \subseteq Ads /\ search.offered \subseteq Ads
         /\ IsFiniteSet(search.seen) /\ Cardinality(search.seen) \in Nat
<1>1. search.seen \subseteq Ads BY DEF Search
<1>2. IsFiniteSet(search.seen) BY <1>1, SearchAssumption, FS_Subset
<1>3. Cardinality(search.seen) \in Nat BY <1>2, FS_CardinalityType
<1> QED BY <1>1, <1>2, <1>3 DEF Search

(* The body of the loop, field by field. *)
LEMMA Taking ==
  ASSUME search \in Search, NEW page \in Page, TakePage(page)
  PROVE  LET reason == StopReason(page) IN
         /\ search'.phase = IF reason = "none" THEN "fetch" ELSE "done"
         /\ search'.fetches = search.fetches + 1
         /\ search'.offered = search.offered \cup {page.rows[i] : i \in DOMAIN page.rows}
         /\ search'.seen = search.seen \cup NewIds(page)
         /\ search'.returned = search.returned \cup KeptIds(page)
         /\ search'.noNew = SeenWithoutNew(page)
         /\ search'.truncated = Unscanned(page) /\ search'.stop = reason
         /\ search'.partial = (search.partial \/ page.flawed \/ Unscanned(page) \/ reason = "scan_bound")
         /\ search'.page = IF reason = "none" THEN NextPage(page) ELSE search.page
         /\ search'.next = IF reason = "none" THEN NoPage ELSE NextOfOutput(page, reason)
         /\ search'.site = search.site /\ search'.limit = search.limit
         /\ search'.paginate = search.paginate
         /\ search' = [search EXCEPT
              !.phase = search'.phase, !.fetches = search'.fetches, !.offered = search'.offered,
              !.seen = search'.seen, !.returned = search'.returned, !.noNew = search'.noNew,
              !.truncated = search'.truncated, !.stop = search'.stop,
              !.partial = search'.partial, !.page = search'.page, !.next = search'.next]
<1> DEFINE reason == StopReason(page)
           offers == {page.rows[i] : i \in DOMAIN page.rows}
           more == search.seen \cup NewIds(page)
           kept == search.returned \cup KeptIds(page)
           dry == SeenWithoutNew(page)
           cut == Unscanned(page)
           flaw == search.partial \/ page.flawed \/ Unscanned(page) \/ reason = "scan_bound"
           going == NextPage(page)
           next2 == NextOfOutput(page, reason)
<1>1. search' = [search EXCEPT
        !.phase = IF reason = "none" THEN "fetch" ELSE "done",
        !.fetches = @ + 1, !.offered = @ \cup offers,
        !.seen = more, !.returned = kept, !.noNew = dry, !.truncated = cut, !.stop = reason,
        !.partial = flaw, !.page = IF reason = "none" THEN going ELSE @,
        !.next = IF reason = "none" THEN NoPage ELSE next2]
  BY DEF TakePage
<1> HIDE DEF reason, offers, more, kept, dry, cut, flaw, going, next2
<1>2. /\ search'.phase = IF reason = "none" THEN "fetch" ELSE "done"
      /\ search'.fetches = search.fetches + 1 /\ search'.offered = search.offered \cup offers
      /\ search'.seen = more /\ search'.returned = kept /\ search'.noNew = dry
      /\ search'.truncated = cut /\ search'.stop = reason /\ search'.partial = flaw
      /\ search'.page = IF reason = "none" THEN going ELSE search.page
      /\ search'.next = IF reason = "none" THEN NoPage ELSE next2
      /\ search'.site = search.site /\ search'.limit = search.limit
      /\ search'.paginate = search.paginate
  BY <1>1 DEF Search
<1>3. search' = [search EXCEPT
        !.phase = search'.phase, !.fetches = search'.fetches, !.offered = search'.offered,
        !.seen = search'.seen, !.returned = search'.returned, !.noNew = search'.noNew,
        !.truncated = search'.truncated, !.stop = search'.stop,
        !.partial = search'.partial, !.page = search'.page, !.next = search'.next]
  BY <1>1, <1>2 DEF Search
<1> USE DEF reason, offers, more, kept, dry, cut, flaw, going, next2
<1> QED BY <1>2, <1>3

LEMMA ReasonTypes ==
  ASSUME NEW page \in Page, NEW reason
  PROVE  /\ StopReason(page) \in Reasons /\ (search.page \in Nat => NextPage(page) \in Nat)
         /\ (search.page \in Nat => NextOfOutput(page, reason) \in Nat \cup {NoPage})
         /\ Unscanned(page) \in BOOLEAN
<1>1. Unscanned(page) \in BOOLEAN BY DEF Unscanned
<1> QED BY <1>1 DEF StopReason, Reasons, NextPage, NextOfOutput

LEMMA TakingTyped ==
  ASSUME SearchInv, Underway, NEW page \in Page, TakePage(page)
  PROVE  search' \in Search
<1>0. search \in Search BY DEF SearchInv, SearchTypeOK
<1> DEFINE reason == StopReason(page)
<1>1. search.noNew \in 0..1 BY <1>0, SearchTypes DEF SearchInv, Counted, Underway
<1>2. SeenWithoutNew(page) \in 0..2 BY <1>1 DEF SeenWithoutNew
<1>3. /\ search'.phase \in {"fetch", "done"} /\ search'.fetches \in Nat
      /\ search'.offered \subseteq Ads /\ search'.seen \subseteq Ads
      /\ search'.returned \subseteq Ads /\ search'.noNew \in 0..2
      /\ search'.truncated \in BOOLEAN /\ search'.stop \in Reasons
      /\ search'.page \in Nat /\ search'.next \in Nat \cup {NoPage}
  <2>1. {page.rows[i] : i \in DOMAIN page.rows} \subseteq Ads BY PageTypes
  <2>2. /\ search.fetches \in Nat /\ search.page \in Nat /\ search.offered \subseteq Ads
        /\ search.seen \subseteq Ads /\ search.returned \subseteq Ads
    BY <1>0, SearchTypes
  <2>3. /\ StopReason(page) \in Reasons /\ NextPage(page) \in Nat
        /\ NextOfOutput(page, reason) \in Nat \cup {NoPage} /\ Unscanned(page) \in BOOLEAN
    BY <2>2, ReasonTypes
  <2>4. NewIds(page) \subseteq Ads /\ KeptIds(page) \subseteq Ads BY NewIdsAreAds
  <2> HIDE DEF reason
  <2>5. /\ search'.phase = IF reason = "none" THEN "fetch" ELSE "done"
        /\ search'.fetches = search.fetches + 1
        /\ search'.offered = search.offered \cup {page.rows[i] : i \in DOMAIN page.rows}
        /\ search'.seen = search.seen \cup NewIds(page)
        /\ search'.returned = search.returned \cup KeptIds(page)
        /\ search'.noNew = SeenWithoutNew(page)
        /\ search'.truncated = Unscanned(page) /\ search'.stop = reason
        /\ search'.page = IF reason = "none" THEN NextPage(page) ELSE search.page
        /\ search'.next = IF reason = "none" THEN NoPage ELSE NextOfOutput(page, reason)
    BY <1>0, Taking DEF reason
  <2>6. reason \in Reasons BY <2>3 DEF reason
  <2> QED BY <1>2, <2>1, <2>2, <2>3, <2>4, <2>5, <2>6
<1>4. search'.partial \in BOOLEAN
  <2>1. search'.partial = (search.partial \/ page.flawed \/ Unscanned(page) \/ reason = "scan_bound")
    BY <1>0, Taking
  <2> QED BY <2>1
<1>5. search' = [search EXCEPT
        !.phase = search'.phase, !.fetches = search'.fetches, !.offered = search'.offered,
        !.seen = search'.seen, !.returned = search'.returned, !.noNew = search'.noNew,
        !.truncated = search'.truncated, !.stop = search'.stop,
        !.partial = search'.partial, !.page = search'.page, !.next = search'.next]
  BY <1>0, Taking
<1> HIDE DEF reason
<1> QED BY <1>0, <1>3, <1>4, <1>5 DEF Search

LEMMA TakingCounted ==
  ASSUME SearchInv, Underway, NEW page \in Page, TakePage(page)
  PROVE  Accounted' /\ Counted'
<1> DEFINE reason == StopReason(page)
<1>0. search \in Search /\ Accounted /\ Counted /\ search.noNew \in 0..1 /\ search.phase # "done"
  BY SearchTypes DEF SearchInv, SearchTypeOK, Counted, Underway
<1>t. /\ search'.phase = IF reason = "none" THEN "fetch" ELSE "done"
      /\ search'.fetches = search.fetches + 1
      /\ search'.offered = search.offered \cup {page.rows[i] : i \in DOMAIN page.rows}
      /\ search'.seen = search.seen \cup NewIds(page)
      /\ search'.returned = search.returned \cup KeptIds(page)
      /\ search'.noNew = SeenWithoutNew(page) /\ search'.truncated = Unscanned(page)
      /\ search'.partial = (search.partial \/ page.flawed \/ Unscanned(page) \/ reason = "scan_bound")
      /\ search'.next = IF reason = "none" THEN NoPage ELSE NextOfOutput(page, reason)
  BY <1>0, Taking
<1>1. search'.returned = search'.seen \ Excluded
  BY <1>0, <1>t DEF Accounted, KeptIds
<1>2. ~ Unscanned(page) => search'.offered \subseteq search'.seen
  BY <1>0, <1>t, ShownIsSeen DEF Accounted
<1>3. Unscanned(page) =>
        search'.phase = "done" /\ search'.truncated /\ search'.partial /\ search'.next = NoPage
  <2>1. Unscanned(page) => reason = "bound" BY <1>0, CutIsFull DEF StopReason
  <2>2. Unscanned(page) => NextOfOutput(page, reason) = NoPage BY DEF NextOfOutput
  <2> HIDE DEF reason
  <2> QED BY <1>t, <2>1, <2>2
<1>4. Accounted' BY <1>1, <1>2, <1>3 DEF Accounted
<1>5. search'.phase \notin {"done", "failed"} => search'.noNew <= 1
  <2>1. reason = "none" => ~ SeenWithoutNew(page) >= 2 BY DEF StopReason
  <2>2. SeenWithoutNew(page) \in 0..2 BY <1>0 DEF SeenWithoutNew
  <2> HIDE DEF reason
  <2> QED BY <1>t, <2>1, <2>2
<1>6. search'.fetches <= 2 * Cardinality(search'.seen) + search'.noNew
  <2> DEFINE before == Cardinality(search.seen)
             after == Cardinality(search'.seen)
  <2>1. before \in Nat /\ search.fetches \in Nat /\ search.fetches <= 2 * before + search.noNew
    BY <1>0, SearchTypes DEF Counted
  <2>2. CASE NewIds(page) = {}
    <3>1. after = before BY <1>t, <2>2
    <3>2. search'.noNew = search.noNew + 1 BY <1>t, <2>2 DEF SeenWithoutNew
    <3> HIDE DEF before, after
    <3>3. search'.fetches <= 2 * after + search'.noNew BY <1>0, <1>t, <2>1, <3>1, <3>2
    <3> QED BY <3>3 DEF after
  <2>3. CASE NewIds(page) # {}
    <3>1. PICK x \in NewIds(page) : TRUE BY <2>3
    <3>2. x \notin search.seen /\ search'.seen \subseteq Ads
      BY <1>0, <1>t, <3>1, NewIdsAreAds, SearchTypes
    <3>3. IsFiniteSet(search'.seen) BY <3>2, SearchAssumption, FS_Subset
    <3>4. search.seen \cup {x} \in SUBSET search'.seen BY <1>t, <3>1
    <3>5. Cardinality(search.seen \cup {x}) <= after BY <3>3, <3>4, FS_Subset
    <3>6. Cardinality(search.seen \cup {x}) = before + 1
      <4>1. IsFiniteSet(search.seen) BY <1>0, SearchTypes
      <4> QED BY <3>2, <4>1, FS_AddElement
    <3>7. after \in Nat BY <3>3, FS_CardinalityType
    <3>8. search'.noNew = 0 BY <1>t, <2>3 DEF SeenWithoutNew
    <3>9. before + 1 <= after BY <3>5, <3>6
    <3> HIDE DEF before, after
    <3>10. search'.fetches <= 2 * after BY <1>0, <1>t, <2>1, <3>7, <3>9
    <3> QED BY <3>7, <3>8, <3>10 DEF after
  <2> QED BY <2>2, <2>3
<1> QED BY <1>4, <1>5, <1>6 DEF Counted

(* The pages of the website: what a document does not link to is its end.    *)
LEMMA TakingFromSite ==
  ASSUME SearchInv, Underway, NEW rows \in Rows, NEW flawed \in BOOLEAN, search.page <= LastPage,
         NEW linked \in SUBSET (1..(LastPage + 1)), Remember(search.page, linked),
         TakePage(WebPage(rows, flawed, search.page, linked))
  PROVE  SearchInv'
<1> DEFINE n == search.page
           page == WebPage(rows, flawed, n, linked)
           reason == StopReason(page)
<1>0. search \in Search /\ webPages \in [Pages -> {"unknown", "end", "linked"}] /\ n \in Nat
  BY SearchTypes DEF SearchInv, SearchTypeOK
<1>1. page \in Page /\ page.next = IF n + 1 \in linked THEN n + 1 ELSE NoPage
  BY <1>0 DEF WebPage, Page
<1>2. TakePage(page) OBVIOUS
<1> HIDE DEF page
<1>3. webPages' \in [Pages -> {"unknown", "end", "linked"}] BY <1>0 DEF Remember
<1>4. CompleteMeansExhausted'
  <2> SUFFICES ASSUME search'.phase = "done", ~ search'.partial, search'.next = NoPage
               PROVE  webPages'[search'.page + 1] = "end"
    BY DEF CompleteMeansExhausted
  <2>1. /\ search'.phase = IF reason = "none" THEN "fetch" ELSE "done"
        /\ search'.partial = (search.partial \/ page.flawed \/ Unscanned(page) \/ reason = "scan_bound")
        /\ search'.page = IF reason = "none" THEN NextPage(page) ELSE search.page
        /\ search'.next = IF reason = "none" THEN NoPage ELSE NextOfOutput(page, reason)
    BY <1>0, <1>1, <1>2, Taking
  <2> HIDE DEF reason
  <2>2. reason # "none" /\ search'.page = n /\ ~ Unscanned(page) /\ NextOfOutput(page, reason) = NoPage
    BY <2>1
  <2>3. page.next \notin Nat BY <2>2, SearchAssumption DEF NextOfOutput
  <2>4. n + 1 \notin linked BY <1>0, <1>1, <2>3
  <2>5. n + 1 \in Pages /\ n + 1 # n BY <1>0, SearchAssumption DEF Pages
  <2>6. webPages'[n + 1] = "end" BY <2>4, <2>5 DEF Remember
  <2> QED BY <2>2, <2>6
<1> QED BY <1>1, <1>2, <1>3, <1>4, TakingTyped, TakingCounted DEF SearchInv, SearchTypeOK

LEMMA InitSearch == SearchInit => SearchInv
<1> SUFFICES ASSUME SearchInit PROVE SearchInv
  OBVIOUS
<1>1. search = NewSearch BY DEF SearchInit
<1>2. search \in Search BY <1>1 DEF NewSearch, Search, Reasons
<1>3. webPages \in [Pages -> {"unknown", "end", "linked"}] BY DEF SearchInit, NewPages
<1>4. /\ search.seen = {} /\ search.returned = {} /\ search.offered = {} /\ search.noNew = 0
      /\ search.fetches = 0 /\ search.phase = "new"
  BY <1>1 DEF NewSearch
<1>5. Cardinality(search.seen) = 0 BY <1>4, FS_EmptySet
<1> QED BY <1>2, <1>3, <1>4, <1>5
     DEF SearchInv, SearchTypeOK, Accounted, Counted, CompleteMeansExhausted

(* A step between the pages leaves the counts and what is known of the pages. *)
LEMMA BetweenPages ==
  ASSUME SearchInv, search.phase \notin {"done", "failed"}, search' \in Search,
         search'.phase # "done",
         search'.seen = search.seen, search'.returned = search.returned,
         search'.offered = search.offered, search'.noNew = search.noNew,
         search'.fetches = search.fetches,
         webPages' \in [Pages -> {"unknown", "end", "linked"}]
  PROVE  SearchInv'
BY DEF SearchInv, SearchTypeOK, Accounted, Counted, CompleteMeansExhausted

LEMMA StepSearch == SearchInv /\ [SearchNext]_searchVars => SearchInv'
<1> SUFFICES ASSUME SearchInv, [SearchNext]_searchVars PROVE SearchInv'
  OBVIOUS
<1>t. search \in Search /\ webPages \in [Pages -> {"unknown", "end", "linked"}]
  BY DEF SearchInv, SearchTypeOK
<1>1. ASSUME NEW site \in {"web", "json"}, NEW limit \in Limits \cup {0}, NEW paginate \in BOOLEAN,
             NEW first \in FirstPages, StartSearch(site, limit, paginate, first)
      PROVE  SearchInv'
  <2> DEFINE l == CanonicalLimit(limit, paginate)
  <2>1. l \in Nat /\ first \in Nat BY SearchAssumption DEF CanonicalLimit
  <2> HIDE DEF l
  <2>2. /\ search.phase = "new" /\ webPages' = webPages
        /\ search' = [search EXCEPT !.phase = "resolve", !.site = site, !.paginate = paginate,
                                    !.limit = l, !.page = first]
    BY <1>1 DEF StartSearch, l
  <2> QED BY <1>t, <2>1, <2>2, BetweenPages DEF Search
<1>2. ASSUME NEW warned \in BOOLEAN, ResolveReferences(warned) PROVE SearchInv'
  <2>1. /\ search.phase = "resolve" /\ webPages' = webPages
        /\ search' = [search EXCEPT !.phase = "query", !.partial = warned]
    BY <1>2 DEF ResolveReferences
  <2> QED BY <1>t, <2>1, BetweenPages DEF Search
<1>3. ASSUME NEW warned \in BOOLEAN, BuildQuery(warned) PROVE SearchInv'
  <2>1. /\ search.phase = "query" /\ webPages' = webPages
        /\ search' = [search EXCEPT !.phase = "fetch", !.partial = search.partial \/ warned]
    BY <1>3 DEF BuildQuery
  <2> QED BY <1>t, <2>1, BetweenPages DEF Search
<1>4. ASSUME NEW rows \in Rows, NEW flawed \in BOOLEAN,
             NEW following \in 0..LastPage \cup {NoPage, Unreported}, NEW total \in Totals \cup {NoTotal},
             FetchJSON([rows |-> rows, flawed |-> flawed, next |-> following, total |-> total])
      PROVE  SearchInv'
  <2> DEFINE page == [rows |-> rows, flawed |-> flawed, next |-> following, total |-> total]
  <2>1. page \in Page BY SearchAssumption DEF Page
  <2> HIDE DEF page
  <2>2. search.phase = "fetch" /\ search.site = "json" /\ TakePage(page) /\ webPages' = webPages
    BY <1>4 DEF FetchJSON, page
  <2>3. search' \in Search /\ Accounted' /\ Counted'
    BY <2>1, <2>2, TakingTyped, TakingCounted DEF Underway
  <2>4. search'.site = "json" BY <1>t, <2>1, <2>2, Taking
  <2> QED BY <1>t, <2>2, <2>3, <2>4 DEF SearchInv, SearchTypeOK, CompleteMeansExhausted
<1>5. ASSUME NEW rows \in Rows, NEW flawed \in BOOLEAN, NEW linked \in SUBSET (1..(LastPage + 1)),
             FetchForm(rows, flawed, linked)
      PROVE  SearchInv'
  <2>1. /\ search.phase = "fetch" /\ search.page <= LastPage /\ Remember(0, linked)
        /\ webPages' \in [Pages -> {"unknown", "end", "linked"}]
    BY <1>t, <1>5 DEF FetchForm, Remember
  <2>2. CASE search.page = 0
    <3>1. TakePage(WebPage(rows, flawed, search.page, linked)) /\ Remember(search.page, linked)
      BY <1>5, <2>1, <2>2 DEF FetchForm
    <3> QED BY <2>1, <3>1, TakingFromSite DEF Underway
  <2>3. CASE search.page # 0
    <3>1. search' = [search EXCEPT !.phase = "found"] BY <1>5, <2>3 DEF FetchForm
    <3> QED BY <1>t, <2>1, <3>1, BetweenPages DEF Search
  <2> QED BY <2>2, <2>3
<1>6. ASSUME NEW rows \in Rows, NEW flawed \in BOOLEAN, NEW linked \in SUBSET (1..(LastPage + 1)),
             FetchLinked(rows, flawed, linked)
      PROVE  SearchInv'
  BY <1>6, TakingFromSite DEF FetchLinked, Underway
<1>7. ASSUME FetchKnownEnd PROVE SearchInv'
  <2>1. /\ search.phase \in {"fetch", "found"} /\ webPages[search.page] = "end"
        /\ TakePage(EmptyPage) /\ webPages' = webPages
    BY <1>7 DEF FetchKnownEnd
  <2>2. EmptyPage \in Page
    <3>1. << >> \in Rows
      <4>1. << >> \in [1..0 -> Ads] /\ 0 \in 0..MaxRows BY SearchAssumption
      <4> QED BY <4>1 DEF Rows
    <3> QED BY <3>1 DEF EmptyPage, WebPage, Page
  <2>3. search' \in Search /\ Accounted' /\ Counted'
    BY <2>1, <2>2, TakingTyped, TakingCounted DEF Underway
  <2>4. search'.phase = "done" => search'.page = search.page
    <3>1. search'.phase = (IF StopReason(EmptyPage) = "none" THEN "fetch" ELSE "done")
          /\ search'.page = IF StopReason(EmptyPage) = "none" THEN NextPage(EmptyPage) ELSE search.page
      BY <1>t, <2>1, <2>2, Taking
    <3> QED BY <3>1
  <2> QED BY <1>t, <2>1, <2>3, <2>4 DEF SearchInv, SearchTypeOK, CompleteMeansExhausted
<1>8. ASSUME SearchFails PROVE SearchInv'
  <2>1. /\ search.phase \in {"resolve", "query", "fetch", "found"} /\ webPages' = webPages
        /\ search' = [search EXCEPT !.phase = "failed"]
    BY <1>8 DEF SearchFails
  <2> QED BY <1>t, <2>1, BetweenPages DEF Search
<1>9. ASSUME EndSearch PROVE SearchInv'
  <2>1. SearchInit' BY <1>9 DEF EndSearch, SearchInit
  <2> QED BY <2>1, InitSearch, PTL
<1>10. CASE UNCHANGED searchVars
  BY <1>10 DEF searchVars, SearchInv, SearchTypeOK, Accounted, Counted, CompleteMeansExhausted
<1> QED BY <1>1, <1>2, <1>3, <1>4, <1>5, <1>6, <1>7, <1>8, <1>9, <1>10 DEF SearchNext

LEMMA AlwaysSearch == SearchSpec => []SearchInv
BY InitSearch, StepSearch, PTL DEF SearchSpec

(* A search keeps the types of its pages, rows and outcome.                 *)
THEOREM SearchTypeCorrect == SearchSpec => []SearchTypeOK
<1>1. SearchInv => SearchTypeOK BY DEF SearchInv
<1> QED BY <1>1, AlwaysSearch, PTL

(* Whatever the pages hold, no listing is lost without the output saying so. *)
THEOREM NothingIsSteppedOver == SearchSpec => []FetchedIsReturned
<1>1. SearchInv => FetchedIsReturned
  BY DEF SearchInv, Accounted, FetchedIsReturned
<1> QED BY <1>1, AlwaysSearch, PTL

(* A complete output of the website that names no next page is the end.      *)
THEOREM CompleteIsExhausted == SearchSpec => []CompleteMeansExhausted
<1>1. SearchInv => CompleteMeansExhausted BY DEF SearchInv
<1> QED BY <1>1, AlwaysSearch, PTL

(* However the site numbers its pages, a search fetches at most two for every *)
(* listing it found, and two more.                                           *)
THEOREM BoundedPages == SearchSpec => []PagesAreBounded
<1>1. SearchInv => PagesAreBounded
  <2> SUFFICES ASSUME SearchInv PROVE PagesAreBounded
    OBVIOUS
  <2>1. search \in Search BY DEF SearchInv, SearchTypeOK
  <2> QED BY <2>1, SearchTypes DEF SearchInv, Counted, PagesAreBounded
<1> QED BY <1>1, AlwaysSearch, PTL

-----------------------------------------------------------------------------
(* A ranking of a finite set by different numbers below its size uses all of *)
(* them, so there are n elements among the first n.                          *)
LEMMA FirstOfRanking ==
  ASSUME NEW R, IsFiniteSet(R), NEW f \in [R -> Nat],
         \A s, t \in R : f[s] = f[t] => s = t, \A s \in R : f[s] < Cardinality(R),
         NEW n \in Nat, n <= Cardinality(R)
  PROVE  Cardinality({s \in R : f[s] < n}) = n
<1> DEFINE m == Cardinality(R)
           K == {s \in R : f[s] < n}
           g == [s \in K |-> f[s]]
<1>0. m \in Nat BY FS_CardinalityType
<1>1. f \in Surjection(R, 0..(m - 1))
  <2>1. f \in [R -> 0..(m - 1)] BY <1>0
  <2>2. f \in Injection(R, 0..(m - 1)) BY <2>1, Fun_IsInj
  <2>3. IsFiniteSet(0..(m - 1)) /\ Cardinality(0..(m - 1)) = m
    <3>1. 0 \in Int /\ m - 1 \in Int /\ (0 > m - 1 <=> m = 0) /\ m - 1 - 0 + 1 = m
      BY <1>0
    <3>2. IsFiniteSet(0..(m - 1))
          /\ Cardinality(0..(m - 1)) = IF 0 > m - 1 THEN 0 ELSE m - 1 - 0 + 1
      BY <3>1, FS_Interval
    <3> HIDE DEF m
    <3> QED BY <3>1, <3>2
  <2>4. Cardinality(R) = m OBVIOUS
  <2> HIDE DEF m
  <2> QED BY <2>2, <2>3, <2>4, FS_Injection
<1>2. \A t \in 0..(m - 1) : \E s \in R : f[s] = t
  BY <1>1, Fun_SurjectionProperties
<1>3. g \in [K -> 0..(n - 1)] OBVIOUS
<1>4. \A s, t \in K : g[s] = g[t] => s = t OBVIOUS
<1>5. \A t \in 0..(n - 1) : \E s \in K : g[s] = t
  <2> SUFFICES ASSUME NEW t \in 0..(n - 1) PROVE \E s \in K : g[s] = t
    OBVIOUS
  <2>1. t \in 0..(m - 1) BY <1>0
  <2>2. PICK s \in R : f[s] = t BY <1>2, <2>1
  <2>3. s \in K /\ g[s] = t BY <2>2
  <2> QED BY <2>3
<1>6. g \in Bijection(K, 0..(n - 1))
  <2> HIDE DEF K, g
  <2> QED BY <1>3, <1>4, <1>5, Fun_IsBij
<1>7. K \in SUBSET R OBVIOUS
<1>8. IsFiniteSet(K) BY <1>7, FS_Subset
<1>9. Cardinality(0..(n - 1)) = Cardinality(K)
  <2>1. ExistsBijection(K, 0..(n - 1)) BY <1>6 DEF ExistsBijection
  <2> QED BY <1>8, <2>1, FS_Bijection
<1>10. Cardinality(0..(n - 1)) = n BY FS_Interval
<1> QED BY <1>9, <1>10

Newer(table, R, s) == {t \in R : NewerFirst(table, t, s)}

LEMMA RowTypes ==
  /\ NoRow \notin Row /\ \A row \in Row : row.at \in Nat
  /\ Sellers \subseteq Nat /\ IsFiniteSet(Sellers) /\ SellerMaximum \in Nat /\ SellerMaximum > 0
  /\ SellerRetention \in Nat
<1>1. Row \subseteq [source : {"search", "listing", "public-web"},
                     name : {"none", "search", "listing", "public-web"}, at : Nat]
  BY IndexAssumption DEF Row, Sources, Preferred
<1> QED BY <1>1, IndexAssumption DEF Row

(* The order of the retention has no ties. *)
LEMMA NewerIsOrder ==
  ASSUME NEW table \in Tables, NEW R \in SUBSET Known(table),
         NEW s \in R, NEW t \in R
  PROVE  /\ ~ NewerFirst(table, s, s)
         /\ s # t => NewerFirst(table, s, t) \/ NewerFirst(table, t, s)
         /\ NewerFirst(table, s, t) =>
              \A u \in R : NewerFirst(table, u, s) => NewerFirst(table, u, t)
<1>1. \A u \in R : u \in Nat /\ table[u].at \in Nat
  BY RowTypes DEF Known, Tables
<1> QED BY <1>1 DEF NewerFirst

LEMMA Ranking ==
  ASSUME NEW table \in Tables, NEW R \in SUBSET Known(table)
  PROVE  LET f == [s \in R |-> Cardinality(Newer(table, R, s))] IN
         /\ f \in [R -> Nat] /\ IsFiniteSet(R) /\ \A s \in R : f[s] < Cardinality(R)
         /\ \A s, t \in R : NewerFirst(table, s, t) => f[s] < f[t]
         /\ \A s, t \in R : f[s] = f[t] => s = t
<1> DEFINE f == [s \in R |-> Cardinality(Newer(table, R, s))]
<1>1. IsFiniteSet(R)
  <2>1. R \in SUBSET Sellers BY DEF Known
  <2> QED BY <2>1, RowTypes, FS_Subset
<1>2. \A s \in R : IsFiniteSet(Newer(table, R, s)) /\ Cardinality(Newer(table, R, s)) \in Nat
  <2> SUFFICES ASSUME NEW s \in R
               PROVE  IsFiniteSet(Newer(table, R, s)) /\ Cardinality(Newer(table, R, s)) \in Nat
    OBVIOUS
  <2>1. Newer(table, R, s) \in SUBSET R BY DEF Newer
  <2>2. IsFiniteSet(Newer(table, R, s)) BY <1>1, <2>1, FS_Subset
  <2> QED BY <2>2, FS_CardinalityType
<1>3. ASSUME NEW s \in R, NEW S \in SUBSET R, IsFiniteSet(S), Newer(table, R, s) \cup {s} \subseteq S
      PROVE  Cardinality(Newer(table, R, s)) < Cardinality(S)
  <2>1. s \notin Newer(table, R, s) BY NewerIsOrder DEF Newer
  <2>2. Cardinality(Newer(table, R, s) \cup {s}) = Cardinality(Newer(table, R, s)) + 1
    BY <1>2, <2>1, FS_AddElement
  <2>3. Cardinality(Newer(table, R, s) \cup {s}) <= Cardinality(S)
    <3>1. Newer(table, R, s) \cup {s} \in SUBSET S BY <1>3
    <3> QED BY <1>3, <3>1, FS_Subset
  <2>4. Cardinality(S) \in Nat BY <1>3, FS_CardinalityType
  <2>5. Cardinality(Newer(table, R, s)) \in Nat BY <1>2
  <2> QED BY <2>2, <2>3, <2>4, <2>5
<1>4. \A s \in R : f[s] < Cardinality(R)
  <2> SUFFICES ASSUME NEW s \in R PROVE Cardinality(Newer(table, R, s)) < Cardinality(R)
    OBVIOUS
  <2>1. Newer(table, R, s) \cup {s} \subseteq R BY DEF Newer
  <2>2. R \in SUBSET R OBVIOUS
  <2> QED BY <1>1, <1>3, <2>1, <2>2
<1>5. \A s, t \in R : NewerFirst(table, s, t) => f[s] < f[t]
  <2> SUFFICES ASSUME NEW s \in R, NEW t \in R, NewerFirst(table, s, t)
               PROVE  Cardinality(Newer(table, R, s)) < Cardinality(Newer(table, R, t))
    OBVIOUS
  <2>1. Newer(table, R, s) \cup {s} \subseteq Newer(table, R, t)
    <3>1. \A u \in R : NewerFirst(table, u, s) => NewerFirst(table, u, t) BY NewerIsOrder
    <3> QED BY <3>1 DEF Newer
  <2>2. Newer(table, R, t) \in SUBSET R BY DEF Newer
  <2> QED BY <1>2, <1>3, <2>1, <2>2
<1>6. f \in [R -> Nat] BY <1>2
<1>7. \A s, t \in R : f[s] = f[t] => s = t
  <2> SUFFICES ASSUME NEW s \in R, NEW t \in R, s # t PROVE f[s] # f[t]
    OBVIOUS
  <2>1. f[s] \in Nat /\ f[t] \in Nat BY <1>6
  <2>2. NewerFirst(table, s, t) \/ NewerFirst(table, t, s) BY NewerIsOrder
  <2> HIDE DEF f
  <2> QED BY <1>5, <2>1, <2>2
<1> QED BY <1>1, <1>4, <1>5, <1>6, <1>7

(* Who is recent and dropped all the same: the index is full, of sellers     *)
(* that were seen no earlier.                                                *)
LEMMA DroppedFromFull ==
  ASSUME NEW table \in Tables, NEW at \in Nat, NEW s \in Recent(table, at) \ Kept(table, at)
  PROVE  /\ Cardinality(Kept(table, at)) = SellerMaximum
         /\ \A t \in Kept(table, at) : table[t].at >= table[s].at
<1> DEFINE R == Recent(table, at)
           f == [q \in R |-> Cardinality(Newer(table, R, q))]
<1>1. R \in SUBSET Known(table) BY DEF Recent
<1>2. /\ f \in [R -> Nat] /\ IsFiniteSet(R) /\ \A q \in R : f[q] < Cardinality(R)
      /\ \A q, t \in R : NewerFirst(table, q, t) => f[q] < f[t]
      /\ \A q, t \in R : f[q] = f[t] => q = t
  BY <1>1, Ranking
<1>3. Kept(table, at) = {q \in R : f[q] < SellerMaximum} BY DEF Kept, Newer
<1>4. s \in R /\ ~ f[s] < SellerMaximum BY <1>3
<1>5. SellerMaximum \in Nat /\ SellerMaximum <= Cardinality(R)
  <2>1. Cardinality(R) \in Nat BY <1>2, FS_CardinalityType
  <2>2. f[s] \in Nat /\ f[s] < Cardinality(R) BY <1>2, <1>4
  <2> HIDE DEF R, f
  <2> QED BY <1>4, <2>1, <2>2, RowTypes
<1> HIDE DEF R, f
<1>6. Cardinality({q \in R : f[q] < SellerMaximum}) = SellerMaximum
  BY <1>2, <1>5, FirstOfRanking
<1>7. ASSUME NEW t \in Kept(table, at) PROVE table[t].at >= table[s].at
  <2>1. t \in R /\ f[t] < SellerMaximum BY <1>3
  <2>2. f[t] \in Nat /\ f[s] \in Nat BY <1>2, <1>4, <2>1
  <2>3. ~ NewerFirst(table, s, t) BY <1>2, <1>4, <1>5, <2>1, <2>2
  <2>4. t # s BY <1>4, <2>1
  <2>5. NewerFirst(table, t, s) BY <1>1, <1>4, <2>1, <2>3, <2>4, NewerIsOrder
  <2>6. table[t].at \in Nat /\ table[s].at \in Nat
    BY <1>1, <1>4, <2>1, RowTypes DEF Known, Tables
  <2> QED BY <2>5, <2>6 DEF NewerFirst
<1> QED BY <1>3, <1>6, <1>7

-----------------------------------------------------------------------------
(* The row of a seller that is about to be replaced, and its replacement.   *)
Replaces(old, new, at) ==
  /\ new \in Row /\ new.at = at
  /\ new.source \in Preferred => new.name = new.source
  /\ old # NoRow /\ old.source \in Preferred => new.source \in Preferred

(* What every command that writes does to the index: it replaces the rows  *)
(* of the sellers that it saw, and prunes.                                 *)
Puts(w, table, added, sighted) ==
  /\ writers[w].task \in {"search", "write"} /\ writers[w].at \in 0..MaxIndexTime
  /\ table \in Tables /\ added \subseteq Link
  /\ WriteIndex(table, added, writers[w].at)
  /\ \A s \in Sellers : IF s \in sighted THEN Replaces(sellers[s], table[s], writers[w].at)
                        ELSE table[s] = sellers[s]

NamesGiven ==
  \A s \in Sellers :
    sellers[s] # NoRow /\ sellers[s].source \in Preferred => sellers[s].name = sellers[s].source

IndexInv == IndexTypeOK /\ NamesGiven

LEMMA Written ==
  ASSUME NEW table \in Tables, NEW added \in SUBSET Link, NEW at \in Nat,
         sellerLinks \subseteq Link, WriteIndex(table, added, at)
  PROVE  /\ sellers' \in Tables /\ sellerLinks' \subseteq Link
         /\ Known(sellers)' = Kept(table, at)
         /\ \A s \in Kept(table, at) : sellers'[s] = table[s]
<1>1. Kept(table, at) \subseteq Known(table) BY DEF Kept, Recent
<1>2. sellers' = [s \in Sellers |-> IF s \in Kept(table, at) THEN table[s] ELSE NoRow]
  BY DEF WriteIndex
<1>3. sellerLinks' \subseteq Link BY DEF WriteIndex
<1>4. sellers' \in Tables BY <1>2 DEF Tables
<1>5. \A s \in Kept(table, at) : s \in Sellers /\ table[s] # NoRow BY <1>1 DEF Known
<1>6. \A s \in Kept(table, at) : sellers'[s] = table[s] BY <1>2, <1>5
<1>7. Known(sellers)' = Kept(table, at) BY <1>2, <1>5 DEF Known
<1> QED BY <1>3, <1>4, <1>6, <1>7

LEMMA PreviewReplaces ==
  ASSUME NEW row \in Row \cup {NoRow}, NEW named \in BOOLEAN, NEW at \in 0..MaxIndexTime,
         row # NoRow /\ row.source \in Preferred => row.name = row.source
  PROVE  Replaces(row, PreviewRow(row, named, at), at)
<1>1. CASE row # NoRow /\ (~named \/ (row.name # "none" /\ row.source \in Preferred))
  <2>1. row \in Row BY <1>1
  <2>2. PreviewRow(row, named, at) = [row EXCEPT !.at = at] BY <1>1 DEF PreviewRow
  <2>3. PreviewRow(row, named, at) = [source |-> row.source, name |-> row.name, at |-> at]
    BY <2>1, <2>2 DEF Row
  <2>4. row.source \in Sources /\ row.name \in Sources \cup {"none"} BY <2>1 DEF Row
  <2>5. PreviewRow(row, named, at) \in Row BY <2>3, <2>4 DEF Row
  <2>6. PreviewRow(row, named, at).source = row.source
        /\ PreviewRow(row, named, at).name = row.name /\ PreviewRow(row, named, at).at = at
    BY <2>3
  <2> QED BY <1>1, <2>5, <2>6 DEF Replaces
<1>2. CASE ~ (row # NoRow /\ (~named \/ (row.name # "none" /\ row.source \in Preferred)))
  <2>1. PreviewRow(row, named, at)
          = [source |-> "search", name |-> IF named THEN "search" ELSE "none", at |-> at]
    BY <1>2 DEF PreviewRow
  <2>2. ~ (row # NoRow /\ row.source \in Preferred)
    BY <1>2 DEF Preferred
  <2>3. PreviewRow(row, named, at) \in Row BY <2>1 DEF Row, Sources
  <2>4. PreviewRow(row, named, at).source \notin Preferred BY <2>1 DEF Preferred
  <2> QED BY <2>1, <2>2, <2>3, <2>4 DEF Replaces
<1> QED BY <1>1, <1>2

LEMMA PagePuts ==
  ASSUME IndexInv, NEW w \in Writers, NEW page \in IndexPages, IndexPage(w, page)
  PROVE  Puts(w, Previewed(page, writers[w].at), LinksOf(page), {p.seller : p \in page})
<1> DEFINE at == writers[w].at
           sighted == {p.seller : p \in page}
           Seen(s) == \E p \in page : p.seller = s
           named(s) == \E p \in page : p.seller = s /\ p.named
<1>1. writers[w].task = "search" /\ at \in 0..MaxIndexTime
  BY DEF IndexPage, IndexInv, IndexTypeOK, Resting, Searching, Fetching, Observed
<1>2. \A p \in page : p \in Sighting BY DEF IndexPages
<1>3. LinksOf(page) \subseteq Link BY <1>2 DEF LinksOf, Link, Sighting
<1>4. ASSUME NEW s \in Sellers
      PROVE  Replaces(sellers[s], PreviewRow(sellers[s], named(s), at), at)
  <2>1. sellers[s] \in Row \cup {NoRow} BY DEF IndexInv, IndexTypeOK, Tables
  <2>2. sellers[s] # NoRow /\ sellers[s].source \in Preferred => sellers[s].name = sellers[s].source
    BY DEF IndexInv, NamesGiven
  <2>3. named(s) \in BOOLEAN OBVIOUS
  <2> HIDE DEF named, at
  <2> QED BY <1>1, <2>1, <2>2, <2>3, PreviewReplaces
<1>5. Previewed(page, at)
        = [s \in Sellers |-> IF Seen(s) THEN PreviewRow(sellers[s], named(s), at) ELSE sellers[s]]
  BY DEF Previewed
<1>8. \A s : s \in sighted <=> Seen(s) OBVIOUS
<1> HIDE DEF Seen, named, sighted
<1>6. \A s \in Sellers : IF s \in sighted THEN Replaces(sellers[s], Previewed(page, at)[s], at)
                         ELSE Previewed(page, at)[s] = sellers[s]
  BY <1>4, <1>5, <1>8
<1>7. Previewed(page, at) \in Tables
  <2>1. \A s \in Sellers : Previewed(page, at)[s] \in Row \cup {NoRow}
    BY <1>6 DEF Replaces, IndexInv, IndexTypeOK, Tables
  <2> QED BY <1>5, <2>1 DEF Tables
<1> QED BY <1>1, <1>3, <1>6, <1>7 DEF Puts, IndexPage, sighted

LEMMA SellerPuts ==
  ASSUME IndexInv, NEW w \in Writers, NEW ad \in Listings, WriteSeller(w, ad)
  PROVE  /\ \E table, added : Puts(w, table, added, {writers[w].seller})
         /\ writers' = [writers EXCEPT ![w] = Rest] /\ indexTime' = indexTime
<1> DEFINE job == writers[w]
           row == [source |-> job.source, name |-> job.source, at |-> job.at]
           table == [sellers EXCEPT ![job.seller] = row]
           added == IF job.source = "listing" THEN {[seller |-> job.seller, ad |-> ad]} ELSE {}
<1>1. /\ job.task = "write" /\ job.source \in Preferred /\ job.seller \in Sellers
      /\ job.at \in 0..MaxIndexTime
  BY DEF WriteSeller, IndexInv, IndexTypeOK, Resting, Searching, Fetching, Observed
<1>2. row \in Row /\ row.at = job.at /\ row.source \in Preferred /\ row.name = row.source
  BY <1>1 DEF Row, Sources
<1>3. sellers \in [Sellers -> Row \cup {NoRow}] BY DEF IndexInv, IndexTypeOK, Tables
<1>4. table \in Tables BY <1>1, <1>2, <1>3 DEF Tables
<1>5. added \subseteq Link BY <1>1 DEF Link
<1>6. WriteIndex(table, added, job.at) BY DEF WriteSeller
<1>7. \A s \in Sellers : IF s \in {job.seller} THEN Replaces(sellers[s], table[s], job.at)
                         ELSE table[s] = sellers[s]
  <2>1. Replaces(sellers[job.seller], row, job.at) BY <1>2 DEF Replaces
  <2>2. \A s \in Sellers : table[s] = IF s = job.seller THEN row ELSE sellers[s]
    BY <1>1, <1>3
  <2> HIDE DEF row, table
  <2> QED BY <2>1, <2>2
<1>8. Puts(w, table, added, {job.seller})
  <2> HIDE DEF table, added
  <2> QED BY <1>1, <1>4, <1>5, <1>6, <1>7 DEF Puts
<1> QED BY <1>8 DEF WriteSeller

LEMMA WritesPut ==
  ASSUME IndexInv, NEW w \in Writers, NEW sighted, Writes(w, sighted)
  PROVE  \E table, added : Puts(w, table, added, sighted)
<1>1. CASE \E page \in IndexPages : sighted = {p.seller : p \in page} /\ IndexPage(w, page)
  BY <1>1, PagePuts
<1>2. CASE sighted = {writers[w].seller} /\ \E ad \in Listings : WriteSeller(w, ad)
  BY <1>2, SellerPuts
<1> QED BY <1>1, <1>2 DEF Writes

(* A step writes the index so, or leaves it alone.                         *)
LEMMA IndexSteps ==
  ASSUME IndexInv, [IndexNext]_indexVars
  PROVE  /\ indexTime' \in 0..MaxIndexTime
         /\ writers' \in [Writers -> Resting \cup Searching \cup Fetching \cup Observed]
         /\ \/ UNCHANGED <<sellers, sellerLinks>>
            \/ \E w \in Writers, sighted \in SUBSET Sellers : Writes(w, sighted)
<1> DEFINE Goal ==
      /\ indexTime' \in 0..MaxIndexTime
      /\ writers' \in [Writers -> Resting \cup Searching \cup Fetching \cup Observed]
      /\ \/ UNCHANGED <<sellers, sellerLinks>>
         \/ \E w \in Writers, sighted \in SUBSET Sellers : Writes(w, sighted)
<1> SUFFICES Goal OBVIOUS
<1>0. /\ indexTime \in 0..MaxIndexTime
      /\ writers \in [Writers -> Resting \cup Searching \cup Fetching \cup Observed]
  BY DEF IndexInv, IndexTypeOK
<1>00. Rest \in Resting BY DEF Rest, Resting
<1>1. ASSUME NEW w \in Writers, BeginPages(w) \/ EndPages(w) \/ WriterFails(w) PROVE Goal
  <2>1. [task |-> "search", at |-> indexTime] \in Searching BY <1>0 DEF Searching
  <2> QED BY <1>0, <1>00, <1>1, <2>1 DEF BeginPages, EndPages, WriterFails
<1>2. ASSUME NEW w \in Writers, SellerFetched(w) PROVE Goal
  <2>1. writers[w].source \in Preferred /\ writers[w].seller \in Sellers
    BY <1>0, <1>2 DEF SellerFetched, Resting, Searching, Fetching, Observed
  <2>2. [task |-> "write", source |-> writers[w].source,
         seller |-> writers[w].seller, at |-> indexTime] \in Observed
    BY <1>0, <2>1 DEF Observed
  <2> QED BY <1>0, <1>2, <2>2 DEF SellerFetched
<1>3. ASSUME NEW w \in Writers, NEW page \in IndexPages, IndexPage(w, page) PROVE Goal
  <2> DEFINE sighted == {p.seller : p \in page}
  <2>1. sighted \in SUBSET Sellers BY DEF IndexPages, Sighting
  <2>2. indexTime' = indexTime /\ writers' = writers BY <1>3 DEF IndexPage
  <2>3. Writes(w, sighted) BY <1>3 DEF Writes
  <2> HIDE DEF sighted
  <2> QED BY <1>0, <2>1, <2>2, <2>3
<1>4. ASSUME NEW w \in Writers, NEW source \in Preferred, NEW s \in Sellers,
             BeginSeller(w, source, s)
      PROVE  Goal
  <2>1. [task |-> "fetch", source |-> source, seller |-> s] \in Fetching BY DEF Fetching
  <2> QED BY <1>0, <1>4, <2>1 DEF BeginSeller
<1>5. ASSUME NEW w \in Writers, NEW ad \in Listings, WriteSeller(w, ad) PROVE Goal
  <2>1. writers' = [writers EXCEPT ![w] = Rest] /\ indexTime' = indexTime
    BY <1>5, SellerPuts
  <2>2. writers[w].task = "write" BY <1>5 DEF WriteSeller
  <2>3. writers[w].seller \in Sellers
    BY <1>0, <2>2 DEF Resting, Searching, Fetching, Observed
  <2>4. Writes(w, {writers[w].seller}) BY <1>5, <2>2 DEF Writes
  <2> QED BY <1>0, <1>00, <2>1, <2>3, <2>4
<1>6. CASE IndexTick
  BY <1>0, <1>6, IndexAssumption DEF IndexTick
<1>7. CASE UNCHANGED indexVars BY <1>0, <1>7 DEF indexVars
<1> HIDE DEF Goal
<1>8. ASSUME NEW w \in Writers,
             \/ BeginPages(w) \/ EndPages(w) \/ SellerFetched(w) \/ WriterFails(w)
             \/ \E page \in IndexPages : IndexPage(w, page)
             \/ \E source \in Preferred, s \in Sellers : BeginSeller(w, source, s)
             \/ \E ad \in Listings : WriteSeller(w, ad)
      PROVE  Goal
  BY <1>1, <1>2, <1>3, <1>4, <1>5, <1>8
<1> QED BY <1>6, <1>7, <1>8 DEF IndexNext, indexVars

LEMMA InitIndex == IndexInit => IndexInv
<1> SUFFICES ASSUME IndexInit PROVE IndexInv OBVIOUS
<1>1. Rest \in Resting BY DEF Rest, Resting
<1>2. IndexTypeOK BY <1>1, IndexAssumption DEF IndexInit, IndexTypeOK, Tables
<1>3. NamesGiven BY DEF IndexInit, NamesGiven
<1> QED BY <1>2, <1>3 DEF IndexInv

LEMMA StepIndex == IndexInv /\ [IndexNext]_indexVars => IndexInv'
<1> SUFFICES ASSUME IndexInv, [IndexNext]_indexVars PROVE IndexInv' OBVIOUS
<1>1. /\ indexTime' \in 0..MaxIndexTime
      /\ writers' \in [Writers -> Resting \cup Searching \cup Fetching \cup Observed]
  BY IndexSteps
<1>2. CASE UNCHANGED <<sellers, sellerLinks>>
  BY <1>1, <1>2 DEF IndexInv, IndexTypeOK, NamesGiven
<1>3. ASSUME NEW w \in Writers, NEW table, NEW added, NEW sighted, Puts(w, table, added, sighted)
      PROVE  IndexInv'
  <2>1. sellers' \in Tables /\ sellerLinks' \subseteq Link
        /\ Known(sellers)' = Kept(table, writers[w].at)
        /\ \A s \in Kept(table, writers[w].at) : sellers'[s] = table[s]
    BY <1>3, Written, IndexAssumption DEF Puts, IndexInv, IndexTypeOK
  <2>2. ASSUME NEW s \in Sellers, sellers'[s] # NoRow, sellers'[s].source \in Preferred
        PROVE  sellers'[s].name = sellers'[s].source
    <3>1. s \in Known(sellers)' BY <2>2 DEF Known
    <3>2. sellers'[s] = table[s] BY <2>1, <3>1
    <3>3. table[s] = sellers[s] \/ Replaces(sellers[s], table[s], writers[w].at)
      BY <1>3 DEF Puts
    <3> QED BY <2>2, <3>2, <3>3 DEF Replaces, IndexInv, NamesGiven
  <2>3. NamesGiven' BY <2>2 DEF NamesGiven
  <2> QED BY <1>1, <2>1, <2>3 DEF IndexInv, IndexTypeOK
<1> QED BY <1>2, <1>3, IndexSteps, WritesPut

(* A name that a listing or a profile gave is never replaced by that of a  *)
(* preview, whatever searches and seller lookups write side by side, as    *)
(* long as the seller stays in the index (SearchUpsertSellers).            *)
THEOREM NamesOutrankPreviews == IndexSpec => PreferredNamesStay
<1> DEFINE Stay == \A s \in Sellers :
             sellers[s] # NoRow /\ sellers'[s] # NoRow /\ sellers[s].source \in Preferred =>
               /\ sellers'[s].source \in Preferred
               /\ sellers'[s].name = sellers'[s].source
<1>1. IndexInv /\ [IndexNext]_indexVars => [Stay]_indexVars
  <2> SUFFICES ASSUME IndexInv, [IndexNext]_indexVars PROVE Stay OBVIOUS
  <2> SUFFICES ASSUME NEW s \in Sellers, sellers[s] # NoRow, sellers'[s] # NoRow,
                      sellers[s].source \in Preferred
               PROVE  sellers'[s].source \in Preferred /\ sellers'[s].name = sellers'[s].source
    OBVIOUS
  <2>1. sellers'[s].source \in Preferred => sellers'[s].name = sellers'[s].source
    BY StepIndex DEF IndexInv, NamesGiven
  <2>2. CASE UNCHANGED <<sellers, sellerLinks>> BY <2>1, <2>2
  <2>3. ASSUME NEW w \in Writers, NEW table, NEW added, NEW sighted, Puts(w, table, added, sighted)
        PROVE  sellers'[s].source \in Preferred
    <3>0. /\ writers[w].at \in Nat /\ table \in Tables /\ added \in SUBSET Link
          /\ sellerLinks \subseteq Link /\ WriteIndex(table, added, writers[w].at)
      BY <2>3 DEF Puts, IndexInv, IndexTypeOK
    <3>1. Known(sellers)' = Kept(table, writers[w].at)
          /\ \A q \in Kept(table, writers[w].at) : sellers'[q] = table[q]
      BY <3>0, Written
    <3>2. s \in Known(sellers)' BY DEF Known
    <3>3. sellers'[s] = table[s] BY <3>1, <3>2
    <3>4. table[s] = sellers[s] \/ Replaces(sellers[s], table[s], writers[w].at)
      BY <2>3 DEF Puts
    <3> QED BY <3>3, <3>4 DEF Replaces
  <2> QED BY <2>1, <2>2, <2>3, IndexSteps, WritesPut
<1> QED BY <1>1, InitIndex, StepIndex, PTL DEF IndexSpec, PreferredNamesStay

(* What a writing step drops, it drops for its own cause (pruneSellers).   *)
LEMMA DropHasCause ==
  ASSUME IndexInv, NEW s \in Known(sellers) \ Known(sellers)', NEW w \in Writers, NEW sighted,
         Writes(w, sighted)
  PROVE  MayDrop(w, sighted, s)
<1>1. PICK table, added : Puts(w, table, added, sighted) BY WritesPut
<1> DEFINE at == writers[w].at
           lastSeen == IF s \in sighted THEN at ELSE sellers[s].at
<1>2. /\ at \in Nat /\ table \in Tables /\ added \in SUBSET Link /\ sellerLinks \subseteq Link
      /\ WriteIndex(table, added, at)
  BY <1>1 DEF Puts, IndexInv, IndexTypeOK
<1>3. Known(sellers)' = Kept(table, at) /\ \A q \in Kept(table, at) : sellers'[q] = table[q]
  BY <1>2, Written
<1>4. s \in Sellers /\ sellers[s] \in Row /\ sellers[s].at \in Nat /\ SellerRetention \in Nat
  BY RowTypes DEF Known, IndexInv, IndexTypeOK, Tables
<1>5. table[s] \in Row /\ table[s].at = lastSeen
  BY <1>1, <1>4 DEF Puts, Replaces
<1>6. lastSeen \in Nat BY <1>2, <1>4
<1>7. s \in Known(table) BY <1>4, <1>5, RowTypes DEF Known
<1>8. s \notin Kept(table, at) BY <1>3
<1>9. MayDrop(w, sighted, s)
        <=> \/ at > lastSeen + SellerRetention
            \/ /\ Cardinality(Known(sellers)') = SellerMaximum
               /\ \A t \in Known(sellers)' : sellers'[t].at >= lastSeen
  BY DEF MayDrop
<1> HIDE DEF at, lastSeen
<1>10. CASE s \notin Recent(table, at)
  <2>1. ~ (at <= lastSeen + SellerRetention) BY <1>5, <1>7, <1>10 DEF Recent
  <2> QED BY <1>2, <1>4, <1>6, <1>9, <2>1
<1>11. CASE s \in Recent(table, at)
  <2>1. Cardinality(Kept(table, at)) = SellerMaximum
        /\ \A t \in Kept(table, at) : table[t].at >= table[s].at
    BY <1>2, <1>8, <1>11, DroppedFromFull
  <2> QED BY <1>3, <1>5, <1>9, <2>1
<1> QED BY <1>10, <1>11

(* No seller leaves the index (pruneSellers) but in a write whose command  *)
(* has the cause: its time is past the retention of the seller, or what it *)
(* leaves is a full index of sellers last seen no earlier, where the last  *)
(* time of a seller that the command sees is the command's.  What other    *)
(* commands are doing meanwhile excuses nothing.                           *)
THEOREM SellersAreDroppedForCause == IndexSpec => DroppedForCause
<1> DEFINE Drops ==
      \A s \in Known(sellers) \ Known(sellers)' :
        /\ \E w \in Writers, sighted \in SUBSET Sellers : Writes(w, sighted)
        /\ \A w \in Writers, sighted \in SUBSET Sellers : Writes(w, sighted) => MayDrop(w, sighted, s)
<1>1. IndexInv /\ [IndexNext]_indexVars => [Drops]_indexVars
  <2> SUFFICES ASSUME IndexInv, [IndexNext]_indexVars,
                      NEW s \in Known(sellers) \ Known(sellers)'
               PROVE  /\ \E w \in Writers, sighted \in SUBSET Sellers : Writes(w, sighted)
                      /\ \A w \in Writers, sighted \in SUBSET Sellers :
                           Writes(w, sighted) => MayDrop(w, sighted, s)
    OBVIOUS
  <2>1. ~ UNCHANGED <<sellers, sellerLinks>> BY DEF Known
  <2>2. \E w \in Writers, sighted \in SUBSET Sellers : Writes(w, sighted) BY <2>1, IndexSteps
  <2> QED BY <2>2, DropHasCause
<1> QED BY <1>1, InitIndex, StepIndex, PTL DEF IndexSpec, DroppedForCause

-----------------------------------------------------------------------------
(* What was stored or is about to be is no younger than the clock, and was   *)
(* said by the site no longer than one request before its time.              *)
Dated(entry) ==
  /\ entry.at <= metaTime /\ entry.said <= entry.at /\ entry.at <= entry.said + FetchTime
ReaderDated(r) ==
  /\ readers[r].stage = "wait" => readers[r].asked <= metaTime
  /\ readers[r].stage \in {"store", "answered"} => Dated(readers[r].entry)
  /\ readers[r].stage = "answered" /\ readers[r].source = "cache" /\ ~ readers[r].stale =>
       readers[r].time < readers[r].entry.said + TTL + FetchTime
MetaInv ==
  /\ MetaTypeOK /\ (metaCache # NoEntry => Dated(metaCache))
  /\ \A r \in Readers : ReaderDated(r)

LEMMA MetaTypes ==
  ASSUME MetaTypeOK
  PROVE  /\ metaTime \in Nat /\ metaTime \in MetaTimes /\ NoEntry \notin MetaEntry
         /\ (metaCache # NoEntry => metaCache \in MetaEntry)
         /\ CategoryTTL \in Nat /\ LocationTTL \in Nat /\ FetchTime \in Nat /\ TTL \in Nat
BY MetadataAssumption DEF MetaTypeOK, MetaTimes, MetaEntry, TTL

LEMMA MetaEntryTypes ==
  ASSUME NEW entry \in MetaEntry
  PROVE  entry.at \in Nat /\ entry.said \in Nat
BY MetadataAssumption DEF MetaEntry, MetaTimes

LEMMA ReaderShapes ==
  ASSUME MetaTypeOK, NEW r \in Readers
  PROVE  /\ readers[r].stage = "ask" => readers[r] \in ReadAsking
         /\ readers[r].stage = "wait" => readers[r] \in ReadWaiting
         /\ readers[r].stage = "store" => readers[r] \in ReadStoring
         /\ readers[r].stage = "answered" => readers[r] \in ReadAnswered
<1>1. readers[r] \in NoRead \cup ReadAsking \cup ReadWaiting \cup ReadStoring \cup ReadAnswered
  BY DEF MetaTypeOK
<1>2. /\ readers[r] \in NoRead => readers[r].stage = "idle"
      /\ readers[r] \in ReadAsking => readers[r].stage = "ask"
      /\ readers[r] \in ReadWaiting => readers[r].stage = "wait"
      /\ readers[r] \in ReadStoring => readers[r].stage = "store"
      /\ readers[r] \in ReadAnswered => readers[r].stage = "answered"
  BY DEF NoRead, ReadAsking, ReadWaiting, ReadStoring, ReadAnswered
<1> QED BY <1>1, <1>2

(* A step of one command, which becomes job and stores entry or nothing.     *)
LEMMA ReaderMoves ==
  ASSUME MetaInv, NEW r \in Readers, NEW job, ReaderBecomes(r, job),
         job \in NoRead \cup ReadAsking \cup ReadWaiting \cup ReadStoring \cup ReadAnswered,
         job.stage = "wait" => job.asked <= metaTime,
         job.stage \in {"store", "answered"} => Dated(job.entry),
         job.stage = "answered" /\ job.source = "cache" /\ ~ job.stale =>
           job.time < job.entry.said + TTL + FetchTime,
         metaCache' \in {metaCache, NoEntry} \/ (metaCache' \in MetaEntry /\ Dated(metaCache'))
  PROVE  MetaInv'
<1>1. /\ MetaTypeOK /\ UNCHANGED <<metaTable, metaTime>>
      /\ readers' = [readers EXCEPT ![r] = job]
  BY DEF MetaInv, ReaderBecomes
<1>2. readers'[r] = job /\ \A q \in Readers \ {r} : readers'[q] = readers[q]
  BY <1>1 DEF MetaTypeOK
<1>3. MetaTypeOK'
  BY <1>1 DEF MetaTypeOK, MetaTimes, MetaTables
<1>4. (metaCache # NoEntry => Dated(metaCache))'
  BY <1>1 DEF MetaInv, Dated
<1>5. \A q \in Readers : ReaderDated(q)'
  BY <1>1, <1>2 DEF MetaInv, ReaderDated, Dated, TTL
<1> QED BY <1>3, <1>4, <1>5 DEF MetaInv

LEMMA InitMeta == MetaInit => MetaInv
BY MetadataAssumption DEF MetaInit, MetaInv, MetaTypeOK, MetaTimes, ReaderDated, NoRead

LEMMA StepMeta == MetaInv /\ [MetaNext]_metaVars => MetaInv'
<1> SUFFICES ASSUME MetaInv, [MetaNext]_metaVars PROVE MetaInv'
  OBVIOUS
<1>t. MetaTypeOK /\ \A r \in Readers : ReaderDated(r)
  BY DEF MetaInv
<1>i. [stage |-> "idle"] \in NoRead
  BY DEF NoRead
<1>1. ASSUME NEW r \in Readers, NEW refresh \in BOOLEAN, BeginRead(r, refresh) PROVE MetaInv'
  <2>1. [stage |-> "ask", refresh |-> refresh] \in ReadAsking BY DEF ReadAsking
  <2> QED BY <1>1, <2>1, ReaderMoves DEF BeginRead
<1>2. ASSUME NEW r \in Readers, FromCache(r) PROVE MetaInv'
  <2> DEFINE job == MetaAnswer("cache", metaCache, FALSE)
  <2>1. metaCache \in MetaEntry /\ Dated(metaCache) /\ metaTime - metaCache.at < TTL
    BY <1>2, MetaTypes DEF FromCache, Fresh, MetaAge, MetaInv
  <2>2. job \in ReadAnswered BY <1>t, <2>1, MetaTypes DEF MetaAnswer, ReadAnswered
  <2>3. metaTime < metaCache.said + TTL + FetchTime
    BY <1>t, <2>1, MetaTypes, MetaEntryTypes DEF Dated
  <2>4. /\ job.stage = "answered" /\ job.entry = metaCache /\ job.time = metaTime
    BY DEF MetaAnswer
  <2> HIDE DEF job
  <2>5. ReaderBecomes(r, job) /\ metaCache' = metaCache BY <1>2 DEF FromCache, job
  <2> QED BY <2>1, <2>2, <2>3, <2>4, <2>5, ReaderMoves
<1>3. ASSUME NEW r \in Readers, AskSite(r) PROVE MetaInv'
  <2>1. [stage |-> "wait", asked |-> metaTime] \in ReadWaiting /\ metaTime <= metaTime
    BY <1>t, MetaTypes DEF ReadWaiting
  <2> QED BY <1>3, <2>1, ReaderMoves DEF AskSite
<1>4. ASSUME NEW r \in Readers, NEW empty \in BOOLEAN, SiteAnswers(r, empty) PROVE MetaInv'
  <2> DEFINE entry == [at |-> metaTime, said |-> readers[r].asked]
             job == [stage |-> "store", empty |-> empty, entry |-> entry]
  <2>1. readers[r].stage = "wait" /\ metaTime <= readers[r].asked + FetchTime
    BY <1>4 DEF SiteAnswers
  <2>2. readers[r].asked \in MetaTimes /\ readers[r].asked <= metaTime
    BY <1>t, <2>1, ReaderShapes DEF ReaderDated, ReadWaiting
  <2>3. entry \in MetaEntry /\ Dated(entry)
    BY <1>t, <2>1, <2>2, MetaTypes DEF MetaEntry, Dated
  <2>4. job \in ReadStoring /\ job.stage = "store" /\ job.entry = entry BY <2>3 DEF ReadStoring
  <2>5. ReaderBecomes(r, job) /\ metaCache' = metaCache BY <1>4 DEF SiteAnswers
  <2> HIDE DEF job
  <2> QED BY <2>3, <2>4, <2>5, ReaderMoves
<1>5. ASSUME NEW r \in Readers, StoreMeta(r) PROVE MetaInv'
  <2> DEFINE entry == readers[r].entry
             job == MetaAnswer("site", entry, FALSE)
  <2>1. /\ readers[r].stage = "store" /\ metaCache' \in {NoEntry, entry}
        /\ ReaderBecomes(r, job)
    BY <1>5 DEF StoreMeta
  <2>2. entry \in MetaEntry /\ Dated(entry)
    BY <1>t, <2>1, ReaderShapes DEF ReaderDated, ReadStoring
  <2>3. job \in ReadAnswered BY <1>t, <2>2, MetaTypes DEF MetaAnswer, ReadAnswered
  <2>4. job.stage = "answered" /\ job.entry = entry /\ job.source = "site" BY DEF MetaAnswer
  <2>5. metaCache' \in {metaCache, NoEntry} \/ (metaCache' \in MetaEntry /\ Dated(metaCache'))
    BY <2>1, <2>2
  <2> HIDE DEF job, entry
  <2> QED BY <2>1, <2>2, <2>3, <2>4, <2>5, ReaderMoves
<1>6. ASSUME NEW r \in Readers, FromCacheOnly(r) PROVE MetaInv'
  <2> DEFINE job == MetaAnswer("cache", metaCache, metaTime - metaCache.at >= CategoryTTL)
  <2>1. /\ ReaderBecomes(r, job) /\ metaCache' = metaCache /\ metaCache # NoEntry
        /\ TTL = CategoryTTL
    BY <1>6 DEF FromCacheOnly, MetaAge, TTL
  <2>2. metaCache \in MetaEntry /\ Dated(metaCache) BY <1>t, <2>1, MetaTypes DEF MetaInv
  <2>3. job \in ReadAnswered BY <1>t, <2>2, MetaTypes DEF MetaAnswer, ReadAnswered
  <2>4. /\ job.stage = "answered" /\ job.entry = metaCache /\ job.time = metaTime
        /\ job.stale <=> metaTime - metaCache.at >= CategoryTTL
    BY DEF MetaAnswer
  <2>5. ~ job.stale => metaTime < metaCache.said + TTL + FetchTime
    BY <1>t, <2>1, <2>2, <2>4, MetaTypes, MetaEntryTypes DEF Dated
  <2> HIDE DEF job
  <2> QED BY <2>1, <2>2, <2>3, <2>4, <2>5, ReaderMoves
<1>7. ASSUME NEW r \in Readers, EndRead(r) PROVE MetaInv'
  BY <1>7, <1>i, ReaderMoves DEF EndRead
<1>8. ASSUME MetaTick PROVE MetaInv'
  <2>1. /\ metaTime' = metaTime + 1 /\ metaTime < MaxMetaTime
        /\ UNCHANGED <<metaTable, metaCache, readers>>
    BY <1>8 DEF MetaTick
  <2>2. metaTime \in Nat /\ metaTime' \in MetaTimes
    BY <1>t, <2>1, MetaTypes, MetadataAssumption DEF MetaTimes
  <2>3. MetaTypeOK' BY <1>t, <2>1, <2>2 DEF MetaTypeOK, MetaTables
  <2>4. ASSUME NEW entry \in MetaEntry, Dated(entry) PROVE Dated(entry)'
    BY <2>1, <2>2, <2>4, MetaEntryTypes DEF Dated
  <2>5. (metaCache # NoEntry => Dated(metaCache))'
    <3>1. metaCache # NoEntry => metaCache \in MetaEntry /\ Dated(metaCache)
      BY <1>t, MetaTypes DEF MetaInv
    <3> QED BY <2>1, <2>2, <3>1, MetaEntryTypes DEF Dated
  <2>6. ASSUME NEW r \in Readers PROVE ReaderDated(r)'
    <3>1. readers[r].stage = "wait" => readers[r].asked <= metaTime'
      <4>1. readers[r].stage = "wait" => readers[r].asked \in Nat
        BY <1>t, ReaderShapes, MetadataAssumption DEF ReadWaiting, MetaTimes
      <4> QED BY <1>t, <2>1, <2>2, <4>1 DEF ReaderDated
    <3>2. ASSUME readers[r].stage \in {"store", "answered"} PROVE Dated(readers[r].entry)'
      <4>1. readers[r].entry \in MetaEntry
        BY <1>t, <3>2, ReaderShapes DEF ReadStoring, ReadAnswered
      <4>2. Dated(readers[r].entry) BY <1>t, <3>2 DEF ReaderDated
      <4> QED BY <2>1, <2>2, <4>1, <4>2, MetaEntryTypes DEF Dated
    <3> QED BY <1>t, <2>1, <3>1, <3>2 DEF ReaderDated, TTL
  <2> QED BY <2>3, <2>5, <2>6 DEF MetaInv
<1>9. CASE UNCHANGED metaVars
  BY <1>t, <1>9 DEF metaVars, MetaInv, MetaTypeOK, ReaderDated, Dated, TTL
<1> QED BY <1>1, <1>2, <1>3, <1>4, <1>5, <1>6, <1>7, <1>8, <1>9 DEF MetaNext

(* What the cache answers with is as recent as it claims to be, whoever      *)
(* fetched it and however the fetches overlap.                               *)
THEOREM RecentlyServed == MetaSpec => []ServedIsRecent
<1>1. MetaInv => ServedIsRecent
  BY DEF MetaInv, ReaderDated, ServedIsRecent
<1> QED BY <1>1, InitMeta, StepMeta, PTL DEF MetaSpec

-----------------------------------------------------------------------------
(* One of them moves while the others rest.                                *)
LEMMA EachPartMoves ==
  ASSUME [WebsiteNext]_<<part, vars, searchVars, indexVars, metaVars>>
  PROVE  [Next]_vars /\ [SearchNext]_searchVars /\ [IndexNext]_indexVars /\ [MetaNext]_metaVars
BY DEF WebsiteNext, WebPart, SearchPart, IndexPart, MetadataPart

(* What the run website checks is a behaviour of each of the parts, so     *)
(* that every theorem above holds in it.                                   *)
THEOREM PartsKeepTheirSpecs == WebsiteSpec => Spec /\ SearchSpec /\ IndexSpec /\ MetaSpec
<1>1. WebsiteInit => Init /\ SearchInit /\ IndexInit /\ MetaInit
  BY DEF WebsiteInit
<1>2. [WebsiteNext]_<<part, vars, searchVars, indexVars, metaVars>>
        => [Next]_vars /\ [SearchNext]_searchVars /\ [IndexNext]_indexVars /\ [MetaNext]_metaVars
  BY EachPartMoves
<1> QED
  BY <1>1, <1>2, PTL DEF WebsiteSpec, Spec, SearchSpec, IndexSpec, MetaSpec

(* Whatever runs, the index of sellers, the reservations, the search and   *)
(* the cached metadata keep the form their statements write.               *)
THEOREM WebsiteTypeCorrect == WebsiteSpec => []WebsiteTypeOK
<1>1. TypeOK /\ SearchTypeOK /\ IndexInv /\ MetaInv => WebsiteTypeOK
  BY DEF WebsiteTypeOK, IndexInv, MetaInv
<1>2. IndexSpec => []IndexInv
  BY InitIndex, StepIndex, PTL DEF IndexSpec
<1>3. MetaSpec => []MetaInv
  BY InitMeta, StepMeta, PTL DEF MetaSpec
<1> QED
  BY <1>1, <1>2, <1>3, PartsKeepTheirSpecs, TypeCorrect, SearchTypeCorrect, PTL
=============================================================================
