------------------------------- MODULE WebPacing -------------------------------
(***************************************************************************)
(* The requests of the anonymous website transport                         *)
(* (internal/kleinanzeigen/web_transport.go and web_rate.go): clients, in  *)
(* any number of processes, that reserve request starts of one host and    *)
(* stop when the host has asked any of them to.  A client runs one fetch   *)
(* or opens one image at a time.  It may be held up between any two steps, *)
(* and reads the clock before the statement that uses what it read.        *)
(***************************************************************************)
EXTENDS RateSlots

CONSTANTS
  Clients,
  QueueLimit,    \* the 30 seconds reserve passes as the longest queue
  MinCooldown,   \* the minute a 429 asks for at least
  RetryAfters,   \* delays a 429 may ask for
  MaxRequests    \* requests of one operation: five of a fetch, six of an image

ASSUME PacingAssumption ==
  QueueLimit \in Nat /\ MinCooldown \in Nat /\ RetryAfters \subseteq Nat
    /\ MaxRequests \in Nat

VARIABLES
  pc,            \* per client: its next step
  seen,          \* what the client last read from the clock
  slot,          \* the start it reserved
  delay,         \* what the 429 it received asked for
  hops,          \* requests its operation has made
  requests,      \* history: the requests that went out
  quiet,         \* history: until when a recorded 429 asked for silence
  cleared        \* history: clients about to send when it was recorded

local == <<pc, seen, slot, delay, hops>>
history == <<requests, quiet, cleared>>
vars == <<now, next, cooldown, local, history>>

Pcs == {"idle", "check", "reserve", "sleep", "recheck", "dispatch", "wait", "persist"}
Request == [client : Clients, slot : Nat, at : 0..MaxTime]

TypeOK ==
  /\ RateTypeOK
  /\ pc \in [Clients -> Pcs] /\ seen \in [Clients -> 0..MaxTime]
  /\ slot \in [Clients -> Nat] /\ delay \in [Clients -> Nat]
  /\ hops \in [Clients -> 0..MaxRequests]
  /\ requests \subseteq Request /\ quiet \in Nat /\ cleared \subseteq Clients

Init ==
  /\ RateInit
  /\ pc = [c \in Clients |-> "idle"] /\ seen = [c \in Clients |-> 0]
  /\ slot = [c \in Clients |-> 0] /\ delay = [c \in Clients |-> 0]
  /\ hops = [c \in Clients |-> 0]
  /\ requests = {} /\ quiet = 0 /\ cleared = {}

-----------------------------------------------------------------------------
Goto(c, step) == pc' = [pc EXCEPT ![c] = step]
ReadClock(c) == seen' = [seen EXCEPT ![c] = now]
(* The next operation of a client starts from nothing. *)
Finish(c) ==
  /\ Goto(c, "idle")
  /\ seen' = [seen EXCEPT ![c] = 0] /\ slot' = [slot EXCEPT ![c] = 0]
  /\ delay' = [delay EXCEPT ![c] = 0] /\ hops' = [hops EXCEPT ![c] = 0]

(* Do, OpenMedia *)
Begin(c) ==
  /\ pc[c] = "idle" /\ MaxRequests > 0
  /\ Goto(c, "check") /\ ReadClock(c)
  /\ UNCHANGED <<now, next, cooldown, slot, delay, hops, history>>

(* reserve: the cooldown ... *)
Check(c) ==
  /\ pc[c] = "check"
  /\ \/ ~ Cooling(seen[c]) /\ Goto(c, "reserve") /\ ReadClock(c) /\ UNCHANGED <<slot, delay, hops>>
     \/ Cooling(seen[c]) /\ Finish(c)
  /\ UNCHANGED <<now, next, cooldown, history>>

(* ... the slot ... *)
Reserve(c) ==
  /\ pc[c] = "reserve"
  /\ \/ /\ Fits(seen[c], QueueLimit)
        /\ \E j \in Jitters : ReserveSlot(seen[c], j)
        /\ slot' = [slot EXCEPT ![c] = SlotStart(seen[c])]
        /\ Goto(c, "sleep")
        /\ UNCHANGED <<seen, delay, hops>>
     \/ ~ Fits(seen[c], QueueLimit) /\ Finish(c) /\ UNCHANGED next
  /\ UNCHANGED <<now, cooldown, history>>

(* ... the wait for it, and the cooldown once more. *)
Wake(c) ==
  /\ pc[c] = "sleep" /\ slot[c] <= now
  /\ Goto(c, "recheck") /\ ReadClock(c)
  /\ UNCHANGED <<now, next, cooldown, slot, delay, hops, history>>

RecheckNothing(c) ==   \* mutant: one check is enough
  /\ pc[c] = "recheck" /\ Goto(c, "dispatch")
  /\ UNCHANGED <<now, next, cooldown, seen, slot, delay, hops, history>>

Recheck(c) ==
  /\ pc[c] = "recheck"
  /\ \/ ~ Cooling(seen[c]) /\ Goto(c, "dispatch") /\ UNCHANGED <<seen, slot, delay, hops>>
     \/ Cooling(seen[c]) /\ Finish(c)
  /\ UNCHANGED <<now, next, cooldown, history>>

Dispatch(c) ==
  /\ pc[c] = "dispatch"
  /\ requests' = requests \cup {[client |-> c, slot |-> slot[c], at |-> now]}
  /\ hops' = [hops EXCEPT ![c] = @ + 1]
  /\ Goto(c, "wait")
  /\ UNCHANGED <<now, next, cooldown, seen, slot, delay, quiet, cleared>>

-----------------------------------------------------------------------------
AnswerEndless(c) ==   \* mutant: redirects are not counted
  /\ pc[c] = "wait"
  /\ Goto(c, "check") /\ ReadClock(c)
  /\ UNCHANGED <<now, next, cooldown, slot, delay, hops, history>>

AnswerUnpaced(c) ==   \* mutant: a redirect is followed at once
  /\ pc[c] = "wait"
  /\ \/ hops[c] < MaxRequests /\ Goto(c, "recheck") /\ ReadClock(c)
          /\ UNCHANGED <<slot, delay, hops>>
     \/ Finish(c)
  /\ UNCHANGED <<now, next, cooldown, history>>

(* A redirect starts over with the next request of the operation, a 429    *)
(* asks for a cooldown, and any other answer or error ends the operation.  *)
Answer(c) ==
  /\ pc[c] = "wait"
  /\ \/ hops[c] < MaxRequests /\ Goto(c, "check") /\ ReadClock(c)
          /\ UNCHANGED <<slot, delay, hops>>
     \/ /\ \E r \in RetryAfters : delay' = [delay EXCEPT ![c] = Later(MinCooldown, r)]
        /\ Goto(c, "persist") /\ ReadClock(c)
        /\ UNCHANGED <<slot, hops>>
     \/ Finish(c)
  /\ UNCHANGED <<now, next, cooldown, history>>

(* persistCooldown *)
Persist(c) ==
  /\ pc[c] = "persist"
  /\ SetCooldown(seen[c] + delay[c])
  /\ quiet' = Later(quiet, seen[c] + delay[c])
  /\ cleared' = {d \in Clients : pc[d] = "dispatch"}
  /\ Finish(c)
  /\ UNCHANGED <<now, next, requests>>

(* The deadline of the operation, an interrupt, a failed statement or a    *)
(* crash.  A reserved slot stays reserved, a 429 may go unrecorded.        *)
Stop(c) ==
  /\ pc[c] # "idle"
  /\ Finish(c)
  /\ UNCHANGED <<now, next, cooldown, history>>

Tick ==
  /\ now < MaxTime
  /\ now' = now + 1
  /\ UNCHANGED <<next, cooldown, local, history>>

Client(c) ==
  \/ Begin(c) \/ Check(c) \/ Reserve(c) \/ Wake(c) \/ Recheck(c)
  \/ Dispatch(c) \/ Answer(c) \/ Persist(c) \/ Stop(c)
Next == (\E c \in Clients : Client(c)) \/ Tick
Spec == Init /\ [][Next]_vars

-----------------------------------------------------------------------------
Apart(s, t) == s + Spacing <= t \/ t + Spacing <= s

(* Every request, a redirected one too, has a start of its own, at least   *)
(* Spacing from that of any other request of any process, and does not go  *)
(* out before it.  So t ticks see at most t \div Spacing + 1 requests.     *)
RequestsArePaced ==
  /\ \A r \in requests : r.slot <= r.at
  /\ \A r, q \in requests : r # q => Apart(r.slot, q.slot)

(* Once a 429 is recorded nobody sends before its time is over, except who *)
(* had already passed the last check: also not a client that was waiting   *)
(* for its slot, and whatever other answers ask for less.                  *)
SilenceIsKept ==
  \A c \in Clients : pc[c] = "dispatch" /\ now < quiet => c \in cleared

(* The queue of reserved starts never reaches further than its limit.      *)
QueueIsBounded == next <= now + QueueLimit + Spacing + MaxJitter

-----------------------------------------------------------------------------
(* What types alone do not say: a client about to ask has requests left. *)
Asking == {"check", "reserve", "sleep", "recheck", "dispatch"}
RequestsLeft ==
  \A c \in Clients : /\ pc[c] = "idle" => hops[c] = 0
                     /\ pc[c] \in Asking => hops[c] < MaxRequests
Typed == TypeOK /\ RequestsLeft

(* Why the requests are paced: starts that are or may still be used lie    *)
(* Spacing apart and Spacing before the next one.                          *)
Holding == {"sleep", "recheck", "dispatch"}
Starts ==
  /\ \A r \in requests : r.slot + Spacing <= next
  /\ \A c \in Clients : pc[c] \in Holding =>
       /\ slot[c] + Spacing <= next
       /\ \A r \in requests : Apart(r.slot, slot[c])
       /\ \A d \in Clients : pc[d] \in Holding /\ d # c => Apart(slot[c], slot[d])
NoneEarly == \A c \in Clients : pc[c] \in {"recheck", "dispatch"} => slot[c] <= now
ClocksPast == \A c \in Clients : seen[c] <= now
Pacing == Starts /\ NoneEarly /\ RequestsArePaced

(* Why silence is kept: the row remembers every recorded 429. *)
Silence == ClocksPast /\ quiet <= cooldown /\ SilenceIsKept
Queueing == ClocksPast /\ QueueIsBounded
=============================================================================
