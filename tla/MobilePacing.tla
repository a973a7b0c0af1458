------------------------------ MODULE MobilePacing ------------------------------
(***************************************************************************)
(* The requests of the mobile transport and its retries                    *)
(* (internal/kleinanzeigen/policy.go): clients, in any number of           *)
(* processes, that reserve request starts of one host, repeat a read that  *)
(* was not answered or answered with an overload, and move the next start  *)
(* of the host when the answer asks for it.  A client runs one Do at a     *)
(* time, and reads the clock before the statement that uses what it read.  *)
(***************************************************************************)
EXTENDS RateSlots

CONSTANTS
  Callers,
  MobileQueueLimit,   \* the 30 seconds a OneShot request may have to wait
  ReadAttempts,       \* attempts of a read
  Backoff,            \* a step of retryBackoff
  AskedDelays,        \* values of Retry-After
  LongestDelay        \* the longest delay that a time.Duration can hold

ASSUME MobileAssumption ==
  /\ MobileQueueLimit \in Nat /\ ReadAttempts \in Nat \ {0} /\ Backoff \in Nat
  /\ AskedDelays \subseteq Nat /\ LongestDelay \in Nat

VARIABLES
  calls,         \* per caller: its Do
  sentSlots,     \* history: the starts of the requests that went out
  recordedUntil  \* history: until when the delays recorded asked for no request

mobileVars == <<now, next, cooldown, calls, sentSlots, recordedUntil>>

Steps == {"ready", "sleep", "wait", "move", "pause"}
NotCalled == [step |-> "none"]
(* class: whether it may be repeated; tries: its requests; seen: the clock *)
(* as it read it; slot: the reserved start; recorded: history, what was    *)
(* recorded when it was reserved; until: the end or length of a pause.     *)
Call == [step : Steps, class : {"read", "once"}, oneShot : BOOLEAN,
         tries : 0..ReadAttempts, seen : 0..MaxTime, slot : Nat, recorded : Nat,
         until : Nat]

MobileTypeOK ==
  /\ RateTypeOK
  /\ calls \in [Callers -> Call \cup {NotCalled}]
  /\ sentSlots \subseteq 0..MaxTime /\ recordedUntil \in Nat

MobileInit ==
  /\ RateInit
  /\ calls = [c \in Callers |-> NotCalled]
  /\ sentSlots = {} /\ recordedUntil = 0

-----------------------------------------------------------------------------
AttemptsAlways(class) == ReadAttempts   \* mutant: everything is repeated
Attempts(class) == IF class = "read" THEN ReadAttempts ELSE 1
MayRepeat(call) == call.tries < Attempts(call.class)

MobileUnchanged == UNCHANGED <<now, cooldown>>
Proceed(c, call) == calls' = [calls EXCEPT ![c] = call]

(* Do for a class that is a stable or volatile read, or any other; and     *)
(* OpenMedia, which asks once.                                             *)
Call_Begin(c, class, oneShot) ==
  /\ calls[c].step = "none"
  /\ Proceed(c, [step |-> "ready", class |-> class, oneShot |-> oneShot, tries |-> 0,
                 seen |-> now, slot |-> 0, recorded |-> 0, until |-> 0])
  /\ MobileUnchanged /\ UNCHANGED <<next, sentSlots, recordedUntil>>

(* reserve: only a OneShot request refuses to wait for long.  Starts that  *)
(* the bounded clock does not reach are left out.                          *)
Call_Reserve(c, jitter) ==
  LET call == calls[c] IN
  /\ call.step = "ready" /\ SlotStart(call.seen) <= MaxTime
  /\ call.oneShot => Fits(call.seen, MobileQueueLimit)
  /\ ReserveSlot(call.seen, jitter)
  /\ Proceed(c, [call EXCEPT !.step = "sleep", !.slot = SlotStart(call.seen),
                             !.recorded = recordedUntil])
  /\ MobileUnchanged /\ UNCHANGED <<sentSlots, recordedUntil>>

(* base.Do, when the start has come.                                       *)
Call_Send(c) ==
  LET call == calls[c] IN
  /\ call.step = "sleep" /\ call.slot <= now
  /\ sentSlots' = sentSlots \cup {call.slot}
  /\ Proceed(c, [call EXCEPT !.step = "wait", !.tries = @ + 1, !.slot = 0, !.recorded = 0])
  /\ MobileUnchanged /\ UNCHANGED <<next, recordedUntil>>

(* No connection: a read is repeated after a pause.                        *)
Call_Unanswered(c) ==
  LET call == calls[c] IN
  /\ call.step = "wait" /\ MayRepeat(call)
  /\ Proceed(c, [call EXCEPT !.step = "pause", !.until = now + call.tries * Backoff])
  /\ MobileUnchanged /\ UNCHANGED <<next, sentSlots, recordedUntil>>

(* 429, 500 or 503: a read is repeated after what Retry-After asks for, or *)
(* the pause.  A number of seconds that overflows is a delay in the past,  *)
(* which is none, or some other delay.                                     *)
Call_Overloaded(c, delay) ==
  LET call == calls[c] IN
  /\ call.step = "wait" /\ MayRepeat(call)
  /\ Proceed(c, IF delay \in 1..LongestDelay
                THEN [call EXCEPT !.step = "move", !.seen = now, !.until = delay]
                ELSE [call EXCEPT !.step = "pause", !.until = now])
  /\ MobileUnchanged /\ UNCHANGED <<next, sentSlots, recordedUntil>>
DelaysOf(call) == AskedDelays \cup {call.tries * Backoff}

Call_Move(c) ==
  LET call == calls[c] IN
  /\ call.step = "move"
  /\ MoveSlot(call.seen + call.until)
  /\ recordedUntil' = Later(recordedUntil, call.seen + call.until)
  /\ Proceed(c, [call EXCEPT !.step = "pause", !.until = now + @, !.seen = 0])
  /\ MobileUnchanged /\ UNCHANGED sentSlots

Call_Again(c) ==
  LET call == calls[c] IN
  /\ call.step = "pause" /\ call.until <= now
  /\ Proceed(c, [call EXCEPT !.step = "ready", !.seen = now, !.until = 0])
  /\ MobileUnchanged /\ UNCHANGED <<next, sentSlots, recordedUntil>>

(* An answer or an error that is final, the deadline of requestDeadline,   *)
(* an interrupt, a queue that is too long, a failed statement or a crash.  *)
(* What Retry-After a final answer has, that of the last attempt or of     *)
(* what is not a read, is not recorded: Do returns before it looks.        *)
Call_End(c) ==
  /\ calls[c].step # "none"
  /\ Proceed(c, NotCalled)
  /\ MobileUnchanged /\ UNCHANGED <<next, sentSlots, recordedUntil>>

MobileTick ==
  /\ now < MaxTime /\ now' = now + 1
  /\ UNCHANGED <<next, cooldown, calls, sentSlots, recordedUntil>>

Caller(c) ==
  \/ \E class \in {"read", "once"}, oneShot \in BOOLEAN : Call_Begin(c, class, oneShot)
  \/ \E jitter \in Jitters : Call_Reserve(c, jitter)
  \/ Call_Send(c) \/ Call_Unanswered(c) \/ Call_Move(c) \/ Call_Again(c) \/ Call_End(c)
  \/ calls[c].step = "wait" /\ \E delay \in DelaysOf(calls[c]) : Call_Overloaded(c, delay)
MobileNext == (\E c \in Callers : Caller(c)) \/ MobileTick
MobileSpec == MobileInit /\ [][MobileNext]_mobileVars

-----------------------------------------------------------------------------
SlotsApart(s, t) == s + Spacing <= t \/ t + Spacing <= s

(* Every request about to go out, a repeated one too, has a start of its   *)
(* own, Spacing from that of any other of any process, sent or not, and    *)
(* not before the end of any delay that a retry of any process had         *)
(* recorded when the start was reserved.  Delays that final answers ask    *)
(* for are not recorded, and not kept.                                     *)
RecordedDelayIsKept ==
  \A c \in Callers : calls[c].step = "sleep" =>
    /\ calls[c].recorded <= calls[c].slot
    /\ \A s \in sentSlots : SlotsApart(s, calls[c].slot)
    /\ \A d \in Callers \ {c} :
         calls[d].step = "sleep" => SlotsApart(calls[c].slot, calls[d].slot)

(* What is not a read goes out at most once, whatever is or is not         *)
(* answered; a read, as often as it has attempts.                          *)
UnsafeIsSentOnce ==
  \A c \in Callers : calls[c].step # "none" =>
    calls[c].tries <= IF calls[c].class = "read" THEN ReadAttempts ELSE 1
=============================================================================
