-------------------------- MODULE MobilePacingProofs --------------------------
(***************************************************************************)
(* What MobilePacing guarantees for any number of callers and every choice *)
(* of its times: which requests are repeated, and that a recorded delay is *)
(* kept.                                                                   *)
(***************************************************************************)
EXTENDS MobilePacing, TLAPS

(* The later of two instants. *)
LEMMA LaterOfTwo ==
  ASSUME NEW s \in Nat, NEW t \in Nat
  PROVE  Later(s, t) \in Nat /\ s <= Later(s, t) /\ t <= Later(s, t)
BY DEF Later

LEMMA ProductIsNat == ASSUME NEW m \in Nat, NEW n \in Nat PROVE m * n \in Nat
OBVIOUS

(* A running Do is a record of all its fields. *)
LEMMA RunningCall ==
  ASSUME MobileTypeOK, NEW c \in Callers, calls[c].step # "none"
  PROVE  calls[c] \in Call
BY DEF MobileTypeOK, NotCalled

(* What becomes of one Do leaves the types of the others alone. *)
LEMMA ProceedTyped ==
  ASSUME MobileTypeOK, NEW c \in Callers, NEW call \in Call \cup {NotCalled}, Proceed(c, call)
  PROVE  /\ calls' \in [Callers -> Call \cup {NotCalled}]
         /\ calls'[c] = call /\ \A d \in Callers \ {c} : calls'[d] = calls[d]
BY DEF MobileTypeOK, Proceed

-----------------------------------------------------------------------------
(* Who is not waiting for an answer has an attempt left. *)
TriesLeft(call) ==
  call.step # "none" =>
    call.tries <= Attempts(call.class) /\ (call.step # "wait" => call.tries < Attempts(call.class))
Repeating == \A c \in Callers : TriesLeft(calls[c])
Typed == MobileTypeOK /\ Repeating

LEMMA InitTyped == MobileInit => Typed
BY SpacingAssumption, MobileAssumption
   DEF MobileInit, RateInit, Typed, MobileTypeOK, RateTypeOK, Repeating, TriesLeft, NotCalled

LEMMA StepTyped == Typed /\ [MobileNext]_mobileVars => Typed'
<1> SUFFICES ASSUME Typed, [MobileNext]_mobileVars PROVE Typed'
  OBVIOUS
<1> USE SpacingAssumption, MobileAssumption DEF Typed
<1>t. /\ now \in 0..MaxTime /\ next \in Nat /\ cooldown \in Nat
      /\ sentSlots \subseteq 0..MaxTime /\ recordedUntil \in Nat
  BY DEF MobileTypeOK, RateTypeOK
<1>n. now \in Nat /\ 0 \in 0..MaxTime
  BY <1>t
(* It is enough that the new record of the caller is right. *)
<1>p. ASSUME NEW c \in Callers, NEW call \in Call \cup {NotCalled}, Proceed(c, call),
             TriesLeft(call), MobileUnchanged, next' \in Nat, recordedUntil' \in Nat,
             sentSlots' \subseteq 0..MaxTime
      PROVE  Typed'
  <2>1. /\ calls' \in [Callers -> Call \cup {NotCalled}]
        /\ calls'[c] = call /\ \A d \in Callers \ {c} : calls'[d] = calls[d]
    BY <1>p, ProceedTyped
  <2>2. Repeating'
    BY <2>1, <1>p DEF Repeating, TriesLeft, Attempts
  <2> QED
    BY <2>1, <2>2, <1>p, <1>t DEF MobileTypeOK, RateTypeOK, MobileUnchanged
<1>1. ASSUME NEW c \in Callers, NEW class \in {"read", "once"}, NEW oneShot \in BOOLEAN,
             Call_Begin(c, class, oneShot)
      PROVE  Typed'
  <2> DEFINE call == [step |-> "ready", class |-> class, oneShot |-> oneShot, tries |-> 0,
                      seen |-> now, slot |-> 0, recorded |-> 0, until |-> 0]
  <2>1. call \in Call
    BY <1>t DEF Call, Steps
  <2>2. TriesLeft(call)
    BY DEF TriesLeft, Attempts
  <2> QED
    BY <1>1, <1>p, <1>t, <2>1, <2>2 DEF Call_Begin
<1>2. ASSUME NEW c \in Callers, NEW jitter \in Jitters, Call_Reserve(c, jitter) PROVE Typed'
  <2> DEFINE call == [calls[c] EXCEPT !.step = "sleep", !.slot = SlotStart(calls[c].seen),
                                      !.recorded = recordedUntil]
  <2>0. calls[c].step = "ready" /\ calls[c] \in Call
    BY <1>2, RunningCall DEF Call_Reserve
  <2>5. calls[c].seen \in Nat
    BY <2>0, <1>t DEF Call
  <2>1. SlotStart(calls[c].seen) \in Nat
    BY <2>5, <1>t, LaterOfTwo DEF SlotStart
  <2>2. call \in Call
    BY <2>0, <2>1, <1>t DEF Call, Steps
  <2>3. TriesLeft(call)
    BY <2>0 DEF TriesLeft, Repeating, Call
  <2>6. jitter \in Nat
    OBVIOUS
  <2>4. next' \in Nat
    BY <1>2, <2>1, <2>6 DEF Call_Reserve, ReserveSlot
  <2> QED
    BY <1>2, <1>p, <1>t, <2>2, <2>3, <2>4 DEF Call_Reserve
<1>3. ASSUME NEW c \in Callers, Call_Send(c) PROVE Typed'
  <2> DEFINE call == [calls[c] EXCEPT !.step = "wait", !.tries = @ + 1, !.slot = 0, !.recorded = 0]
  <2>0. calls[c].step = "sleep" /\ calls[c] \in Call
    BY <1>3, RunningCall DEF Call_Send
  <2>1. calls[c].tries < Attempts(calls[c].class)
    BY <2>0 DEF Repeating, TriesLeft
  <2>5. calls[c].tries + 1 \in 0..ReadAttempts
    BY <2>0, <2>1 DEF Call, Attempts
  <2>2. call \in Call
    BY <2>0, <2>5 DEF Call, Steps
  <2>3. TriesLeft(call)
    BY <2>0, <2>1 DEF TriesLeft, Call, Attempts
  <2>4. sentSlots' \subseteq 0..MaxTime
    BY <1>3, <1>t, <2>0 DEF Call_Send, Call
  <2> QED
    BY <1>3, <1>p, <1>t, <2>2, <2>3, <2>4 DEF Call_Send
<1>4. ASSUME NEW c \in Callers, Call_Unanswered(c) PROVE Typed'
  <2> DEFINE call == [calls[c] EXCEPT !.step = "pause", !.until = now + calls[c].tries * Backoff]
  <2>0. calls[c].step = "wait" /\ calls[c] \in Call /\ MayRepeat(calls[c])
    BY <1>4, RunningCall DEF Call_Unanswered
  <2>1. now + calls[c].tries * Backoff \in Nat
    BY <2>0, <1>t, ProductIsNat DEF Call
  <2>2. call \in Call
    BY <2>0, <2>1 DEF Call, Steps
  <2>3. TriesLeft(call)
    BY <2>0 DEF TriesLeft, MayRepeat, Call, Attempts
  <2> QED
    BY <1>4, <1>p, <1>t, <2>2, <2>3 DEF Call_Unanswered
<1>5. ASSUME NEW c \in Callers, NEW delay \in DelaysOf(calls[c]), Call_Overloaded(c, delay)
      PROVE  Typed'
  <2> DEFINE moving == [calls[c] EXCEPT !.step = "move", !.seen = now, !.until = delay]
             pausing == [calls[c] EXCEPT !.step = "pause", !.until = now]
  <2>0. calls[c].step = "wait" /\ calls[c] \in Call /\ MayRepeat(calls[c])
    BY <1>5, RunningCall DEF Call_Overloaded
  <2>1. ASSUME delay \in Nat PROVE moving \in Call
    BY <2>0, <2>1, <1>t DEF Call, Steps
  <2>2. pausing \in Call
    BY <2>0, <1>t, <1>n DEF Call, Steps
  <2>3. TriesLeft(moving) /\ TriesLeft(pausing)
    BY <2>0 DEF TriesLeft, MayRepeat, Call, Attempts
  <2>4. CASE delay \in 1..LongestDelay
    <3>1. delay \in Nat
      BY <2>4, MobileAssumption
    <3> QED
      BY <1>5, <2>4, <3>1, <1>p, <1>t, <2>1, <2>3 DEF Call_Overloaded
  <2>5. CASE delay \notin 1..LongestDelay
    BY <1>5, <2>5, <1>p, <1>t, <2>2, <2>3 DEF Call_Overloaded
  <2> QED
    BY <2>4, <2>5
<1>6. ASSUME NEW c \in Callers, Call_Move(c) PROVE Typed'
  <2> DEFINE call == [calls[c] EXCEPT !.step = "pause", !.until = now + @, !.seen = 0]
  <2>0. calls[c].step = "move" /\ calls[c] \in Call
    BY <1>6, RunningCall DEF Call_Move
  <2>1. calls[c].seen + calls[c].until \in Nat
    BY <2>0, <1>n DEF Call
  <2>5. now + calls[c].until \in Nat
    BY <2>0, <1>n DEF Call
  <2>2. call \in Call
    BY <2>0, <2>5, <1>n DEF Call, Steps
  <2>3. TriesLeft(call)
    BY <2>0 DEF TriesLeft, Repeating, Call
  <2>4. next' \in Nat /\ recordedUntil' \in Nat
    BY <1>6, <1>t, <2>1, LaterOfTwo DEF Call_Move, MoveSlot
  <2> QED
    BY <1>6, <1>p, <1>t, <2>2, <2>3, <2>4 DEF Call_Move
<1>7. ASSUME NEW c \in Callers, Call_Again(c) PROVE Typed'
  <2> DEFINE call == [calls[c] EXCEPT !.step = "ready", !.seen = now, !.until = 0]
  <2>0. calls[c].step = "pause" /\ calls[c] \in Call
    BY <1>7, RunningCall DEF Call_Again
  <2>2. call \in Call
    BY <2>0, <1>t DEF Call, Steps
  <2>3. TriesLeft(call)
    BY <2>0 DEF TriesLeft, Repeating, Call
  <2> QED
    BY <1>7, <1>p, <1>t, <2>2, <2>3 DEF Call_Again
<1>8. ASSUME NEW c \in Callers, Call_End(c) PROVE Typed'
  <2>1. TriesLeft(NotCalled)
    BY DEF TriesLeft, NotCalled
  <2> QED
    BY <1>8, <1>p, <1>t, <2>1 DEF Call_End
<1>9. CASE MobileTick
  BY <1>9, <1>t DEF MobileTick, MobileTypeOK, RateTypeOK, Repeating, TriesLeft
<1>10. CASE UNCHANGED mobileVars
  BY <1>10 DEF mobileVars, MobileTypeOK, RateTypeOK, Repeating, TriesLeft
<1> QED
  BY <1>1, <1>2, <1>3, <1>4, <1>5, <1>6, <1>7, <1>8, <1>9, <1>10 DEF MobileNext, Caller

LEMMA AlwaysTyped == MobileSpec => []Typed
BY InitTyped, StepTyped, PTL DEF MobileSpec

(* Every variable keeps its type; no Do exceeds the attempts of a read.    *)
THEOREM MobileTypeCorrect == MobileSpec => []MobileTypeOK
<1>1. Typed => MobileTypeOK
  BY DEF Typed
<1> QED
  BY AlwaysTyped, <1>1, PTL

(* What is not a read goes out at most once, whatever any process asks for *)
(* and however often the clock lets it wait.                               *)
THEOREM OnceOnly == MobileSpec => []UnsafeIsSentOnce
<1>1. Typed => UnsafeIsSentOnce
  BY DEF Typed, Repeating, TriesLeft, UnsafeIsSentOnce, Attempts
<1> QED
  BY AlwaysTyped, <1>1, PTL

-----------------------------------------------------------------------------
(* What was recorded and what was reserved lies before the row of the      *)
(* host, so whatever is reserved next is after both.                       *)
Sleeping(c) == calls[c].step = "sleep"
BeforeRow == /\ recordedUntil <= next
             /\ \A s \in sentSlots : s + Spacing <= next
             /\ \A c \in Callers : Sleeping(c) => calls[c].slot + Spacing <= next
Kept == Typed /\ BeforeRow /\ RecordedDelayIsKept

LEMMA InitKept == MobileInit => Kept
BY InitTyped DEF MobileInit, RateInit, NotCalled, Kept, BeforeRow, Sleeping, RecordedDelayIsKept

(* Where the row only moves on, and who sleeps was asleep with the same    *)
(* start and nothing more was sent, everything is kept.                    *)
LEMMA QuietStepKeeps ==
  ASSUME Kept, Typed', next' \in Nat, next <= next', recordedUntil' <= next', sentSlots' = sentSlots,
         \A c \in Callers : Sleeping(c)' => calls'[c] = calls[c]
  PROVE  Kept'
<1>t. /\ next \in Nat /\ Spacing \in Nat /\ \A s \in sentSlots : s \in Nat
      /\ \A c \in Callers : Sleeping(c) => calls[c].slot \in Nat
  BY SpacingAssumption, RunningCall DEF Kept, Typed, MobileTypeOK, RateTypeOK, Sleeping, Call
<1>1. BeforeRow'
  BY <1>t DEF Kept, BeforeRow, Sleeping
<1>2. RecordedDelayIsKept'
  BY DEF Kept, Sleeping, RecordedDelayIsKept, SlotsApart
<1> QED
  BY <1>1, <1>2 DEF Kept

LEMMA StepKept == Kept /\ [MobileNext]_mobileVars => Kept'
<1> SUFFICES ASSUME Kept, [MobileNext]_mobileVars PROVE Kept'
  OBVIOUS
<1>i. Typed /\ BeforeRow /\ RecordedDelayIsKept /\ MobileTypeOK
  BY DEF Kept, Typed
<1>y. Typed'
  BY <1>i, StepTyped
<1>t. /\ next \in Nat /\ next' \in Nat /\ recordedUntil \in Nat /\ Spacing \in Nat
      /\ now \in Nat
      /\ \A s \in sentSlots : s \in Nat
      /\ \A c \in Callers : calls[c].step # "none" =>
           calls[c].slot \in Nat /\ calls[c].seen \in Nat /\ calls[c].until \in Nat
  BY <1>i, <1>y, SpacingAssumption, RunningCall DEF Typed, MobileTypeOK, RateTypeOK, Call
<1>f. ASSUME NEW c \in Callers, NEW call, Proceed(c, call)
      PROVE  calls'[c] = call /\ \A d \in Callers \ {c} : calls'[d] = calls[d]
  BY <1>i, <1>f DEF Proceed, MobileTypeOK
(* A caller that is not asleep afterwards, when only the row may move on.  *)
<1>q. ASSUME NEW c \in Callers, calls'[c].step # "sleep",
             \A d \in Callers \ {c} : calls'[d] = calls[d],
             next <= next', recordedUntil' <= next', sentSlots' = sentSlots
      PROVE  Kept'
  <2>1. \A d \in Callers : Sleeping(d)' => calls'[d] = calls[d]
    BY <1>q DEF Sleeping
  <2> QED
    BY <1>q, <1>y, <1>t, <2>1, QuietStepKeeps
<1>1. ASSUME NEW c \in Callers, NEW class \in {"read", "once"}, NEW oneShot \in BOOLEAN,
             Call_Begin(c, class, oneShot)
      PROVE  Kept'
  <2>1. calls'[c].step = "ready" /\ \A d \in Callers \ {c} : calls'[d] = calls[d]
    BY <1>1, <1>f DEF Call_Begin
  <2> QED
    BY <1>1, <1>i, <1>t, <1>q, <2>1 DEF Call_Begin, BeforeRow
(* The new start is the row's, or later.                                   *)
<1>2. ASSUME NEW c \in Callers, NEW jitter \in Jitters, Call_Reserve(c, jitter) PROVE Kept'
  <2> DEFINE slot == SlotStart(calls[c].seen)
  <2>1. calls[c].step = "ready" /\ calls[c].seen \in Nat /\ calls[c] \in Call
    BY <1>2, <1>t, <1>i, RunningCall DEF Call_Reserve
  <2>2. slot \in Nat /\ next <= slot
    BY <1>t, <2>1, LaterOfTwo DEF SlotStart
  <2>3. jitter \in Nat
    BY SpacingAssumption
  <2>4. next' = slot + Spacing + jitter /\ UNCHANGED <<sentSlots, recordedUntil>>
    BY <1>2 DEF Call_Reserve, ReserveSlot
  <2>5. /\ calls'[c].step = "sleep" /\ calls'[c].slot = slot /\ calls'[c].recorded = recordedUntil
        /\ \A d \in Callers \ {c} : calls'[d] = calls[d]
    <3> DEFINE call == [calls[c] EXCEPT !.step = "sleep", !.slot = slot, !.recorded = recordedUntil]
    <3>1. call.step = "sleep" /\ call.slot = slot /\ call.recorded = recordedUntil
      BY <2>1 DEF Call
    <3>2. Proceed(c, call)
      BY <1>2 DEF Call_Reserve
    <3> QED
      BY <3>1, <3>2, <1>f
  <2> HIDE DEF slot
  <2>6. slot + Spacing <= next' /\ next <= next'
    BY <1>t, <2>2, <2>3, <2>4
  <2>7. BeforeRow'
    <3>1. recordedUntil' <= next' /\ \A s \in sentSlots' : s + Spacing <= next'
      BY <1>i, <1>t, <2>4, <2>6 DEF BeforeRow
    <3>2. ASSUME NEW d \in Callers, Sleeping(d)' PROVE (calls[d].slot + Spacing <= next)'
      <4>1. CASE d = c
        BY <4>1, <2>5, <2>6
      <4>2. CASE d # c
        <5>1. Sleeping(d) /\ calls'[d] = calls[d] /\ calls[d].slot \in Nat
          BY <4>2, <3>2, <2>5, <1>t DEF Sleeping
        <5> QED
          BY <5>1, <1>i, <1>t, <2>6 DEF BeforeRow
      <4> QED
        BY <4>1, <4>2
    <3> QED
      BY <3>1, <3>2 DEF BeforeRow
  <2>8. \A s \in sentSlots : s + Spacing <= slot
    BY <1>i, <1>t, <2>2 DEF BeforeRow
  <2>9. \A d \in Callers \ {c} : Sleeping(d) => calls[d].slot + Spacing <= slot
    BY <1>i, <1>t, <2>2 DEF BeforeRow, Sleeping
  <2>10. recordedUntil <= slot
    BY <1>i, <1>t, <2>2 DEF BeforeRow
  <2>11. RecordedDelayIsKept'
    <3>1. ASSUME NEW d \in Callers, Sleeping(d)'
          PROVE  /\ (calls[d].recorded <= calls[d].slot)'
                 /\ \A s \in sentSlots' : SlotsApart(s, calls'[d].slot)
                 /\ \A e \in Callers \ {d} :
                      Sleeping(e)' => SlotsApart(calls'[d].slot, calls'[e].slot)
      <4>1. CASE d = c
        BY <4>1, <2>4, <2>5, <2>8, <2>9, <2>10 DEF SlotsApart, Sleeping
      <4>2. CASE d # c
        <5>1. Sleeping(d) /\ calls'[d] = calls[d]
          BY <4>2, <3>1, <2>5 DEF Sleeping
        <5>2. ASSUME NEW e \in Callers \ {d}, Sleeping(e)'
              PROVE  SlotsApart(calls'[d].slot, calls'[e].slot)
          <6>1. CASE e = c
            BY <6>1, <4>2, <5>1, <2>5, <2>9 DEF SlotsApart
          <6>2. CASE e # c
            BY <6>2, <5>1, <5>2, <2>5, <1>i DEF Sleeping, RecordedDelayIsKept
          <6> QED
            BY <6>1, <6>2
        <5> QED
          BY <5>1, <5>2, <2>4, <1>i DEF Sleeping, RecordedDelayIsKept
      <4> QED
        BY <4>1, <4>2
    <3> QED
      BY <3>1 DEF RecordedDelayIsKept, Sleeping
  <2> QED
    BY <1>y, <2>7, <2>11 DEF Kept
(* What was asleep is now sent: its start stays apart from the others'.    *)
<1>3. ASSUME NEW c \in Callers, Call_Send(c) PROVE Kept'
  <2>1. Sleeping(c) /\ calls[c] \in Call /\ calls[c].slot \in Nat
    BY <1>3, <1>t, <1>i, RunningCall DEF Call_Send, Sleeping
  <2>2. /\ calls'[c].step = "wait" /\ \A d \in Callers \ {c} : calls'[d] = calls[d]
    <3> DEFINE call == [calls[c] EXCEPT !.step = "wait", !.tries = @ + 1, !.slot = 0, !.recorded = 0]
    <3>1. call.step = "wait"
      BY <2>1 DEF Call
    <3>2. Proceed(c, call)
      BY <1>3 DEF Call_Send
    <3> QED
      BY <3>1, <3>2, <1>f
  <2>3. sentSlots' = sentSlots \cup {calls[c].slot} /\ UNCHANGED <<next, recordedUntil>>
    BY <1>3 DEF Call_Send
  <2>4. \A d \in Callers : Sleeping(d)' => d # c /\ Sleeping(d) /\ calls'[d] = calls[d]
    BY <2>2 DEF Sleeping
  <2>5. BeforeRow'
    BY <1>i, <2>1, <2>3, <2>4 DEF BeforeRow
  <2>6. RecordedDelayIsKept'
    <3>1. \A d \in Callers \ {c} : Sleeping(d) => SlotsApart(calls[c].slot, calls[d].slot)
      BY <1>i, <2>1 DEF RecordedDelayIsKept, Sleeping
    <3> QED
      BY <1>i, <3>1, <2>3, <2>4 DEF RecordedDelayIsKept, Sleeping
  <2> QED
    BY <1>y, <2>5, <2>6 DEF Kept
<1>4. ASSUME NEW c \in Callers, Call_Unanswered(c) PROVE Kept'
  <2>1. calls[c] \in Call
    BY <1>4, <1>i, RunningCall DEF Call_Unanswered
  <2>2. calls'[c].step = "pause" /\ \A d \in Callers \ {c} : calls'[d] = calls[d]
    <3> DEFINE call == [calls[c] EXCEPT !.step = "pause",
                                         !.until = now + calls[c].tries * Backoff]
    <3>1. call.step = "pause"
      BY <2>1 DEF Call
    <3>2. Proceed(c, call)
      BY <1>4 DEF Call_Unanswered
    <3> QED
      BY <3>1, <3>2, <1>f
  <2> QED
    BY <1>4, <1>i, <1>t, <1>q, <2>2 DEF Call_Unanswered, BeforeRow
<1>5. ASSUME NEW c \in Callers, NEW delay \in DelaysOf(calls[c]), Call_Overloaded(c, delay)
      PROVE  Kept'
  <2>1. calls[c] \in Call
    BY <1>5, <1>i, RunningCall DEF Call_Overloaded
  <2>2. calls'[c].step \in {"move", "pause"} /\ \A d \in Callers \ {c} : calls'[d] = calls[d]
    <3> DEFINE moving == [calls[c] EXCEPT !.step = "move", !.seen = now, !.until = delay]
               pausing == [calls[c] EXCEPT !.step = "pause", !.until = now]
    <3>1. moving.step = "move" /\ pausing.step = "pause"
      BY <2>1 DEF Call
    <3>2. Proceed(c, moving) \/ Proceed(c, pausing)
      BY <1>5 DEF Call_Overloaded
    <3> QED
      BY <3>1, <3>2, <1>f
  <2> QED
    BY <1>5, <1>i, <1>t, <1>q, <2>2 DEF Call_Overloaded, BeforeRow
(* The row moves at least as far as the answer asks.                       *)
<1>6. ASSUME NEW c \in Callers, Call_Move(c) PROVE Kept'
  <2> DEFINE until == calls[c].seen + calls[c].until
  <2>1. calls[c] \in Call /\ until \in Nat
    BY <1>6, <1>i, <1>t, RunningCall DEF Call_Move
  <2>2. calls'[c].step = "pause" /\ \A d \in Callers \ {c} : calls'[d] = calls[d]
    <3> DEFINE call == [calls[c] EXCEPT !.step = "pause", !.until = now + @, !.seen = 0]
    <3>1. call.step = "pause"
      BY <2>1 DEF Call
    <3>2. Proceed(c, call)
      BY <1>6 DEF Call_Move
    <3> QED
      BY <3>1, <3>2, <1>f
  <2>3. next' = Later(next, until) /\ recordedUntil' = Later(recordedUntil, until)
        /\ sentSlots' = sentSlots
    BY <1>6 DEF Call_Move, MoveSlot
  <2>4. next <= next' /\ recordedUntil' <= next'
    BY <1>i, <1>t, <2>1, <2>3 DEF BeforeRow, Later
  <2> QED
    BY <1>q, <2>2, <2>3, <2>4
<1>7. ASSUME NEW c \in Callers, Call_Again(c) PROVE Kept'
  <2>1. calls[c] \in Call
    BY <1>7, <1>i, RunningCall DEF Call_Again
  <2>2. calls'[c].step = "ready" /\ \A d \in Callers \ {c} : calls'[d] = calls[d]
    <3> DEFINE call == [calls[c] EXCEPT !.step = "ready", !.seen = now, !.until = 0]
    <3>1. call.step = "ready"
      BY <2>1 DEF Call
    <3>2. Proceed(c, call)
      BY <1>7 DEF Call_Again
    <3> QED
      BY <3>1, <3>2, <1>f
  <2> QED
    BY <1>7, <1>i, <1>t, <1>q, <2>2 DEF Call_Again, BeforeRow
<1>8. ASSUME NEW c \in Callers, Call_End(c) PROVE Kept'
  <2>1. calls'[c].step = "none" /\ \A d \in Callers \ {c} : calls'[d] = calls[d]
    BY <1>8, <1>f DEF Call_End, NotCalled
  <2> QED
    BY <1>8, <1>i, <1>t, <1>q, <2>1 DEF Call_End, BeforeRow
<1>9. CASE MobileTick \/ UNCHANGED mobileVars
  <2>1. UNCHANGED <<next, calls, sentSlots, recordedUntil>>
    BY <1>9 DEF MobileTick, mobileVars
  <2> QED
    BY <1>i, <1>t, <1>y, <2>1, QuietStepKeeps DEF BeforeRow, Sleeping
<1> QED
  BY <1>1, <1>2, <1>3, <1>4, <1>5, <1>6, <1>7, <1>8, <1>9 DEF MobileNext, Caller

(* No request of any process, a repeated one included, starts within the   *)
(* spacing of another or before the end of a delay that a retry recorded.  *)
THEOREM DelayKept == MobileSpec => []RecordedDelayIsKept
<1>1. Kept => RecordedDelayIsKept
  BY DEF Kept
<1> QED
  BY InitKept, StepKept, <1>1, PTL DEF MobileSpec
=============================================================================
