------------------------------- MODULE RateSlots -------------------------------
(***************************************************************************)
(* The rate_slots and rate_cooldowns rows of one host, shared by every     *)
(* client of a profile: internal/state/discovery.go and rate_cooldown.go.  *)
(* Every operator stands for one transaction or one statement.             *)
(***************************************************************************)
EXTENDS Naturals

CONSTANTS
  Spacing,       \* minimumHostSpacing, in ticks
  Jitters,       \* what a client may add to it
  MaxJitter,     \* a bound on that
  MaxTime        \* bound on the clock

ASSUME SpacingAssumption ==
  Spacing \in Nat /\ MaxJitter \in Nat /\ Jitters \subseteq 0..MaxJitter /\ MaxTime \in Nat

VARIABLES
  now,           \* the machine's clock
  next,          \* next_start_ms: the first instant that is not reserved
  cooldown       \* not_before_ms

RateTypeOK == now \in 0..MaxTime /\ next \in Nat /\ cooldown \in Nat
(* No row behaves like one in the past. *)
RateInit == now = 0 /\ next = 0 /\ cooldown = 0

Later(s, t) == IF s < t THEN t ELSE s

-----------------------------------------------------------------------------
(* ReserveRateSlot for a client that read the clock at seen: its request   *)
(* may start at SlotStart(seen), for which it waits from seen on.          *)
SlotStart(seen) == Later(next, seen)
FitsAlways(seen, limit) == TRUE   \* mutant
Fits(seen, limit) == SlotStart(seen) <= seen + limit
ReserveSlot(seen, jitter) == next' = SlotStart(seen) + Spacing + jitter

(* MoveRateSlot: no request starts before the given instant.               *)
MoveSlotBack(until) == next' = until   \* mutant: the row is overwritten
MoveSlot(until) == next' = Later(next, until)

(* SetRateCooldown and CheckRateCooldown *)
SetCooldown(until) == cooldown' = Later(cooldown, until)
Cooling(seen) == seen < cooldown
=============================================================================
