---------------------------- MODULE ConfirmedSend ----------------------------
(***************************************************************************)
(* What a confirmation promises its user, without processes, requests,     *)
(* stages or clock.  A confirmation is planned, consumed at most once and  *)
(* closed with a report; its message is delivered at most once, never      *)
(* before it is consumed and never against a report that denies it.        *)
(***************************************************************************)
EXTENDS Naturals

CONSTANTS PlanIds

VARIABLES
  phase,      \* of every confirmation
  report,     \* what the user was told
  delivered   \* how often the message of a confirmation was delivered

Phases == {"unused", "planned", "claimed", "closed", "forgotten"}
(* "likely" is a message found in the conversation that may be this one. *)
Reports == {"none", "expired", "sent", "likely", "denied", "unknown"}
confirmations == <<phase, report, delivered>>

Init ==
  /\ phase = [c \in PlanIds |-> "unused"]
  /\ report = [c \in PlanIds |-> "none"]
  /\ delivered = [c \in PlanIds |-> 0]

Become(c, p, r) == phase' = [phase EXCEPT ![c] = p] /\ report' = [report EXCEPT ![c] = r]

Issue(c) ==
  /\ phase[c] = "unused" /\ Become(c, "planned", "none")
  /\ UNCHANGED delivered

Expire(c) ==
  /\ phase[c] = "planned" /\ Become(c, "closed", "expired")
  /\ UNCHANGED delivered

Consume(c) ==
  /\ phase[c] = "planned" /\ Become(c, "claimed", "none")
  /\ UNCHANGED delivered

(* A message may still arrive after its outcome was recorded as unknown or *)
(* was mistaken for another one, or after an account change forgot it.     *)
Deliver(c) ==
  /\ phase[c] \in {"claimed", "closed", "forgotten"}
  /\ delivered[c] = 0
  /\ phase[c] = "closed" => report[c] \in {"likely", "unknown"}
  /\ delivered' = [delivered EXCEPT ![c] = 1]
  /\ UNCHANGED <<phase, report>>

Close(c) ==
  /\ phase[c] = "claimed"
  /\ \E r \in {"sent", "likely", "denied", "unknown"} :
       /\ r = "sent" => delivered[c] = 1
       /\ r = "denied" => delivered[c] = 0
       /\ Become(c, "closed", r)
  /\ UNCHANGED delivered

(* One database open closes every claim that was left behind. *)
CloseAbandoned ==
  \E S \in SUBSET {c \in PlanIds : phase[c] = "claimed"} :
    /\ phase' = [c \in PlanIds |-> IF c \in S THEN "closed" ELSE phase[c]]
    /\ report' = [c \in PlanIds |-> IF c \in S THEN "unknown" ELSE report[c]]
    /\ UNCHANGED delivered

(* Changing accounts forgets the confirmations of the previous one. *)
Forget ==
  \E S \in SUBSET {c \in PlanIds : phase[c] # "unused"} :
    /\ phase' = [c \in PlanIds |-> IF c \in S THEN "forgotten" ELSE phase[c]]
    /\ report' = [c \in PlanIds |-> IF c \in S THEN "none" ELSE report[c]]
    /\ UNCHANGED delivered

Next ==
  \/ \E c \in PlanIds : Issue(c) \/ Expire(c) \/ Consume(c) \/ Deliver(c) \/ Close(c)
  \/ CloseAbandoned \/ Forget

Spec == Init /\ [][Next]_confirmations
=============================================================================
