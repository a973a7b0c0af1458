-------------------------- MODULE ConfirmationPlans --------------------------
(***************************************************************************)
(* The confirmation_plans table of the per-profile SQLite database and the *)
(* statements internal/state/confirmation_queries.go runs on it.  Each     *)
(* action is one statement or one IMMEDIATE transaction, hence one step.   *)
(* The columns state and stage differ only while a plan is executing, so   *)
(* one field, stage, stands for both.                                      *)
(***************************************************************************)
EXTENDS Naturals

CONSTANTS
  PlanIds,        \* confirmation IDs dry runs may draw
  Accounts,       \* account hashes
  Listings,       \* advertisements a conversation can be started for
  ConvIds,        \* conversation IDs of the remote inbox
  Texts,          \* message bodies, identified with their SHA-256 digests
  NoConv,         \* no conversation in the outcome column
  NoAccount, NoTarget, NoText,   \* bindings of a row that does not exist
  ExecDeadline,   \* confirmationExecutionDeadline, in ticks
  Lifetime,       \* confirmationLifetime, in ticks
  MaxTime         \* bound on the clock

(***************************************************************************)
(* 30 seconds and 10 minutes in the code, which only needs them positive   *)
(* and the plan to outlive an execution.                                   *)
(***************************************************************************)
ASSUME TimesAssumption ==
  /\ ExecDeadline \in Nat \ {0}
  /\ Lifetime \in Nat
  /\ ExecDeadline <= Lifetime
  /\ MaxTime \in Nat

ASSUME NullsAssumption ==
  /\ NoConv \notin ConvIds \cup Listings
  /\ NoAccount \notin Accounts
  /\ NoTarget \notin ConvIds \cup Listings
  /\ NoText \notin Texts
  /\ ConvIds \cap Listings = {}

VARIABLES
  plans,          \* the rows, by confirmation ID
  now             \* the machine's clock

-----------------------------------------------------------------------------
(* A reply is bound to a conversation, a start to a listing. *)
Targets == ConvIds \cup Listings

InFlightStages ==
  {"executing_create", "reconcile_create", "conversation_created", "executing_send"}
SettledStages ==
  {"sent", "failed_definite", "warning_blocked", "outcome_unknown", "expired"}
(* "absent": the ID was never drawn; "deleted": the row was deleted, and 24 *)
(* random bytes never produce the same ID again.                            *)
Stages == {"absent", "planned", "deleted"} \cup InFlightStages \cup SettledStages

OutcomeTags == {"none", "sent", "sent_reconciled", "failed_definite", "warning",
                "conversation", "outcome_unknown", "expired"}
Outcome(tag, conv) == [tag |-> tag, conv |-> conv]

Plan == [stage : Stages,
         acct : Accounts \cup {NoAccount},
         target : Targets \cup {NoTarget},
         text : Texts \cup {NoText},
         created : Nat, expires : Nat,
         outcome : [tag : OutcomeTags, conv : ConvIds \cup {NoConv}]]

NoPlanRow(stage) ==
  [stage |-> stage, acct |-> NoAccount, target |-> NoTarget, text |-> NoText,
   created |-> 0, expires |-> 0, outcome |-> Outcome("none", NoConv)]

PlansTypeOK == /\ plans \in [PlanIds -> Plan]
               /\ now \in 0..MaxTime

PlansInit == /\ plans = [c \in PlanIds |-> NoPlanRow("absent")]
             /\ now = 0

InFlight(c) == plans[c].stage \in InFlightStages
Issued(c) == plans[c].stage # "absent"

-----------------------------------------------------------------------------
(* CreatePlan: INSERT of a fresh row. *)
CreatePlan(c, acct, target, text) ==
  /\ ~ Issued(c)
  /\ plans' = [plans EXCEPT ![c] =
       [stage |-> "planned", acct |-> acct, target |-> target, text |-> text,
        created |-> now, expires |-> now + Lifetime, outcome |-> Outcome("none", NoConv)]]

(* Mutants: a claim that forgets the stage, or the bindings. *)
ClaimAnswerReusable(c, acct, target, text) ==
  IF plans[c].stage \in {"absent", "deleted"} THEN "not_found"
  ELSE IF <<plans[c].acct, plans[c].target, plans[c].text>> # <<acct, target, text>> THEN "mismatch"
  ELSE IF now >= plans[c].expires THEN "expired" ELSE "claimed"
ClaimAnswerUnbound(c, acct, target, text) ==
  IF plans[c].stage \in {"absent", "deleted"} THEN "not_found"
  ELSE IF plans[c].stage # "planned" THEN "already_used"
  ELSE IF now >= plans[c].expires THEN "expired" ELSE "claimed"

(* What ClaimPlan answers for an ID and the bindings of the command line. *)
ClaimAnswer(c, acct, target, text) ==
  CASE plans[c].stage \in {"absent", "deleted"} -> "not_found"
    [] plans[c].stage \notin {"absent", "deleted"}
         /\ <<plans[c].acct, plans[c].target, plans[c].text>> # <<acct, target, text>>
         -> "mismatch"
    [] OTHER -> IF plans[c].stage # "planned" THEN "already_used"
                ELSE IF now >= plans[c].expires THEN "expired"
                ELSE "claimed"

(* ClaimPlan is given the first stage by the command's kind. *)
InitialStage(target) == IF target \in ConvIds THEN "executing_send" ELSE "executing_create"

(* ClaimPlan's two updates: consuming the plan, or recording its expiry. *)
ConsumePlan(c, target) ==
  plans' = [plans EXCEPT ![c].stage = InitialStage(target),
                         ![c].outcome = Outcome("none", NoConv),
                         ![c].expires = now + ExecDeadline]
ExpirePlan(c) ==
  plans' = [plans EXCEPT ![c].stage = "expired",
                         ![c].outcome = Outcome("expired", NoConv)]

-----------------------------------------------------------------------------
(* Stages each Mark... statement accepts; any other stage affects no row.  *)
MarkFrom(stage, conv) ==
  CASE stage \in {"sent", "warning_blocked"} -> {"executing_send"}
    [] stage = "failed_definite" -> InFlightStages
    [] stage = "outcome_unknown" /\ conv = NoConv -> InFlightStages
    [] stage = "outcome_unknown" /\ conv # NoConv -> {"conversation_created", "executing_send"}
    [] stage = "conversation_created" -> {"executing_create", "reconcile_create"}
    [] stage = "executing_send" -> {"conversation_created"}
    [] stage = "reconcile_create" -> {"executing_create"}

(* transitionPlan: a compare-and-set on the stage that replaces the outcome. *)
Transition(c, stage, outcome) ==
  /\ plans[c].stage \in MarkFrom(stage, outcome.conv)
  /\ plans' = [plans EXCEPT ![c].stage = stage, ![c].outcome = outcome]

(* transitionPlanPreservingOutcome: the same, refreshing the deadline. *)
AdvanceStage(c, stage) ==
  /\ plans[c].stage \in MarkFrom(stage, NoConv)
  /\ plans' = [plans EXCEPT ![c].stage = stage, ![c].expires = now + ExecDeadline]

(* RecoverStaleExecuting: what state.Open does to every plan past its      *)
(* deadline; a recorded conversation survives in the outcome.              *)
StaleAnyStage(c) == Issued(c) /\ plans[c].expires <= now   \* mutant
StaleButCreated(c) ==                                       \* mutant
  InFlight(c) /\ plans[c].stage # "conversation_created" /\ plans[c].expires <= now
Stale(c) == InFlight(c) /\ plans[c].expires <= now
RecoveredOutcomeBare(o) == Outcome("outcome_unknown", NoConv)   \* mutant
RecoveredOutcome(o) ==
  Outcome("outcome_unknown", IF o.tag = "conversation" THEN o.conv ELSE NoConv)
Recovered ==
  [c \in PlanIds |->
     IF Stale(c) THEN [plans[c] EXCEPT !.stage = "outcome_unknown",
                                       !.outcome = RecoveredOutcome(plans[c].outcome)]
                 ELSE plans[c]]

(* authDeleteAccountData, as far as it concerns this table. *)
DeletePlansOf(acct) ==
  [c \in PlanIds |-> IF Issued(c) /\ plans[c].acct = acct THEN NoPlanRow("deleted")
                                                          ELSE plans[c]]

-----------------------------------------------------------------------------
(* The rows a lookup selects, then the one ORDER BY created_at DESC keeps; *)
(* rows of one instant are ordered by their random IDs, hence arbitrarily. *)
ForBindings(stage, acct, target, text) ==
  {c \in PlanIds : /\ plans[c].stage = stage
                   /\ <<plans[c].acct, plans[c].target, plans[c].text>> = <<acct, target, text>>}
ForConversation(stage, acct, conv, text) ==
  {c \in PlanIds : /\ plans[c].stage = stage
                   /\ plans[c].acct = acct /\ plans[c].text = text
                   /\ plans[c].outcome.conv = conv}
Latest(S) == {c \in S : \A d \in S : plans[d].created <= plans[c].created}

(* Mutant: only the exact bindings. *)
FindExact(stage, acct, target, text) == Latest(ForBindings(stage, acct, target, text))

(* FindUnresolved and FindWarningBlocked; for a reply that finds none, then *)
(* FindUnresolvedConversation and FindWarningBlockedConversation.           *)
Find(stage, acct, target, text) ==
  LET exact == ForBindings(stage, acct, target, text)
  IN  IF exact # {} \/ target \notin ConvIds
      THEN Latest(exact)
      ELSE Latest(ForConversation(stage, acct, target, text))
=============================================================================
