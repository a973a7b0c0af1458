--------------------------- MODULE MessagingProofs ---------------------------
(***************************************************************************)
(* Proofs about Messaging for any number of processes, confirmations,      *)
(* accounts, conversations and texts, and any deadlines.                   *)
(***************************************************************************)
EXTENDS Messaging, TLAPS

-----------------------------------------------------------------------------
(* The statements of the plan table keep its type. *)

LEMMA RowType ==
  ASSUME NEW r \in Plan, NEW s \in Stages, NEW t \in OutcomeTags,
         NEW k \in ConvIds \cup {NoConv}, NEW e \in Nat
  PROVE  /\ [r EXCEPT !.stage = s, !.outcome = Outcome(t, k)] \in Plan
         /\ [r EXCEPT !.stage = s, !.outcome = Outcome(t, k), !.expires = e] \in Plan
         /\ [r EXCEPT !.stage = s, !.expires = e] \in Plan
  BY DEF Plan, Outcome

LEMMA NoRowType == ASSUME NEW s \in Stages PROVE NoPlanRow(s) \in Plan
  BY DEF NoPlanRow, Plan, Outcome, OutcomeTags

LEMMA RecoveredType == PlansTypeOK => Recovered \in [PlanIds -> Plan]
<1> SUFFICES ASSUME PlansTypeOK, NEW c \in PlanIds
    PROVE  Stale(c) => [plans[c] EXCEPT !.stage = "outcome_unknown",
                          !.outcome = RecoveredOutcome(plans[c].outcome)] \in Plan
  BY DEF Recovered, PlansTypeOK
<1>1. plans[c] \in Plan BY DEF PlansTypeOK
<1>2. "outcome_unknown" \in Stages BY DEF Stages, SettledStages
<1>3. \E k \in ConvIds \cup {NoConv} :
        RecoveredOutcome(plans[c].outcome) = Outcome("outcome_unknown", k)
  BY <1>1 DEF RecoveredOutcome, Plan
<1>4. "outcome_unknown" \in OutcomeTags BY DEF OutcomeTags
<1>5. QED BY <1>1, <1>2, <1>3, <1>4, RowType

LEMMA DeleteType == ASSUME NEW acct PROVE PlansTypeOK => DeletePlansOf(acct) \in [PlanIds -> Plan]
<1>1. "deleted" \in Stages BY DEF Stages
<1>2. QED BY <1>1, NoRowType DEF DeletePlansOf, PlansTypeOK

LEMMA CreateType ==
  ASSUME PlansTypeOK, NEW c \in PlanIds, NEW acct \in Accounts \cup {NoAccount},
         NEW target \in Targets \cup {NoTarget}, NEW text \in Texts \cup {NoText},
         CreatePlan(c, acct, target, text)
  PROVE  plans' \in [PlanIds -> Plan]
<1>1. "planned" \in Stages BY DEF Stages
<1>2. now + Lifetime \in Nat /\ now \in Nat BY TimesAssumption DEF PlansTypeOK
<1> DEFINE row == [stage |-> "planned", acct |-> acct, target |-> target, text |-> text,
                   created |-> now, expires |-> now + Lifetime, outcome |-> Outcome("none", NoConv)]
<1>3. Outcome("none", NoConv) \in [tag : OutcomeTags, conv : ConvIds \cup {NoConv}]
  BY DEF Outcome, OutcomeTags
<1>4. row \in Plan BY <1>1, <1>2, <1>3 DEF Plan
<1>5. plans' = [plans EXCEPT ![c] = row] BY DEF CreatePlan
<1>6. QED BY <1>4, <1>5 DEF PlansTypeOK

LEMMA UpdateType ==
  ASSUME PlansTypeOK, NEW c \in PlanIds, NEW s \in Stages, NEW t \in OutcomeTags,
         NEW k \in ConvIds \cup {NoConv}
  PROVE  /\ [plans EXCEPT ![c].stage = s, ![c].outcome = Outcome(t, k)] \in [PlanIds -> Plan]
         /\ [plans EXCEPT ![c].stage = s, ![c].outcome = Outcome(t, k),
                          ![c].expires = now + ExecDeadline] \in [PlanIds -> Plan]
         /\ [plans EXCEPT ![c].stage = s, ![c].expires = now + ExecDeadline]
              \in [PlanIds -> Plan]
<1>1. plans[c] \in Plan BY DEF PlansTypeOK
<1>2. now + ExecDeadline \in Nat BY TimesAssumption DEF PlansTypeOK
<1>3. /\ [plans[c] EXCEPT !.stage = s, !.outcome = Outcome(t, k)] \in Plan
      /\ [plans[c] EXCEPT !.stage = s, !.outcome = Outcome(t, k),
                          !.expires = now + ExecDeadline] \in Plan
      /\ [plans[c] EXCEPT !.stage = s, !.expires = now + ExecDeadline] \in Plan
  BY <1>1, <1>2, RowType
<1>4. QED BY <1>3 DEF PlansTypeOK

LEMMA ClaimType ==
  ASSUME PlansTypeOK, NEW c \in PlanIds, NEW target, ConsumePlan(c, target) \/ ExpirePlan(c)
  PROVE  plans' \in [PlanIds -> Plan]
<1>1. /\ InitialStage(target) \in Stages /\ "expired" \in Stages
      /\ "none" \in OutcomeTags /\ "expired" \in OutcomeTags
  BY DEF InitialStage, Stages, InFlightStages, SettledStages, OutcomeTags
<1>2. CASE ConsumePlan(c, target) BY <1>1, <1>2, UpdateType DEF ConsumePlan
<1>3. CASE ExpirePlan(c) BY <1>1, <1>3, UpdateType DEF ExpirePlan
<1>4. QED BY <1>2, <1>3

LEMMA AdvanceType ==
  ASSUME PlansTypeOK, NEW c \in PlanIds, NEW s \in Stages, AdvanceStage(c, s)
  PROVE  plans' \in [PlanIds -> Plan]
  BY UpdateType DEF AdvanceStage, OutcomeTags

(* Recording a mark, and the stage a mark leads to. *)
LEMMA MarkFields ==
  ASSUME NEW m \in Marks
  PROVE  /\ m.stage \in Stages /\ m.stage \notin {"absent", "planned", "expired", "deleted"}
         /\ m.stage \notin InFlightStages
         /\ m.outcome = Outcome(m.outcome.tag, m.outcome.conv)
         /\ m.outcome.tag \in OutcomeTags /\ m.outcome.conv \in ConvIds \cup {NoConv}
  BY DEF Marks, Mark, FailedMark, SentMark, ReconciledMark, WarningMark, UnknownMark, Outcome,
         Stages, InFlightStages, SettledStages, OutcomeTags

LEMMA RecordType ==
  ASSUME PlansTypeOK, NEW c \in PlanIds, NEW m \in Marks, Transition(c, m.stage, m.outcome)
  PROVE  plans' \in [PlanIds -> Plan]
<1>1. plans' = [plans EXCEPT ![c].stage = m.stage,
                  ![c].outcome = Outcome(m.outcome.tag, m.outcome.conv)]
  BY MarkFields DEF Transition
<1>2. QED BY <1>1, MarkFields, UpdateType

LEMMA CreatedType ==
  ASSUME PlansTypeOK, NEW c \in PlanIds, NEW k \in ConvIds \cup {NoConv},
         Transition(c, "conversation_created", Outcome("conversation", k))
  PROVE  plans' \in [PlanIds -> Plan]
<1>1. "conversation_created" \in Stages /\ "conversation" \in OutcomeTags
  BY DEF Stages, InFlightStages, OutcomeTags
<1>2. QED BY <1>1, UpdateType DEF Transition

-----------------------------------------------------------------------------
(* So do the local variables of a command. *)

ControlTypeOK == pc \in [Procs -> Pcs] /\ op \in [Procs -> Op]

LEMMA MarksAreMarks ==
  /\ FailedMark \in Marks /\ SentMark \in Marks /\ ReconciledMark \in Marks
  /\ \A k \in ConvIds \cup {NoConv} : WarningMark(k) \in Marks /\ UnknownMark(k) \in Marks
  BY DEF Marks

LEMMA OpUpdateType ==
  ASSUME NEW o \in Op
  PROVE  /\ \A m \in Marks : [o EXCEPT !.mark = m] \in Op
         /\ \A x \in Accounts \cup {NoAccount} : [o EXCEPT !.acct = x] \in Op
         /\ \A x \in Accounts \cup {NoAccount}, k \in ConvIds \cup {NoConv} :
              [o EXCEPT !.client = x, !.conv = k] \in Op
         /\ \A k \in ConvIds \cup {NoConv}, t \in 0..MaxTime : [o EXCEPT !.conv = k, !.at = t] \in Op
         /\ \A t \in 0..MaxTime : [o EXCEPT !.at = t] \in Op
         /\ \A k \in ConvIds \cup {NoConv} : [o EXCEPT !.conv = k, !.viaReconcile = TRUE] \in Op
         /\ \A n \in 0..1 : [o EXCEPT !.matched = n] \in Op
<1>1. \A m \in Marks : [o EXCEPT !.mark = m] \in Op
  BY DEF Op
<1>2. \A x \in Accounts \cup {NoAccount} : [o EXCEPT !.acct = x] \in Op
  BY DEF Op
<1>3. \A x \in Accounts \cup {NoAccount}, k \in ConvIds \cup {NoConv} :
           [o EXCEPT !.client = x, !.conv = k] \in Op
  BY DEF Op
<1>4. \A k \in ConvIds \cup {NoConv}, t \in 0..MaxTime : [o EXCEPT !.conv = k, !.at = t] \in Op
  BY DEF Op
<1>5. \A t \in 0..MaxTime : [o EXCEPT !.at = t] \in Op
  BY DEF Op
<1>6. \A k \in ConvIds \cup {NoConv} : [o EXCEPT !.conv = k, !.viaReconcile = TRUE] \in Op
  BY DEF Op
<1>7. \A n \in 0..1 : [o EXCEPT !.matched = n] \in Op
  BY DEF Op
<1>8. QED BY <1>1, <1>2, <1>3, <1>4, <1>5, <1>6, <1>7

LEMMA NoOpType == NoOp \in Op
<1>1. 0 \in 0..MaxTime /\ 0 \in 0..1 BY TimesAssumption
<1>2. QED BY <1>1, MarksAreMarks DEF NoOp, Op

LEMMA ExitType ==
  ASSUME ControlTypeOK, NEW p \in Procs, Exit(p) PROVE ControlTypeOK'
  BY NoOpType DEF ControlTypeOK, Exit, Goto, Pcs

LEMMA RecordNextType ==
  ASSUME ControlTypeOK, NEW p \in Procs, NEW m \in Marks, RecordNext(p, m) PROVE ControlTypeOK'
<1>1. op[p] \in Op BY DEF ControlTypeOK
<1>2. [op[p] EXCEPT !.mark = m] \in Op BY <1>1, OpUpdateType
<1>3. QED BY <1>2 DEF ControlTypeOK, RecordNext, Goto, Pcs

LEMMA GotoType ==
  ASSUME ControlTypeOK, NEW p \in Procs, NEW s \in Pcs, Goto(p, s), NEW o \in Op,
         op' = [op EXCEPT ![p] = o]
  PROVE  ControlTypeOK'
  BY DEF ControlTypeOK, Goto

LEMMA GotoOnlyType ==
  ASSUME ControlTypeOK, NEW p \in Procs, NEW s \in Pcs, Goto(p, s), UNCHANGED op
  PROVE  ControlTypeOK'
  BY DEF ControlTypeOK, Goto

-----------------------------------------------------------------------------
(* Type correctness. *)

EnvTypeOK ==
  /\ account \in Accounts \cup {NoAccount} /\ loginRequired \in BOOLEAN
  /\ convs \in [ConvIds -> Conversation]
  /\ messages \subseteq Message /\ pending \subseteq Request
  /\ sends \in [PlanIds -> Nat] /\ creates \in [PlanIds -> Nat]
  /\ elsewhere \in Nat /\ logins \in Nat

LEMMA TypeParts == TypeOK <=> PlansTypeOK /\ ControlTypeOK /\ EnvTypeOK
  BY DEF TypeOK, ControlTypeOK, EnvTypeOK

LEMMA TypeInit == Init => TypeOK
<1> SUFFICES ASSUME Init PROVE TypeOK OBVIOUS
<1>1. PlansTypeOK
  <2>1. "absent" \in Stages BY DEF Stages
  <2>2. QED BY <2>1, NoRowType, TimesAssumption DEF PlansTypeOK, Init, PlansInit
<1>2. ControlTypeOK BY NoOpType DEF Init, ControlTypeOK, Pcs
<1>3. EnvTypeOK BY MessagingAssumption DEF Init, EnvTypeOK, Conversation
<1>4. QED BY <1>1, <1>2, <1>3, TypeParts

LEMMA OpenType == ASSUME TypeOK, NEW p \in Procs, Open(p) PROVE TypeOK'
<1>1. PlansTypeOK' BY RecoveredType DEF Open, TypeOK, PlansTypeOK
<1>2. ControlTypeOK'
  <2>1. PICK target \in Targets, text \in Texts, cid, ack \in PlanIds \cup {NoPlan} :
          op' = [op EXCEPT ![p] = Command(cid, ack, target, text,
                   {c \in PlanIds : cid = NoPlan /\ plans'[c].stage = "outcome_unknown"})]
    BY DEF Open
  <2>2. ASSUME NEW known \in SUBSET PlanIds PROVE Command(cid, ack, target, text, known) \in Op
    BY NoOpType DEF Op, Command
  <2>3. QED BY <2>1, <2>2, TypeParts, GotoType DEF Open, Pcs, PlanningPcs
<1>3. EnvTypeOK' BY DEF Open, session, remote, tries, EnvTypeOK, TypeOK
<1>4. QED BY <1>1, <1>2, <1>3, TypeParts DEF TypeOK, ControlTypeOK, EnvTypeOK

LEMMA PlanningType == ASSUME TypeOK, NEW p \in Procs, Planning(p) PROVE TypeOK'
<1> USE DEF session, remote, tries
<1>0. PlansTypeOK /\ ControlTypeOK /\ EnvTypeOK BY TypeParts
<1>1. CASE Identity(p)
  <2>1. ControlTypeOK'
    <3>1. CASE /\ op' = [op EXCEPT ![p].acct = account]
               /\ Goto(p, IF op[p].cid = NoPlan THEN "plan_scan" ELSE "claim")
      <4>1. op[p] \in Op BY <1>0 DEF ControlTypeOK
      <4>2. [op[p] EXCEPT !.acct = account] \in Op BY <4>1, <1>0, OpUpdateType DEF EnvTypeOK
      <4>3. op' = [op EXCEPT ![p] = [op[p] EXCEPT !.acct = account]] BY <3>1
      <4>4. \E s \in Pcs : Goto(p, s)
        <5>1. "plan_scan" \in Pcs /\ "claim" \in Pcs BY DEF Pcs, PlanningPcs
        <5>2. QED BY <3>1, <5>1
      <4>5. QED BY <4>2, <4>3, <4>4, <1>0, GotoType
    <3>2. CASE Exit(p) BY <3>2, <1>0, ExitType
    <3>3. QED BY <3>1, <3>2, <1>1 DEF Identity
  <2>2. QED BY <2>1, <1>0, <1>1 DEF Identity, TypeOK, PlansTypeOK, ControlTypeOK, EnvTypeOK
<1>2. CASE PlanScan(p) \/ PlanCheck(p)
  <2>1. ControlTypeOK' BY <1>2, <1>0, GotoOnlyType DEF PlanScan, PlanCheck, Pcs, PlanningPcs
  <2>2. QED BY <2>1, <1>0, <1>2
          DEF PlanScan, PlanCheck, TypeOK, PlansTypeOK, ControlTypeOK, EnvTypeOK
<1>3. CASE PlanStore(p)
  <2>1. ControlTypeOK' BY <1>3, <1>0, ExitType DEF PlanStore
  <2>2. plans' \in [PlanIds -> Plan]
    <3>1. op[p].acct \in Accounts \cup {NoAccount} /\ op[p].target \in Targets \cup {NoTarget}
            /\ op[p].text \in Texts \cup {NoText}
      BY <1>0 DEF ControlTypeOK, Op
    <3>2. QED BY <3>1, <1>3, <1>0, CreateType DEF PlanStore
  <2>3. QED BY <2>1, <2>2, <1>0, <1>3 DEF PlanStore, TypeOK, PlansTypeOK, ControlTypeOK, EnvTypeOK
<1>4. QED BY <1>1, <1>2, <1>3 DEF Planning

(* A worker's fields, and the parts of a step that move only the control. *)
LEMMA WorkerFields ==
  ASSUME TypeOK, NEW p \in Procs
  PROVE  /\ op[p] \in Op
         /\ op[p].cid \in PlanIds \cup {NoPlan} /\ op[p].target \in Targets \cup {NoTarget}
         /\ op[p].text \in Texts \cup {NoText} /\ op[p].conv \in ConvIds \cup {NoConv}
         /\ op[p].acct \in Accounts \cup {NoAccount} /\ op[p].mark \in Marks
  BY DEF TypeOK, Op

LEMMA OnlyControl ==
  ASSUME TypeOK, ControlTypeOK', UNCHANGED <<plans, now, session, remote, tries, logins>>
  PROVE  TypeOK'
  BY DEF TypeOK, PlansTypeOK, ControlTypeOK, session, remote, tries

LEMMA OnlyPlans ==
  ASSUME TypeOK, ControlTypeOK', plans' \in [PlanIds -> Plan],
         UNCHANGED <<now, session, remote, tries, logins>>
  PROVE  TypeOK'
  BY DEF TypeOK, PlansTypeOK, ControlTypeOK, session, remote, tries

(* The identifier of a claimed plan is one, which typing alone does not say. *)
LEMMA ClaimStepType ==
  ASSUME TypeOK, NEW p \in Procs, op[p].cid \in PlanIds, Claim(p) PROVE TypeOK'
<1>0. PlansTypeOK /\ ControlTypeOK BY TypeParts
<1>1. ControlTypeOK' BY <1>0, ExitType, GotoOnlyType DEF Claim, Pcs
<1>2. plans' \in [PlanIds -> Plan] BY <1>0, ClaimType DEF Claim, PlansTypeOK
<1>3. QED BY <1>1, <1>2, OnlyPlans DEF Claim

LEMMA ClientType == ASSUME TypeOK, NEW p \in Procs, Client(p) PROVE TypeOK'
<1>0. ControlTypeOK BY TypeParts
<1>1. ControlTypeOK'
  <2>1. CASE RecordNext(p, FailedMark) BY <2>1, <1>0, MarksAreMarks, RecordNextType
  <2>2. CASE ~ RecordNext(p, FailedMark)
    <3> DEFINE k == IF IsReply(p) THEN op[p].target ELSE NoConv
    <3>1. /\ op' = [op EXCEPT ![p] = [op[p] EXCEPT !.client = account, !.conv = k]]
          /\ Goto(p, IF IsReply(p) THEN "send" ELSE "start_scan")
      BY <2>2 DEF Client
    <3>2. k \in ConvIds \cup {NoConv} BY DEF IsReply
    <3>3. [op[p] EXCEPT !.client = account, !.conv = k] \in Op
      BY <3>2, WorkerFields, OpUpdateType DEF TypeOK
    <3>4. PICK s \in Pcs : Goto(p, s) BY <3>1 DEF Pcs, CreatePcs
    <3>5. QED BY <3>1, <3>3, <3>4, <1>0, GotoType
  <2>3. QED BY <2>1, <2>2
<1>2. QED BY <1>1, OnlyControl DEF Client

LEMMA StartScanType == ASSUME TypeOK, NEW p \in Procs, StartScan(p) PROVE TypeOK'
<1>1. ControlTypeOK'
  BY TypeParts, MarksAreMarks, RecordNextType, GotoOnlyType DEF StartScan, Pcs, CreatePcs
<1>2. QED BY <1>1, OnlyControl DEF StartScan

LEMMA DefiniteFailureType ==
  ASSUME TypeOK, NEW p \in Procs, DefiniteFailure(p)
  PROVE  ControlTypeOK' /\ account' \in Accounts \cup {NoAccount} /\ loginRequired' \in BOOLEAN
<1>1. ControlTypeOK' BY TypeParts, MarksAreMarks, RecordNextType DEF DefiniteFailure
<1>2. QED BY <1>1 DEF DefiniteFailure, TypeOK

LEMMA OpensType ==
  ASSUME TypeOK, NEW p \in Procs, NEW k \in ConvIds, ~ IsReply(p), Opens(p, k)
  PROVE  convs' \in [ConvIds -> Conversation]
<1>1. op[p].target \in Listings \cup {NoTarget} BY WorkerFields DEF IsReply, Targets
<1>2. QED BY <1>1 DEF Opens, TypeOK, Conversation

LEMMA CreateStepType == ASSUME TypeOK, ControlFits, NEW p \in Procs, Create(p) PROVE TypeOK'
<1>0. ControlTypeOK /\ now \in 0..MaxTime BY TypeParts DEF PlansTypeOK
<1>1. op[p].cid \in PlanIds /\ ~ IsReply(p)
  BY DEF Create, ControlFits, CreatePcs, PlanningPcs
<1>2. creates' \in [PlanIds -> Nat] BY <1>1 DEF Create, TypeOK
<1>3. ControlTypeOK' /\ convs' \in [ConvIds -> Conversation]
        /\ account' \in Accounts \cup {NoAccount} /\ loginRequired' \in BOOLEAN
  <2>1. CASE DefiniteFailure(p) /\ UNCHANGED convs
    BY <2>1, DefiniteFailureType DEF TypeOK
  <2>2. CASE \E k \in ConvIds : /\ Opens(p, k)
                               /\ op' = [op EXCEPT ![p].conv = k, ![p].at = now]
                               /\ Goto(p, "mark_created") /\ UNCHANGED session
    <3>1. PICK k \in ConvIds : /\ Opens(p, k)
                              /\ op' = [op EXCEPT ![p].conv = k, ![p].at = now]
                              /\ Goto(p, "mark_created")
      BY <2>2
    <3>2. [op[p] EXCEPT !.conv = k, !.at = now] \in Op BY <1>0, WorkerFields, OpUpdateType
    <3>3. op' = [op EXCEPT ![p] = [op[p] EXCEPT !.conv = k, !.at = now]] BY <3>1
    <3>4. "mark_created" \in Pcs BY DEF Pcs, FirstSendPcs
    <3>5. ControlTypeOK' BY <3>1, <3>2, <3>3, <3>4, <1>0, GotoType
    <3>6. QED BY <3>1, <3>5, <2>2, <1>1, OpensType DEF session, TypeOK
  <2>3. CASE /\ (\E k \in ConvIds : Opens(p, k)) \/ UNCHANGED convs
             /\ op' = [op EXCEPT ![p].at = now]
             /\ Goto(p, "mark_reconcile") /\ UNCHANGED session
    <3>1. convs' \in [ConvIds -> Conversation] BY <2>3, <1>1, OpensType DEF TypeOK
    <3>2. [op[p] EXCEPT !.at = now] \in Op BY <1>0, WorkerFields, OpUpdateType
    <3>3. op' = [op EXCEPT ![p] = [op[p] EXCEPT !.at = now]] BY <2>3
    <3>4. "mark_reconcile" \in Pcs BY DEF Pcs, ReconcileCreatePcs
    <3>5. ControlTypeOK' BY <2>3, <3>2, <3>3, <3>4, <1>0, GotoType
    <3>6. QED BY <3>1, <3>5, <2>3 DEF session, TypeOK
  <2>4. QED BY <2>1, <2>2, <2>3 DEF Create
<1>4. QED BY <1>2, <1>3 DEF Create, TypeOK, PlansTypeOK, ControlTypeOK

LEMMA MarkReconcileType == ASSUME TypeOK, ControlFits, NEW p \in Procs, MarkReconcile(p) PROVE TypeOK'
<1>0. PlansTypeOK /\ ControlTypeOK BY TypeParts
<1>1. op[p].cid \in PlanIds BY DEF MarkReconcile, ControlFits, PlanningPcs
<1>2. "reconcile_create" \in Stages BY DEF Stages, InFlightStages
<1>3. plans' \in [PlanIds -> Plan]
  BY <1>0, <1>1, <1>2, AdvanceType DEF MarkReconcile, AuditFailure, PlansTypeOK
<1>4. ControlTypeOK'
  BY <1>0, ExitType, GotoOnlyType DEF MarkReconcile, AuditFailure, Pcs, ReconcileCreatePcs
<1>5. QED BY <1>3, <1>4, OnlyPlans DEF MarkReconcile

LEMMA ReconcileCreateType == ASSUME TypeOK, NEW p \in Procs, ReconcileCreate(p) PROVE TypeOK'
<1>0. ControlTypeOK BY TypeParts
<1>1. ControlTypeOK'
  <2>1. CASE RecordNext(p, UnknownMark(NoConv)) BY <2>1, <1>0, MarksAreMarks, RecordNextType
  <2>2. CASE ~ RecordNext(p, UnknownMark(NoConv))
    <3>1. PICK k \in ConvIds : op' = [op EXCEPT ![p].conv = k, ![p].viaReconcile = TRUE]
      BY <2>2 DEF ReconcileCreate, ConvsOf
    <3>2. [op[p] EXCEPT !.conv = k, !.viaReconcile = TRUE] \in Op BY WorkerFields, OpUpdateType
    <3>3. op' = [op EXCEPT ![p] = [op[p] EXCEPT !.conv = k, !.viaReconcile = TRUE]] BY <3>1
    <3>4. "mark_created" \in Pcs BY DEF Pcs, FirstSendPcs
    <3>5. QED BY <2>2, <3>2, <3>3, <3>4, <1>0, GotoType DEF ReconcileCreate
  <2>3. QED BY <2>1, <2>2
<1>2. QED BY <1>1, OnlyControl DEF ReconcileCreate

LEMMA MarkCreatedType == ASSUME TypeOK, ControlFits, NEW p \in Procs, MarkCreated(p) PROVE TypeOK'
<1>0. PlansTypeOK /\ ControlTypeOK BY TypeParts
<1>1. op[p].cid \in PlanIds BY DEF MarkCreated, ControlFits, PlanningPcs
<1>2. plans' \in [PlanIds -> Plan]
  BY <1>0, <1>1, WorkerFields, CreatedType DEF MarkCreated, AuditFailure, PlansTypeOK
<1>3. ControlTypeOK'
  <2>1. CASE Exit(p) BY <2>1, <1>0, ExitType
  <2>2. CASE UNCHANGED op /\ Goto(p, IF op[p].viaReconcile THEN "count_first" ELSE "mark_send")
    <3>1. "count_first" \in Pcs /\ "mark_send" \in Pcs BY DEF Pcs, FirstSendPcs
    <3>2. QED BY <2>2, <3>1, <1>0, GotoOnlyType
  <2>3. QED BY <2>1, <2>2 DEF MarkCreated, AuditFailure
<1>4. QED BY <1>2, <1>3, OnlyPlans DEF MarkCreated

LEMMA CountFirstType == ASSUME TypeOK, NEW p \in Procs, CountFirst(p) PROVE TypeOK'
<1>0. ControlTypeOK BY TypeParts
<1>1. ControlTypeOK'
  <2>1. CASE RecordNext(p, UnknownMark(op[p].conv))
    BY <2>1, <1>0, WorkerFields, MarksAreMarks, RecordNextType
  <2>2. CASE ~ RecordNext(p, UnknownMark(op[p].conv))
    <3>1. PICK n \in Counts(p) \cap {0, 1} : op' = [op EXCEPT ![p].matched = n]
      BY <2>2 DEF CountFirst
    <3>2. [op[p] EXCEPT !.matched = n] \in Op
      <4>1. n \in 0..1 BY <3>1
      <4>2. QED BY <4>1, WorkerFields, OpUpdateType
    <3>3. op' = [op EXCEPT ![p] = [op[p] EXCEPT !.matched = n]] BY <3>1
    <3>4. "mark_send" \in Pcs BY DEF Pcs, FirstSendPcs
    <3>5. QED BY <2>2, <3>2, <3>3, <3>4, <1>0, GotoType DEF CountFirst
  <2>3. QED BY <2>1, <2>2
<1>2. QED BY <1>1, OnlyControl DEF CountFirst

LEMMA MarkSendType == ASSUME TypeOK, ControlFits, NEW p \in Procs, MarkSend(p) PROVE TypeOK'
<1>0. PlansTypeOK /\ ControlTypeOK BY TypeParts
<1>1. op[p].cid \in PlanIds BY DEF MarkSend, ControlFits, PlanningPcs
<1>2. "executing_send" \in Stages /\ "send" \in Pcs BY DEF Stages, InFlightStages, Pcs
<1>3. plans' \in [PlanIds -> Plan]
  BY <1>0, <1>1, <1>2, AdvanceType DEF MarkSend, AuditFailure, PlansTypeOK
<1>4. ControlTypeOK'
  BY <1>0, <1>2, ExitType, GotoOnlyType, MarksAreMarks, RecordNextType DEF MarkSend, AuditFailure
<1>5. QED BY <1>3, <1>4, OnlyPlans DEF MarkSend

LEMMA StampedType == ASSUME TypeOK, NEW m \in Request PROVE Stamped(m) \in Message
  BY DEF TypeOK, PlansTypeOK, Stamped, Request, Message

LEMMA SendStepType == ASSUME TypeOK, ControlFits, NEW p \in Procs, Send(p) PROVE TypeOK'
<1>0. ControlTypeOK /\ now \in 0..MaxTime BY TypeParts DEF PlansTypeOK
<1>1. op[p].cid \in PlanIds BY DEF Send, ControlFits, PlanningPcs
<1>2. SendRequest(p) \in Request BY <1>1, WorkerFields DEF SendRequest, Request, Authors
<1>3. messages' \subseteq Message /\ pending' \subseteq Request
  <2>1. Delivers(p) => messages' \subseteq Message /\ pending' \subseteq Request
    BY <1>2, StampedType DEF Delivers, TypeOK
  <2>2. QED BY <1>2, <2>1 DEF Send, TypeOK
<1>4. sends' \in [PlanIds -> Nat] BY <1>1 DEF Send, TypeOK
<1>5. ControlTypeOK' /\ account' \in Accounts \cup {NoAccount} /\ loginRequired' \in BOOLEAN
  <2>1. CASE DefiniteFailure(p) BY <2>1, DefiniteFailureType
  <2>2. CASE (RecordNext(p, SentMark) \/ RecordNext(p, WarningMark(op[p].conv))) /\ UNCHANGED session
    BY <2>2, <1>0, WorkerFields, MarksAreMarks, RecordNextType DEF session, TypeOK
  <2>3. CASE op' = [op EXCEPT ![p].at = now] /\ Goto(p, "reconcile") /\ UNCHANGED session
    <3>1. [op[p] EXCEPT !.at = now] \in Op BY <1>0, WorkerFields, OpUpdateType
    <3>2. op' = [op EXCEPT ![p] = [op[p] EXCEPT !.at = now]] BY <2>3
    <3>3. "reconcile" \in Pcs BY DEF Pcs
    <3>4. QED BY <2>3, <3>1, <3>2, <3>3, <1>0, GotoType DEF session, TypeOK
  <2>4. QED BY <2>1, <2>2, <2>3 DEF Send
<1>6. QED BY <1>3, <1>4, <1>5 DEF Send, TypeOK, PlansTypeOK, ControlTypeOK

LEMMA ReconcileType == ASSUME TypeOK, NEW p \in Procs, Reconcile(p) PROVE TypeOK'
<1>1. ControlTypeOK'
  BY TypeParts, WorkerFields, MarksAreMarks, RecordNextType DEF Reconcile
<1>2. QED BY <1>1, OnlyControl DEF Reconcile

LEMMA RecordStepType == ASSUME TypeOK, ControlFits, NEW p \in Procs, Record(p) PROVE TypeOK'
<1>0. PlansTypeOK /\ ControlTypeOK BY TypeParts
<1>1. op[p].cid \in PlanIds BY DEF Record, ControlFits, PlanningPcs
<1>2. plans' \in [PlanIds -> Plan]
  BY <1>0, <1>1, WorkerFields, RecordType DEF Record, PlansTypeOK
<1>3. ControlTypeOK' BY <1>0, ExitType DEF Record
<1>4. QED BY <1>2, <1>3, OnlyPlans DEF Record

LEMMA EnvironmentType == ASSUME TypeOK, Environment PROVE TypeOK'
<1> USE DEF session, remote, tries
<1>0. PlansTypeOK /\ ControlTypeOK /\ EnvTypeOK BY TypeParts
<1>1. CASE OpenOther
  <2>1. plans' \in [PlanIds -> Plan] BY <1>0, <1>1, RecoveredType DEF OpenOther
  <2>2. ControlTypeOK' BY <1>0, <1>1 DEF OpenOther, ControlTypeOK
  <2>3. QED BY <2>1, <2>2, <1>1, OnlyPlans DEF OpenOther
<1>2. CASE Apply
  <2>1. messages' \subseteq Message /\ pending' \subseteq Request
    BY <1>2, StampedType DEF Apply, TypeOK
  <2>2. QED BY <2>1, <1>2 DEF Apply, TypeOK, PlansTypeOK
<1>3. CASE Elsewhere
  <2>1. convs' \in [ConvIds -> Conversation] /\ messages' \subseteq Message
    <3>1. CASE \E k \in FreeConvs, a \in Accounts, l \in Listings :
                 /\ convs' = [convs EXCEPT ![k] = [acct |-> a, listing |-> l]]
                 /\ UNCHANGED messages
      <4>1. PICK k \in FreeConvs, a \in Accounts, l \in Listings :
              convs' = [convs EXCEPT ![k] = [acct |-> a, listing |-> l]]
        BY <3>1
      <4>2. [acct |-> a, listing |-> l] \in Conversation BY DEF Conversation
      <4>3. QED BY <4>1, <4>2, <3>1 DEF TypeOK
    <3>2. CASE \E k \in ConvIds \ FreeConvs, text \in Texts :
                 /\ messages' = messages \cup {Stamped([conv |-> k, text |-> text, by |-> Human])}
                 /\ UNCHANGED convs
      <4>1. ASSUME NEW k \in ConvIds, NEW text \in Texts
            PROVE  Stamped([conv |-> k, text |-> text, by |-> Human]) \in Message
        BY <1>0 DEF Stamped, Message, Authors, PlansTypeOK
      <4>2. QED BY <4>1, <3>2 DEF TypeOK
    <3>3. QED BY <3>1, <3>2, <1>3 DEF Elsewhere
  <2>2. elsewhere' \in Nat BY <1>3 DEF Elsewhere, TypeOK
  <2>3. QED BY <2>1, <2>2, <1>3 DEF Elsewhere, TypeOK, PlansTypeOK
<1>4. CASE Login \/ Logout
  <2>1. plans' \in [PlanIds -> Plan] BY <1>0, <1>4, DeleteType DEF Login, Logout, PlansTypeOK
  <2>2. /\ account' \in Accounts \cup {NoAccount} /\ loginRequired' \in BOOLEAN /\ logins' \in Nat
        /\ UNCHANGED <<now, remote, pc, op, tries>>
    <3>1. logins' \in Nat
      <4>1. logins' = logins + 1 /\ logins \in Nat BY <1>0, <1>4 DEF Login, Logout, EnvTypeOK
      <4>2. QED BY <4>1
    <3>2. account' \in Accounts \cup {NoAccount} BY <1>4 DEF Login, Logout
    <3>3. loginRequired' \in BOOLEAN BY <1>4 DEF Login, Logout
    <3>4. UNCHANGED <<now, remote, pc, op, tries>> BY <1>4 DEF Login, Logout
    <3>5. QED BY <3>1, <3>2, <3>3, <3>4
  <2>3. QED BY <2>1, <2>2 DEF TypeOK, PlansTypeOK
<1>5. CASE Tick
  <2>1. now' \in 0..MaxTime BY <1>0, <1>5, TimesAssumption DEF Tick, PlansTypeOK
  <2>2. QED BY <2>1, <1>5 DEF Tick, TypeOK, PlansTypeOK
<1>6. QED BY <1>1, <1>2, <1>3, <1>4, <1>5 DEF Environment

-----------------------------------------------------------------------------
(* A step of one process leaves the others alone, and its own confirmation *)
(* and target, unless it ends.                                             *)
Steps(p) == Planning(p) \/ Executing(p) \/ Stop(p)
Mine(p) == /\ \A q \in Procs \ {p} : pc'[q] = pc[q] /\ op'[q] = op[q]
           /\ \/ pc'[p] = "down"
              \/ op'[p].cid = op[p].cid /\ op'[p].target = op[p].target

LEMMA ExitIsMine == ASSUME TypeOK, NEW p \in Procs, Exit(p) PROVE Mine(p) /\ pc'[p] = "down"
  BY DEF TypeOK, Exit, Goto, Mine

LEMMA RecordNextIsMine ==
  ASSUME TypeOK, NEW p \in Procs, NEW m, RecordNext(p, m)
  PROVE  Mine(p) /\ pc'[p] = "record" /\ op'[p].mark = m
  BY DEF TypeOK, RecordNext, Goto, Mine, Op

LEMMA StepIsMine == ASSUME TypeOK, NEW p \in Procs, Steps(p) PROVE Mine(p)
<1> USE DEF Goto
<1>1. CASE Identity(p)
  BY <1>1, ExitIsMine, RecordNextIsMine DEF Identity, Mine, TypeOK, Op
<1>2. CASE PlanScan(p)
  BY <1>2, ExitIsMine, RecordNextIsMine DEF PlanScan, Mine, TypeOK, Op
<1>3. CASE PlanCheck(p)
  BY <1>3, ExitIsMine, RecordNextIsMine DEF PlanCheck, Mine, TypeOK, Op
<1>4. CASE PlanStore(p)
  BY <1>4, ExitIsMine, RecordNextIsMine DEF PlanStore, Mine, TypeOK, Op
<1>5. CASE Claim(p)
  BY <1>5, ExitIsMine, RecordNextIsMine DEF Claim, Mine, TypeOK, Op
<1>6. CASE Client(p)
  BY <1>6, ExitIsMine, RecordNextIsMine DEF Client, Mine, TypeOK, Op
<1>7. CASE StartScan(p)
  BY <1>7, ExitIsMine, RecordNextIsMine DEF StartScan, Mine, TypeOK, Op
<1>8. CASE Create(p)
  <2>1. CASE DefiniteFailure(p) BY <2>1, RecordNextIsMine DEF DefiniteFailure
  <2>2. CASE \E k \in ConvIds : /\ op' = [op EXCEPT ![p].conv = k, ![p].at = now]
                               /\ pc' = [pc EXCEPT ![p] = "mark_created"]
    BY <2>2 DEF Mine, TypeOK, Op
  <2>3. CASE op' = [op EXCEPT ![p].at = now] /\ pc' = [pc EXCEPT ![p] = "mark_reconcile"]
    BY <2>3 DEF Mine, TypeOK, Op
  <2>4. QED BY <1>8, <2>1, <2>2, <2>3 DEF Create
<1>9. CASE MarkReconcile(p)
  BY <1>9, ExitIsMine, RecordNextIsMine DEF MarkReconcile, Mine, TypeOK, Op, AuditFailure
<1>10. CASE ReconcileCreate(p)
  BY <1>10, ExitIsMine, RecordNextIsMine DEF ReconcileCreate, Mine, TypeOK, Op
<1>11. CASE MarkCreated(p)
  BY <1>11, ExitIsMine, RecordNextIsMine DEF MarkCreated, Mine, TypeOK, Op, AuditFailure
<1>12. CASE CountFirst(p)
  BY <1>12, ExitIsMine, RecordNextIsMine DEF CountFirst, Mine, TypeOK, Op
<1>13. CASE MarkSend(p)
  BY <1>13, ExitIsMine, RecordNextIsMine DEF MarkSend, Mine, TypeOK, Op, AuditFailure
<1>14. CASE Send(p)
  BY <1>14, ExitIsMine, RecordNextIsMine DEF Send, Mine, TypeOK, Op, DefiniteFailure
<1>15. CASE Reconcile(p)
  BY <1>15, ExitIsMine, RecordNextIsMine DEF Reconcile, Mine, TypeOK, Op
<1>16. CASE Record(p)
  BY <1>16, ExitIsMine, RecordNextIsMine DEF Record, Mine, TypeOK, Op
<1>17. CASE Stop(p)
  BY <1>17, ExitIsMine, RecordNextIsMine DEF Stop, Mine, TypeOK, Op
<1>18. QED
  BY <1>1, <1>2, <1>3, <1>4, <1>5, <1>6, <1>7, <1>8, <1>9, <1>10, <1>11, <1>12, <1>13, <1>14, <1>15, <1>16, <1>17
  DEF Steps, Planning, Executing

LEMMA ControlStep == ASSUME TypeOK, ControlFits, NEW p \in Procs, Steps(p) PROVE ControlFits'
<1>1. Mine(p) BY StepIsMine
<1>2. ASSUME NEW q \in Procs \ {p}
      PROVE  /\ pc'[q] \notin {"down"} \cup PlanningPcs => op'[q].cid \in PlanIds
             /\ pc'[q] \in CreatePcs => op'[q].target \notin ConvIds
  BY <1>1 DEF Mine, ControlFits, IsReply
<1>3. pc'[p] \notin {"down"} \cup PlanningPcs => op'[p].cid \in PlanIds
  <2>1. CASE pc[p] \notin {"down"} \cup PlanningPcs
    BY <2>1, <1>1 DEF Mine, ControlFits
  <2>2. CASE pc[p] \in {"down"} \cup PlanningPcs /\ pc'[p] \notin {"down"} \cup PlanningPcs
    <3>1. Identity(p) /\ pc'[p] = "claim"
      BY <2>2, ExitIsMine DEF Steps, Planning, Executing, Identity, PlanScan, PlanCheck, PlanStore, Claim,
         Client, StartScan, Create, MarkReconcile, ReconcileCreate, MarkCreated, CountFirst,
         MarkSend, Send, Reconcile, Record, Stop, PlanningPcs, Goto, TypeOK
    <3>2. op[p].cid # NoPlan
      BY <3>1, ExitIsMine DEF Identity, Goto, TypeOK
    <3>3. QED BY <3>1, <3>2, <1>1, WorkerFields DEF Mine
  <2>3. QED BY <2>1, <2>2
<1>4. pc'[p] \in CreatePcs => op'[p].target \notin ConvIds
  <2>1. CASE pc[p] \in CreatePcs BY <2>1, <1>1 DEF Mine, ControlFits, IsReply, CreatePcs
  <2>2. CASE pc[p] \notin CreatePcs /\ pc'[p] \in CreatePcs
    <3>1. Client(p) /\ ~ IsReply(p) /\ pc'[p] = "start_scan"
      BY <2>2, ExitIsMine, RecordNextIsMine
         DEF Steps, Planning, Executing, Identity, PlanScan, PlanCheck, PlanStore, Claim, Client, StartScan, Create,
         MarkReconcile, ReconcileCreate, MarkCreated, CountFirst, MarkSend, Send, Reconcile,
         Record, Stop, AuditFailure, DefiniteFailure, CreatePcs, Goto, TypeOK
    <3>2. QED BY <3>1, <1>1 DEF Mine, IsReply
  <2>3. QED BY <2>1, <2>2
<1>5. QED BY <1>2, <1>3, <1>4 DEF ControlFits, IsReply

LEMMA OpenIsMine ==
  ASSUME TypeOK, NEW p \in Procs, Open(p)
  PROVE  /\ pc[p] = "down" /\ pc'[p] = "identity"
         /\ \A q \in Procs \ {p} : pc'[q] = pc[q] /\ op'[q] = op[q]
  BY DEF TypeOK, Open, Goto

Typed == TypeOK /\ ControlFits

LEMMA NextSteps == Next <=> (\E p \in Procs : Open(p) \/ Steps(p)) \/ Environment
  BY DEF Next, Process, Steps

LEMMA StepType == ASSUME Typed, NEW p \in Procs, Steps(p) PROVE TypeOK'
<1> USE DEF Typed
<1>1. CASE Planning(p) BY <1>1, PlanningType
<1>2. CASE Executing(p)
  <2>1. Claim(p) => op[p].cid \in PlanIds BY DEF Claim, ControlFits, PlanningPcs
  <2>2. QED
    BY <1>2, <2>1, ClaimStepType, ClientType, StartScanType, CreateStepType, MarkReconcileType,
       ReconcileCreateType, MarkCreatedType, CountFirstType, MarkSendType, SendStepType,
       ReconcileType, RecordStepType DEF Executing
<1>3. CASE Stop(p)
  <2>1. ControlTypeOK' BY <1>3, TypeParts, ExitType DEF Stop
  <2>2. QED BY <1>3, <2>1, OnlyControl DEF Stop
<1>4. QED BY <1>1, <1>2, <1>3 DEF Steps

LEMMA TypedStep == Typed /\ [Next]_vars => Typed'
<1> SUFFICES ASSUME Typed, [Next]_vars PROVE Typed' OBVIOUS
<1> USE DEF Typed
<1>1. ASSUME NEW p \in Procs, Open(p) PROVE Typed'
  <2>1. TypeOK' BY <1>1, OpenType
  <2>2. ControlFits'
    BY <1>1, OpenIsMine DEF ControlFits, IsReply, PlanningPcs, CreatePcs
  <2>3. QED BY <2>1, <2>2
<1>2. ASSUME NEW p \in Procs, Steps(p) PROVE Typed'
  BY <1>2, StepType, ControlStep
<1>3. CASE Environment
  <2>1. TypeOK' BY <1>3, EnvironmentType
  <2>2. UNCHANGED <<pc, op>>
    BY <1>3 DEF Environment, OpenOther, Apply, Elsewhere, Login, Logout, Tick
  <2>3. ControlFits' BY <2>2 DEF ControlFits, IsReply
  <2>4. QED BY <2>1, <2>3
<1>4. CASE UNCHANGED vars
  BY <1>4 DEF vars, session, remote, tries, TypeOK, PlansTypeOK, ControlFits, IsReply
<1>5. QED BY <1>1, <1>2, <1>3, <1>4, NextSteps

(* Every variable keeps its type, whatever the processes and users do.     *)
THEOREM TypeCorrect == Spec => []TypeOK
<1>1. Init => Typed BY TypeInit DEF Typed, Init, ControlFits, CreatePcs
<1>2. Typed => TypeOK BY DEF Typed
<1>3. QED BY <1>1, <1>2, TypedStep, PTL DEF Spec

-----------------------------------------------------------------------------
(* At most one attempt.  How a process enters and passes its work: *)

LEMMA EntersByClaim ==
  ASSUME Typed, NEW p \in Procs, Steps(p), pc[p] \in NotWorking, pc'[p] \notin NotWorking
  PROVE  /\ pc[p] = "claim" /\ pc'[p] = "client" /\ op' = op
         /\ ClaimAnswer(op[p].cid, op[p].acct, op[p].target, op[p].text) = "claimed"
         /\ ConsumePlan(op[p].cid, op[p].target)
         /\ UNCHANGED <<tries, remote>>
<1>1. TypeOK BY DEF Typed
<1>2. Identity(p) \/ PlanScan(p) \/ PlanCheck(p) \/ PlanStore(p) \/ Claim(p)
  BY <1>1, ExitIsMine DEF Steps, Planning, Executing, Identity, PlanScan, PlanCheck, PlanStore, Claim, Client,
         StartScan, Create, MarkReconcile, ReconcileCreate, MarkCreated, CountFirst, MarkSend,
         Send, Reconcile, Record, Stop, AuditFailure, DefiniteFailure, NotWorking, PlanningPcs
<1>3. Claim(p) /\ ~ Exit(p)
  BY <1>1, <1>2, ExitIsMine
     DEF Identity, PlanScan, PlanCheck, PlanStore, NotWorking, PlanningPcs, Goto, TypeOK
<1>4. QED BY <1>1, <1>3 DEF Claim, Goto, TypeOK, tries, remote

LEMMA ClaimedIsPlanned ==
  ASSUME NEW c, NEW acct, NEW target, NEW text, ClaimAnswer(c, acct, target, text) = "claimed"
  PROVE  plans[c].stage = "planned"
  BY DEF ClaimAnswer

LEMMA WorkOrder ==
  ASSUME Typed, NEW p \in Procs, Steps(p)
  PROVE  /\ pc'[p] \in BeforeSend => pc[p] \in (BeforeSend \ {"send"}) \cup {"claim"}
         /\ pc'[p] \in BeforeCreate => pc[p] \in (BeforeCreate \ {"create"}) \cup {"claim"}
  BY ExitIsMine, RecordNextIsMine
     DEF Steps, Planning, Executing, Identity, PlanScan, PlanCheck, PlanStore, Claim, Client,
         StartScan, Create, MarkReconcile, ReconcileCreate, MarkCreated, CountFirst, MarkSend,
         Send, Reconcile, Record, Stop, AuditFailure, DefiniteFailure,
         BeforeSend, BeforeCreate, ReconcileCreatePcs, FirstSendPcs, Goto, TypeOK, Typed

LEMMA Attempts ==
  ASSUME Typed, NEW p \in Procs, Steps(p)
  PROVE  /\ \/ pc[p] = "send" /\ sends' = [sends EXCEPT ![op[p].cid] = @ + 1]
            \/ UNCHANGED sends
         /\ \/ pc[p] = "create" /\ creates' = [creates EXCEPT ![op[p].cid] = @ + 1]
            \/ UNCHANGED creates
<1>1. CASE Send(p) BY <1>1 DEF Send
<1>2. CASE Create(p) BY <1>2 DEF Create
<1>3. CASE Planning(p) BY <1>3 DEF Planning, Identity, PlanScan, PlanCheck, PlanStore, tries
<1>4. CASE Stop(p) BY <1>4 DEF Stop, tries
<1>5. CASE Executing(p) /\ ~ Send(p) /\ ~ Create(p)
  BY <1>5 DEF Executing, Claim, Client, StartScan, MarkReconcile, ReconcileCreate, MarkCreated,
              CountFirst, MarkSend, Reconcile, Record, tries
<1>6. QED BY <1>1, <1>2, <1>3, <1>4, <1>5 DEF Steps

(* How the stage of a plan changes: a worker's transition, or another's.  *)
Advances(p) ==
  /\ pc[p] \notin NotWorking
  /\ InFlight(op[p].cid)
  /\ \A c \in PlanIds \ {op[p].cid} : plans'[c] = plans[c]
  /\ \/ plans'[op[p].cid].stage \in InFlightStages
     \/ /\ pc[p] = "record"
        /\ plans'[op[p].cid].stage = op[p].mark.stage
        /\ pc'[p] = "down"

LEMMA WorkerPlans ==
  ASSUME Typed, NEW p \in Procs, Steps(p), pc[p] \notin NotWorking
  PROVE  UNCHANGED plans \/ Advances(p)
<1>0. TypeOK /\ op[p].cid \in PlanIds BY DEF Typed, ControlFits, NotWorking, PlanningPcs
<1>1. CASE MarkReconcile(p) \/ MarkSend(p)
  BY <1>0, <1>1 DEF MarkReconcile, MarkSend, AdvanceStage, AuditFailure, MarkFrom, Advances, InFlight,
     InFlightStages, TypeOK, PlansTypeOK, Plan
<1>2. CASE MarkCreated(p)
  BY <1>0, <1>2 DEF MarkCreated, Transition, AuditFailure, MarkFrom, Advances, InFlight,
     InFlightStages, TypeOK, PlansTypeOK, Plan
<1>3. CASE Record(p)
  <2>1. CASE UNCHANGED plans BY <2>1
  <2>2. CASE Transition(op[p].cid, op[p].mark.stage, op[p].mark.outcome)
    <3>1. op[p].mark.stage \in {"failed_definite", "sent", "warning_blocked", "outcome_unknown"}
      BY <1>0, WorkerFields
         DEF Marks, Mark, FailedMark, SentMark, ReconciledMark, WarningMark, UnknownMark
    <3>2. InFlight(op[p].cid)
      BY <2>2, <3>1 DEF Transition, MarkFrom, InFlight, InFlightStages
    <3>3. /\ plans'[op[p].cid].stage = op[p].mark.stage
          /\ \A c \in PlanIds \ {op[p].cid} : plans'[c] = plans[c]
      BY <1>0, <2>2 DEF Transition, TypeOK, PlansTypeOK, Plan
    <3>4. pc[p] = "record" /\ pc'[p] = "down" BY <1>0, <1>3, ExitIsMine DEF Record
    <3>5. QED BY <3>2, <3>3, <3>4 DEF Advances, NotWorking, PlanningPcs
  <2>3. QED BY <1>3, <2>1, <2>2 DEF Record
<1>4. CASE Planning(p) \/ Claim(p)
  BY <1>4 DEF Planning, Identity, PlanScan, PlanCheck, PlanStore, Claim, NotWorking, PlanningPcs
<1>5. CASE Client(p) \/ StartScan(p) \/ Create(p) \/ ReconcileCreate(p) \/ CountFirst(p)
             \/ Send(p) \/ Reconcile(p) \/ Stop(p)
  BY <1>5 DEF Client, StartScan, Create, ReconcileCreate, CountFirst, Send, Reconcile, Stop
<1>6. QED BY <1>1, <1>2, <1>3, <1>4, <1>5 DEF Steps, Executing

LEMMA PlannerPlans ==
  ASSUME Typed, NEW p \in Procs, Steps(p), pc[p] \in NotWorking, NEW c \in PlanIds
  PROVE  \/ plans'[c] = plans[c]
         \/ plans[c].stage = "absent" /\ plans'[c].stage = "planned"
         \/ /\ plans[c].stage = "planned" /\ pc[p] = "claim" /\ c = op[p].cid
            /\ plans'[c].stage \in {"expired"} \cup InFlightStages
<1>0. TypeOK BY DEF Typed
<1>1. CASE PlanStore(p)
  <2>1. PICK d \in PlanIds : CreatePlan(d, op[p].acct, op[p].target, op[p].text)
    BY <1>1 DEF PlanStore
  <2>2. QED BY <2>1, <1>0 DEF CreatePlan, Issued, TypeOK, PlansTypeOK
<1>2. CASE Claim(p)
  <2>1. pc[p] = "claim" /\ op[p].cid \in PlanIds
    BY <1>2 DEF Claim, Typed, ControlFits, PlanningPcs
  <2> DEFINE answer == ClaimAnswer(op[p].cid, op[p].acct, op[p].target, op[p].text)
  <2>2. answer \in {"claimed", "expired"} => plans[op[p].cid].stage = "planned"
    BY DEF ClaimAnswer
  <2>3. CASE UNCHANGED plans BY <2>3
  <2>4. CASE answer = "claimed" /\ ConsumePlan(op[p].cid, op[p].target)
    BY <1>0, <2>1, <2>2, <2>4 DEF ConsumePlan, InitialStage, InFlightStages, TypeOK, PlansTypeOK, Plan
  <2>5. CASE answer = "expired" /\ ExpirePlan(op[p].cid)
    BY <1>0, <2>1, <2>2, <2>5 DEF ExpirePlan, TypeOK, PlansTypeOK, Plan
  <2>6. QED BY <1>2, <2>3, <2>4, <2>5 DEF Claim
<1>3. CASE Identity(p) \/ PlanScan(p) \/ PlanCheck(p) \/ Stop(p)
  BY <1>3 DEF Identity, PlanScan, PlanCheck, Stop
<1>4. CASE ~ (Planning(p) \/ Claim(p) \/ Stop(p))
  BY <1>4 DEF Steps, Executing, Client, StartScan, Create, MarkReconcile, ReconcileCreate, MarkCreated,
     CountFirst, MarkSend, Send, Reconcile, Record, NotWorking, PlanningPcs
<1>5. QED BY <1>1, <1>2, <1>3, <1>4 DEF Planning

LEMMA OtherPlans ==
  ASSUME Typed, (\E p \in Procs : Open(p)) \/ Environment \/ UNCHANGED vars, NEW c \in PlanIds
  PROVE  \/ plans'[c].stage = plans[c].stage
         \/ InFlight(c) /\ plans'[c].stage = "outcome_unknown"
         \/ plans[c].stage # "absent" /\ plans'[c].stage = "deleted"
<1>0. TypeOK /\ plans[c] \in Plan BY DEF Typed, TypeOK, PlansTypeOK
<1>1. CASE plans' = Recovered BY <1>0, <1>1 DEF Recovered, Stale, Plan
<1>2. CASE \E x : plans' = DeletePlansOf(x) BY <1>0, <1>2 DEF DeletePlansOf, NoPlanRow, Issued
<1>3. CASE UNCHANGED plans BY <1>3
<1>4. QED BY <1>1, <1>2, <1>3
  DEF Open, Environment, OpenOther, Apply, Elsewhere, Login, Logout, Tick, vars

LEMMA TouchedStays ==
  ASSUME Typed, [Next]_vars, NEW c \in PlanIds, plans[c].stage \notin Untouched
  PROVE  plans'[c].stage \notin Untouched
<1>1. ASSUME NEW p \in Procs, Steps(p), pc[p] \notin NotWorking PROVE plans'[c].stage \notin Untouched
  <2>1. CASE UNCHANGED plans BY <2>1
  <2>2. CASE Advances(p)
    <3>1. op[p].mark.stage \notin Untouched
      BY WorkerFields, MarkFields DEF Typed, Untouched
    <3>2. QED BY <2>2, <3>1 DEF Advances, Untouched, InFlightStages
  <2>3. QED BY <1>1, <2>1, <2>2, WorkerPlans
<1>2. ASSUME NEW p \in Procs, Steps(p), pc[p] \in NotWorking PROVE plans'[c].stage \notin Untouched
  BY <1>2, PlannerPlans DEF Untouched
<1>3. CASE (\E p \in Procs : Open(p)) \/ Environment \/ UNCHANGED vars
  BY <1>3, OtherPlans DEF Untouched
<1>4. QED BY <1>1, <1>2, <1>3, NextSteps

LEMMA ExecutionInit == Init => Execution
  BY DEF Init, Execution, OneWorker, Works, WorkIsClaimed, AttemptsAreClaimed, StepsComeOnce,
         AtMostOneAttempt, NotWorking, BeforeSend, BeforeCreate, ReconcileCreatePcs, FirstSendPcs

(* What a step of p does to the work of any process. *)
LEMMA WorkAfter ==
  ASSUME Typed, Execution, NEW p \in Procs, Steps(p), NEW q \in Procs, pc'[q] \notin NotWorking
  PROVE  /\ op'[q].cid = op[q].cid /\ op[q].cid \in PlanIds
         /\ \/ pc[q] \notin NotWorking
            \/ q = p /\ pc[p] = "claim" /\ plans[op[p].cid].stage = "planned"
<1>1. Mine(p) BY StepIsMine DEF Typed
<1>2. op'[q].cid = op[q].cid BY <1>1 DEF Mine, NotWorking
<1>3. CASE pc[q] \notin NotWorking
  BY <1>2, <1>3 DEF Typed, ControlFits, NotWorking, PlanningPcs
<1>4. CASE pc[q] \in NotWorking
  <2>1. q = p BY <1>1, <1>4 DEF Mine
  <2>2. pc[p] = "claim" /\ plans[op[p].cid].stage = "planned"
    BY <1>4, <2>1, EntersByClaim, ClaimedIsPlanned
  <2>3. QED BY <1>2, <2>1, <2>2 DEF Typed, ControlFits, PlanningPcs
<1>5. QED BY <1>3, <1>4

LEMMA ExecutionByProcess ==
  ASSUME Typed, Execution, NEW p \in Procs, Steps(p), [Next]_vars PROVE Execution'
<1>0. Mine(p) /\ TypeOK BY StepIsMine DEF Typed
<1> USE DEF Execution
<1>1. OneWorker'
  <2> SUFFICES ASSUME NEW c \in PlanIds, NEW q \in Procs, NEW r \in Procs,
                      Works(q, c)', Works(r, c)'
               PROVE  q = r
    BY DEF OneWorker
  <2>1. op[q].cid = c /\ op[r].cid = c BY WorkAfter DEF Works
  <2>2. CASE pc[q] \notin NotWorking /\ pc[r] \notin NotWorking
    BY <2>1, <2>2 DEF OneWorker, Works
  <2>3. CASE pc[q] \in NotWorking \/ pc[r] \in NotWorking
    <3>1. plans[c].stage = "planned" BY <2>1, <2>3, WorkAfter DEF Works
    <3>2. pc[q] \in NotWorking /\ pc[r] \in NotWorking
      BY <2>1, <3>1 DEF WorkIsClaimed, Untouched
    <3>3. QED BY <3>2, WorkAfter DEF Works
  <2>4. QED BY <2>2, <2>3
<1>2. WorkIsClaimed'
  <2> SUFFICES ASSUME NEW q \in Procs, pc'[q] \notin NotWorking
               PROVE  plans'[op'[q].cid].stage \notin Untouched
    BY DEF WorkIsClaimed
  <2>1. CASE pc[q] \notin NotWorking BY <2>1, WorkAfter, TouchedStays DEF WorkIsClaimed
  <2>2. CASE pc[q] \in NotWorking
    <3>1. q = p /\ op[p].cid \in PlanIds /\ op'[p].cid = op[p].cid BY <2>2, WorkAfter
    <3>2. ConsumePlan(op[p].cid, op[p].target) BY <2>2, <3>1, EntersByClaim
    <3>3. plans'[op[p].cid].stage = InitialStage(op[p].target)
      BY <1>0, <3>1, <3>2 DEF ConsumePlan, TypeOK, PlansTypeOK, Plan
    <3>4. QED BY <3>1, <3>3 DEF InitialStage, Untouched
  <2>3. QED BY <2>1, <2>2
<1>3. \A c \in PlanIds :
        /\ sends'[c] = sends[c] \/ (pc[p] = "send" /\ op[p].cid = c /\ sends'[c] = sends[c] + 1)
        /\ creates'[c] = creates[c]
              \/ (pc[p] = "create" /\ op[p].cid = c /\ creates'[c] = creates[c] + 1)
  <2>1. sends \in [PlanIds -> Nat] /\ creates \in [PlanIds -> Nat] BY <1>0 DEF TypeOK
  <2>2. /\ \/ pc[p] = "send" /\ sends' = [sends EXCEPT ![op[p].cid] = @ + 1]
           \/ UNCHANGED sends
        /\ \/ pc[p] = "create" /\ creates' = [creates EXCEPT ![op[p].cid] = @ + 1]
           \/ UNCHANGED creates
    BY Attempts
  <2>3. ASSUME NEW c \in PlanIds
        PROVE  sends'[c] = sends[c] \/ (pc[p] = "send" /\ op[p].cid = c /\ sends'[c] = sends[c] + 1)
    <3>1. CASE op[p].cid = c BY <2>1, <2>2, <3>1
    <3>2. CASE op[p].cid # c BY <2>1, <2>2, <3>2
    <3>3. QED BY <3>1, <3>2
  <2>4. ASSUME NEW c \in PlanIds
        PROVE  creates'[c] = creates[c]
                 \/ (pc[p] = "create" /\ op[p].cid = c /\ creates'[c] = creates[c] + 1)
    <3>1. CASE op[p].cid = c BY <2>1, <2>2, <3>1
    <3>2. CASE op[p].cid # c BY <2>1, <2>2, <3>2
    <3>3. QED BY <3>1, <3>2
  <2>5. QED BY <2>3, <2>4
<1>4. AttemptsAreClaimed'
  <2> SUFFICES ASSUME NEW c \in PlanIds, sends'[c] # 0 \/ creates'[c] # 0
               PROVE  plans'[c].stage \notin Untouched
    BY DEF AttemptsAreClaimed
  <2>1. plans[c].stage \notin Untouched
    BY <1>3 DEF AttemptsAreClaimed, WorkIsClaimed, NotWorking, PlanningPcs
  <2>2. QED BY <2>1, TouchedStays
<1>5. StepsComeOnce'
  <2> SUFFICES ASSUME NEW q \in Procs
               PROVE  /\ pc'[q] \in BeforeSend => sends'[op'[q].cid] = 0
                      /\ pc'[q] \in BeforeCreate => creates'[op'[q].cid] = 0
    BY DEF StepsComeOnce
  <2>1. CASE pc'[q] \in BeforeSend
    <3>1. pc'[q] \notin NotWorking
      BY <2>1 DEF BeforeSend, BeforeCreate, ReconcileCreatePcs, FirstSendPcs, NotWorking, PlanningPcs
    <3>2. op'[q].cid = op[q].cid /\ op[q].cid \in PlanIds BY <3>1, WorkAfter
    <3>3. sends[op[q].cid] = 0 /\ (pc'[q] \in BeforeCreate => creates[op[q].cid] = 0)
      <4>1. CASE pc[q] \in NotWorking
        BY <3>1, <3>2, <4>1, WorkAfter DEF AttemptsAreClaimed, Untouched
      <4>2. CASE pc[q] \notin NotWorking /\ q = p
        BY <2>1, <4>2, WorkOrder DEF StepsComeOnce, NotWorking
      <4>3. CASE q # p BY <1>0, <2>1, <4>3 DEF StepsComeOnce, Mine
      <4>4. QED BY <4>1, <4>2, <4>3
    <3>4. sends'[op[q].cid] = sends[op[q].cid]
      <4>1. SUFFICES ASSUME pc[p] = "send", op[p].cid = op[q].cid PROVE FALSE BY <1>3, <3>2
      <4>2. pc[q] \notin NotWorking
        BY <3>1, <4>1, WorkAfter
      <4>3. q = p BY <3>2, <4>1, <4>2 DEF OneWorker, Works, NotWorking, PlanningPcs
      <4>4. QED BY <2>1, <4>1, <4>3, WorkOrder
    <3>5. pc'[q] \in BeforeCreate => creates'[op[q].cid] = creates[op[q].cid]
      <4>1. SUFFICES ASSUME pc'[q] \in BeforeCreate, pc[p] = "create", op[p].cid = op[q].cid
                     PROVE  FALSE
        BY <1>3, <3>2
      <4>2. pc[q] \notin NotWorking BY <3>1, <4>1, WorkAfter
      <4>3. q = p BY <3>2, <4>1, <4>2 DEF OneWorker, Works, NotWorking, PlanningPcs
      <4>4. QED BY <4>1, <4>3, WorkOrder
    <3>6. QED BY <3>2, <3>3, <3>4, <3>5
  <2>2. CASE pc'[q] \notin BeforeSend BY <2>2 DEF BeforeSend
  <2>3. QED BY <2>1, <2>2
<1>6. AtMostOneAttempt'
  <2>1. ASSUME NEW c \in PlanIds PROVE sends'[c] <= 1 /\ creates'[c] <= 1
    <3>1. sends[c] \in Nat /\ creates[c] \in Nat /\ sends[c] <= 1 /\ creates[c] <= 1
      BY <1>0 DEF TypeOK, AtMostOneAttempt
    <3>2. pc[p] = "send" /\ op[p].cid = c => sends[c] = 0 BY DEF StepsComeOnce, BeforeSend
    <3>3. pc[p] = "create" /\ op[p].cid = c => creates[c] = 0 BY DEF StepsComeOnce, BeforeCreate
    <3>4. QED BY <1>3, <3>1, <3>2, <3>3
  <2>2. QED BY <2>1 DEF AtMostOneAttempt
<1>7. QED BY <1>1, <1>2, <1>4, <1>5, <1>6

LEMMA ExecutionStep == Typed /\ Execution /\ [Next]_vars => Execution'
<1> SUFFICES ASSUME Typed, Execution, [Next]_vars PROVE Execution' OBVIOUS
<1>1. ASSUME NEW p \in Procs, Steps(p) PROVE Execution' BY <1>1, ExecutionByProcess
<1>2. CASE (\E p \in Procs : Open(p)) \/ Environment \/ UNCHANGED vars
  <2>1. UNCHANGED tries
    BY <1>2 DEF Open, Environment, OpenOther, Apply, Elsewhere, Login, Logout, Tick, vars
  <2>2. \A q \in Procs : pc'[q] \in NotWorking \/ (pc'[q] = pc[q] /\ op'[q] = op[q])
    <3>1. ASSUME NEW p \in Procs, Open(p), NEW q \in Procs
          PROVE  pc'[q] \in NotWorking \/ (pc'[q] = pc[q] /\ op'[q] = op[q])
      <4>1. CASE q = p BY <3>1, <4>1, OpenIsMine DEF Typed, NotWorking, PlanningPcs
      <4>2. CASE q # p BY <3>1, <4>2, OpenIsMine DEF Typed
      <4>3. QED BY <4>1, <4>2
    <3>2. CASE Environment \/ UNCHANGED vars
      BY <3>2 DEF Environment, OpenOther, Apply, Elsewhere, Login, Logout, Tick, vars
    <3>3. CASE \E p \in Procs : Open(p) BY <3>1, <3>3
    <3>4. QED BY <1>2, <3>2, <3>3
  <2>3. \A c \in PlanIds : plans[c].stage \notin Untouched => plans'[c].stage \notin Untouched
    BY TouchedStays
  <2>4. \A q \in Procs : pc[q] \notin NotWorking => op[q].cid \in PlanIds
    BY DEF Typed, ControlFits, NotWorking, PlanningPcs
  <2>5. OneWorker' BY <2>2 DEF Execution, OneWorker, Works
  <2>6. WorkIsClaimed' BY <2>2, <2>3, <2>4 DEF Execution, WorkIsClaimed
  <2>7. AttemptsAreClaimed' BY <2>1, <2>3 DEF Execution, AttemptsAreClaimed, tries
  <2>8. StepsComeOnce'
    BY <2>1, <2>2 DEF Execution, StepsComeOnce, tries, BeforeSend, BeforeCreate, ReconcileCreatePcs,
       FirstSendPcs, NotWorking, PlanningPcs
  <2>9. AtMostOneAttempt' BY <2>1 DEF Execution, AtMostOneAttempt, tries
  <2>10. QED BY <2>5, <2>6, <2>7, <2>8, <2>9 DEF Execution
<1>3. QED BY <1>1, <1>2, NextSteps

(* A confirmation leads to at most one create and one send request, with   *)
(* any number of processes, crashes, restarts and account changes.         *)
THEOREM SingleAttempt == Spec => []AtMostOneAttempt
<1>1. Init => Typed /\ Execution
  BY TypeInit, ExecutionInit DEF Typed, Init, ControlFits, CreatePcs
<1>2. Typed /\ Execution => AtMostOneAttempt BY DEF Execution
<1>3. QED BY <1>1, <1>2, TypedStep, ExecutionStep, PTL DEF Spec

-----------------------------------------------------------------------------
(* Denials are true.  A message goes out only in a worker's send, which    *)
(* then does not deny it: *)

LEMMA NewOutgoing ==
  ASSUME Typed, [Next]_vars, NEW c \in PlanIds, ~ Outgoing(c), Outgoing(c)'
  PROVE  \E p \in Procs :
           /\ pc[p] = "send" /\ op[p].cid = c
           /\ sends'[c] = sends[c] + 1
           /\ pc'[p] = "reconcile" \/ (pc'[p] = "record" /\ op'[p].mark = SentMark)
<1>0. TypeOK BY DEF Typed
<1>1. ~ UNCHANGED <<messages, pending>> BY DEF Outgoing, By, PendingBy
<1>2. ~ Apply
  <2> SUFFICES ASSUME Apply PROVE FALSE OBVIOUS
  <2>1. PICK m \in pending : /\ messages' = messages \cup {Stamped(m)}
                            /\ pending' = pending \ {m}
    BY DEF Apply
  <2>2. m.by # c BY <2>1 DEF Outgoing, PendingBy
  <2>3. QED BY <2>1, <2>2 DEF Outgoing, By, PendingBy, Stamped
<1>3. ~ Elsewhere
  <2> SUFFICES ASSUME Elsewhere PROVE FALSE OBVIOUS
  <2>1. UNCHANGED messages \/ (\E k, text : messages' = messages \cup
          {Stamped([conv |-> k, text |-> text, by |-> Human])})
    BY DEF Elsewhere
  <2>2. UNCHANGED pending BY DEF Elsewhere
  <2>3. QED BY <2>1, <2>2, MessagingAssumption DEF Outgoing, By, PendingBy, Stamped
<1>4. PICK p \in Procs : Send(p)
  BY <1>1, <1>2, <1>3 DEF Next, Process, Planning, Executing, Environment, Open, OpenOther, Identity,
     PlanScan, PlanCheck, PlanStore, Claim, Client, StartScan, Create, MarkReconcile, ReconcileCreate,
     MarkCreated, CountFirst, MarkSend, Reconcile, Record, Stop, Login, Logout, Tick, remote, vars
<1>5. /\ ~ (DefiniteFailure(p) /\ UNCHANGED <<messages, pending>>)
      /\ ~ (RecordNext(p, WarningMark(op[p].conv)) /\ UNCHANGED <<messages, pending, session>>)
  BY <1>1
<1>6. pc'[p] = "reconcile" \/ (pc'[p] = "record" /\ op'[p].mark = SentMark)
  <2>1. CASE RecordNext(p, SentMark) BY <1>0, <2>1, RecordNextIsMine
  <2>2. CASE Goto(p, "reconcile") BY <1>0, <2>2 DEF Goto, TypeOK
  <2>3. QED BY <1>4, <1>5, <2>1, <2>2 DEF Send
<1>7. pc[p] = "send" BY <1>4 DEF Send
<1>8. op[p].cid = c
  <2>1. SUFFICES ASSUME op[p].cid # c PROVE FALSE OBVIOUS
  <2>2. /\ UNCHANGED messages \/ messages' = messages \cup {Stamped(SendRequest(p))}
        /\ UNCHANGED pending \/ pending' = pending \cup {SendRequest(p)}
    BY <1>4 DEF Send, Delivers
  <2>3. QED BY <2>1, <2>2 DEF Outgoing, By, PendingBy, Stamped, SendRequest
<1>9. sends'[c] = sends[c] + 1 BY <1>0, <1>4, <1>8 DEF Send, TypeOK
<1>10. QED BY <1>6, <1>7, <1>8, <1>9

LEMMA DenialsComeFirst ==
  ASSUME Typed, NEW p \in Procs, Steps(p), pc'[p] = "record", op'[p].mark.stage \in Denials
  PROVE  pc[p] \in BeforeSend
<1> DEFINE others == {SentMark, ReconciledMark} \cup {UnknownMark(k) : k \in ConvIds \cup {NoConv}}
<1>0. TypeOK BY DEF Typed
<1>1. \A m \in others : m.stage \notin Denials
  BY DEF SentMark, ReconciledMark, UnknownMark, Mark, Denials
<1>2. CASE Reconcile(p)
  <2>1. PICK m \in others : RecordNext(p, m) BY <1>2, <1>0, WorkerFields DEF Reconcile
  <2>2. op'[p].mark = m BY <1>0, <2>1, RecordNextIsMine
  <2>3. QED BY <1>1, <2>2
<1>3. CASE Planning(p) \/ Claim(p) \/ Record(p) \/ Stop(p)
  BY <1>0, <1>3, ExitIsMine DEF Planning, Identity, PlanScan, PlanCheck, PlanStore, Claim, Record, Stop,
     Goto, TypeOK
<1>4. CASE ~ (Planning(p) \/ Claim(p) \/ Reconcile(p) \/ Record(p) \/ Stop(p))
  BY <1>4 DEF Steps, Executing, Client, StartScan, Create, MarkReconcile, ReconcileCreate, MarkCreated,
     CountFirst, MarkSend, Send, BeforeSend, BeforeCreate, ReconcileCreatePcs, FirstSendPcs
<1>5. QED BY <1>2, <1>3, <1>4

LEMMA SendsGrow ==
  ASSUME Typed, [Next]_vars, NEW c \in PlanIds, sends[c] # 0 PROVE sends'[c] # 0
<1>0. sends \in [PlanIds -> Nat] BY DEF Typed, TypeOK
<1>1. ASSUME NEW p \in Procs, Steps(p) PROVE sends'[c] # 0
  <2>1. CASE UNCHANGED sends BY <2>1
  <2>2. CASE sends' = [sends EXCEPT ![op[p].cid] = @ + 1] BY <1>0, <2>2
  <2>3. QED BY <1>1, <2>1, <2>2, Attempts
<1>2. CASE (\E p \in Procs : Open(p)) \/ Environment \/ UNCHANGED vars
  BY <1>2 DEF Open, Environment, OpenOther, Apply, Elsewhere, Login, Logout, Tick, vars, tries
<1>3. QED BY <1>1, <1>2, NextSteps

(* How control changes over any step: a process keeps it, ends or begins a *)
(* command, or takes a step of one.                                        *)
LEMMA OneMoves ==
  ASSUME Typed, [Next]_vars, NEW p \in Procs
  PROVE  \/ pc'[p] = pc[p] /\ op'[p] = op[p]
         \/ pc'[p] = "identity"
         \/ Steps(p)
<1>1. ASSUME NEW q \in Procs, Open(q) PROVE pc'[p] = "identity" \/ (pc'[p] = pc[p] /\ op'[p] = op[p])
  BY <1>1, OpenIsMine DEF Typed
<1>2. ASSUME NEW q \in Procs, Steps(q) PROVE Steps(p) \/ (pc'[p] = pc[p] /\ op'[p] = op[p])
  BY <1>2, StepIsMine DEF Typed, Mine
<1>3. CASE Environment \/ UNCHANGED vars
  BY <1>3 DEF Environment, OpenOther, Apply, Elsewhere, Login, Logout, Tick, vars
<1>4. QED BY <1>1, <1>2, <1>3, NextSteps

LEMMA UnsentIsQuiet ==
  ASSUME Typed, Execution, Denying, NEW p \in Procs, pc[p] \in BeforeSend
  PROVE  op[p].cid \in PlanIds /\ ~ Outgoing(op[p].cid)
<1>1. op[p].cid \in PlanIds
  BY DEF Typed, ControlFits, BeforeSend, BeforeCreate, ReconcileCreatePcs, FirstSendPcs, PlanningPcs
<1>2. sends[op[p].cid] = 0 BY DEF Execution, StepsComeOnce
<1>3. QED BY <1>1, <1>2 DEF Denying, OutgoingWasSent

LEMMA RecordsDenial ==
  ASSUME Typed, [Next]_vars, NEW c \in PlanIds, plans[c].stage \notin Denials,
         plans'[c].stage \in Denials
  PROVE  \E p \in Procs : /\ pc[p] = "record" /\ op[p].cid = c /\ op[p].mark.stage \in Denials
                          /\ pc'[p] = "down" /\ InFlight(c) /\ Steps(p)
<1>1. ASSUME NEW p \in Procs, Steps(p), pc[p] \in NotWorking PROVE FALSE
  BY <1>1, PlannerPlans DEF Denials, InFlightStages
<1>2. ASSUME (\E p \in Procs : Open(p)) \/ Environment \/ UNCHANGED vars PROVE FALSE
  BY <1>2, OtherPlans DEF Denials
<1>3. PICK p \in Procs : Steps(p) /\ pc[p] \notin NotWorking BY <1>1, <1>2, NextSteps
<1>4. Advances(p) BY <1>3, WorkerPlans
<1>5. op[p].cid = c BY <1>4 DEF Advances
<1>6. QED BY <1>3, <1>4, <1>5 DEF Advances, Denials, InFlightStages

LEMMA DenyingStep == Typed /\ Execution /\ Denying /\ [Next]_vars => Denying'
<1> SUFFICES ASSUME Typed, Execution, Denying, [Next]_vars PROVE Denying' OBVIOUS
<1>1. OutgoingWasSent'
  <2> SUFFICES ASSUME NEW c \in PlanIds, Outgoing(c)' PROVE sends'[c] # 0
    BY DEF OutgoingWasSent
  <2>1. CASE Outgoing(c) BY <2>1, SendsGrow DEF Denying, OutgoingWasSent
  <2>2. CASE ~ Outgoing(c)
    <3>1. sends'[c] = sends[c] + 1 BY <2>2, NewOutgoing
    <3>2. sends[c] \in Nat BY DEF Typed, TypeOK
    <3>3. QED BY <3>1, <3>2
  <2>3. QED BY <2>1, <2>2
<1>2. DenialsToRecord'
  <2>0. SUFFICES ASSUME NEW p \in Procs, NEW c \in PlanIds, op'[p].cid = c,
                        pc'[p] = "record", op'[p].mark.stage \in Denials, Outgoing(c)'
                 PROVE  FALSE
    <3>1. \A p \in Procs : pc'[p] = "record" => op'[p].cid \in PlanIds
      BY TypedStep DEF Typed, ControlFits, PlanningPcs
    <3>2. QED BY <3>1 DEF DenialsToRecord
  <2>1. op[p].cid = c /\ ~ Outgoing(c) /\ pc[p] \in BeforeSend \cup {"record"}
    <3>1. CASE pc'[p] = pc[p] /\ op'[p] = op[p]
      BY <2>0, <3>1 DEF Denying, DenialsToRecord
    <3>2. CASE Steps(p)
      <4>1. pc[p] \in BeforeSend BY <2>0, <3>2, DenialsComeFirst
      <4>2. op'[p].cid = op[p].cid BY <2>0, <3>2, StepIsMine DEF Mine, Typed
      <4>3. QED BY <2>0, <4>1, <4>2, UnsentIsQuiet
    <3>3. QED BY <2>0, <3>1, <3>2, OneMoves
  <2>2. PICK q \in Procs :
          /\ pc[q] = "send" /\ op[q].cid = c
          /\ pc'[q] = "reconcile" \/ (pc'[q] = "record" /\ op'[q].mark = SentMark)
    BY <2>0, <2>1, NewOutgoing
  <2>3. q = p
    BY <2>1, <2>2 DEF Execution, OneWorker, Works, NotWorking, PlanningPcs, BeforeSend, BeforeCreate,
       ReconcileCreatePcs, FirstSendPcs
  <2>4. QED BY <2>0, <2>2, <2>3 DEF SentMark, Mark, Denials
<1>3. DeniedIsOver'
  <2> SUFFICES ASSUME NEW c \in PlanIds, plans'[c].stage \in Denials
               PROVE  ~ Outgoing(c)' /\ \A q \in Procs : ~ Works(q, c)'
    BY DEF DeniedIsOver
  <2>1. CASE plans[c].stage \in Denials
    <3>1. ~ Outgoing(c) /\ \A q \in Procs : ~ Works(q, c) BY <2>1 DEF Denying, DeniedIsOver
    <3>2. ~ Outgoing(c)' BY <3>1, NewOutgoing DEF Works, NotWorking, PlanningPcs
    <3>3. ASSUME NEW q \in Procs, Works(q, c)' PROVE FALSE
      <4>1. CASE Steps(q)
        BY <2>1, <3>1, <3>3, <4>1, WorkAfter DEF Works, Denials
      <4>2. CASE (pc'[q] = pc[q] /\ op'[q] = op[q]) \/ pc'[q] = "identity"
        BY <3>1, <3>3, <4>2 DEF Works, NotWorking, PlanningPcs
      <4>3. QED BY <4>1, <4>2, OneMoves
    <3>4. QED BY <3>2, <3>3
  <2>2. CASE plans[c].stage \notin Denials
    <3>1. PICK p \in Procs : /\ pc[p] = "record" /\ op[p].cid = c /\ op[p].mark.stage \in Denials
                            /\ pc'[p] = "down" /\ InFlight(c) /\ Steps(p)
      BY <2>2, RecordsDenial
    <3>2. \A q \in Procs : Works(q, c) => q = p
      BY <3>1 DEF Execution, OneWorker, Works, NotWorking, PlanningPcs
    <3>3. ~ Outgoing(c)
      BY <3>1 DEF Denying, DenialsToRecord
    <3>4. ~ Outgoing(c)'
      BY <3>1, <3>2, <3>3, NewOutgoing DEF Works, NotWorking, PlanningPcs
    <3>5. ASSUME NEW q \in Procs, Works(q, c)' PROVE FALSE
      <4>1. Works(q, c)
        BY <3>1, <3>5, WorkAfter DEF Works, InFlight, InFlightStages
      <4>2. q = p BY <3>2, <4>1
      <4>3. QED BY <3>1, <3>5, <4>2 DEF Works, NotWorking
    <3>6. QED BY <3>4, <3>5
  <2>3. QED BY <2>1, <2>2
<1>4. QED BY <1>1, <1>2, <1>3 DEF Denying

(* What is reported as failed or blocked, or was never executed, has sent  *)
(* nothing and never will, for any number of processes and crashes.        *)
THEOREM DenialsHold == Spec => []DenialIsTrue
<1>1. Init => Typed /\ Execution
  BY TypeInit, ExecutionInit DEF Typed, Init, ControlFits, CreatePcs
<1>2. Init => Denying
  BY DEF Init, PlansInit, NoPlanRow, Denying, OutgoingWasSent, DenialsToRecord, DeniedIsOver, Denials,
         Outgoing, By, PendingBy
<1>3. Execution /\ Denying => DenialIsTrue
  BY DEF Execution, Denying, AttemptsAreClaimed, OutgoingWasSent, DeniedIsOver, DenialIsTrue, Untouched,
         Denials
<1>4. QED BY <1>1, <1>2, <1>3, TypedStep, ExecutionStep, DenyingStep, PTL DEF Spec
=============================================================================
