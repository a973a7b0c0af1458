---------------------------- MODULE DeliveryProofs ----------------------------
(***************************************************************************)
(* Proofs about what Messaging delivers and reports, for any number of     *)
(* processes, confirmations, accounts, conversations and texts: a message  *)
(* is the confirmed one, what is reported is true of it, a possible        *)
(* delivery stays visible to planning, and the commands implement the      *)
(* promise of ConfirmedSend.                                               *)
(***************************************************************************)
EXTENDS MessagingProofs, FiniteSetTheorems, WellFoundedInduction

-----------------------------------------------------------------------------
(* How one step changes one row of the plan table. *)

Kept(c) ==
  /\ plans'[c].acct = plans[c].acct /\ plans'[c].target = plans[c].target
  /\ plans'[c].text = plans[c].text /\ plans'[c].created = plans[c].created
Becomes(c, stage, outcome) ==
  Kept(c) /\ plans'[c].stage = stage /\ plans'[c].outcome = outcome

Stored(p, c) ==
  /\ pc[p] = "plan_store" /\ plans[c].stage = "absent"
  /\ plans'[c].stage = "planned"
  /\ plans'[c].acct = op[p].acct /\ plans'[c].target = op[p].target /\ plans'[c].text = op[p].text
  /\ plans'[c].created = now /\ plans'[c].outcome = Outcome("none", NoConv)
Consumed(p, c) ==
  /\ pc[p] = "claim" /\ pc'[p] = "client" /\ op[p].cid = c /\ plans[c].stage = "planned"
  /\ <<plans[c].acct, plans[c].target, plans[c].text>> = <<op[p].acct, op[p].target, op[p].text>>
  /\ \E s \in InFlightStages : Becomes(c, s, Outcome("none", NoConv))
Lapsed(p, c) ==
  /\ pc[p] = "claim" /\ pc'[p] = "down" /\ op[p].cid = c /\ plans[c].stage = "planned"
  /\ Becomes(c, "expired", Outcome("expired", NoConv))
Advanced(p, c) ==
  /\ pc[p] \in {"mark_reconcile", "mark_send"} /\ op[p].cid = c /\ InFlight(c)
  /\ \E s \in InFlightStages : Becomes(c, s, plans[c].outcome)
Located(p, c) ==
  /\ pc[p] = "mark_created" /\ op[p].cid = c /\ InFlight(c)
  /\ Becomes(c, "conversation_created", Outcome("conversation", op[p].conv))
Recorded(p, c) ==
  /\ pc[p] = "record" /\ pc'[p] = "down" /\ op[p].cid = c /\ InFlight(c)
  /\ Becomes(c, op[p].mark.stage, op[p].mark.outcome)
GivenUp(c) ==
  InFlight(c) /\ Becomes(c, "outcome_unknown", RecoveredOutcome(plans[c].outcome))
Forgotten(c) ==
  Issued(c) /\ plans[c].acct = account /\ plans'[c] = NoPlanRow("deleted")

Touches(p, c) ==
  \/ Stored(p, c) \/ Consumed(p, c) \/ Lapsed(p, c) \/ Advanced(p, c) \/ Located(p, c)
  \/ Recorded(p, c)

(* A process touches one row at most, and only those whose control says so. *)
LEMMA StepTouches ==
  ASSUME Typed, NEW p \in Procs, Steps(p), NEW c \in PlanIds
  PROVE  plans'[c] = plans[c] \/ Touches(p, c)
<1>0. TypeOK /\ plans \in [PlanIds -> Plan] /\ plans[c] \in Plan /\ now \in Nat
  BY DEF Typed, TypeOK, PlansTypeOK
<1>1. CASE PlanStore(p)
  <2>1. PICK d \in PlanIds : CreatePlan(d, op[p].acct, op[p].target, op[p].text)
    BY <1>1 DEF PlanStore
  <2>2. CASE d # c BY <2>1, <2>2, <1>0 DEF CreatePlan
  <2>3. CASE d = c BY <2>1, <2>3, <1>1, <1>0 DEF CreatePlan, PlanStore, Issued, Stored, Touches
  <2>4. QED BY <2>2, <2>3
<1>2. CASE Claim(p)
  <2> DEFINE d == op[p].cid
             answer == ClaimAnswer(d, op[p].acct, op[p].target, op[p].text)
  <2>1. CASE UNCHANGED plans BY <2>1
  <2>2. CASE d # c
    BY <1>2, <2>2, <1>0 DEF Claim, ConsumePlan, ExpirePlan
  <2>3. CASE answer = "claimed" /\ ConsumePlan(d, op[p].target) /\ Goto(p, "client") /\ d = c
    <3>1. plans[c].stage = "planned"
            /\ <<plans[c].acct, plans[c].target, plans[c].text>>
                  = <<op[p].acct, op[p].target, op[p].text>>
      BY <2>3 DEF ClaimAnswer
    <3>2. pc[p] = "claim" /\ pc'[p] = "client" BY <1>0, <1>2, <2>3 DEF Claim, Goto, TypeOK
    <3>3. Becomes(c, InitialStage(op[p].target), Outcome("none", NoConv))
      BY <1>0, <2>3 DEF ConsumePlan, Becomes, Kept, Plan
    <3>4. InitialStage(op[p].target) \in InFlightStages BY DEF InitialStage, InFlightStages
    <3>5. QED BY <2>3, <3>1, <3>2, <3>3, <3>4 DEF Consumed, Touches
  <2>4. CASE answer = "expired" /\ ExpirePlan(d) /\ Exit(p) /\ d = c
    <3>1. plans[c].stage = "planned" BY <2>4 DEF ClaimAnswer
    <3>2. pc[p] = "claim" /\ pc'[p] = "down" BY <1>0, <1>2, <2>4, ExitIsMine DEF Claim
    <3>3. Becomes(c, "expired", Outcome("expired", NoConv))
      BY <1>0, <2>4 DEF ExpirePlan, Becomes, Kept, Plan
    <3>4. QED BY <2>4, <3>1, <3>2, <3>3 DEF Lapsed, Touches
  <2>5. QED BY <1>2, <2>1, <2>2, <2>3, <2>4 DEF Claim
<1>3. CASE MarkReconcile(p) \/ MarkSend(p)
  <2>1. CASE UNCHANGED plans BY <2>1
  <2>2. CASE \E s \in {"reconcile_create", "executing_send"} : AdvanceStage(op[p].cid, s)
    <3>1. PICK s \in {"reconcile_create", "executing_send"} : AdvanceStage(op[p].cid, s) BY <2>2
    <3>2. CASE op[p].cid # c BY <3>1, <3>2, <1>0 DEF AdvanceStage
    <3>3. CASE op[p].cid = c
      <4>1. InFlight(c) BY <3>1, <3>3 DEF AdvanceStage, MarkFrom, InFlight, InFlightStages
      <4>2. Becomes(c, s, plans[c].outcome)
        BY <1>0, <3>1, <3>3 DEF AdvanceStage, Becomes, Kept, Plan
      <4>3. s \in InFlightStages BY <3>1 DEF InFlightStages
      <4>4. QED BY <1>3, <3>3, <4>1, <4>2, <4>3 DEF MarkReconcile, MarkSend, Advanced, Touches
    <3>4. QED BY <3>2, <3>3
  <2>3. QED BY <1>3, <2>1, <2>2 DEF MarkReconcile, MarkSend, AuditFailure
<1>4. CASE MarkCreated(p)
  <2>1. CASE UNCHANGED plans BY <2>1
  <2>2. CASE Transition(op[p].cid, "conversation_created", Outcome("conversation", op[p].conv))
    <3>1. CASE op[p].cid # c BY <2>2, <3>1, <1>0 DEF Transition
    <3>2. CASE op[p].cid = c
      <4>1. InFlight(c) BY <2>2, <3>2 DEF Transition, MarkFrom, InFlight, InFlightStages
      <4>2. Becomes(c, "conversation_created", Outcome("conversation", op[p].conv))
        BY <1>0, <2>2, <3>2 DEF Transition, Becomes, Kept, Plan
      <4>3. QED BY <1>4, <3>2, <4>1, <4>2 DEF MarkCreated, Located, Touches
    <3>3. QED BY <3>1, <3>2
  <2>3. QED BY <1>4, <2>1, <2>2 DEF MarkCreated, AuditFailure
<1>5. CASE Record(p)
  <2>1. CASE UNCHANGED plans BY <2>1
  <2>2. CASE Transition(op[p].cid, op[p].mark.stage, op[p].mark.outcome)
    <3>1. CASE op[p].cid # c BY <2>2, <3>1, <1>0 DEF Transition
    <3>2. CASE op[p].cid = c
      <4>1. op[p].mark.stage \in {"failed_definite", "sent", "warning_blocked", "outcome_unknown"}
        BY <1>0, WorkerFields
           DEF Marks, Mark, FailedMark, SentMark, ReconciledMark, WarningMark, UnknownMark
      <4>2. InFlight(c) BY <2>2, <3>2, <4>1 DEF Transition, MarkFrom, InFlight, InFlightStages
      <4>3. Becomes(c, op[p].mark.stage, op[p].mark.outcome)
        BY <1>0, <2>2, <3>2 DEF Transition, Becomes, Kept, Plan
      <4>4. pc[p] = "record" /\ pc'[p] = "down" BY <1>0, <1>5, ExitIsMine DEF Record
      <4>5. QED BY <3>2, <4>2, <4>3, <4>4 DEF Recorded, Touches
    <3>3. QED BY <3>1, <3>2
  <2>3. QED BY <1>5, <2>1, <2>2 DEF Record
<1>6. CASE ~ (PlanStore(p) \/ Claim(p) \/ MarkReconcile(p) \/ MarkSend(p) \/ MarkCreated(p) \/ Record(p))
  BY <1>6 DEF Steps, Planning, Executing, Identity, PlanScan, PlanCheck, Client, StartScan, Create,
     ReconcileCreate, CountFirst, Send, Reconcile, Stop
<1>7. QED BY <1>1, <1>2, <1>3, <1>4, <1>5, <1>6

LEMMA RecoveredRows ==
  ASSUME Typed, plans' = Recovered, NEW c \in PlanIds
  PROVE  plans'[c] = plans[c] \/ GivenUp(c)
<1>1. plans[c] \in Plan BY DEF Typed, TypeOK, PlansTypeOK
<1>2. plans'[c] = IF Stale(c) THEN [plans[c] EXCEPT !.stage = "outcome_unknown",
                                      !.outcome = RecoveredOutcome(plans[c].outcome)]
                  ELSE plans[c]
  BY DEF Recovered
<1>3. CASE Stale(c) BY <1>1, <1>2, <1>3 DEF Stale, GivenUp, Becomes, Kept, Plan
<1>4. QED BY <1>2, <1>3

(* Outside of the processes' own statements, rows are given up or deleted. *)
LEMMA OthersTouch ==
  ASSUME Typed, (\E p \in Procs : Open(p)) \/ Environment \/ UNCHANGED vars, NEW c \in PlanIds
  PROVE  plans'[c] = plans[c] \/ GivenUp(c) \/ Forgotten(c)
<1>1. CASE plans' = Recovered BY <1>1, RecoveredRows
<1>2. CASE plans' = DeletePlansOf(account) BY <1>2 DEF DeletePlansOf, Forgotten
<1>3. CASE UNCHANGED plans BY <1>3
<1>4. QED BY <1>1, <1>2, <1>3
  DEF Open, Environment, OpenOther, Apply, Elsewhere, Login, Logout, Tick, vars

LEMMA RowChange ==
  ASSUME Typed, [Next]_vars, NEW c \in PlanIds
  PROVE  \/ plans'[c] = plans[c] \/ GivenUp(c) \/ Forgotten(c)
         \/ \E p \in Procs : Steps(p) /\ Touches(p, c)
  BY StepTouches, OthersTouch, NextSteps

-----------------------------------------------------------------------------
(* How one step changes the inbox. *)

LEMMA ConvsStay ==
  ASSUME Typed, [Next]_vars, NEW k \in ConvIds, convs[k] # NoConvRow
  PROVE  convs'[k] = convs[k]
<1>0. convs \in [ConvIds -> Conversation] BY DEF Typed, TypeOK
<1>1. CASE \E p \in Procs : Create(p)
  <2>1. PICK p \in Procs : Create(p) BY <1>1
  <2>2. UNCHANGED convs \/ \E j \in ConvIds : Opens(p, j) BY <2>1 DEF Create
  <2>3. QED BY <1>0, <2>2 DEF Opens, FreeConvs
<1>2. CASE Elsewhere BY <1>0, <1>2 DEF Elsewhere, FreeConvs
<1>3. CASE ~ Elsewhere /\ ~ \E p \in Procs : Create(p)
  BY <1>3 DEF Next, Process, Planning, Executing, Environment, Open, OpenOther, Identity,
     PlanScan, PlanCheck, PlanStore, Claim, Client, StartScan, MarkReconcile, ReconcileCreate,
     MarkCreated, CountFirst, MarkSend, Send, Reconcile, Record, Stop, Apply, Login, Logout, Tick,
     remote, vars
<1>4. QED BY <1>1, <1>2, <1>3

LEMMA MessagesStay ==
  ASSUME [Next]_vars PROVE messages \subseteq messages'
<1>1. CASE \E p \in Procs : Send(p) BY <1>1 DEF Send, Delivers
<1>2. CASE ~ \E p \in Procs : Send(p)
  BY <1>2 DEF Next, Process, Planning, Executing, Environment, Open, OpenOther, Identity,
     PlanScan, PlanCheck, PlanStore, Claim, Client, StartScan, Create, MarkReconcile, ReconcileCreate,
     MarkCreated, CountFirst, MarkSend, Reconcile, Record, Stop, Apply, Elsewhere, Login, Logout, Tick,
     remote, vars
<1>3. QED BY <1>1, <1>2

(* The messages of a confirmation, delivered or on their way. *)
Out(c) == By(c) \cup PendingBy(c)

(* The steps that change them: a worker's send, and the server's late one. *)
Sends(p, c) ==
  /\ pc[p] = "send" /\ op[p].cid = c /\ Deliverable(p)
  /\ \/ By(c)' = By(c) \cup {Stamped(SendRequest(p))} /\ PendingBy(c)' = PendingBy(c)
     \/ By(c)' = By(c) /\ PendingBy(c)' = PendingBy(c) \cup {SendRequest(p)}
  /\ \/ pc'[p] = "reconcile" /\ op'[p].conv = op[p].conv
     \/ pc'[p] = "record" /\ op'[p].mark = SentMark /\ By(c)' # {}
Applies(c) ==
  \E m \in PendingBy(c) : By(c)' = By(c) \cup {Stamped(m)} /\ PendingBy(c)' = PendingBy(c) \ {m}

LEMMA OutChange ==
  ASSUME Typed, [Next]_vars, NEW c \in PlanIds
  PROVE  \/ By(c)' = By(c) /\ PendingBy(c)' = PendingBy(c)
         \/ Applies(c) /\ UNCHANGED <<plans, pc, op>>
         \/ \E p \in Procs : Steps(p) /\ Sends(p, c) /\ UNCHANGED plans
<1>0. TypeOK BY DEF Typed
<1>1. CASE Apply
  <2>1. PICK m \in pending : messages' = messages \cup {Stamped(m)} /\ pending' = pending \ {m}
    BY <1>1 DEF Apply
  <2>2. Stamped(m).by = m.by BY DEF Stamped
  <2>3. CASE m.by = c
    <3>1. m \in PendingBy(c) BY <2>1, <2>3 DEF PendingBy
    <3>2. By(c)' = By(c) \cup {Stamped(m)} BY <2>1, <2>2, <2>3 DEF By
    <3>3. PendingBy(c)' = PendingBy(c) \ {m} BY <2>1 DEF PendingBy
    <3>4. QED BY <1>1, <3>1, <3>2, <3>3 DEF Applies, Apply
  <2>4. CASE m.by # c
    <3>1. By(c)' = By(c) BY <2>1, <2>2, <2>4 DEF By
    <3>2. PendingBy(c)' = PendingBy(c) BY <2>1, <2>4 DEF PendingBy
    <3>3. QED BY <3>1, <3>2
  <2>5. QED BY <2>3, <2>4
<1>2. CASE Elsewhere
  <2>1. UNCHANGED messages \/ (\E k, text : messages' = messages \cup
          {Stamped([conv |-> k, text |-> text, by |-> Human])})
    BY <1>2 DEF Elsewhere
  <2>2. UNCHANGED pending BY <1>2 DEF Elsewhere
  <2>3. QED BY <2>1, <2>2, MessagingAssumption DEF By, PendingBy, Stamped
<1>3. ASSUME NEW p \in Procs, Send(p)
      PROVE  (By(c)' = By(c) /\ PendingBy(c)' = PendingBy(c)) \/ Sends(p, c)
  <2>0. op[p] \in Op BY <1>0 DEF TypeOK
  <2>1. SendRequest(p).by = op[p].cid /\ Stamped(SendRequest(p)).by = op[p].cid
    BY DEF SendRequest, Stamped
  <2>2. CASE UNCHANGED <<messages, pending>> BY <2>2 DEF By, PendingBy
  <2>3. CASE op[p].cid # c /\ ~ UNCHANGED <<messages, pending>>
    BY <1>3, <2>1, <2>3 DEF Send, Delivers, By, PendingBy
  <2>4. CASE op[p].cid = c /\ ~ UNCHANGED <<messages, pending>>
    <3>1. CASE Delivers(p)
      <4>1. By(c)' = By(c) \cup {Stamped(SendRequest(p))} BY <2>1, <2>4, <3>1 DEF Delivers, By
      <4>2. PendingBy(c)' = PendingBy(c) BY <3>1 DEF Delivers, PendingBy
      <4>3. \/ pc'[p] = "reconcile" /\ op'[p].conv = op[p].conv
            \/ pc'[p] = "record" /\ op'[p].mark = SentMark
        <5>1. CASE RecordNext(p, SentMark) BY <1>0, <5>1, RecordNextIsMine
        <5>2. CASE op' = [op EXCEPT ![p].at = now] /\ Goto(p, "reconcile")
          BY <1>0, <2>0, <5>2 DEF Goto, TypeOK, Op
        <5>3. QED BY <1>3, <2>4, <5>1, <5>2 DEF Send
      <4>4. QED BY <1>3, <2>4, <3>1, <4>1, <4>2, <4>3 DEF Send, Sends, Delivers
    <3>2. CASE Deliverable(p) /\ pending' = pending \cup {SendRequest(p)} /\ UNCHANGED messages
               /\ op' = [op EXCEPT ![p].at = now] /\ Goto(p, "reconcile")
      <4>1. PendingBy(c)' = PendingBy(c) \cup {SendRequest(p)} BY <2>1, <2>4, <3>2 DEF PendingBy
      <4>2. By(c)' = By(c) BY <3>2 DEF By
      <4>3. pc'[p] = "reconcile" /\ op'[p].conv = op[p].conv
        BY <1>0, <2>0, <3>2 DEF Goto, TypeOK, Op
      <4>4. QED BY <1>3, <2>4, <3>2, <4>1, <4>2, <4>3 DEF Send, Sends
    <3>3. QED BY <1>3, <2>4, <3>1, <3>2 DEF Send
  <2>5. QED BY <2>2, <2>3, <2>4
<1>4. CASE ~ Apply /\ ~ Elsewhere /\ ~ \E p \in Procs : Send(p)
  <2>1. UNCHANGED <<messages, pending>>
    BY <1>4 DEF Next, Process, Planning, Executing, Environment, Open, OpenOther, Identity,
     PlanScan, PlanCheck, PlanStore, Claim, Client, StartScan, Create, MarkReconcile, ReconcileCreate,
     MarkCreated, CountFirst, MarkSend, Reconcile, Record, Stop, Login, Logout, Tick, remote, vars
  <2>2. QED BY <2>1 DEF By, PendingBy
<1>5. ASSUME NEW p \in Procs, Send(p) PROVE Steps(p) /\ UNCHANGED plans
  BY <1>5 DEF Steps, Executing, Send
<1>6. QED BY <1>1, <1>2, <1>3, <1>4, <1>5

-----------------------------------------------------------------------------
(* Where the marks a command is about to record come from. *)

MarkOrigin(p, m) ==
  \/ m = FailedMark /\ pc[p] \in {"client", "start_scan", "create", "send"}
  \/ m = SentMark /\ pc[p] = "send" /\ Delivers(p)
  \/ m = WarningMark(op[p].conv) /\ pc[p] = "send"
  \/ m = UnknownMark(NoConv) /\ pc[p] = "reconcile_create"
  \/ m = UnknownMark(op[p].conv) /\ pc[p] \in {"count_first", "reconcile"}
  \/ m = ReconciledMark /\ pc[p] = "mark_send" /\ op[p].matched = 1
  \/ m = ReconciledMark /\ pc[p] = "reconcile" /\ 1 \in Counts(p)

LEMMA MarksRecorded ==
  ASSUME Typed, NEW p \in Procs, Steps(p), pc'[p] = "record"
  PROVE  /\ op'[p] = [op[p] EXCEPT !.mark = op'[p].mark]
         /\ MarkOrigin(p, op'[p].mark)
<1>0. TypeOK /\ op[p] \in Op BY DEF Typed, TypeOK
<1>1. ASSUME NEW m, RecordNext(p, m)
      PROVE  op'[p] = [op[p] EXCEPT !.mark = m] /\ op'[p].mark = m
  BY <1>0, <1>1 DEF RecordNext, TypeOK, Op
<1>2. SUFFICES \E m : RecordNext(p, m) /\ MarkOrigin(p, m) BY <1>1
<1>3. ~ Exit(p) BY <1>0, ExitIsMine
<1>4. \A s : Goto(p, s) => s = "record" BY <1>0 DEF Goto, TypeOK
<1> USE <1>3, <1>4 DEF MarkOrigin
<1>5. CASE Client(p) BY <1>5 DEF Client
<1>6. CASE StartScan(p) BY <1>6 DEF StartScan
<1>7. CASE Create(p) BY <1>7 DEF Create, DefiniteFailure
<1>8. CASE ReconcileCreate(p) BY <1>8 DEF ReconcileCreate
<1>9. CASE CountFirst(p) BY <1>9 DEF CountFirst
<1>10. CASE MarkSend(p) BY <1>10 DEF MarkSend, AuditFailure
<1>11. CASE Send(p) BY <1>11 DEF Send, DefiniteFailure
<1>12. CASE Reconcile(p) BY <1>12 DEF Reconcile
<1>13. CASE Planning(p) \/ Claim(p) \/ MarkReconcile(p) \/ MarkCreated(p) \/ Record(p) \/ Stop(p)
  BY <1>13 DEF Planning, Identity, PlanScan, PlanCheck, PlanStore, Claim, MarkReconcile, MarkCreated,
     Record, Stop, AuditFailure
<1>14. QED
  BY <1>5, <1>6, <1>7, <1>8, <1>9, <1>10, <1>11, <1>12, <1>13 DEF Steps, Executing

LEMMA MarksDiffer ==
  /\ SentMark.stage = "sent" /\ SentMark.outcome.tag = "sent"
  /\ ReconciledMark.stage = "sent" /\ ReconciledMark.outcome.tag = "sent_reconciled"
  /\ FailedMark.stage = "failed_definite" /\ FailedMark.outcome.tag = "failed_definite"
  /\ \A k : /\ WarningMark(k).stage = "warning_blocked" /\ WarningMark(k).outcome.tag = "warning"
            /\ UnknownMark(k).stage = "outcome_unknown"
            /\ UnknownMark(k).outcome = Outcome("outcome_unknown", k)
  BY DEF SentMark, ReconciledMark, FailedMark, WarningMark, UnknownMark, Mark, Outcome

LEMMA MarkByTag ==
  ASSUME NEW m \in Marks
  PROVE  /\ m.outcome.tag = "sent" <=> m = SentMark
         /\ m.outcome.tag = "sent_reconciled" <=> m = ReconciledMark
         /\ m.stage = "sent" <=> m \in {SentMark, ReconciledMark}
         /\ m.stage \in {"sent", "failed_definite", "warning_blocked", "outcome_unknown"}
<1>1. m \in {FailedMark, SentMark, ReconciledMark} \/ \E k : m \in {WarningMark(k), UnknownMark(k)}
  BY DEF Marks
<1>2. CASE m = FailedMark BY <1>2, MarksDiffer
<1>3. CASE m = SentMark BY <1>3, MarksDiffer
<1>4. CASE m = ReconciledMark BY <1>4, MarksDiffer
<1>5. CASE \E k : m \in {WarningMark(k), UnknownMark(k)}
  <2>1. PICK k : m = WarningMark(k) \/ m = UnknownMark(k) BY <1>5
  <2>2. m.outcome.tag \in {"warning", "outcome_unknown"}
    BY <2>1 DEF WarningMark, UnknownMark, Mark, Outcome
  <2>3. m.stage \in {"warning_blocked", "outcome_unknown"}
    BY <2>1 DEF WarningMark, UnknownMark, Mark
  <2>4. QED BY <2>2, <2>3, MarksDiffer
<1>6. QED BY <1>1, <1>2, <1>3, <1>4, <1>5

-----------------------------------------------------------------------------
(* A report of a delivery is true: only a send that was answered with      *)
(* success has it to record.  A confirmation has one message at most.      *)

SentToRecord ==
  \A p \in Procs : pc[p] = "record" /\ op[p].mark = SentMark => By(op[p].cid) # {}
OneMessage ==
  \A c \in PlanIds :
    /\ \A m, n \in By(c) : m = n
    /\ \A m, n \in PendingBy(c) : m = n
    /\ By(c) = {} \/ PendingBy(c) = {}
Honest == SentIsTrue /\ SentToRecord /\ OneMessage

LEMMA HonestInit == Init => Honest
  BY DEF Init, PlansInit, NoPlanRow, Outcome, Honest, SentIsTrue, SentToRecord, OneMessage, By, PendingBy

LEMMA ByStays == ASSUME [Next]_vars, NEW c PROVE By(c) # {} => By(c)' # {}
  BY MessagesStay DEF By

LEMMA HonestStep == Typed /\ Execution /\ Denying /\ Honest /\ [Next]_vars => Honest'
<1> SUFFICES ASSUME Typed, Execution, Denying, Honest, [Next]_vars PROVE Honest' OBVIOUS
<1>1. SentIsTrue'
  <2> SUFFICES ASSUME NEW c \in PlanIds, plans'[c].outcome.tag = "sent" PROVE By(c)' # {}
    BY DEF SentIsTrue
  <2>1. CASE plans[c].outcome.tag = "sent" BY <2>1, ByStays DEF Honest, SentIsTrue
  <2>2. CASE plans[c].outcome.tag # "sent"
    <3>1. ~ GivenUp(c) /\ ~ Forgotten(c)
      BY DEF GivenUp, Forgotten, Becomes, RecoveredOutcome, NoPlanRow, Outcome
    <3>2. PICK p \in Procs : Touches(p, c) BY <2>2, <3>1, RowChange
    <3>3. Recorded(p, c)
      BY <2>2, <3>2 DEF Touches, Stored, Consumed, Lapsed, Advanced, Located, Becomes, Outcome
    <3>4. op[p].mark \in Marks BY WorkerFields DEF Typed
    <3>5. op[p].mark = SentMark BY <3>3, <3>4, MarkByTag DEF Recorded, Becomes
    <3>6. By(c) # {} BY <3>3, <3>5 DEF Recorded, Honest, SentToRecord
    <3>7. QED BY <3>6, ByStays
  <2>3. QED BY <2>1, <2>2
<1>2. SentToRecord'
  <2> SUFFICES ASSUME NEW p \in Procs, NEW c, op'[p].cid = c, pc'[p] = "record",
                      op'[p].mark = SentMark
               PROVE  By(c)' # {}
    BY DEF SentToRecord, By
  <2>1. CASE pc'[p] = pc[p] /\ op'[p] = op[p] BY <2>1, ByStays DEF Honest, SentToRecord
  <2>2. CASE Steps(p)
    <3>1. MarkOrigin(p, SentMark) BY <2>2, MarksRecorded
    <3>2. Delivers(p) BY <3>1, MarksDiffer DEF MarkOrigin
    <3>3. op[p].cid = c BY <2>2, StepIsMine DEF Mine, Typed
    <3>4. Stamped(SendRequest(p)) \in messages' /\ Stamped(SendRequest(p)).by = c
      BY <3>2, <3>3 DEF Delivers, Stamped, SendRequest
    <3>5. QED BY <3>4 DEF By
  <2>3. QED BY <2>1, <2>2, OneMoves
<1>3. OneMessage'
  <2> SUFFICES ASSUME NEW c \in PlanIds
               PROVE  /\ \A m, n \in By(c)' : m = n
                      /\ \A m, n \in PendingBy(c)' : m = n
                      /\ By(c)' = {} \/ PendingBy(c)' = {}
    BY DEF OneMessage
  <2>0. /\ \A m, n \in By(c) : m = n
        /\ \A m, n \in PendingBy(c) : m = n
        /\ By(c) = {} \/ PendingBy(c) = {}
    BY DEF Honest, OneMessage
  <2>1. CASE By(c)' = By(c) /\ PendingBy(c)' = PendingBy(c) BY <2>0, <2>1
  <2>2. CASE Applies(c) BY <2>0, <2>2 DEF Applies
  <2>3. CASE \E p \in Procs : Sends(p, c)
    <3>1. PICK p \in Procs : Sends(p, c) BY <2>3
    <3>2. By(c) = {} /\ PendingBy(c) = {}
      BY <3>1, UnsentIsQuiet DEF Sends, BeforeSend, Outgoing
    <3>3. QED BY <3>1, <3>2 DEF Sends
  <2>4. QED BY <2>1, <2>2, <2>3, OutChange
<1>4. QED BY <1>1, <1>2, <1>3 DEF Honest

(* What holds together: types, one attempt, true denials and true reports. *)
Sound == Typed /\ Execution /\ Denying /\ Honest

LEMMA SoundInit == Init => Sound
<1>1. Init => Denying
  BY DEF Init, PlansInit, NoPlanRow, Denying, OutgoingWasSent, DenialsToRecord, DeniedIsOver, Denials,
         Outgoing, By, PendingBy
<1>2. QED BY <1>1, TypeInit, ExecutionInit, HonestInit DEF Sound, Typed, Init, ControlFits, CreatePcs

LEMMA SoundStep == Sound /\ [Next]_vars => Sound'
  BY TypedStep, ExecutionStep, DenyingStep, HonestStep DEF Sound

(* A confirmation reported as sent was delivered, whatever happens         *)
(* between the answer of the server and the record of it.                  *)
THEOREM SentHolds == Spec => []SentIsTrue
<1>1. Sound => SentIsTrue BY DEF Sound, Honest
<1>2. QED BY <1>1, SoundInit, SoundStep, PTL DEF Spec

-----------------------------------------------------------------------------
(* The commands implement ConfirmedSend.  Its state, of one confirmation:  *)

Delivered(c) == Cardinality(By(c))

LEMMA RowView ==
  ASSUME NEW c \in PlanIds, plans[c].stage \in Stages
  PROVE  /\ plans[c].stage = "absent" <=> PhaseOf(c) = "unused"
         /\ plans[c].stage = "planned" <=> PhaseOf(c) = "planned"
         /\ plans[c].stage = "deleted" <=> PhaseOf(c) = "forgotten"
         /\ InFlight(c) <=> PhaseOf(c) = "claimed"
         /\ plans[c].stage \in SettledStages <=> PhaseOf(c) = "closed"
         /\ plans[c].stage \notin SettledStages => ReportOf(c) = "none"
         /\ plans[c].stage = "expired" => ReportOf(c) = "expired"
         /\ plans[c].stage = "sent" =>
              ReportOf(c) = IF plans[c].outcome.tag = "sent" THEN "sent" ELSE "likely"
         /\ plans[c].stage \in Denials => ReportOf(c) = "denied"
         /\ plans[c].stage = "outcome_unknown" => ReportOf(c) = "unknown"
<1>1. CASE plans[c].stage = "absent" BY <1>1
  DEF PhaseOf, ReportOf, InFlight, Stages, SettledStages, InFlightStages, Denials
<1>2. CASE plans[c].stage = "planned" BY <1>2
  DEF PhaseOf, ReportOf, InFlight, Stages, SettledStages, InFlightStages, Denials
<1>3. CASE plans[c].stage = "deleted" BY <1>3
  DEF PhaseOf, ReportOf, InFlight, Stages, SettledStages, InFlightStages, Denials
<1>4. CASE plans[c].stage \in InFlightStages
  <2>1. plans[c].stage \notin {"absent", "planned", "deleted"} \cup SettledStages \cup Denials
    BY <1>4 DEF InFlightStages, SettledStages, Denials
  <2>2. PhaseOf(c) = "claimed" BY <1>4, <2>1 DEF PhaseOf, InFlight
  <2>3. ReportOf(c) = "none" BY <1>4, <2>1 DEF ReportOf, SettledStages, Stages, Denials
  <2>4. QED BY <1>4, <2>1, <2>2, <2>3 DEF InFlight, SettledStages
<1>5. CASE plans[c].stage \in SettledStages
  <2>1. PhaseOf(c) = "closed" /\ ~ InFlight(c)
    BY <1>5 DEF PhaseOf, InFlight, InFlightStages, SettledStages
  <2>2. CASE plans[c].stage = "expired" BY <2>1, <2>2 DEF ReportOf, SettledStages, Denials
  <2>3. CASE plans[c].stage = "sent" BY <2>1, <2>3 DEF ReportOf, SettledStages, Denials
  <2>4. CASE plans[c].stage \in Denials BY <2>1, <2>4 DEF ReportOf, SettledStages, Denials
  <2>5. CASE plans[c].stage = "outcome_unknown" BY <2>1, <2>5 DEF ReportOf, SettledStages, Denials
  <2>6. QED BY <1>5, <2>2, <2>3, <2>4, <2>5 DEF SettledStages, Denials
<1>6. QED BY <1>1, <1>2, <1>3, <1>4, <1>5 DEF Stages

LEMMA Deliveries ==
  ASSUME OneMessage, NEW c \in PlanIds
  PROVE  Delivered(c) = IF By(c) = {} THEN 0 ELSE 1
<1>1. CASE By(c) = {} BY <1>1, FS_EmptySet DEF Delivered
<1>2. CASE By(c) # {}
  <2>1. PICK m \in By(c) : TRUE BY <1>2
  <2>2. \A n \in By(c) : n = m BY DEF OneMessage
  <2>3. By(c) = {m} BY <2>2
  <2>4. QED BY <1>2, <2>3, FS_Singleton DEF Delivered
<1>3. QED BY <1>1, <1>2

LEMMA PromiseInit == Init => Promise!Init
<1> SUFFICES ASSUME Init, NEW c \in PlanIds
             PROVE  PhaseOf(c) = "unused" /\ ReportOf(c) = "none" /\ Cardinality(By(c)) = 0
  BY DEF Promise!Init
<1>1. plans[c].stage = "absent" BY DEF Init, PlansInit, NoPlanRow
<1>2. "absent" \in Stages /\ "absent" \notin SettledStages BY DEF Stages, SettledStages
<1>3. By(c) = {} BY DEF Init, By
<1>4. QED BY <1>1, <1>2, <1>3, RowView, FS_EmptySet

(* A process changes one row at most, and messages change for one          *)
(* confirmation at most.                                                   *)
LEMMA OneRow ==
  ASSUME Typed, NEW p \in Procs, Steps(p), NEW c \in PlanIds, plans'[c] # plans[c],
         NEW d \in PlanIds, d # c
  PROVE  plans'[d] = plans[d]
<1>0. plans \in [PlanIds -> Plan] BY DEF Typed, TypeOK, PlansTypeOK
<1>1. CASE PlanStore(p)
  <2>1. PICK e \in PlanIds : CreatePlan(e, op[p].acct, op[p].target, op[p].text)
    BY <1>1 DEF PlanStore
  <2>2. e = c BY <1>0, <2>1 DEF CreatePlan
  <2>3. QED BY <1>0, <2>1, <2>2 DEF CreatePlan
<1>2. CASE pc[p] = "plan_store" /\ ~ PlanStore(p)
  BY <1>2 DEF Steps, Planning, Executing, Identity, PlanScan, PlanCheck, Claim, Client, StartScan,
     Create, MarkReconcile, ReconcileCreate, MarkCreated, CountFirst, MarkSend, Send, Reconcile,
     Record, Stop
<1>3. CASE pc[p] # "plan_store"
  BY <1>3, StepTouches DEF Touches, Stored, Consumed, Lapsed, Advanced, Located, Recorded
<1>4. QED BY <1>1, <1>2, <1>3 DEF PlanStore

LEMMA OneOut ==
  ASSUME Typed, [Next]_vars PROVE \E c : \A d \in PlanIds \ {c} : By(d)' = By(d)
<1>1. CASE Apply
  <2>1. PICK m \in pending : messages' = messages \cup {Stamped(m)} BY <1>1 DEF Apply
  <2>2. Stamped(m).by = m.by BY DEF Stamped
  <2>3. ASSUME NEW d \in PlanIds \ {m.by} PROVE By(d)' = By(d) BY <2>1, <2>2 DEF By
  <2>4. QED BY <2>3
<1>2. CASE \E p \in Procs : Send(p)
  <2>1. PICK p \in Procs : Send(p) BY <1>2
  <2>2. Stamped(SendRequest(p)).by = op[p].cid BY DEF SendRequest, Stamped
  <2>3. UNCHANGED messages \/ messages' = messages \cup {Stamped(SendRequest(p))}
    BY <2>1 DEF Send, Delivers
  <2>4. ASSUME NEW d \in PlanIds \ {op[p].cid} PROVE By(d)' = By(d) BY <2>2, <2>3 DEF By
  <2>5. QED BY <2>4
<1>3. CASE ~ Apply /\ ~ \E p \in Procs : Send(p)
  <2>1. ASSUME NEW d \in PlanIds PROVE By(d)' = By(d)
    <3>1. CASE By(d)' = By(d) /\ PendingBy(d)' = PendingBy(d) BY <3>1
    <3>2. CASE Elsewhere
      <4>1. UNCHANGED messages \/ (\E k, text : messages' = messages \cup
              {Stamped([conv |-> k, text |-> text, by |-> Human])})
        BY <3>2 DEF Elsewhere
      <4>2. QED BY <4>1, MessagingAssumption DEF By, Stamped
    <3>3. CASE ~ Elsewhere
      <4>1. UNCHANGED messages
        BY <1>3, <3>3 DEF Next, Process, Planning, Executing, Environment, Open, OpenOther, Identity,
         PlanScan, PlanCheck, PlanStore, Claim, Client, StartScan, Create, MarkReconcile, ReconcileCreate,
         MarkCreated, CountFirst, MarkSend, Reconcile, Record, Stop, Login, Logout, Tick, remote, vars
      <4>2. QED BY <4>1 DEF By
    <3>4. QED BY <3>2, <3>3
  <2>2. QED BY <2>1
<1>4. QED BY <1>1, <1>2, <1>3

(* A message arrives only against a claim that nobody has denied or        *)
(* reported as delivered.                                                  *)
LEMMA ArrivesInTime ==
  ASSUME Sound, [Next]_vars, NEW c \in PlanIds, By(c)' # By(c)
  PROVE  /\ By(c) = {} /\ UNCHANGED plans
         /\ plans[c].stage \notin Untouched /\ plans[c].stage \notin Denials
         /\ plans[c].outcome.tag # "sent"
<1> USE DEF Sound
<1>1. CASE Applies(c) /\ UNCHANGED <<plans, pc, op>>
  <2>1. PendingBy(c) # {} BY <1>1 DEF Applies
  <2>2. By(c) = {} BY <2>1 DEF Honest, OneMessage
  <2>3. plans[c].outcome.tag # "sent" BY <2>2 DEF Honest, SentIsTrue
  <2>4. sends[c] # 0 BY <2>1 DEF Denying, OutgoingWasSent, Outgoing
  <2>5. plans[c].stage \notin Untouched BY <2>4 DEF Execution, AttemptsAreClaimed
  <2>6. plans[c].stage \notin Denials BY <2>1 DEF Denying, DeniedIsOver, Outgoing
  <2>7. QED BY <1>1, <2>2, <2>3, <2>5, <2>6
<1>2. CASE \E p \in Procs : Steps(p) /\ Sends(p, c) /\ UNCHANGED plans
  <2>1. PICK p \in Procs : Sends(p, c) /\ UNCHANGED plans BY <1>2
  <2>2. Works(p, c) BY <2>1 DEF Sends, Works, NotWorking, PlanningPcs
  <2>3. By(c) = {} BY <2>1, UnsentIsQuiet DEF Sends, BeforeSend, Outgoing
  <2>4. plans[c].outcome.tag # "sent" BY <2>3 DEF Honest, SentIsTrue
  <2>5. plans[c].stage \notin Untouched BY <2>2 DEF Execution, WorkIsClaimed, Works
  <2>6. plans[c].stage \notin Denials BY <2>2 DEF Denying, DeniedIsOver
  <2>7. QED BY <2>1, <2>3, <2>4, <2>5, <2>6
<1>3. QED BY <1>1, <1>2, OutChange

LEMMA Stutters ==
  ASSUME \A c \in PlanIds :
           PhaseOf(c)' = PhaseOf(c) /\ ReportOf(c)' = ReportOf(c) /\ Delivered(c)' = Delivered(c)
  PROVE  UNCHANGED Promise!confirmations
  BY DEF Promise!confirmations, Delivered

LEMMA SameRowSameView ==
  ASSUME NEW c \in PlanIds, plans'[c].stage = plans[c].stage, plans'[c].outcome = plans[c].outcome
  PROVE  PhaseOf(c)' = PhaseOf(c) /\ ReportOf(c)' = ReportOf(c)
  BY DEF PhaseOf, ReportOf, InFlight

LEMMA SameOutSameView ==
  ASSUME NEW c \in PlanIds, By(c)' = By(c) PROVE Delivered(c)' = Delivered(c)
  BY DEF Delivered

(* Messages that arrive are deliveries. *)
LEMMA ArrivalIsDelivery ==
  ASSUME Sound, Sound', [Next]_vars, NEW c \in PlanIds, By(c)' # By(c)
  PROVE  Promise!Next
<1>1. /\ By(c) = {} /\ UNCHANGED plans
      /\ plans[c].stage \notin Untouched /\ plans[c].stage \notin Denials
      /\ plans[c].outcome.tag # "sent"
  BY ArrivesInTime
<1>2. plans[c].stage \in Stages BY DEF Sound, Typed, TypeOK, PlansTypeOK, Plan
<1>3. PhaseOf(c) \in {"claimed", "closed", "forgotten"}
  BY <1>1, <1>2, RowView DEF Untouched, Stages, InFlight
<1>4. PhaseOf(c) = "closed" => ReportOf(c) \in {"likely", "unknown"}
  BY <1>1, <1>2, RowView DEF Untouched, SettledStages, Denials
<1>5. Delivered(c) = 0 /\ Delivered(c)' = 1
  <2>1. OneMessage /\ OneMessage' BY DEF Sound, Honest
  <2>2. By(c)' # {} BY <1>1
  <2>3. Delivered(c) = 0 BY <1>1, <2>1, Deliveries
  <2>4. \A m, n \in By(c)' : m = n BY <2>1 DEF OneMessage
  <2>5. PICK m \in By(c)' : TRUE BY <2>2
  <2>6. By(c)' = {m} BY <2>4, <2>5
  <2>7. QED BY <2>3, <2>6, FS_Singleton DEF Delivered
<1>6. \A d \in PlanIds \ {c} : By(d)' = By(d)
  BY OneOut DEF Sound
<1>7. \A d \in PlanIds \ {c} : Delivered(d)' = Delivered(d) BY <1>6, SameOutSameView
<1>8. \A d \in PlanIds : PhaseOf(d)' = PhaseOf(d) /\ ReportOf(d)' = ReportOf(d)
  BY <1>1, SameRowSameView
<1>9. Promise!Deliver(c) BY <1>3, <1>4, <1>5, <1>7, <1>8 DEF Promise!Deliver, Delivered
<1>10. QED BY <1>9 DEF Promise!Next

(* What a change of one row is in ConfirmedSend. *)
Only(c) ==
  \A d \in PlanIds \ {c} : PhaseOf(d)' = PhaseOf(d) /\ ReportOf(d)' = ReportOf(d)
Undelivered == \A d \in PlanIds : Delivered(d)' = Delivered(d)

LEMMA BecomesInPromise ==
  ASSUME NEW c \in PlanIds, Only(c), Undelivered, NEW f, NEW r, PhaseOf(c)' = f, ReportOf(c)' = r
  PROVE  /\ Promise!Become(c, f, r)
         /\ [d \in PlanIds |-> Cardinality(By(d))]' = [d \in PlanIds |-> Cardinality(By(d))]
  BY DEF Promise!Become, Only, Undelivered, Delivered

LEMMA TouchInPromise ==
  ASSUME Sound, Sound', NEW p \in Procs, NEW c \in PlanIds, Touches(p, c), Only(c), Undelivered
  PROVE  Promise!Next \/ (PhaseOf(c)' = PhaseOf(c) /\ ReportOf(c)' = ReportOf(c))
<1>1. plans[c].stage \in Stages /\ plans'[c].stage \in Stages
  BY DEF Sound, Typed, TypeOK, PlansTypeOK, Plan
<1>2. /\ plans'[c].stage = "planned" => PhaseOf(c)' = "planned" /\ ReportOf(c)' = "none"
      /\ plans'[c].stage = "expired" => PhaseOf(c)' = "closed" /\ ReportOf(c)' = "expired"
      /\ plans'[c].stage \in InFlightStages => PhaseOf(c)' = "claimed" /\ ReportOf(c)' = "none"
  BY <1>1 DEF PhaseOf, ReportOf, InFlight, InFlightStages, SettledStages, Stages
<1>3. CASE Stored(p, c)
  <2>1. PhaseOf(c) = "unused" BY <1>1, <1>3, RowView DEF Stored
  <2>2. Promise!Become(c, "planned", "none") BY <1>2, <1>3, BecomesInPromise DEF Stored
  <2>3. Promise!Issue(c) BY <1>2, <1>3, <2>1, <2>2, BecomesInPromise DEF Promise!Issue, Stored
  <2>4. QED BY <2>3 DEF Promise!Next
<1>4. CASE Consumed(p, c)
  <2>1. PhaseOf(c) = "planned" BY <1>1, <1>4, RowView DEF Consumed
  <2>2. PhaseOf(c)' = "claimed" /\ ReportOf(c)' = "none" BY <1>2, <1>4 DEF Consumed, Becomes
  <2>3. Promise!Consume(c) BY <2>1, <2>2, BecomesInPromise DEF Promise!Consume
  <2>4. QED BY <2>3 DEF Promise!Next
<1>5. CASE Lapsed(p, c)
  <2>1. PhaseOf(c) = "planned" BY <1>1, <1>5, RowView DEF Lapsed
  <2>2. PhaseOf(c)' = "closed" /\ ReportOf(c)' = "expired" BY <1>2, <1>5 DEF Lapsed, Becomes
  <2>3. Promise!Expire(c) BY <2>1, <2>2, BecomesInPromise DEF Promise!Expire
  <2>4. QED BY <2>3 DEF Promise!Next
<1>6. CASE Advanced(p, c) \/ Located(p, c)
  <2>1. InFlight(c) /\ plans'[c].stage \in InFlightStages
    BY <1>6 DEF Advanced, Located, Becomes, InFlightStages
  <2>2. PhaseOf(c) = "claimed" /\ ReportOf(c) = "none"
    BY <1>1, <2>1, RowView DEF InFlight, InFlightStages, SettledStages
  <2>3. QED BY <1>2, <2>1, <2>2
<1>7. CASE Recorded(p, c)
  <2> DEFINE m == op[p].mark
  <2>1. PhaseOf(c) = "claimed" BY <1>1, <1>7, RowView DEF Recorded
  <2>2. m \in Marks BY WorkerFields DEF Sound, Typed
  <2>3. plans'[c].stage = m.stage /\ plans'[c].outcome = m.outcome
    BY <1>7 DEF Recorded, Becomes
  <2>4. m.stage \in {"sent", "failed_definite", "warning_blocked", "outcome_unknown"}
    BY <2>2, MarkByTag
  <2>5. PhaseOf(c)' = "closed"
    BY <2>3, <2>4 DEF PhaseOf, InFlight, InFlightStages, SettledStages
  <2>6. OneMessage BY DEF Sound, Honest
  <2>7. \E r \in {"sent", "likely", "denied", "unknown"} :
          /\ ReportOf(c)' = r
          /\ r = "sent" => Delivered(c) = 1
          /\ r = "denied" => Delivered(c) = 0
    <3>1. CASE m = SentMark
      <4>1. ReportOf(c)' = "sent"
        BY <2>3, <3>1, MarksDiffer DEF ReportOf, SettledStages
      <4>2. By(c) # {} BY <1>7, <3>1 DEF Recorded, Sound, Honest, SentToRecord
      <4>3. QED BY <4>1, <4>2, <2>6, Deliveries
    <3>2. CASE m = ReconciledMark
      <4>1. ReportOf(c)' = "likely"
        BY <2>3, <3>2, MarksDiffer DEF ReportOf, SettledStages
      <4>2. QED BY <4>1
    <3>3. CASE m.stage \in Denials
      <4>1. ReportOf(c)' = "denied"
        BY <2>3, <3>3 DEF ReportOf, Denials, SettledStages
      <4>2. By(c) = {} BY <1>7, <3>3 DEF Recorded, Sound, Denying, DenialsToRecord, Outgoing
      <4>3. QED BY <4>1, <4>2, <2>6, Deliveries
    <3>4. CASE m.stage = "outcome_unknown"
      <4>1. ReportOf(c)' = "unknown"
        BY <2>3, <3>4 DEF ReportOf, SettledStages
      <4>2. QED BY <4>1
    <3>5. QED BY <2>2, <2>4, <3>1, <3>2, <3>3, <3>4, MarkByTag DEF Denials
  <2>8. Promise!Close(c)
    BY <2>1, <2>5, <2>7, BecomesInPromise DEF Promise!Close, Delivered
  <2>9. QED BY <2>8 DEF Promise!Next
<1>8. QED BY <1>3, <1>4, <1>5, <1>6, <1>7 DEF Touches

(* Opening the database closes what was abandoned, changing the account    *)
(* forgets what was the previous one's.                                    *)
LEMMA OthersInPromise ==
  ASSUME Sound, Sound', Undelivered, (\E p \in Procs : Open(p)) \/ Environment \/ UNCHANGED vars
  PROVE  Promise!Next \/ UNCHANGED Promise!confirmations
<1>0. ASSUME NEW c \in PlanIds
      PROVE  plans[c] \in Plan /\ plans[c].stage \in Stages /\ plans'[c].stage \in Stages
  BY DEF Sound, Typed, TypeOK, PlansTypeOK, Plan
<1>1. CASE plans' = Recovered
  <2> DEFINE S == {c \in PlanIds : Stale(c)}
  <2>1. S \in SUBSET {c \in PlanIds : [d \in PlanIds |-> PhaseOf(d)][c] = "claimed"}
    BY <1>0, RowView DEF Stale
  <2>2. ASSUME NEW c \in PlanIds
        PROVE  /\ PhaseOf(c)' = IF c \in S THEN "closed" ELSE PhaseOf(c)
               /\ ReportOf(c)' = IF c \in S THEN "unknown" ELSE ReportOf(c)
    <3>1. plans'[c] = IF Stale(c) THEN [plans[c] EXCEPT !.stage = "outcome_unknown",
                                          !.outcome = RecoveredOutcome(plans[c].outcome)]
                      ELSE plans[c]
      BY <1>1 DEF Recovered
    <3>2. CASE Stale(c)
      <4>1. plans'[c].stage = "outcome_unknown" BY <3>1, <3>2, <1>0 DEF Plan
      <4>2. PhaseOf(c)' = "closed" /\ ReportOf(c)' = "unknown"
        BY <4>1 DEF PhaseOf, ReportOf, InFlight, InFlightStages, SettledStages
      <4>3. QED BY <3>2, <4>2
    <3>3. CASE ~ Stale(c)
      <4>1. plans'[c] = plans[c] BY <3>1, <3>3
      <4>2. QED BY <3>3, <4>1, SameRowSameView
    <3>4. QED BY <3>2, <3>3
  <2> HIDE DEF S
  <2>3. Promise!CloseAbandoned
    BY <2>1, <2>2 DEF Promise!CloseAbandoned, Undelivered, Delivered
  <2>4. QED BY <2>3 DEF Promise!Next
<1>2. CASE plans' = DeletePlansOf(account)
  <2> DEFINE S == {c \in PlanIds : Issued(c) /\ plans[c].acct = account}
  <2>1. S \in SUBSET {c \in PlanIds : [d \in PlanIds |-> PhaseOf(d)][c] # "unused"}
    BY <1>0, RowView DEF Issued
  <2>2. ASSUME NEW c \in PlanIds
        PROVE  /\ PhaseOf(c)' = IF c \in S THEN "forgotten" ELSE PhaseOf(c)
               /\ ReportOf(c)' = IF c \in S THEN "none" ELSE ReportOf(c)
    <3>1. plans'[c] = IF c \in S THEN NoPlanRow("deleted") ELSE plans[c]
      BY <1>2 DEF DeletePlansOf
    <3>2. CASE c \in S
      <4>1. plans'[c].stage = "deleted" BY <3>1, <3>2 DEF NoPlanRow
      <4>2. PhaseOf(c)' = "forgotten"
        BY <4>1 DEF PhaseOf, InFlight, InFlightStages, SettledStages
      <4>3. ReportOf(c)' = "none" BY <4>1 DEF ReportOf, Stages, SettledStages
      <4>4. QED BY <3>2, <4>2, <4>3
    <3>3. CASE c \notin S
      <4>1. plans'[c] = plans[c] BY <3>1, <3>3
      <4>2. QED BY <3>3, <4>1, SameRowSameView
    <3>4. QED BY <3>2, <3>3
  <2> HIDE DEF S
  <2>3. Promise!Forget BY <2>1, <2>2 DEF Promise!Forget, Undelivered, Delivered
  <2>4. QED BY <2>3 DEF Promise!Next
<1>3. CASE UNCHANGED plans BY <1>3, SameRowSameView, Stutters DEF Undelivered
<1>4. QED BY <1>1, <1>2, <1>3
  DEF Open, Environment, OpenOther, Apply, Elsewhere, Login, Logout, Tick, vars

LEMMA PromiseStep ==
  Sound /\ Sound' /\ [Next]_vars => [Promise!Next]_Promise!confirmations
<1> SUFFICES ASSUME Sound, Sound', [Next]_vars
             PROVE  Promise!Next \/ UNCHANGED Promise!confirmations
  OBVIOUS
<1>1. CASE \E c \in PlanIds : By(c)' # By(c) BY <1>1, ArrivalIsDelivery
<1>2. CASE \A c \in PlanIds : By(c)' = By(c)
  <2>1. Undelivered BY <1>2, SameOutSameView DEF Undelivered
  <2>2. CASE (\E p \in Procs : Open(p)) \/ Environment \/ UNCHANGED vars
    BY <2>1, <2>2, OthersInPromise
  <2>3. ASSUME NEW p \in Procs, Steps(p)
        PROVE  Promise!Next \/ UNCHANGED Promise!confirmations
    <3>1. CASE \A c \in PlanIds : plans'[c] = plans[c]
      BY <2>1, <3>1, SameRowSameView, Stutters DEF Undelivered
    <3>2. CASE \E c \in PlanIds : plans'[c] # plans[c]
      <4>1. PICK c \in PlanIds : plans'[c] # plans[c] BY <3>2
      <4>2. \A d \in PlanIds \ {c} : plans'[d] = plans[d] BY <2>3, <4>1, OneRow DEF Sound
      <4>3. Only(c) BY <4>2, SameRowSameView DEF Only
      <4>4. Touches(p, c) BY <2>3, <4>1, StepTouches DEF Sound
      <4>5. Promise!Next \/ (PhaseOf(c)' = PhaseOf(c) /\ ReportOf(c)' = ReportOf(c))
        BY <2>1, <4>3, <4>4, TouchInPromise
      <4>6. QED BY <2>1, <4>3, <4>5, Stutters DEF Only, Undelivered
    <3>3. QED BY <3>1, <3>2
  <2>4. QED BY <2>2, <2>3, NextSteps
<1>3. QED BY <1>1, <1>2

(* The commands keep the promise of ConfirmedSend: with any number of      *)
(* processes, crashes, lost answers and account changes, every step is a   *)
(* step of its state machine or none.                                      *)
THEOREM PromiseKept == Spec => KeepsPromise
  BY SoundInit, SoundStep, PromiseInit, PromiseStep, PTL DEF Spec, KeepsPromise, Promise!Spec

-----------------------------------------------------------------------------
(* How a step changes what a command holds. *)

HoldsSame(p) ==
  /\ op'[p].cid = op[p].cid /\ op'[p].target = op[p].target /\ op'[p].text = op[p].text
  /\ op'[p].ack = op[p].ack /\ op'[p].known = op[p].known

(* What only some steps change. *)
AcctMoves(p) ==
  IF pc[p] = "identity" THEN op'[p].acct = account /\ account \in Accounts
                        ELSE op'[p].acct = op[p].acct
ClientMoves(p) ==
  pc'[p] \in {"start_scan", "send", "reconcile"} \cup CreatePcs \cup ReconcileCreatePcs \cup FirstSendPcs =>
    \/ pc[p] = "client" /\ op'[p].client = account
    \/ /\ pc[p] \in CreatePcs \cup ReconcileCreatePcs \cup FirstSendPcs \cup {"send"}
       /\ op'[p].client = op[p].client
ConvMoves(p) ==
  pc'[p] \in {"mark_created", "count_first", "mark_send", "send", "reconcile"} =>
    \/ pc[p] = "client" /\ pc'[p] = "send" /\ op'[p].conv = op[p].target /\ op[p].target \in ConvIds
    \/ /\ pc[p] \in {"create", "reconcile_create"} /\ pc'[p] = "mark_created"
       /\ op'[p].conv \in ConvIds /\ convs'[op'[p].conv].listing = op[p].target
    \/ pc[p] \in {"mark_created", "count_first", "mark_send", "send"} /\ op'[p].conv = op[p].conv
AtMoves(p) ==
  pc'[p] \in {"mark_reconcile", "reconcile_create", "mark_created", "count_first", "reconcile"} =>
    \/ pc[p] \in {"create", "send"} /\ op'[p].at = now
    \/ pc[p] \in {"mark_reconcile", "reconcile_create", "mark_created"} /\ op'[p].at = op[p].at
MatchedMoves(p) ==
  \/ op'[p].matched = op[p].matched
  \/ /\ pc[p] = "count_first" /\ pc'[p] = "mark_send"
     /\ op'[p].matched = 0 \/ (op'[p].matched = 1 /\ 1 \in Counts(p))

Moves(p) ==
  /\ HoldsSame(p) /\ AcctMoves(p) /\ ClientMoves(p) /\ ConvMoves(p) /\ AtMoves(p) /\ MatchedMoves(p)
  /\ pc[p] \notin {"down", "record"} /\ pc'[p] # "identity"

LEMMA RecordNextMoves ==
  ASSUME TypeOK, NEW p \in Procs, NEW m, RecordNext(p, m), pc[p] \notin {"down", "record", "identity"}
  PROVE  Moves(p)
<1>1. op[p] \in Op /\ pc'[p] = "record" /\ op'[p] = [op[p] EXCEPT !.mark = m]
  BY DEF TypeOK, RecordNext, Goto
<1>2. QED
  BY <1>1 DEF Op, Moves, HoldsSame, AcctMoves, ClientMoves, ConvMoves, AtMoves, MatchedMoves,
     CreatePcs, ReconcileCreatePcs, FirstSendPcs

LEMMA StepMoves ==
  ASSUME Typed, NEW p \in Procs, Steps(p), pc'[p] # "down"
  PROVE  Moves(p)
<1>0. TypeOK /\ op[p] \in Op /\ op \in [Procs -> Op] /\ pc \in [Procs -> Pcs]
  BY DEF Typed, TypeOK
<1>1. ~ Exit(p) BY <1>0, ExitIsMine
<1> DEFINE S == CreatePcs \cup ReconcileCreatePcs \cup FirstSendPcs
<1> USE <1>0, <1>1 DEF Goto, Moves, HoldsSame, AcctMoves, ClientMoves, ConvMoves, AtMoves,
        MatchedMoves, CreatePcs, ReconcileCreatePcs, FirstSendPcs
<1>2. CASE Identity(p)
  <2>1. LoggedIn /\ op'[p] = [op[p] EXCEPT !.acct = account] /\ pc'[p] \in {"plan_scan", "claim"}
          /\ pc[p] = "identity"
    BY <1>2 DEF Identity
  <2>2. account \in Accounts BY <2>1 DEF LoggedIn, TypeOK
  <2>3. QED BY <2>1, <2>2 DEF Op
<1>3. CASE PlanScan(p) \/ PlanCheck(p) BY <1>3 DEF PlanScan, PlanCheck
<1>4. CASE PlanStore(p) BY <1>4 DEF PlanStore
<1>5. CASE Claim(p) BY <1>5 DEF Claim
<1>6. CASE Client(p)
  <2>1. CASE RecordNext(p, FailedMark) BY <1>6, <2>1, RecordNextMoves DEF Client
  <2>2. CASE ~ RecordNext(p, FailedMark)
    <3>1. /\ op'[p] = [op[p] EXCEPT !.client = account,
                          !.conv = IF IsReply(p) THEN op[p].target ELSE NoConv]
          /\ pc[p] = "client" /\ pc'[p] = IF IsReply(p) THEN "send" ELSE "start_scan"
      BY <1>6, <2>2 DEF Client
    <3>2. QED BY <3>1 DEF Op, IsReply
  <2>3. QED BY <2>1, <2>2
<1>7. CASE StartScan(p)
  <2>1. CASE RecordNext(p, FailedMark) BY <1>7, <2>1, RecordNextMoves DEF StartScan
  <2>2. CASE ~ RecordNext(p, FailedMark) BY <1>7, <2>2 DEF StartScan
  <2>3. QED BY <2>1, <2>2
<1>8. CASE Create(p)
  <2>1. CASE DefiniteFailure(p) BY <1>8, <2>1, RecordNextMoves DEF Create, DefiniteFailure
  <2>2. CASE \E k \in ConvIds : /\ Opens(p, k) /\ op' = [op EXCEPT ![p].conv = k, ![p].at = now]
                               /\ Goto(p, "mark_created")
    <3>1. PICK k \in ConvIds : /\ Opens(p, k) /\ op' = [op EXCEPT ![p].conv = k, ![p].at = now]
                               /\ Goto(p, "mark_created")
      BY <2>2
    <3>2. convs'[k].listing = op[p].target BY <3>1 DEF Opens, ConvsOf, TypeOK
    <3>3. op'[p] = [op[p] EXCEPT !.conv = k, !.at = now] BY <3>1
    <3>4. pc[p] = "create" /\ pc'[p] = "mark_created" BY <1>8, <3>1 DEF Create
    <3>5. HoldsSame(p) /\ AcctMoves(p) /\ MatchedMoves(p) BY <3>3, <3>4 DEF Op
    <3>6. op'[p].conv = k /\ op'[p].at = now /\ op'[p].client = op[p].client BY <3>3 DEF Op
    <3>7. ClientMoves(p) /\ AtMoves(p) BY <3>4, <3>6
    <3>8. op'[p].conv \in ConvIds /\ convs'[op'[p].conv].listing = op[p].target BY <3>2, <3>6
    <3>9. ConvMoves(p) BY <3>4, <3>8
    <3>10. QED BY <3>4, <3>5, <3>7, <3>9
  <2>3. CASE op' = [op EXCEPT ![p].at = now] /\ Goto(p, "mark_reconcile")
    <3>1. op'[p] = [op[p] EXCEPT !.at = now] BY <2>3
    <3>2. pc[p] = "create" /\ pc'[p] = "mark_reconcile" BY <1>8, <2>3 DEF Create
    <3>3. QED BY <3>1, <3>2 DEF Op
  <2>4. QED BY <1>8, <2>1, <2>2, <2>3 DEF Create
<1>9. CASE MarkReconcile(p) BY <1>9 DEF MarkReconcile, AuditFailure
<1>10. CASE ReconcileCreate(p)
  <2>1. CASE RecordNext(p, UnknownMark(NoConv)) BY <1>10, <2>1, RecordNextMoves DEF ReconcileCreate
  <2>2. CASE ~ RecordNext(p, UnknownMark(NoConv))
    <3>1. PICK k \in ConvsOf(account, op[p].target) :
            op' = [op EXCEPT ![p].conv = k, ![p].viaReconcile = TRUE]
      BY <1>10, <2>2 DEF ReconcileCreate
    <3>2. UNCHANGED convs BY <1>10 DEF ReconcileCreate, remote
    <3>3. k \in ConvIds /\ convs[k].listing = op[p].target BY <3>1 DEF ConvsOf
    <3>4. op'[p] = [op[p] EXCEPT !.conv = k, !.viaReconcile = TRUE] BY <3>1
    <3>5. pc[p] = "reconcile_create" /\ pc'[p] = "mark_created"
      BY <1>10, <2>2 DEF ReconcileCreate
    <3>6. HoldsSame(p) /\ AcctMoves(p) /\ MatchedMoves(p) BY <3>4, <3>5 DEF Op
    <3>7. op'[p].conv = k /\ op'[p].at = op[p].at /\ op'[p].client = op[p].client BY <3>4 DEF Op
    <3>8. ClientMoves(p) /\ AtMoves(p) BY <3>5, <3>7
    <3>9. op'[p].conv \in ConvIds /\ convs'[op'[p].conv].listing = op[p].target
      BY <3>2, <3>3, <3>7
    <3>10. ConvMoves(p) BY <3>5, <3>9
    <3>11. QED BY <3>5, <3>6, <3>8, <3>10
  <2>3. QED BY <2>1, <2>2
<1>11. CASE MarkCreated(p) BY <1>11 DEF MarkCreated, AuditFailure
<1>12. CASE CountFirst(p)
  <2>1. CASE RecordNext(p, UnknownMark(op[p].conv)) BY <1>12, <2>1, RecordNextMoves DEF CountFirst
  <2>2. CASE ~ RecordNext(p, UnknownMark(op[p].conv))
    <3>1. PICK n \in Counts(p) \cap {0, 1} : op' = [op EXCEPT ![p].matched = n]
      BY <1>12, <2>2 DEF CountFirst
    <3>2. op'[p] = [op[p] EXCEPT !.matched = n] BY <3>1
    <3>3. pc[p] = "count_first" /\ pc'[p] = "mark_send" BY <1>12, <2>2 DEF CountFirst
    <3>4. QED BY <3>1, <3>2, <3>3 DEF Op
  <2>3. QED BY <2>1, <2>2
<1>13. CASE MarkSend(p)
  <2>1. CASE RecordNext(p, ReconciledMark) BY <1>13, <2>1, RecordNextMoves DEF MarkSend
  <2>2. CASE ~ RecordNext(p, ReconciledMark) BY <1>13, <2>2 DEF MarkSend, AuditFailure
  <2>3. QED BY <2>1, <2>2
<1>14. CASE Send(p)
  <2>1. CASE \E m : RecordNext(p, m) BY <1>14, <2>1, RecordNextMoves DEF Send
  <2>2. CASE op' = [op EXCEPT ![p].at = now] /\ Goto(p, "reconcile")
    <3>1. op'[p] = [op[p] EXCEPT !.at = now] BY <2>2
    <3>2. pc[p] = "send" /\ pc'[p] = "reconcile" BY <1>14, <2>2 DEF Send
    <3>3. QED BY <3>1, <3>2 DEF Op
  <2>3. QED BY <1>14, <2>1, <2>2 DEF Send, DefiniteFailure
<1>15. CASE Reconcile(p) BY <1>15, RecordNextMoves DEF Reconcile
<1>16. CASE Record(p) \/ Stop(p) BY <1>16 DEF Record, Stop
<1>17. QED
  BY <1>2, <1>3, <1>4, <1>5, <1>6, <1>7, <1>8, <1>9, <1>10, <1>11, <1>12, <1>13, <1>14, <1>15, <1>16
  DEF Steps, Planning, Executing

LEMMA ControlChange ==
  ASSUME Typed, [Next]_vars, NEW p \in Procs
  PROVE  (pc'[p] = pc[p] /\ op'[p] = op[p]) \/ Open(p) \/ Steps(p)
<1>1. ASSUME NEW q \in Procs, Open(q) PROVE Open(p) \/ (pc'[p] = pc[p] /\ op'[p] = op[p])
  BY <1>1, OpenIsMine DEF Typed
<1>2. ASSUME NEW q \in Procs, Steps(q) PROVE Steps(p) \/ (pc'[p] = pc[p] /\ op'[p] = op[p])
  BY <1>2, StepIsMine DEF Typed, Mine
<1>3. CASE Environment \/ UNCHANGED vars
  BY <1>3 DEF Environment, OpenOther, Apply, Elsewhere, Login, Logout, Tick, vars
<1>4. QED BY <1>1, <1>2, <1>3, NextSteps

LEMMA OpenHolds ==
  ASSUME Typed, NEW p \in Procs, Open(p)
  PROVE  /\ pc'[p] = "identity" /\ plans' = Recovered
         /\ op'[p].target \in Targets /\ op'[p].matched = 0
         /\ op'[p].cid \in PlanIds => Issued(op'[p].cid)
         /\ op'[p].known = {c \in PlanIds : op'[p].cid = NoPlan /\ plans'[c].stage = "outcome_unknown"}
<1>0. op \in [Procs -> Op] BY DEF Typed, TypeOK
<1>1. PICK target \in Targets, text \in Texts, cid, ack \in PlanIds \cup {NoPlan} :
        /\ \A c \in {cid, ack} \cap PlanIds : Issued(c)
        /\ op' = [op EXCEPT ![p] = Command(cid, ack, target, text,
                   {c \in PlanIds : cid = NoPlan /\ plans'[c].stage = "outcome_unknown"})]
  BY DEF Open
<1>2. op'[p] = Command(cid, ack, target, text,
                 {c \in PlanIds : cid = NoPlan /\ plans'[c].stage = "outcome_unknown"})
  BY <1>0, <1>1
<1>3. op'[p].cid = cid /\ op'[p].target = target /\ op'[p].matched = 0
        /\ op'[p].known = {c \in PlanIds : cid = NoPlan /\ plans'[c].stage = "outcome_unknown"}
  BY <1>2 DEF Command, NoOp
<1>4. pc'[p] = "identity" /\ plans' = Recovered BY OpenIsMine DEF Typed, Open
<1>5. QED BY <1>1, <1>3, <1>4

-----------------------------------------------------------------------------
(* A row keeps its bindings as long as it lives, and an ID is not reused.  *)

Live(c) == plans[c].stage \notin {"absent", "deleted"}

LEMMA IssuedStays ==
  ASSUME Typed, [Next]_vars, NEW c \in PlanIds, Issued(c)
  PROVE  /\ Issued(c)' /\ (Kept(c) \/ Forgotten(c))
         /\ plans[c].stage = "deleted" => plans'[c].stage = "deleted"
         /\ Live(c)' => Live(c) /\ Kept(c)
<1>1. CASE plans'[c] = plans[c] BY <1>1 DEF Issued, Kept, Live
<1>2. CASE GivenUp(c) BY <1>2 DEF GivenUp, Becomes, Issued, InFlight, InFlightStages, Live
<1>3. CASE Forgotten(c) BY <1>3 DEF Forgotten, NoPlanRow, Issued, Live
<1>4. ASSUME NEW p \in Procs, Touches(p, c)
      PROVE  /\ Issued(c)' /\ Kept(c)
             /\ plans[c].stage # "deleted" /\ Live(c)
  <2>1. op[p].mark.stage # "absent" BY WorkerFields, MarkFields DEF Typed
  <2>2. QED BY <1>4, <2>1 DEF Touches, Stored, Consumed, Lapsed, Advanced, Located, Recorded, Becomes,
     Issued, InFlight, InFlightStages, Live
<1>5. QED BY <1>1, <1>2, <1>3, <1>4, RowChange

LEMMA NowGrows == ASSUME Typed, [Next]_vars PROVE now \in Nat /\ now' \in Nat /\ now <= now'
<1>1. now \in Nat BY DEF Typed, TypeOK, PlansTypeOK
<1>2. now' = now \/ now' = now + 1
  BY DEF Next, Process, Planning, Executing, Environment, Open, OpenOther, Identity,
     PlanScan, PlanCheck, PlanStore, Claim, Client, StartScan, Create, MarkReconcile, ReconcileCreate,
     MarkCreated, CountFirst, MarkSend, Send, Reconcile, Record, Stop, Apply, Elsewhere, Login, Logout,
     Tick, vars
<1>3. QED BY <1>1, <1>2

(* Only signing in or out changes the account, and deletes the plans of    *)
(* the one before.                                                         *)
LEMMA AccountChange ==
  ASSUME [Next]_vars, account' # account, account \in Accounts
  PROVE  plans' = DeletePlansOf(account)
<1>1. Login \/ Logout
  BY DEF Next, Process, Planning, Executing, Environment, Open, OpenOther, Identity,
     PlanScan, PlanCheck, PlanStore, Claim, Client, StartScan, Create, MarkReconcile, ReconcileCreate,
     MarkCreated, CountFirst, MarkSend, Send, Reconcile, Record, Stop, Apply, Elsewhere, Tick, vars,
     session, DefiniteFailure
<1>2. QED BY <1>1 DEF Login, Logout

LEMMA OutAfter ==
  ASSUME Typed, [Next]_vars, NEW c \in PlanIds, NEW m \in Out(c)'
  PROVE  \/ \E n \in Out(c) : n.conv = m.conv /\ n.text = m.text
         \/ \E p \in Procs : /\ Steps(p) /\ Sends(p, c) /\ UNCHANGED plans
                             /\ m.conv = op[p].conv /\ m.text = op[p].text
<1>1. CASE By(c)' = By(c) /\ PendingBy(c)' = PendingBy(c) BY <1>1 DEF Out
<1>2. CASE Applies(c)
  <2>1. PICK n \in PendingBy(c) : By(c)' = By(c) \cup {Stamped(n)} /\ PendingBy(c)' = PendingBy(c) \ {n}
    BY <1>2 DEF Applies
  <2>2. Stamped(n).conv = n.conv /\ Stamped(n).text = n.text BY DEF Stamped
  <2>3. QED BY <2>1, <2>2 DEF Out
<1>3. CASE \E p \in Procs : Steps(p) /\ Sends(p, c) /\ UNCHANGED plans
  <2>1. PICK p \in Procs : Steps(p) /\ Sends(p, c) /\ UNCHANGED plans BY <1>3
  <2>2. /\ SendRequest(p).conv = op[p].conv /\ SendRequest(p).text = op[p].text
        /\ Stamped(SendRequest(p)).conv = op[p].conv /\ Stamped(SendRequest(p)).text = op[p].text
    BY DEF SendRequest, Stamped
  <2>3. m \in Out(c) \/ m \in {SendRequest(p), Stamped(SendRequest(p))}
    BY <2>1 DEF Sends, Out
  <2>4. QED BY <2>1, <2>2, <2>3
<1>4. QED BY <1>1, <1>2, <1>3, OutChange

LEMMA TargetStays ==
  ASSUME Typed, [Next]_vars, NEW k \in ConvIds, NEW t \in Targets, t \in {k, convs[k].listing}
  PROVE  t \in {k, convs'[k].listing}
<1>1. CASE t = k BY <1>1
<1>2. CASE t = convs[k].listing
  <2>1. convs[k] # NoConvRow BY <1>2, NullsAssumption DEF NoConvRow, Targets
  <2>2. QED BY <1>2, <2>1, ConvsStay
<1>3. QED BY <1>1, <1>2

LEMMA OwnerStays ==
  ASSUME Typed, [Next]_vars, NEW k \in ConvIds, convs[k].acct \in Accounts
  PROVE  convs'[k].acct = convs[k].acct
<1>1. convs[k] # NoConvRow BY NullsAssumption DEF NoConvRow
<1>2. QED BY <1>1, ConvsStay

-----------------------------------------------------------------------------
(* A message is the confirmed one: what binds rows, commands and messages. *)

Signing == CreatePcs \cup ReconcileCreatePcs \cup FirstSendPcs \cup {"send"}
Sending == {"count_first", "mark_send", "send", "reconcile"}
Timed == ReconcileCreatePcs \cup {"mark_created", "count_first", "reconcile"}

(* A live row has its bindings, any other none. *)
RowBound(c) ==
  /\ ~ Live(c) => plans[c] = NoPlanRow(plans[c].stage)
  /\ Live(c) => plans[c].acct \in Accounts /\ plans[c].target \in Targets
  /\ plans[c].created <= now
CommandBound(p) ==
  pc[p] # "down" =>
    /\ op[p].cid \in PlanIds => Issued(op[p].cid)
    /\ op[p].target \in Targets
    /\ pc[p] # "identity" => op[p].acct \in Accounts
(* A plan outlives no sign-in of another account, so a command that acts   *)
(* for the account of a living plan acts for the signed-in one.            *)
AccountBound(p) ==
  LET c == op[p].cid
  IN  /\ pc[p] \notin {"down", "identity"} /\ c \in PlanIds
      /\ Live(c) /\ plans[c].acct = op[p].acct
      => account = op[p].acct
WorkBound(p) ==
  LET c == op[p].cid
  IN  pc[p] \notin NotWorking /\ Live(c) =>
        plans[c].acct = op[p].acct /\ plans[c].target = op[p].target /\ plans[c].text = op[p].text
ClientBound(p) == pc[p] \in Signing /\ Live(op[p].cid) => op[p].client = op[p].acct
ConvBound(p) ==
  pc[p] \in {"mark_created"} \cup Sending =>
    op[p].conv \in ConvIds /\ op[p].target \in {op[p].conv, convs[op[p].conv].listing}
TimeBound(p) == pc[p] \in Timed => plans[op[p].cid].created <= op[p].at
MessagesBound(c) ==
  \A m \in Out(c) :
    /\ m.conv \in ConvIds
    /\ plans[c].stage # "deleted" =>
         /\ m.text = plans[c].text
         /\ plans[c].target \in {m.conv, convs[m.conv].listing}
         /\ convs[m.conv].acct = plans[c].acct
Bound ==
  /\ \A c \in PlanIds : RowBound(c) /\ MessagesBound(c)
  /\ \A p \in Procs : /\ CommandBound(p) /\ AccountBound(p) /\ WorkBound(p) /\ ClientBound(p)
                      /\ ConvBound(p) /\ TimeBound(p)

LEMMA BoundInit == Init => Bound
<1> SUFFICES ASSUME Init PROVE Bound OBVIOUS
<1>1. \A c \in PlanIds : plans[c] = NoPlanRow("absent") /\ now = 0 /\ Out(c) = {}
  BY DEF Init, PlansInit, Out, By, PendingBy
<1>2. ASSUME NEW c \in PlanIds PROVE RowBound(c) /\ MessagesBound(c)
  <2>1. plans[c] = NoPlanRow("absent") /\ Out(c) = {} /\ now = 0 BY <1>1
  <2>2. plans[c].stage = "absent" /\ plans[c].created = 0 BY <2>1 DEF NoPlanRow
  <2>3. QED BY <2>1, <2>2 DEF RowBound, MessagesBound, Live
<1>3. \A p \in Procs : pc[p] = "down" BY DEF Init
<1>4. "down" \in NotWorking /\ "down" \notin Signing \cup {"mark_created"} \cup Sending \cup Timed
  BY DEF NotWorking, Signing, Sending, Timed, CreatePcs, ReconcileCreatePcs, FirstSendPcs
<1>5. QED
  BY <1>2, <1>3, <1>4 DEF Bound, CommandBound, AccountBound, WorkBound, ClientBound, ConvBound, TimeBound

LEMMA RowBoundStep == ASSUME Typed, Bound, [Next]_vars, NEW c \in PlanIds PROVE RowBound(c)'
<1>0. RowBound(c) /\ now \in Nat /\ now' \in Nat /\ now <= now' BY NowGrows DEF Bound
<1>1. plans[c] \in Plan /\ plans[c].created \in Nat BY DEF Typed, TypeOK, PlansTypeOK, Plan
<1>2. CASE plans'[c] = plans[c] BY <1>0, <1>1, <1>2 DEF RowBound, Live
<1>3. CASE Forgotten(c) BY <1>0, <1>3 DEF Forgotten, RowBound, NoPlanRow, Live
<1>4. CASE Live(c) /\ Kept(c) /\ Live(c)' BY <1>0, <1>1, <1>4 DEF RowBound, Kept
<1>5. ASSUME NEW p \in Procs, Stored(p, c) PROVE RowBound(c)'
  <2>1. Live(c)' BY <1>5 DEF Stored, Live
  <2>2. op[p].acct \in Accounts /\ op[p].target \in Targets
    BY <1>5 DEF Bound, CommandBound, Stored
  <2>3. QED BY <1>0, <1>5, <2>1, <2>2 DEF Stored, RowBound
<1>6. CASE GivenUp(c) BY <1>4, <1>6 DEF GivenUp, Becomes, InFlight, InFlightStages, Live
<1>7. ASSUME NEW p \in Procs, Touches(p, c), ~ Stored(p, c) PROVE RowBound(c)'
  <2>1. op[p].mark.stage \notin {"absent", "deleted"} BY WorkerFields, MarkFields DEF Typed
  <2>2. Live(c) /\ Kept(c) /\ Live(c)'
    BY <1>7, <2>1 DEF Touches, Consumed, Lapsed, Advanced, Located, Recorded, Becomes, InFlight,
       InFlightStages, Live
  <2>3. QED BY <1>4, <2>2
<1>8. QED BY <1>2, <1>3, <1>5, <1>6, <1>7, RowChange

LEMMA CommandBoundStep ==
  ASSUME Typed, Bound, [Next]_vars, NEW p \in Procs PROVE CommandBound(p)'
<1> SUFFICES ASSUME pc'[p] # "down"
             PROVE  /\ op'[p].cid \in PlanIds => plans'[op'[p].cid].stage # "absent"
                    /\ op'[p].target \in Targets
                    /\ pc'[p] # "identity" => op'[p].acct \in Accounts
  BY DEF CommandBound, Issued
<1>0. ASSUME NEW c \in PlanIds, Issued(c) PROVE plans'[c].stage # "absent"
  BY <1>0, IssuedStays DEF Issued
<1>1. CASE pc'[p] = pc[p] /\ op'[p] = op[p] BY <1>0, <1>1 DEF Bound, CommandBound
<1>2. CASE Open(p) BY <1>0, <1>2, OpenHolds
<1>3. CASE Steps(p)
  <2>1. Moves(p) BY <1>3, StepMoves
  <2>2. QED BY <1>0, <2>1 DEF Moves, HoldsSame, AcctMoves, Bound, CommandBound
<1>4. QED BY <1>1, <1>2, <1>3, ControlChange

(* A row that lives after a step belongs to the account of a command.      *)
LEMMA AccountBoundStep ==
  ASSUME Typed, Bound, [Next]_vars, NEW p \in Procs PROVE AccountBound(p)'
<1> SUFFICES ASSUME NEW c \in PlanIds, NEW x, op'[p].cid = c, op'[p].acct = x,
                    pc'[p] \notin {"down", "identity"}, Live(c)', plans'[c].acct = x
             PROVE  account' = x
  BY DEF AccountBound, Live
<1>1. account = x /\ x \in Accounts
  <2>1. CASE pc'[p] = pc[p] /\ op'[p] = op[p]
    <3>1. Issued(c) /\ x \in Accounts BY <2>1 DEF Bound, CommandBound
    <3>2. Live(c) /\ Kept(c) BY <3>1, IssuedStays
    <3>3. QED BY <2>1, <3>1, <3>2 DEF Kept, Bound, AccountBound
  <2>2. CASE Steps(p)
    <3>1. Moves(p) BY <2>2, StepMoves
    <3>2. CASE pc[p] = "identity" BY <3>1, <3>2 DEF Moves, AcctMoves
    <3>3. CASE pc[p] # "identity"
      <4>1. op[p].cid = c /\ op[p].acct = x /\ pc[p] # "down"
        BY <3>1, <3>3 DEF Moves, AcctMoves, HoldsSame
      <4>2. Issued(c) /\ x \in Accounts BY <3>3, <4>1 DEF Bound, CommandBound
      <4>3. Live(c) /\ Kept(c) BY <4>2, IssuedStays
      <4>4. QED BY <3>3, <4>1, <4>2, <4>3 DEF Kept, Bound, AccountBound
    <3>4. QED BY <3>2, <3>3
  <2>3. QED BY <2>1, <2>2, ControlChange, OpenHolds
<1>2. CASE account' # account
  <2>1. plans' = DeletePlansOf(account) BY <1>1, <1>2, AccountChange
  <2>2. plans'[c] = IF Issued(c) /\ plans[c].acct = account THEN NoPlanRow("deleted") ELSE plans[c]
    BY <2>1 DEF DeletePlansOf
  <2>3. QED BY <1>1, <2>2 DEF Live, NoPlanRow, Issued
<1>3. QED BY <1>1, <1>2

(* The plan of a worker is issued. *)
LEMMA WorkIssued ==
  ASSUME Typed, Execution, NEW p \in Procs, pc[p] \notin NotWorking
  PROVE  op[p].cid \in PlanIds /\ Issued(op[p].cid)
  BY DEF Typed, ControlFits, Execution, WorkIsClaimed, Untouched, Issued, NotWorking

(* A step of a working command keeps its plan; a live one is as before.    *)
Resumes(p, c) ==
  /\ pc[p] \notin NotWorking /\ op[p].cid = c
  /\ op'[p].target = op[p].target /\ op'[p].text = op[p].text /\ op'[p].acct = op[p].acct
  /\ (pc'[p] = pc[p] /\ op'[p] = op[p]) \/ Moves(p)
  /\ Kept(c) \/ Forgotten(c)
  /\ Live(c)' => Live(c) /\ Kept(c)
Begins(p, c) ==
  /\ pc[p] = "claim" /\ pc'[p] = "client" /\ op'[p] = op[p] /\ op[p].cid = c /\ Kept(c)
  /\ plans[c].acct = op[p].acct /\ plans[c].target = op[p].target /\ plans[c].text = op[p].text

LEMMA WorkGoesOn ==
  ASSUME Typed, Execution, [Next]_vars, NEW p \in Procs, pc'[p] \notin NotWorking
  PROVE  \E c \in PlanIds : op'[p].cid = c /\ (Resumes(p, c) \/ Begins(p, c))
<1>1. ASSUME pc[p] \notin NotWorking, NEW c, c = op[p].cid
      PROVE  /\ c \in PlanIds
             /\ Kept(c) \/ Forgotten(c)
             /\ Live(c)' => Live(c) /\ Kept(c)
  <2>1. c \in PlanIds /\ Issued(c) BY <1>1, WorkIssued
  <2>2. QED BY <2>1, IssuedStays
<1>2. CASE pc'[p] = pc[p] /\ op'[p] = op[p] BY <1>1, <1>2 DEF Resumes
<1>3. CASE Steps(p)
  <2>1. CASE pc[p] \notin NotWorking
    <3>1. Moves(p) BY <1>3, StepMoves DEF NotWorking
    <3>2. op'[p].acct = op[p].acct BY <2>1, <3>1 DEF Moves, AcctMoves, NotWorking, PlanningPcs
    <3>3. QED BY <1>1, <2>1, <3>1, <3>2 DEF Moves, HoldsSame, Resumes
  <2>2. CASE pc[p] \in NotWorking
    <3>1. /\ pc[p] = "claim" /\ pc'[p] = "client" /\ op' = op
          /\ ClaimAnswer(op[p].cid, op[p].acct, op[p].target, op[p].text) = "claimed"
          /\ ConsumePlan(op[p].cid, op[p].target)
      BY <1>3, <2>2, EntersByClaim
    <3>2. op[p].cid \in PlanIds BY <3>1 DEF Typed, ControlFits, PlanningPcs
    <3>3. plans \in [PlanIds -> Plan] BY DEF Typed, TypeOK, PlansTypeOK
    <3>4. Kept(op[p].cid) BY <3>1, <3>2, <3>3 DEF ConsumePlan, Kept, Plan
    <3>5. <<plans[op[p].cid].acct, plans[op[p].cid].target, plans[op[p].cid].text>>
            = <<op[p].acct, op[p].target, op[p].text>>
      BY <3>1 DEF ClaimAnswer
    <3>6. QED BY <3>1, <3>2, <3>4, <3>5 DEF Begins
  <2>3. QED BY <2>1, <2>2
<1>4. CASE Open(p) BY <1>4, OpenHolds DEF NotWorking, PlanningPcs
<1>5. QED BY <1>2, <1>3, <1>4, ControlChange

LEMMA WorkBoundStep ==
  ASSUME Typed, Execution, Bound, [Next]_vars, NEW p \in Procs PROVE WorkBound(p)'
<1> SUFFICES ASSUME NEW c, op'[p].cid = c, pc'[p] \notin NotWorking, Live(c)'
             PROVE  /\ plans'[c].acct = op'[p].acct /\ plans'[c].target = op'[p].target
                    /\ plans'[c].text = op'[p].text
  BY DEF WorkBound, Live
<1>1. CASE Begins(p, c) BY <1>1 DEF Begins, Kept
<1>2. CASE Resumes(p, c) BY <1>2 DEF Resumes, Bound, WorkBound, Kept
<1>3. QED BY <1>1, <1>2, WorkGoesOn

LEMMA ClientBoundStep ==
  ASSUME Typed, Execution, Bound, [Next]_vars, NEW p \in Procs PROVE ClientBound(p)'
<1> SUFFICES ASSUME NEW c, op'[p].cid = c, pc'[p] \in Signing, Live(c)'
             PROVE  op'[p].client = op'[p].acct
  BY DEF ClientBound, Live
<1>1. pc'[p] \notin NotWorking /\ pc'[p] # "client"
  BY DEF Signing, NotWorking, PlanningPcs, CreatePcs, ReconcileCreatePcs, FirstSendPcs
<1>2. c \in PlanIds /\ Resumes(p, c) BY <1>1, WorkGoesOn DEF Begins
<1>3. /\ pc[p] \notin NotWorking /\ c = op[p].cid /\ op'[p].acct = op[p].acct /\ Live(c)
  BY <1>2 DEF Resumes
<1>4. CASE pc'[p] = pc[p] /\ op'[p] = op[p] BY <1>3, <1>4 DEF Bound, ClientBound
<1>5. CASE Moves(p)
  <2>1. \/ pc[p] = "client" /\ op'[p].client = account
        \/ pc[p] \in Signing /\ op'[p].client = op[p].client
    BY <1>5 DEF Moves, ClientMoves, Signing
  <2>2. CASE pc[p] = "client" /\ op'[p].client = account
    <3>1. plans[c].acct = op[p].acct BY <1>3 DEF Bound, WorkBound
    <3>2. account = op[p].acct BY <1>2, <1>3, <2>2, <3>1 DEF Bound, AccountBound
    <3>3. QED BY <1>3, <2>2, <3>2
  <2>3. CASE pc[p] \in Signing /\ op'[p].client = op[p].client
    BY <1>3, <2>3 DEF Bound, ClientBound
  <2>4. QED BY <2>1, <2>2, <2>3
<1>6. QED BY <1>2, <1>4, <1>5 DEF Resumes

LEMMA ConvBoundStep ==
  ASSUME Typed, Execution, Bound, [Next]_vars, NEW p \in Procs PROVE ConvBound(p)'
<1> SUFFICES ASSUME NEW k, NEW t, op'[p].conv = k, op'[p].target = t,
                    pc'[p] \in {"mark_created"} \cup Sending
             PROVE  k \in ConvIds /\ t \in {k, convs'[k].listing}
  BY DEF ConvBound
<1>1. pc'[p] \notin NotWorking /\ pc'[p] # "client"
  BY DEF Sending, NotWorking, PlanningPcs
<1>2. /\ t = op[p].target /\ pc[p] # "down"
      /\ (pc'[p] = pc[p] /\ op'[p] = op[p]) \/ Moves(p)
  BY <1>1, WorkGoesOn DEF Resumes, Begins, NotWorking
<1>3. t \in Targets BY <1>2 DEF Bound, CommandBound
<1>4. CASE pc[p] \in {"mark_created"} \cup Sending /\ k = op[p].conv
  BY <1>2, <1>3, <1>4, TargetStays DEF Bound, ConvBound
<1>5. CASE Moves(p) /\ ~ (pc[p] \in {"mark_created"} \cup Sending /\ k = op[p].conv)
  BY <1>2, <1>5 DEF Moves, ConvMoves, Sending
<1>6. QED BY <1>2, <1>4, <1>5

LEMMA TimeBoundStep ==
  ASSUME Typed, Execution, Bound, [Next]_vars, NEW p \in Procs PROVE TimeBound(p)'
<1> SUFFICES ASSUME NEW c, op'[p].cid = c, pc'[p] \in Timed
             PROVE  plans'[c].created <= op'[p].at
  BY DEF TimeBound
<1>1. pc'[p] \notin NotWorking /\ pc'[p] # "client"
  BY DEF Timed, ReconcileCreatePcs, NotWorking, PlanningPcs
<1>2. c \in PlanIds /\ Resumes(p, c) BY <1>1, WorkGoesOn DEF Begins
<1>3. plans'[c].created \in {0, plans[c].created}
  BY <1>2 DEF Resumes, Kept, Forgotten, NoPlanRow
<1>4. plans[c].created \in Nat /\ plans[c].created <= now /\ now \in Nat
  <2>1. plans[c] \in Plan /\ now \in Nat BY <1>2 DEF Typed, TypeOK, PlansTypeOK
  <2>2. QED BY <1>2, <2>1 DEF Plan, Bound, RowBound
<1>5. op[p].at \in Nat
  <2>1. op[p] \in Op BY DEF Typed, TypeOK
  <2>2. MaxTime \in Nat BY TimesAssumption
  <2>3. QED BY <2>1, <2>2 DEF Op
<1>6. CASE op'[p].at = now BY <1>3, <1>4, <1>6
<1>7. CASE pc[p] \in Timed /\ op'[p].at = op[p].at
  <2>1. plans[c].created <= op[p].at BY <1>2, <1>7 DEF Resumes, Bound, TimeBound
  <2>2. QED BY <1>3, <1>4, <1>5, <1>7, <2>1
<1>8. op'[p].at = now \/ (pc[p] \in Timed /\ op'[p].at = op[p].at)
  BY <1>2 DEF Resumes, Moves, AtMoves, Timed, ReconcileCreatePcs
<1>9. QED BY <1>6, <1>7, <1>8

(* What a message of a confirmation says of its row. *)
LEMMA OutIsIssued ==
  ASSUME Execution, Denying, NEW c \in PlanIds, Out(c) # {} PROVE Issued(c) /\ plans[c].stage # "planned"
  BY DEF Execution, AttemptsAreClaimed, Untouched, Denying, OutgoingWasSent, Outgoing, Out, Issued

LEMMA MessagesBoundStep ==
  ASSUME Sound, Bound, [Next]_vars, NEW c \in PlanIds PROVE MessagesBound(c)'
<1> SUFFICES ASSUME NEW m \in Out(c)'
             PROVE  /\ m.conv \in ConvIds
                    /\ plans'[c].stage # "deleted" =>
                         /\ m.text = plans'[c].text
                         /\ plans'[c].target \in {m.conv, convs'[m.conv].listing}
                         /\ convs'[m.conv].acct = plans'[c].acct
  BY DEF MessagesBound, Out, By, PendingBy
<1> USE DEF Sound
<1>1. CASE \E n \in Out(c) : n.conv = m.conv /\ n.text = m.text
  <2>1. PICK n \in Out(c) : n.conv = m.conv /\ n.text = m.text BY <1>1
  <2>2. n.conv \in ConvIds BY DEF Bound, MessagesBound
  <2>3. Issued(c) /\ Issued(c)' BY OutIsIssued, IssuedStays
  <2>4. CASE plans'[c].stage # "deleted"
    <3>1. Live(c) /\ Kept(c) BY <2>3, <2>4, IssuedStays DEF Live, Issued
    <3>2. plans[c].acct \in Accounts /\ plans[c].target \in Targets
      BY <3>1 DEF Bound, RowBound
    <3>3. /\ n.text = plans[c].text /\ plans[c].target \in {n.conv, convs[n.conv].listing}
          /\ convs[n.conv].acct = plans[c].acct
      BY <3>1 DEF Bound, MessagesBound, Live
    <3>4. QED BY <2>1, <2>2, <3>1, <3>2, <3>3, TargetStays, OwnerStays DEF Kept
  <2>5. QED BY <2>1, <2>2, <2>4
<1>2. CASE \E p \in Procs : /\ Steps(p) /\ Sends(p, c) /\ UNCHANGED plans
                            /\ m.conv = op[p].conv /\ m.text = op[p].text
  <2>1. PICK p \in Procs : /\ Sends(p, c) /\ UNCHANGED plans
                           /\ m.conv = op[p].conv /\ m.text = op[p].text
    BY <1>2
  <2>2. pc[p] = "send" /\ op[p].cid = c /\ Deliverable(p) BY <2>1 DEF Sends
  <2>3. pc[p] \in Sending \cap Signing /\ pc[p] \notin NotWorking
    BY <2>2 DEF Sending, Signing, NotWorking, PlanningPcs
  <2>4. op[p].conv \in ConvIds /\ op[p].target \in {op[p].conv, convs[op[p].conv].listing}
    BY <2>3 DEF Bound, ConvBound
  <2>5. CASE plans'[c].stage # "deleted"
    <3>1. Live(c) BY <2>1, <2>2, <2>3, <2>5, WorkIssued DEF Live, Issued
    <3>2. plans[c].acct = op[p].acct /\ plans[c].target = op[p].target /\ plans[c].text = op[p].text
      BY <2>2, <2>3, <3>1 DEF Bound, WorkBound
    <3>3. op[p].client = op[p].acct BY <2>2, <2>3, <3>1 DEF Bound, ClientBound
    <3>4. convs[op[p].conv].acct = op[p].acct BY <2>2, <3>3 DEF Deliverable, Authorized
    <3>5. plans[c].acct \in Accounts /\ plans[c].target \in Targets
      BY <3>1 DEF Bound, RowBound
    <3>6. QED BY <2>1, <2>4, <3>2, <3>4, <3>5, TargetStays, OwnerStays
  <2>6. QED BY <2>1, <2>4, <2>5
<1>3. QED BY <1>1, <1>2, OutAfter

LEMMA BoundStep == Sound /\ Bound /\ [Next]_vars => Bound'
  BY RowBoundStep, MessagesBoundStep, CommandBoundStep, AccountBoundStep, WorkBoundStep,
     ClientBoundStep, ConvBoundStep, TimeBoundStep DEF Bound, Sound

(* Whatever is delivered for a confirmation, or still on its way, has the  *)
(* text, the target and the account that were confirmed, unless signing in *)
(* as somebody else has deleted the row.                                   *)
THEOREM ConfirmedIsDelivered == Spec => []DeliveredAsConfirmed
<1>1. Bound => DeliveredAsConfirmed BY DEF Bound, MessagesBound, DeliveredAsConfirmed, Out
<1>2. QED BY <1>1, SoundInit, SoundStep, BoundInit, BoundStep, PTL DEF Spec

-----------------------------------------------------------------------------
(* A possible delivery stays visible to planning: a row that may have a    *)
(* message names its conversation, as the target or in the outcome.        *)

RowLocates(c, k) ==
  /\ plans[c].stage = "outcome_unknown" => k \in {plans[c].target, plans[c].outcome.conv}
  /\ InFlight(c) => k = plans[c].target \/ plans[c].outcome = Outcome("conversation", k)
MessagesLocated(c) == \A m \in Out(c) : RowLocates(c, m.conv)
WorkLocated(p) == pc[p] \in Sending => RowLocates(op[p].cid, op[p].conv)
RecordLocated(p) ==
  \A m \in Out(op[p].cid) :
    /\ pc[p] = "reconcile" => m.conv = op[p].conv
    /\ pc[p] = "record" /\ op[p].mark.stage = "outcome_unknown"
         => op[p].mark.outcome.conv = m.conv
Locating ==
  /\ \A c \in PlanIds : MessagesLocated(c)
  /\ \A p \in Procs : WorkLocated(p) /\ RecordLocated(p)

LEMMA LocatingInit == Init => Locating
<1> SUFFICES ASSUME Init PROVE Locating OBVIOUS
<1>1. \A c : Out(c) = {} BY DEF Init, Out, By, PendingBy
<1>2. \A p \in Procs : pc[p] = "down" BY DEF Init
<1>3. QED BY <1>1, <1>2 DEF Locating, MessagesLocated, WorkLocated, RecordLocated, Sending

(* Only three steps can make a row name another conversation. *)
Relocates(p, c, k) ==
  \/ Consumed(p, c)
  \/ Located(p, c) /\ op[p].conv # k
  \/ Recorded(p, c) /\ op[p].mark.stage = "outcome_unknown" /\ op[p].mark.outcome.conv # k

LEMMA LocationStays ==
  ASSUME Typed, [Next]_vars, NEW c \in PlanIds, NEW k, RowLocates(c, k)
  PROVE  RowLocates(c, k)' \/ \E p \in Procs : Relocates(p, c, k)
<1>1. CASE plans'[c] = plans[c] BY <1>1 DEF RowLocates, InFlight
<1>2. CASE GivenUp(c)
  <2>1. plans'[c].target = plans[c].target /\ plans'[c].stage = "outcome_unknown"
          /\ plans'[c].outcome = RecoveredOutcome(plans[c].outcome)
    BY <1>2 DEF GivenUp, Becomes, Kept
  <2>2. k = plans[c].target \/ plans[c].outcome = Outcome("conversation", k)
    BY <1>2 DEF GivenUp, RowLocates
  <2>3. k \in {plans'[c].target, plans'[c].outcome.conv}
    BY <2>1, <2>2 DEF RecoveredOutcome, Outcome
  <2>4. QED BY <2>1, <2>3 DEF RowLocates, InFlight, InFlightStages
<1>3. CASE Forgotten(c) BY <1>3 DEF Forgotten, NoPlanRow, RowLocates, InFlight, InFlightStages
<1>4. ASSUME NEW p \in Procs, Touches(p, c) PROVE RowLocates(c, k)' \/ Relocates(p, c, k)
  <2>1. CASE Stored(p, c) BY <2>1 DEF Stored, RowLocates, InFlight, InFlightStages
  <2>2. CASE Consumed(p, c) BY <2>2 DEF Relocates
  <2>3. CASE Lapsed(p, c) BY <2>3 DEF Lapsed, Becomes, RowLocates, InFlight, InFlightStages
  <2>4. CASE Advanced(p, c)
    <3>1. InFlight(c) /\ Kept(c) /\ plans'[c].outcome = plans[c].outcome
            /\ plans'[c].stage # "outcome_unknown"
      BY <2>4 DEF Advanced, Becomes, InFlightStages
    <3>2. QED BY <3>1 DEF RowLocates, Kept, InFlight
  <2>5. CASE Located(p, c) BY <2>5 DEF Located, Becomes, Relocates, RowLocates
  <2>6. CASE Recorded(p, c)
    <3>1. op[p].mark.stage \notin InFlightStages BY WorkerFields, MarkFields DEF Typed
    <3>2. QED BY <2>6, <3>1 DEF Recorded, Becomes, Relocates, RowLocates, InFlight
  <2>7. QED BY <1>4, <2>1, <2>2, <2>3, <2>4, <2>5, <2>6 DEF Touches
<1>5. QED BY <1>1, <1>2, <1>3, <1>4, RowChange

LEMMA RelocatesWorks ==
  ASSUME NEW p, NEW c, NEW k, Relocates(p, c, k), ~ Consumed(p, c)
  PROVE  Works(p, c) /\ pc[p] \in {"mark_created", "record"}
  BY DEF Relocates, Located, Recorded, Works, NotWorking, PlanningPcs

LEMMA MessagesLocatedStep ==
  ASSUME Sound, Locating, [Next]_vars, NEW c \in PlanIds PROVE MessagesLocated(c)'
<1> SUFFICES ASSUME NEW m \in Out(c)', NEW k, m.conv = k PROVE RowLocates(c, k)'
  BY DEF MessagesLocated, Out, By, PendingBy, RowLocates
<1> USE DEF Sound
<1>1. CASE \E n \in Out(c) : n.conv = k
  <2>1. PICK n \in Out(c) : n.conv = k BY <1>1
  <2>2. RowLocates(c, k) BY <2>1 DEF Locating, MessagesLocated
  <2>3. ASSUME NEW p \in Procs, Relocates(p, c, k) PROVE FALSE
    <3>1. CASE Consumed(p, c) BY <3>1, OutIsIssued DEF Consumed
    <3>2. CASE Located(p, c)
      BY <3>2, UnsentIsQuiet DEF Located, BeforeSend, FirstSendPcs, Outgoing, Out
    <3>3. CASE Recorded(p, c) /\ op[p].mark.stage = "outcome_unknown" /\ op[p].mark.outcome.conv # k
      BY <2>1, <3>3 DEF Recorded, Locating, RecordLocated
    <3>4. QED BY <2>3, <3>1, <3>2, <3>3 DEF Relocates
  <2>4. QED BY <2>2, <2>3, LocationStays
<1>2. CASE \E p \in Procs : Sends(p, c) /\ UNCHANGED plans /\ m.conv = op[p].conv
  <2>1. PICK p \in Procs : Sends(p, c) /\ UNCHANGED plans /\ m.conv = op[p].conv BY <1>2
  <2>2. RowLocates(c, k) BY <2>1 DEF Sends, Sending, Locating, WorkLocated
  <2>3. QED BY <2>1, <2>2 DEF RowLocates, InFlight
<1>3. QED BY <1>1, <1>2, OutAfter

LEMMA CreatedIsLocated ==
  ASSUME Typed, NEW p \in Procs, Steps(p), pc[p] = "mark_created", pc'[p] # "down"
  PROVE  Located(p, op[p].cid) /\ op'[p] = op[p]
<1>1. MarkCreated(p)
  BY DEF Steps, Planning, Executing, Identity, PlanScan, PlanCheck, PlanStore, Claim, Client,
     StartScan, Create, MarkReconcile, ReconcileCreate, CountFirst, MarkSend, Send, Reconcile, Record,
     Stop, Exit, Goto, Typed, TypeOK
<1>2. ~ Exit(p) BY ExitIsMine DEF Typed
<1>3. Transition(op[p].cid, "conversation_created", Outcome("conversation", op[p].conv))
        /\ UNCHANGED op
  BY <1>1, <1>2 DEF MarkCreated, AuditFailure
<1>4. op[p].cid \in PlanIds BY DEF Typed, ControlFits, PlanningPcs
<1>5. plans[op[p].cid] \in Plan /\ plans \in [PlanIds -> Plan]
  BY <1>4 DEF Typed, TypeOK, PlansTypeOK
<1>6. InFlight(op[p].cid) BY <1>3 DEF Transition, MarkFrom, InFlight, InFlightStages
<1>7. Becomes(op[p].cid, "conversation_created", Outcome("conversation", op[p].conv))
  BY <1>3, <1>4, <1>5 DEF Transition, Becomes, Kept, Plan
<1>8. QED BY <1>3, <1>6, <1>7 DEF Located

LEMMA WorkLocatedStep ==
  ASSUME Sound, Bound, Locating, [Next]_vars, NEW p \in Procs PROVE WorkLocated(p)'
<1> SUFFICES ASSUME NEW c, NEW k, op'[p].cid = c, op'[p].conv = k, pc'[p] \in Sending
             PROVE  RowLocates(c, k)'
  BY DEF WorkLocated, RowLocates, InFlight
<1> USE DEF Sound
<1>1. pc'[p] \notin NotWorking /\ pc'[p] \notin {"client", "down"}
  BY DEF Sending, NotWorking, PlanningPcs
<1>2. c \in PlanIds /\ Resumes(p, c) BY <1>1, WorkGoesOn DEF Begins
<1>3. Works(p, c) BY <1>2 DEF Resumes, Works
<1>4. CASE pc[p] \in Sending /\ op[p].conv = k
  <2>1. RowLocates(c, k) BY <1>2, <1>4 DEF Resumes, Locating, WorkLocated
  <2>2. ASSUME NEW q \in Procs, Relocates(q, c, k) PROVE FALSE
    <3>1. CASE Consumed(q, c)
      BY <1>2, <3>1 DEF Consumed, Resumes, Execution, WorkIsClaimed, Untouched
    <3>2. CASE ~ Consumed(q, c)
      <4>1. Works(q, c) /\ pc[q] \in {"mark_created", "record"} BY <2>2, <3>2, RelocatesWorks
      <4>2. q = p BY <1>2, <1>3, <4>1 DEF Execution, OneWorker
      <4>3. QED BY <1>4, <4>1, <4>2 DEF Sending
    <3>3. QED BY <3>1, <3>2
  <2>3. QED BY <1>2, <2>1, <2>2, LocationStays
<1>5. CASE pc[p] = "client" /\ k = op[p].target
  <2>1. ASSUME Live(c)' PROVE plans'[c].target = k
    BY <1>2, <1>5, <2>1 DEF Resumes, Bound, WorkBound, Kept
  <2>2. QED BY <2>1 DEF RowLocates, Live, InFlight, InFlightStages
<1>6. CASE pc[p] = "mark_created" /\ pc'[p] # "mark_created"
  <2>1. Steps(p)
    BY <1>6, ControlChange, OpenHolds DEF Sending
  <2>2. Located(p, c) /\ op[p].conv = k BY <1>1, <1>2, <1>6, <2>1, CreatedIsLocated DEF Resumes
  <2>3. plans'[c].stage = "conversation_created" /\ plans'[c].outcome = Outcome("conversation", k)
    BY <2>2 DEF Located, Becomes
  <2>4. QED BY <2>3 DEF RowLocates
<1>7. QED BY <1>2, <1>4, <1>5, <1>6 DEF Resumes, Moves, ConvMoves, Sending

LEMMA RecordLocatedStep ==
  ASSUME Sound, Locating, [Next]_vars, NEW p \in Procs PROVE RecordLocated(p)'
<1> SUFFICES ASSUME NEW c, op'[p].cid = c, NEW m \in Out(c)',
                    \/ pc'[p] = "reconcile"
                    \/ pc'[p] = "record" /\ op'[p].mark.stage = "outcome_unknown"
             PROVE  /\ pc'[p] = "reconcile" => m.conv = op'[p].conv
                    /\ pc'[p] = "record" => op'[p].mark.outcome.conv = m.conv
  BY DEF RecordLocated, Out, By, PendingBy
<1> USE DEF Sound
<1>1. pc'[p] \notin NotWorking /\ pc'[p] # "client" BY DEF NotWorking, PlanningPcs
<1>2. c \in PlanIds /\ Resumes(p, c) BY <1>1, WorkGoesOn DEF Begins
<1>3. Works(p, c) /\ op[p].cid = c BY <1>2 DEF Resumes, Works
<1>4. \/ \E n \in Out(c) : n.conv = m.conv
      \/ pc[p] = "send" /\ m.conv = op[p].conv
  <2>1. ASSUME NEW q \in Procs, Sends(q, c) PROVE q = p
    <3>1. Works(q, c) BY <2>1 DEF Sends, Works, NotWorking, PlanningPcs
    <3>2. QED BY <1>2, <1>3, <3>1 DEF Execution, OneWorker
  <2>2. QED BY <1>2, <2>1, OutAfter DEF Sends
<1>5. CASE pc'[p] = pc[p] /\ op'[p] = op[p]
  BY <1>3, <1>4, <1>5 DEF Locating, RecordLocated
<1>6. CASE Moves(p) /\ pc'[p] = "reconcile" /\ ~ (pc'[p] = pc[p] /\ op'[p] = op[p])
  <2>1. pc[p] \in BeforeSend /\ op'[p].conv = op[p].conv
    BY <1>6 DEF Moves, ConvMoves, BeforeSend, FirstSendPcs
  <2>2. Out(c) = {} BY <1>3, <2>1, UnsentIsQuiet DEF Outgoing, Out
  <2>3. QED BY <1>4, <1>6, <2>1, <2>2
<1>7. CASE Steps(p) /\ pc'[p] = "record"
  <2>1. MarkOrigin(p, op'[p].mark) BY <1>7, MarksRecorded
  <2>2. \/ op'[p].mark = UnknownMark(NoConv) /\ pc[p] = "reconcile_create"
        \/ op'[p].mark = UnknownMark(op[p].conv) /\ pc[p] \in {"count_first", "reconcile"}
    BY <1>7, <2>1, MarksDiffer DEF MarkOrigin
  <2>3. CASE pc[p] \in {"reconcile_create", "count_first"}
    <3>1. Out(c) = {}
      BY <1>3, <2>3, UnsentIsQuiet DEF BeforeSend, ReconcileCreatePcs, FirstSendPcs, Outgoing, Out
    <3>2. QED BY <1>4, <2>3, <3>1
  <2>4. CASE pc[p] = "reconcile" /\ op'[p].mark = UnknownMark(op[p].conv)
    <3>1. op'[p].mark.outcome.conv = op[p].conv BY <2>4 DEF UnknownMark, Mark, Outcome
    <3>2. \A n \in Out(c) : n.conv = op[p].conv BY <1>3, <2>4 DEF Locating, RecordLocated
    <3>3. QED BY <1>4, <1>7, <2>4, <3>1, <3>2
  <2>5. QED BY <2>2, <2>3, <2>4
<1>8. QED BY <1>2, <1>5, <1>6, <1>7, ControlChange, OpenHolds DEF Resumes

LEMMA LocatingStep == Sound /\ Bound /\ Locating /\ [Next]_vars => Locating'
  BY MessagesLocatedStep, WorkLocatedStep, RecordLocatedStep DEF Locating

(* Of rows, there is always a latest. *)
LEMMA LeastExists ==
  ASSUME NEW S \in SUBSET Nat, S # {} PROVE \E x \in S : \A y \in S : x <= y
<1>1. PICK x \in S : \A y \in S : ~ (<<y, x>> \in OpToRel(<, Nat)) BY NatLessThanWellFounded, WFMin
<1>2. ASSUME NEW y \in S PROVE x <= y
  <2>1. ~ (<<y, x>> \in OpToRel(<, Nat)) BY <1>1
  <2>2. ~ (y < x) BY <2>1 DEF OpToRel
  <2>3. QED BY <2>2
<1>3. QED BY <1>2

LEMMA LatestExists ==
  ASSUME Typed, Bound, NEW S \in SUBSET PlanIds, S # {} PROVE Latest(S) # {}
<1> DEFINE T == {now - plans[c].created : c \in S}
<1>1. \A c \in PlanIds : plans[c].created \in Nat /\ plans[c].created <= now /\ now \in Nat
  <2>1. plans \in [PlanIds -> Plan] /\ now \in Nat BY DEF Typed, TypeOK, PlansTypeOK
  <2>2. QED BY <2>1 DEF Bound, RowBound, Plan
<1>2. T \in SUBSET Nat /\ T # {} BY <1>1
<1>3. PICK x \in T : \A y \in T : x <= y BY <1>2, LeastExists
<1>4. PICK c \in S : x = now - plans[c].created BY <1>3
<1>5. ASSUME NEW d \in S PROVE plans[d].created <= plans[c].created
  <2>1. now - plans[c].created <= now - plans[d].created BY <1>3, <1>4
  <2>2. QED BY <1>1, <2>1
<1>6. QED BY <1>4, <1>5 DEF Latest

LEMMA LocatedIsFound ==
  ASSUME Typed, Bound, Locating, NEW c \in PlanIds, NEW m \in Out(c),
         plans[c].stage = "outcome_unknown"
  PROVE  Find("outcome_unknown", plans[c].acct, m.conv, m.text) # {}
<1> DEFINE exact == ForBindings("outcome_unknown", plans[c].acct, m.conv, m.text)
           other == ForConversation("outcome_unknown", plans[c].acct, m.conv, m.text)
<1>1. m.conv \in ConvIds /\ m.text = plans[c].text BY DEF Bound, MessagesBound
<1>2. m.conv \in {plans[c].target, plans[c].outcome.conv}
  BY DEF Locating, MessagesLocated, RowLocates
<1>3. c \in exact \/ c \in other BY <1>1, <1>2 DEF ForBindings, ForConversation
<1>4. exact \in SUBSET PlanIds /\ other \in SUBSET PlanIds BY DEF ForBindings, ForConversation
<1>5. CASE exact # {} BY <1>4, <1>5, LatestExists DEF Find
<1>6. CASE exact = {} BY <1>1, <1>3, <1>4, <1>6, LatestExists DEF Find
<1>7. QED BY <1>5, <1>6

(* A message that may have gone out unnoticed, also one of a dm start      *)
(* whose process crashed, keeps every later reply with its text in its     *)
(* conversation from being planned as if nothing had happened.             *)
THEOREM PossibleIsFound == Spec => []PossibleDeliveryIsFound
<1>1. Sound /\ Bound /\ Locating => PossibleDeliveryIsFound
  BY LocatedIsFound DEF Sound, PossibleDeliveryIsFound, Out
<1>2. QED
  BY <1>1, SoundInit, SoundStep, BoundInit, BoundStep, LocatingInit, LocatingStep, PTL DEF Spec

-----------------------------------------------------------------------------
(* sent_reconciled rests on a message: only a count of one leads to it.    *)

Witness(c) ==
  \E m \in messages :
    /\ m.conv \in ConvIds
    /\ Normal[m.text] = Normal[plans[c].text]
    /\ plans[c].target \in {m.conv, convs[m.conv].listing}
    /\ m.at + ReconcileWindow >= plans[c].created

Uncounted == {"identity", "claim", "client", "mark_created", "count_first"}
               \cup CreatePcs \cup ReconcileCreatePcs
CountedOnce(p) == pc[p] \in Uncounted => op[p].matched = 0
WitnessKnown(p) ==
  /\ \/ pc[p] = "mark_send" /\ op[p].matched = 1
     \/ pc[p] = "record" /\ op[p].mark = ReconciledMark
  /\ Live(op[p].cid)
  => Witness(op[p].cid)
WitnessOf(c) == plans[c].outcome.tag = "sent_reconciled" => Witness(c)
Witnessed ==
  /\ \A c \in PlanIds : WitnessOf(c)
  /\ \A p \in Procs : CountedOnce(p) /\ WitnessKnown(p)

LEMMA WitnessedInit == Init => Witnessed
<1> SUFFICES ASSUME Init PROVE Witnessed OBVIOUS
<1>1. \A c \in PlanIds : plans[c].outcome.tag = "none"
  BY DEF Init, PlansInit, NoPlanRow, Outcome
<1>2. \A p \in Procs : pc[p] = "down" BY DEF Init
<1>3. QED
  BY <1>1, <1>2 DEF Witnessed, WitnessOf, CountedOnce, WitnessKnown, Uncounted, CreatePcs,
     ReconcileCreatePcs

LEMMA WitnessStays ==
  ASSUME Typed, Bound, [Next]_vars, NEW c \in PlanIds, Live(c), Kept(c), Witness(c)
  PROVE  Witness(c)'
<1>1. PICK m \in messages :
        /\ m.conv \in ConvIds
        /\ Normal[m.text] = Normal[plans[c].text]
        /\ plans[c].target \in {m.conv, convs[m.conv].listing}
        /\ m.at + ReconcileWindow >= plans[c].created
  BY DEF Witness
<1>2. m \in messages' BY MessagesStay
<1>3. plans[c].target \in Targets BY DEF Bound, RowBound
<1>4. plans[c].target \in {m.conv, convs'[m.conv].listing} BY <1>1, <1>3, TargetStays
<1>5. QED BY <1>1, <1>2, <1>4 DEF Witness, Kept

LEMMA CountFindsWitness ==
  ASSUME Typed, Bound, NEW p \in Procs, 1 \in Counts(p), pc[p] \in {"count_first", "reconcile"},
         NEW c, op[p].cid = c, Live(c)
  PROVE  Witness(c)
<1>1. PICK M \in SUBSET Matching(p) : Cardinality(M) = 1 BY DEF Counts
<1>2. M # {} BY <1>1, FS_EmptySet
<1>3. PICK m \in Matching(p) : TRUE BY <1>2
<1>4. /\ m \in messages /\ m.conv = op[p].conv
      /\ Normal[m.text] = Normal[op[p].text] /\ m.at + ReconcileWindow >= op[p].at
  BY <1>3 DEF Matching
<1>5. pc[p] \in Sending \cap Timed /\ pc[p] \notin NotWorking
  BY DEF Sending, Timed, NotWorking, PlanningPcs
<1>6. op[p].conv \in ConvIds /\ op[p].target \in {op[p].conv, convs[op[p].conv].listing}
  BY <1>5 DEF Bound, ConvBound
<1>7. plans[c].target = op[p].target /\ plans[c].text = op[p].text
  BY <1>5 DEF Bound, WorkBound
<1>8. plans[c].created <= op[p].at BY <1>5 DEF Bound, TimeBound
<1>9. m.at \in Nat /\ op[p].at \in Nat /\ ReconcileWindow \in Nat /\ plans[c].created \in Nat
  <2>1. m \in Message /\ op[p] \in Op /\ plans \in [PlanIds -> Plan]
    BY <1>4 DEF Typed, TypeOK, PlansTypeOK
  <2>2. c \in PlanIds BY <1>5 DEF Typed, ControlFits, NotWorking
  <2>3. plans[c] \in Plan BY <2>1, <2>2
  <2>4. MaxTime \in Nat /\ ReconcileWindow \in Nat BY TimesAssumption, MessagingAssumption
  <2>5. QED BY <2>1, <2>3, <2>4 DEF Message, Op, Plan
<1>10. m.at + ReconcileWindow >= plans[c].created BY <1>4, <1>8, <1>9
<1>11. QED BY <1>4, <1>6, <1>7, <1>10 DEF Witness

LEMMA WitnessOfStep ==
  ASSUME Typed, Bound, Witnessed, [Next]_vars, NEW c \in PlanIds PROVE WitnessOf(c)'
<1> SUFFICES ASSUME plans'[c].outcome.tag = "sent_reconciled" PROVE Witness(c)' BY DEF WitnessOf
<1>1. CASE plans[c].outcome.tag = "sent_reconciled"
  <2>1. Live(c)
    <3>1. NoPlanRow(plans[c].stage).outcome.tag = "none" BY DEF NoPlanRow, Outcome
    <3>2. QED BY <1>1, <3>1 DEF Bound, RowBound
  <2>2. ~ Forgotten(c) BY DEF Forgotten, NoPlanRow, Outcome
  <2>3. Kept(c) BY <2>1, <2>2, IssuedStays DEF Live, Issued
  <2>4. QED BY <1>1, <2>1, <2>3, WitnessStays DEF Witnessed, WitnessOf
<1>2. CASE plans[c].outcome.tag # "sent_reconciled"
  <2>1. ~ GivenUp(c) /\ ~ Forgotten(c)
    BY DEF GivenUp, Forgotten, Becomes, RecoveredOutcome, NoPlanRow, Outcome
  <2>2. PICK p \in Procs : Touches(p, c) BY <1>2, <2>1, RowChange
  <2>3. Recorded(p, c)
    BY <1>2, <2>2 DEF Touches, Stored, Consumed, Lapsed, Advanced, Located, Becomes, Outcome
  <2>4. op[p].mark \in Marks BY WorkerFields DEF Typed
  <2>5. op[p].mark = ReconciledMark BY <2>3, <2>4, MarkByTag DEF Recorded, Becomes
  <2>6. Live(c) BY <2>3 DEF Recorded, InFlight, InFlightStages, Live
  <2>7. Witness(c) BY <2>3, <2>5, <2>6 DEF Recorded, Witnessed, WitnessKnown
  <2>8. QED BY <2>3, <2>6, <2>7, WitnessStays DEF Recorded, Becomes
<1>3. QED BY <1>1, <1>2

LEMMA UncountedBefore ==
  ASSUME Typed, NEW p \in Procs, Steps(p), pc'[p] \in Uncounted PROVE pc[p] \in Uncounted
<1>0. TypeOK BY DEF Typed
<1>1. ~ Exit(p) /\ \A m : ~ RecordNext(p, m)
  BY <1>0, ExitIsMine, RecordNextIsMine DEF Uncounted, CreatePcs, ReconcileCreatePcs
<1>2. CASE PlanScan(p) \/ PlanCheck(p) \/ MarkSend(p) \/ Send(p)
  BY <1>0, <1>1, <1>2 DEF PlanScan, PlanCheck, MarkSend, AuditFailure, Send, DefiniteFailure, Goto,
     TypeOK, Uncounted, CreatePcs, ReconcileCreatePcs
<1>3. CASE PlanStore(p) \/ Reconcile(p) \/ Record(p) \/ Stop(p)
  BY <1>1, <1>3 DEF PlanStore, Reconcile, Record, Stop
<1>4. CASE ~ (PlanScan(p) \/ PlanCheck(p) \/ MarkSend(p) \/ Send(p)
                \/ PlanStore(p) \/ Reconcile(p) \/ Record(p) \/ Stop(p))
  BY <1>4 DEF Steps, Planning, Executing, Identity, Claim, Client, StartScan, Create, MarkReconcile,
     ReconcileCreate, MarkCreated, CountFirst, Uncounted, CreatePcs, ReconcileCreatePcs
<1>5. QED BY <1>2, <1>3, <1>4

LEMMA CountedOnceStep ==
  ASSUME Typed, Witnessed, [Next]_vars, NEW p \in Procs PROVE CountedOnce(p)'
<1> SUFFICES ASSUME pc'[p] \in Uncounted PROVE op'[p].matched = 0 BY DEF CountedOnce
<1>1. CASE pc'[p] = pc[p] /\ op'[p] = op[p] BY <1>1 DEF Witnessed, CountedOnce
<1>2. CASE Open(p) BY <1>2, OpenHolds
<1>3. CASE Steps(p)
  <2>1. op[p].matched = 0 BY <1>3, UncountedBefore DEF Witnessed, CountedOnce
  <2>2. pc'[p] \notin {"down", "mark_send"} BY DEF Uncounted, CreatePcs, ReconcileCreatePcs
  <2>3. QED BY <1>3, <2>1, <2>2, StepMoves DEF Moves, MatchedMoves
<1>4. QED BY <1>1, <1>2, <1>3, ControlChange

LEMMA WitnessKnownStep ==
  ASSUME Typed, Execution, Bound, Witnessed, [Next]_vars, NEW p \in Procs PROVE WitnessKnown(p)'
<1> SUFFICES ASSUME NEW c, op'[p].cid = c, Live(c)',
                    \/ pc'[p] = "mark_send" /\ op'[p].matched = 1
                    \/ pc'[p] = "record" /\ op'[p].mark = ReconciledMark
             PROVE  Witness(c)'
  BY DEF WitnessKnown, Live, Witness
<1>1. pc'[p] \notin NotWorking /\ pc'[p] # "client" BY DEF NotWorking, PlanningPcs
<1>2. c \in PlanIds /\ Resumes(p, c) BY <1>1, WorkGoesOn DEF Begins
<1>3. op[p].cid = c /\ Live(c) /\ Kept(c) BY <1>2 DEF Resumes
<1>4. SUFFICES Witness(c) BY <1>2, <1>3, WitnessStays
<1>5. CASE pc'[p] = pc[p] /\ op'[p] = op[p] BY <1>3, <1>5 DEF Witnessed, WitnessKnown
<1>6. CASE Steps(p) /\ pc'[p] = "mark_send" /\ op'[p].matched = 1
  <2>1. pc[p] \in (BeforeSend \ {"send"}) \cup {"claim"}
    BY <1>6, WorkOrder DEF BeforeSend, FirstSendPcs
  <2>2. CASE op'[p].matched = op[p].matched
    <3>1. pc[p] \notin Uncounted BY <1>6, <2>2 DEF Witnessed, CountedOnce
    <3>2. pc[p] = "mark_send"
      BY <2>1, <3>1 DEF BeforeSend, BeforeCreate, CreatePcs, ReconcileCreatePcs, FirstSendPcs, Uncounted
    <3>3. QED BY <1>3, <1>6, <2>2, <3>2 DEF Witnessed, WitnessKnown
  <2>3. CASE pc[p] = "count_first" /\ 1 \in Counts(p) BY <1>3, <2>3, CountFindsWitness
  <2>4. MatchedMoves(p) BY <1>6, StepMoves DEF Moves
  <2>5. QED BY <1>6, <2>2, <2>3, <2>4 DEF MatchedMoves
<1>7. CASE Steps(p) /\ pc'[p] = "record" /\ op'[p].mark = ReconciledMark
  <2>1. MarkOrigin(p, ReconciledMark) BY <1>7, MarksRecorded
  <2>2. \/ pc[p] = "mark_send" /\ op[p].matched = 1
        \/ pc[p] = "reconcile" /\ 1 \in Counts(p)
    BY <2>1, MarksDiffer DEF MarkOrigin
  <2>3. QED BY <1>3, <2>2, CountFindsWitness DEF Witnessed, WitnessKnown
<1>8. QED BY <1>5, <1>6, <1>7, ControlChange, OpenHolds

LEMMA WitnessedStep == Sound /\ Bound /\ Witnessed /\ [Next]_vars => Witnessed'
  BY WitnessOfStep, CountedOnceStep, WitnessKnownStep DEF Witnessed, Sound

(* sent_reconciled rests on a message of that text in that conversation,   *)
(* or a conversation for that listing, not older than the plan by more     *)
(* than the window.                                                        *)
THEOREM ReconciledRests == Spec => []ReconciledHasWitness
<1>1. Witnessed => ReconciledHasWitness
  BY DEF Witnessed, WitnessOf, Witness, ReconciledHasWitness
<1>2. QED BY <1>1, SoundInit, SoundStep, BoundInit, BoundStep, WitnessedInit, WitnessedStep, PTL DEF Spec

-----------------------------------------------------------------------------
(* A plan over a possible delivery is acknowledged.                        *)

KnownStay(p) ==
  pc[p] # "down" => \A d \in op[p].known : plans[d].stage \in {"outcome_unknown", "deleted"}
StoreIsCleared(p) ==
  pc[p] = "plan_store" =>
    \A d \in op[p].known : Repeats(p, d) => op[p].ack \in PlanIds /\ Repeats(p, op[p].ack)
Cleared == \A p \in Procs : KnownStay(p) /\ StoreIsCleared(p)

LEMMA ClearedInit == Init => Cleared
  BY DEF Init, Cleared, KnownStay, StoreIsCleared

(* An unknown outcome stays until a sign-in or a logout deletes the plans  *)
(* of its account, all at once.                                            *)
LEMMA UnknownStays ==
  ASSUME Typed, [Next]_vars, NEW c \in PlanIds, plans[c].stage = "outcome_unknown"
  PROVE  \/ plans'[c] = plans[c]
         \/ plans' = DeletePlansOf(account) /\ plans[c].acct = account
              /\ plans'[c].stage = "deleted"
<1>1. ~ InFlight(c) /\ plans[c].stage \notin {"absent", "planned"} BY DEF InFlight, InFlightStages
<1>2. ASSUME NEW p \in Procs, Steps(p) PROVE plans'[c] = plans[c]
  BY <1>1, <1>2, StepTouches DEF Touches, Stored, Consumed, Lapsed, Advanced, Located, Recorded
<1>3. CASE plans' = Recovered BY <1>1, <1>3, RecoveredRows DEF GivenUp
<1>4. CASE plans' = DeletePlansOf(account)
  <2>1. plans'[c] = IF Issued(c) /\ plans[c].acct = account THEN NoPlanRow("deleted") ELSE plans[c]
    BY <1>4 DEF DeletePlansOf
  <2>2. QED BY <1>4, <2>1 DEF NoPlanRow
<1>5. CASE UNCHANGED plans BY <1>5
<1>6. QED BY <1>2, <1>3, <1>4, <1>5, NextSteps
  DEF Open, Environment, OpenOther, Apply, Elsewhere, Login, Logout, Tick, vars

LEMMA KnownStayStep ==
  ASSUME Typed, Cleared, [Next]_vars, NEW p \in Procs PROVE KnownStay(p)'
<1> SUFFICES ASSUME pc'[p] # "down", NEW d \in op'[p].known
             PROVE  plans'[d].stage \in {"outcome_unknown", "deleted"}
  BY DEF KnownStay
<1>1. CASE Open(p) BY <1>1, OpenHolds
<1>2. CASE pc[p] # "down" /\ op'[p].known = op[p].known
  <2>1. plans[d].stage \in {"outcome_unknown", "deleted"} BY <1>2 DEF Cleared, KnownStay
  <2>2. d \in PlanIds
    <3>1. op[p] \in Op BY DEF Typed, TypeOK
    <3>2. QED BY <1>2, <3>1 DEF Op
  <2>3. QED BY <2>1, <2>2, UnknownStays, IssuedStays DEF Issued
<1>3. QED BY <1>1, <1>2, ControlChange, StepMoves DEF Moves, HoldsSame

(* What planning looks up contains every matching attempt it knows.        *)
LEMMA CheckClears ==
  ASSUME Typed, Bound, NEW p \in Procs, PlanCheck(p), NEW d \in PlanIds, Repeats(p, d)
  PROVE  op[p].ack \in PlanIds /\ Repeats(p, op[p].ack)
<1> DEFINE exact == ForBindings("outcome_unknown", op[p].acct, op[p].target, op[p].text)
           other == ForConversation("outcome_unknown", op[p].acct, op[p].target, op[p].text)
           found == Find("outcome_unknown", op[p].acct, op[p].target, op[p].text)
<1>1. exact \in SUBSET PlanIds /\ other \in SUBSET PlanIds BY DEF ForBindings, ForConversation
<1>2. \A c \in exact \cup other : Repeats(p, c) BY DEF ForBindings, ForConversation, Repeats
<1>3. CASE exact # {}
  <2>1. found = Latest(exact) BY <1>3 DEF Find
  <2>2. found # {} /\ found \subseteq exact BY <1>1, <1>3, <2>1, LatestExists DEF Latest
  <2>3. op[p].ack \in exact BY <2>2 DEF PlanCheck
  <2>4. QED BY <1>1, <1>2, <2>3
<1>4. CASE exact = {}
  <2>1. op[p].target = plans[d].outcome.conv BY <1>4 DEF ForBindings, Repeats
  <2>2. op[p].target \in ConvIds
    <3>1. op[p].target \in Targets BY DEF PlanCheck, Bound, CommandBound
    <3>2. plans[d] \in Plan BY DEF Typed, TypeOK, PlansTypeOK
    <3>3. plans[d].outcome.conv \in ConvIds \cup {NoConv} BY <3>2 DEF Plan
    <3>4. QED BY <2>1, <3>1, <3>3, NullsAssumption DEF Targets
  <2>3. d \in other BY <2>1 DEF ForConversation, Repeats
  <2>4. found = Latest(other) BY <1>4, <2>2 DEF Find
  <2>5. found # {} /\ found \subseteq other BY <1>1, <2>3, <2>4, LatestExists DEF Latest
  <2>6. op[p].ack \in other BY <2>5 DEF PlanCheck
  <2>7. QED BY <1>1, <1>2, <2>6
<1>5. QED BY <1>3, <1>4

LEMMA StoreComesFromCheck ==
  ASSUME Typed, NEW p \in Procs, Steps(p), pc'[p] = "plan_store"
  PROVE  PlanCheck(p) /\ op'[p] = op[p]
<1>0. TypeOK BY DEF Typed
<1>1. ~ Exit(p) /\ (\A m : ~ RecordNext(p, m)) /\ (\A s : Goto(p, s) => s = "plan_store")
  BY <1>0, ExitIsMine, RecordNextIsMine DEF Goto, TypeOK
<1>2. CASE PlanCheck(p) BY <1>2 DEF PlanCheck
<1>3. CASE Identity(p) \/ PlanScan(p) \/ PlanStore(p) \/ Stop(p)
  BY <1>1, <1>3 DEF Identity, PlanScan, PlanStore, Stop
<1>4. CASE Executing(p)
  BY <1>1, <1>4 DEF Executing, Claim, Client, StartScan, Create, DefiniteFailure, MarkReconcile,
     AuditFailure, ReconcileCreate, MarkCreated, CountFirst, MarkSend, Send, Reconcile, Record
<1>5. QED BY <1>2, <1>3, <1>4 DEF Steps, Planning

LEMMA StoreIsClearedStep ==
  ASSUME Typed, Bound, Cleared, [Next]_vars, NEW p \in Procs PROVE StoreIsCleared(p)'
<1> SUFFICES ASSUME NEW d, NEW a, op'[p].ack = a, pc'[p] = "plan_store", d \in op'[p].known,
                    Repeats(p, d)'
             PROVE  a \in PlanIds /\ Repeats(p, a)'
  BY DEF StoreIsCleared, Repeats
<1>1. op'[p] = op[p] /\ (pc[p] = "plan_store" \/ PlanCheck(p))
  BY ControlChange, StoreComesFromCheck, OpenHolds
<1>2. plans[d].stage \in {"outcome_unknown", "deleted"} /\ d \in PlanIds
  <2>1. op[p] \in Op /\ pc[p] # "down" BY <1>1 DEF Typed, TypeOK, PlanCheck
  <2>2. QED BY <1>1, <2>1 DEF Op, Cleared, KnownStay
<1>3. plans'[d].stage = "outcome_unknown" BY DEF Repeats
<1>4. plans[d].stage = "outcome_unknown" BY <1>2, <1>3, IssuedStays DEF Issued
<1>5. plans'[d] = plans[d] BY <1>2, <1>3, <1>4, UnknownStays
<1>6. Repeats(p, d) BY <1>1, <1>5 DEF Repeats
<1>7. a \in PlanIds /\ Repeats(p, a)
  BY <1>1, <1>2, <1>6, CheckClears DEF Cleared, StoreIsCleared
<1>8. CASE plans'[a] = plans[a] BY <1>1, <1>7, <1>8 DEF Repeats
<1>9. CASE plans' = DeletePlansOf(account) /\ plans[a].acct = account
  <2>1. plans[d].acct = account /\ Issued(d) BY <1>4, <1>6, <1>7, <1>9 DEF Repeats, Issued
  <2>2. plans'[d] = NoPlanRow("deleted") BY <1>2, <1>9, <2>1 DEF DeletePlansOf
  <2>3. QED BY <1>3, <2>2 DEF NoPlanRow
<1>10. plans[a].stage = "outcome_unknown" BY <1>7 DEF Repeats
<1>11. QED BY <1>7, <1>8, <1>9, <1>10, UnknownStays

LEMMA ClearedStep == Sound /\ Bound /\ Cleared /\ [Next]_vars => Cleared'
  BY KnownStayStep, StoreIsClearedStep DEF Cleared, Sound

(* A dry run that started after an attempt with the same effect was known  *)
(* to be unresolved stores its plan only if the user acknowledged one such *)
(* attempt, whatever other commands do in between.                         *)
THEOREM RepeatsAreAcknowledged == Spec => DuplicateIsAcknowledged
<1> DEFINE Acknowledges ==
      \A p \in Procs :
        (pc[p] = "plan_store" /\ plans' # plans /\ pc'[p] = "down") =>
          \A d \in op[p].known : Repeats(p, d) => op[p].ack \in PlanIds /\ Repeats(p, op[p].ack)
<1>1. Cleared /\ [Next]_vars => Acknowledges BY DEF Cleared, StoreIsCleared
<1>2. Cleared /\ [Next]_vars => [Acknowledges]_vars BY <1>1
<1>3. QED
  BY <1>2, SoundInit, SoundStep, BoundInit, BoundStep, ClearedInit, ClearedStep, PTL
  DEF Spec, DuplicateIsAcknowledged
=============================================================================
