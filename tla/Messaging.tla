------------------------------ MODULE Messaging ------------------------------
(***************************************************************************)
(* kcli dm reply and kcli dm start (internal/app/messaging.go): several    *)
(* processes of one profile share the confirmation table, the signed-in    *)
(* account and the remote inbox.  A process runs one command: it opens the *)
(* database, and either plans (dry run) or executes a confirmed plan.  A   *)
(* step is one database statement, one transaction or one remote request;  *)
(* a process may stop between any two of them.                             *)
(***************************************************************************)
EXTENDS ConfirmationPlans, FiniteSets

CONSTANTS
  Procs,
  Normal,            \* normalizeMessageForReconciliation, a function on Texts
  Human,             \* author of messages not sent by this program
  NoPlan,
  ReconcileWindow,   \* messageReconcileWindow, in ticks
  InitialConvs,      \* conversations the inbox holds at the start
  MaxElsewhere,      \* bound on what other devices do to the inbox
  MaxLogins          \* bound on logins and logouts

ASSUME MessagingAssumption ==
  /\ ReconcileWindow \in Nat
  /\ Normal \in [Texts -> Texts]
  /\ Human \notin PlanIds /\ NoPlan \notin PlanIds
  /\ InitialConvs \in [ConvIds -> [acct : Accounts \cup {NoAccount},
                                   listing : Listings \cup {NoTarget}]]

VARIABLES
  account, loginRequired,   \* meta rows of the signed-in account
  convs,        \* remote: the conversations
  messages,     \* remote: delivered messages
  pending,      \* remote: accepted sends not applied yet
  pc, op,       \* per process: next step and local variables
  sends, creates,           \* history: POSTs attempted per confirmation
  elsewhere, logins         \* counters behind the bounds

session == <<account, loginRequired>>
remote == <<convs, messages, pending, elsewhere>>
tries == <<sends, creates>>
vars == <<plans, now, session, remote, pc, op, tries, logins>>

-----------------------------------------------------------------------------
PlanningPcs == {"identity", "plan_scan", "plan_check", "plan_store"}
CreatePcs == {"start_scan", "create"}
ReconcileCreatePcs == {"mark_reconcile", "reconcile_create"}
FirstSendPcs == {"mark_created", "count_first", "mark_send"}
Pcs == {"down", "claim", "client", "send", "reconcile", "record"}
         \cup PlanningPcs \cup CreatePcs \cup ReconcileCreatePcs \cup FirstSendPcs

Mark(stage, outcome) == [stage |-> stage, outcome |-> outcome]
FailedMark == Mark("failed_definite", Outcome("failed_definite", NoConv))
SentMark == Mark("sent", Outcome("sent", NoConv))
ReconciledMarkPlain == SentMark   \* mutant
ReconciledMark == Mark("sent", Outcome("sent_reconciled", NoConv))
WarningMark(k) == Mark("warning_blocked", Outcome("warning", k))
UnknownMark(k) == Mark("outcome_unknown", Outcome("outcome_unknown", k))

Marks == {FailedMark, SentMark, ReconciledMark}
           \cup UNION {{WarningMark(k), UnknownMark(k)} : k \in ConvIds \cup {NoConv}}

(* The local variables of a command.  known is history: the plans whose    *)
(* outcome was unknown when a dry run opened the database.                 *)
Op == [cid : PlanIds \cup {NoPlan}, ack : PlanIds \cup {NoPlan},
       target : Targets \cup {NoTarget}, text : Texts \cup {NoText},
       acct : Accounts \cup {NoAccount}, client : Accounts \cup {NoAccount},
       conv : ConvIds \cup {NoConv}, at : 0..MaxTime,
       matched : 0..1, viaReconcile : BOOLEAN,
       mark : Marks, known : SUBSET PlanIds]

NoOp == [cid |-> NoPlan, ack |-> NoPlan, target |-> NoTarget, text |-> NoText,
         acct |-> NoAccount, client |-> NoAccount, conv |-> NoConv, at |-> 0,
         matched |-> 0, viaReconcile |-> FALSE, mark |-> FailedMark, known |-> {}]

NoConvRow == [acct |-> NoAccount, listing |-> NoTarget]
Conversation == [acct : Accounts \cup {NoAccount}, listing : Listings \cup {NoTarget}]
Authors == PlanIds \cup {Human}
Message == [conv : ConvIds \cup {NoConv}, text : Texts \cup {NoText},
            by : Authors, at : 0..MaxTime]
Request == [conv : ConvIds \cup {NoConv}, text : Texts \cup {NoText}, by : Authors]

TypeOK ==
  /\ PlansTypeOK
  /\ account \in Accounts \cup {NoAccount} /\ loginRequired \in BOOLEAN
  /\ convs \in [ConvIds -> Conversation]
  /\ messages \subseteq Message /\ pending \subseteq Request
  /\ pc \in [Procs -> Pcs] /\ op \in [Procs -> Op]
  /\ sends \in [PlanIds -> Nat] /\ creates \in [PlanIds -> Nat]
  /\ elsewhere \in Nat /\ logins \in Nat

Init ==
  /\ PlansInit
  /\ account \in Accounts \cup {NoAccount} /\ loginRequired = FALSE
  /\ convs = InitialConvs
  /\ messages = {} /\ pending = {}
  /\ pc = [p \in Procs |-> "down"] /\ op = [p \in Procs |-> NoOp]
  /\ sends = [c \in PlanIds |-> 0] /\ creates = [c \in PlanIds |-> 0]
  /\ elsewhere = 0 /\ logins = 0

-----------------------------------------------------------------------------
Goto(p, next) == pc' = [pc EXCEPT ![p] = next]
Exit(p) == Goto(p, "down") /\ op' = [op EXCEPT ![p] = NoOp]
RecordNext(p, mark) == Goto(p, "record") /\ op' = [op EXCEPT ![p].mark = mark]

LoggedIn == account # NoAccount /\ ~ loginRequired
ConvsOf(acct, listing) == {k \in ConvIds : convs[k] = [acct |-> acct, listing |-> listing]}
FreeConvs == {k \in ConvIds : convs[k] = NoConvRow}
IsReply(p) == op[p].target \in ConvIds

(* The server applies a request only for the account whose session signs it. *)
Authorized(p) == LoggedIn /\ account = op[p].client

-----------------------------------------------------------------------------
Command(cid, ack, target, text, known) ==
  [NoOp EXCEPT !.cid = cid, !.ack = ack, !.target = target, !.text = text, !.known = known]

(* state.Open, which recovers stale plans, and the command's arguments:    *)
(* --dry-run, perhaps acknowledging a plan, or --confirm of a drawn ID.    *)
Open(p) ==
  /\ pc[p] = "down"
  /\ plans' = Recovered
  /\ \E target \in Targets, text \in Texts, cid, ack \in PlanIds \cup {NoPlan} :
       /\ cid = NoPlan \/ ack = NoPlan
       /\ \A c \in {cid, ack} \cap PlanIds : Issued(c)
       /\ op' = [op EXCEPT ![p] = Command(cid, ack, target, text,
                    {c \in PlanIds : cid = NoPlan /\ plans'[c].stage = "outcome_unknown"})]
  /\ Goto(p, "identity")
  /\ UNCHANGED <<now, session, remote, tries, logins>>

(* Any other command of the profile opens the database and recovers, too. *)
OpenOther ==
  /\ \E c \in PlanIds : Stale(c)
  /\ plans' = Recovered
  /\ UNCHANGED <<now, session, remote, pc, op, tries, logins>>

(* messagingIdentity *)
Identity(p) ==
  /\ pc[p] = "identity"
  /\ \/ /\ LoggedIn
        /\ op' = [op EXCEPT ![p].acct = account]
        /\ Goto(p, IF op[p].cid = NoPlan THEN "plan_scan" ELSE "claim")
     \/ ~ LoggedIn /\ Exit(p)
  /\ UNCHANGED <<plans, now, session, remote, tries, logins>>

(* dmReplyPlan, dmStartPlan: dmClient, then the inbox scan.  A reply needs *)
(* its conversation, a start a complete scan without one for the listing.  *)
PlanScan(p) ==
  /\ pc[p] = "plan_scan"
  /\ LoggedIn
  /\ IF IsReply(p) THEN convs[op[p].target].acct = account
                   ELSE ConvsOf(account, op[p].target) = {}
  /\ Goto(p, "plan_check")
  /\ UNCHANGED <<plans, now, session, remote, op, tries, logins>>

(* createMessagingPlan, the lookups.  What they find stays found (only a   *)
(* logout removes it), so they are one step.  A warning acknowledgement    *)
(* ends in an error whether or not a warning is found.                     *)
PlanCheck(p) ==
  LET Found(stage) == Find(stage, op[p].acct, op[p].target, op[p].text)
  IN  /\ pc[p] = "plan_check"
      /\ \/ Found("outcome_unknown") = {} /\ op[p].ack = NoPlan
         \/ op[p].ack \in Found("outcome_unknown")
      /\ Found("warning_blocked") = {}
      /\ Goto(p, "plan_store")
      /\ UNCHANGED <<plans, now, session, remote, op, tries, logins>>

PlanStore(p) ==
  /\ pc[p] = "plan_store"
  /\ \E c \in PlanIds : CreatePlan(c, op[p].acct, op[p].target, op[p].text)
  /\ Exit(p)
  /\ UNCHANGED <<now, session, remote, tries, logins>>

(* claimMessagingPlan *)
Claim(p) ==
  LET c == op[p].cid
      answer == ClaimAnswer(c, op[p].acct, op[p].target, op[p].text)
  IN  /\ pc[p] = "claim"
      /\ \/ /\ answer = "claimed"
            /\ ConsumePlan(c, op[p].target)
            /\ Goto(p, "client")
            /\ UNCHANGED op
         \/ answer = "expired" /\ ExpirePlan(c) /\ Exit(p)
         \/ answer \notin {"claimed", "expired"} /\ UNCHANGED plans /\ Exit(p)
      /\ UNCHANGED <<now, session, remote, tries, logins>>

-----------------------------------------------------------------------------
(* dmClient after the claim: it reads the signed-in account again. *)
Client(p) ==
  /\ pc[p] = "client"
  /\ \/ /\ LoggedIn
        /\ op' = [op EXCEPT ![p].client = account,
                            ![p].conv = IF IsReply(p) THEN op[p].target ELSE NoConv]
        /\ Goto(p, IF IsReply(p) THEN "send" ELSE "start_scan")
     \/ ~ LoggedIn /\ RecordNext(p, FailedMark)
  /\ UNCHANGED <<plans, now, session, remote, tries, logins>>

(* DMStart's second scan: a request that fails, an inbox too long to scan  *)
(* or an existing conversation fail the plan.                              *)
StartScan(p) ==
  /\ pc[p] = "start_scan"
  /\ \/ /\ Authorized(p) /\ ConvsOf(account, op[p].target) = {}
        /\ Goto(p, "create") /\ UNCHANGED op
     \/ RecordNext(p, FailedMark)
  /\ UNCHANGED <<plans, now, session, remote, tries, logins>>

(* A request fails for certain: it was never written, or was answered with *)
(* an error that says so; a 401 also invalidates the local session.        *)
DefiniteFailure(p) ==
  /\ RecordNext(p, FailedMark)
  /\ loginRequired' \in {loginRequired, TRUE}
  /\ UNCHANGED account

(* CreateConversation: one POST.  The server opens a conversation, or      *)
(* answers with the one another device opened since the scan.              *)
Opens(p, k) ==
  /\ Authorized(p)
  /\ \/ k \in ConvsOf(account, op[p].target) /\ UNCHANGED convs
     \/ /\ ConvsOf(account, op[p].target) = {} /\ k \in FreeConvs
        /\ convs' = [convs EXCEPT ![k] = [acct |-> account, listing |-> op[p].target]]

Create(p) ==
  /\ pc[p] = "create"
  /\ creates' = [creates EXCEPT ![op[p].cid] = @ + 1]
  /\ \/ \E k \in ConvIds :
          /\ Opens(p, k)
          /\ op' = [op EXCEPT ![p].conv = k, ![p].at = now]
          /\ Goto(p, "mark_created")
          /\ UNCHANGED session
     \/ DefiniteFailure(p) /\ UNCHANGED convs
     \/ /\ (\E k \in ConvIds : Opens(p, k)) \/ UNCHANGED convs
        /\ op' = [op EXCEPT ![p].at = now]
        /\ Goto(p, "mark_reconcile")
        /\ UNCHANGED session
  /\ UNCHANGED <<plans, now, messages, pending, elsewhere, sends, logins>>

(* A stage update that affects no row ends the command with an audit error. *)
AuditFailure(p, stage) ==
  /\ plans[op[p].cid].stage \notin MarkFrom(stage, NoConv)
  /\ Exit(p)
  /\ UNCHANGED plans

(* reconcileAmbiguousCreate: MarkReconcileCreate ... *)
MarkReconcile(p) ==
  /\ pc[p] = "mark_reconcile"
  /\ \/ AdvanceStage(op[p].cid, "reconcile_create") /\ Goto(p, "reconcile_create") /\ UNCHANGED op
     \/ AuditFailure(p, "reconcile_create")
  /\ UNCHANGED <<now, session, remote, tries, logins>>

(* ... and the inbox page: exactly one conversation for the listing is the *)
(* created one (the scan before the create saw none, so it needs no        *)
(* comparison); none, several, a full page or an error leave it unknown.   *)
ReconcileCreate(p) ==
  LET candidates == ConvsOf(account, op[p].target)
  IN  /\ pc[p] = "reconcile_create"
      /\ \/ /\ Authorized(p) /\ Cardinality(candidates) = 1
            /\ \E k \in candidates :
                 op' = [op EXCEPT ![p].conv = k, ![p].viaReconcile = TRUE]
            /\ Goto(p, "mark_created")
         \/ RecordNext(p, UnknownMark(NoConv))
      /\ UNCHANGED <<plans, now, session, remote, tries, logins>>

MarkCreated(p) ==
  /\ pc[p] = "mark_created"
  /\ \/ /\ Transition(op[p].cid, "conversation_created", Outcome("conversation", op[p].conv))
        /\ Goto(p, IF op[p].viaReconcile THEN "count_first" ELSE "mark_send")
        /\ UNCHANGED op
     \/ AuditFailure(p, "conversation_created")
  /\ UNCHANGED <<now, session, remote, tries, logins>>

(* Mutant: no window. *)
MatchingEver(p) ==
  {m \in messages : m.conv = op[p].conv /\ Normal[m.text] = Normal[op[p].text]}

(* reconcileMessageCount: own messages of the conversation with the same   *)
(* normalized text, timestamped within the window around the attempt.      *)
Matching(p) ==
  {m \in messages : /\ m.conv = op[p].conv
                    /\ Normal[m.text] = Normal[op[p].text]
                    /\ m.at + ReconcileWindow >= op[p].at
                    /\ m.at <= op[p].at + ReconcileWindow}

(* DMGet reads the account anew; a message without a timestamp is skipped. *)
Readable(p) == LoggedIn /\ convs[op[p].conv].acct = account
Counts(p) == {Cardinality(M) : M \in SUBSET Matching(p)}

CountFirst(p) ==
  /\ pc[p] = "count_first"
  /\ \/ /\ Readable(p)
        /\ \E n \in Counts(p) \cap {0, 1} : op' = [op EXCEPT ![p].matched = n]
        /\ Goto(p, "mark_send")
     \/ RecordNext(p, UnknownMark(op[p].conv))
  /\ UNCHANGED <<plans, now, session, remote, tries, logins>>

MarkSend(p) ==
  /\ pc[p] = "mark_send"
  /\ \/ /\ AdvanceStage(op[p].cid, "executing_send")
        /\ \/ op[p].matched = 1 /\ RecordNext(p, ReconciledMark)
           \/ op[p].matched = 0 /\ Goto(p, "send") /\ UNCHANGED op
     \/ AuditFailure(p, "executing_send")
  /\ UNCHANGED <<now, session, remote, tries, logins>>

-----------------------------------------------------------------------------
(* attemptMessageSend: one POST, answered with success, with a content     *)
(* warning that blocked it, with a definite failure, or not usefully; in   *)
(* the last case it was applied, will be, or never is.                     *)
SendRequest(p) == [conv |-> op[p].conv, text |-> op[p].text, by |-> op[p].cid]
Stamped(m) == [conv |-> m.conv, text |-> m.text, by |-> m.by, at |-> now]
Deliverable(p) == Authorized(p) /\ convs[op[p].conv].acct = account
Delivers(p) == /\ Deliverable(p)
               /\ messages' = messages \cup {Stamped(SendRequest(p))}
               /\ UNCHANGED pending

Send(p) ==
  /\ pc[p] = "send"
  /\ sends' = [sends EXCEPT ![op[p].cid] = @ + 1]
  /\ \/ Delivers(p) /\ RecordNext(p, SentMark) /\ UNCHANGED session
     \/ Deliverable(p) /\ RecordNext(p, WarningMark(op[p].conv))
          /\ UNCHANGED <<messages, pending, session>>
     \/ DefiniteFailure(p) /\ UNCHANGED <<messages, pending>>
     \/ /\ \/ Delivers(p)
           \/ /\ Deliverable(p)
              /\ pending' = pending \cup {SendRequest(p)}
              /\ UNCHANGED messages
           \/ UNCHANGED <<messages, pending>>
        /\ op' = [op EXCEPT ![p].at = now]
        /\ Goto(p, "reconcile")
        /\ UNCHANGED session
  /\ UNCHANGED <<plans, now, convs, elsewhere, creates, logins>>

(* Mutant: a message that is not found is taken for not sent. *)
ReconcileAbsent(p) ==
  /\ pc[p] = "reconcile"
  /\ \/ Readable(p) /\ 1 \in Counts(p) /\ RecordNext(p, ReconciledMark)
     \/ RecordNext(p, FailedMark)
  /\ UNCHANGED <<plans, now, session, remote, tries, logins>>

(* reconcileMessage: only a unique match counts as this send. *)
Reconcile(p) ==
  /\ pc[p] = "reconcile"
  /\ \/ Readable(p) /\ 1 \in Counts(p) /\ RecordNext(p, ReconciledMark)
     \/ RecordNext(p, UnknownMark(op[p].conv))
  /\ UNCHANGED <<plans, now, session, remote, tries, logins>>

(* MarkSent, MarkWarningBlockedForConversation, MarkFailedDefinite,        *)
(* MarkOutcomeUnknown, MarkOutcomeUnknownForConversation: the last step.   *)
Record(p) ==
  LET mark == op[p].mark
  IN  /\ pc[p] = "record"
      /\ \/ Transition(op[p].cid, mark.stage, mark.outcome)
         \/ /\ plans[op[p].cid].stage \notin MarkFrom(mark.stage, mark.outcome.conv)
            /\ UNCHANGED plans
      /\ Exit(p)
      /\ UNCHANGED <<now, session, remote, tries, logins>>

(* The process ends: an error return of a dry run, a failed statement, a   *)
(* signal or a crash.  Nothing is undone.                                  *)
Stop(p) ==
  /\ pc[p] # "down"
  /\ Exit(p)
  /\ UNCHANGED <<plans, now, session, remote, tries, logins>>

-----------------------------------------------------------------------------
(* The server applies a send whose client had given up waiting. *)
Apply ==
  /\ \E m \in pending : /\ messages' = messages \cup {Stamped(m)}
                        /\ pending' = pending \ {m}
  /\ UNCHANGED <<plans, now, session, convs, elsewhere, pc, op, tries, logins>>

(* The user opens a conversation or writes from another device.  A create  *)
(* applied after its client gave up looks the same.                        *)
Elsewhere ==
  /\ elsewhere < MaxElsewhere
  /\ elsewhere' = elsewhere + 1
  /\ \/ \E k \in FreeConvs, a \in Accounts, l \in Listings :
          /\ convs' = [convs EXCEPT ![k] = [acct |-> a, listing |-> l]]
          /\ UNCHANGED messages
     \/ \E k \in ConvIds \ FreeConvs, text \in Texts :
          /\ messages' = messages \cup
               {Stamped([conv |-> k, text |-> text, by |-> Human])}
          /\ UNCHANGED convs
  /\ UNCHANGED <<plans, now, session, pending, pc, op, tries, logins>>

(* AuthStoreAccount: signing in as another account deletes the data, the   *)
(* plans included, of the previous one.                                    *)
Login ==
  /\ logins < MaxLogins /\ logins' = logins + 1
  /\ account' \in Accounts /\ loginRequired' = FALSE
  /\ plans' = IF account \in Accounts \ {account'} THEN DeletePlansOf(account) ELSE plans
  /\ UNCHANGED <<now, remote, pc, op, tries>>

(* AuthLogout *)
Logout ==
  /\ logins < MaxLogins /\ logins' = logins + 1
  /\ account' = NoAccount /\ loginRequired' = FALSE
  /\ plans' = DeletePlansOf(account)
  /\ UNCHANGED <<now, remote, pc, op, tries>>

Tick ==
  /\ now < MaxTime
  /\ now' = now + 1
  /\ UNCHANGED <<plans, session, remote, pc, op, tries, logins>>

Planning(p) == Identity(p) \/ PlanScan(p) \/ PlanCheck(p) \/ PlanStore(p)
Executing(p) ==
  \/ Claim(p) \/ Client(p) \/ StartScan(p) \/ Create(p)
  \/ MarkReconcile(p) \/ ReconcileCreate(p) \/ MarkCreated(p)
  \/ CountFirst(p) \/ MarkSend(p)
  \/ Send(p) \/ Reconcile(p) \/ Record(p)
Process(p) == Open(p) \/ Planning(p) \/ Executing(p) \/ Stop(p)
Environment == OpenOther \/ Apply \/ Elsewhere \/ Login \/ Logout \/ Tick

Next == (\E p \in Procs : Process(p)) \/ Environment

Spec == Init /\ [][Next]_vars

-----------------------------------------------------------------------------
By(c) == {m \in messages : m.by = c}
PendingBy(c) == {m \in pending : m.by = c}
Outgoing(c) == By(c) # {} \/ PendingBy(c) # {}

(* At most one create and one send are attempted for a confirmation,       *)
(* whatever commands run, crash and are run again (dm start's promise).    *)
AtMostOneAttempt == \A c \in PlanIds : sends[c] <= 1 /\ creates[c] <= 1

(* A confirmation that was not executed, or is reported to have failed or  *)
(* to have been blocked, has delivered nothing and never will.             *)
DenialIsTrue ==
  \A c \in PlanIds :
    plans[c].stage \in {"absent", "planned", "expired", "failed_definite", "warning_blocked"}
      => ~ Outgoing(c)

(* A confirmation reported as sent, not as sent_reconciled, was delivered. *)
SentIsTrue == \A c \in PlanIds : plans[c].outcome.tag = "sent" => By(c) # {}

(* sent_reconciled rests on a message of that text in that conversation,   *)
(* or a conversation for that listing, written since shortly before the    *)
(* plan existed.  It may be a message another device sent.                 *)
ReconciledHasWitness ==
  \A c \in PlanIds :
    plans[c].outcome.tag = "sent_reconciled" =>
      \E m \in messages :
        /\ Normal[m.text] = Normal[plans[c].text]
        /\ plans[c].target \in {m.conv, convs[m.conv].listing}
        /\ m.at + ReconcileWindow >= plans[c].created

(* The message that goes out is the one that was confirmed.                *)
DeliveredAsConfirmed ==
  \A c \in PlanIds : \A m \in By(c) \cup PendingBy(c) :
    plans[c].stage # "deleted" =>
      /\ m.text = plans[c].text
      /\ plans[c].target \in {m.conv, convs[m.conv].listing}
      /\ convs[m.conv].acct = plans[c].acct

(* A message that may have gone out unnoticed stays visible to planning: a *)
(* reply with its text in its conversation finds an unresolved plan, also  *)
(* when a dm start sent it and its process crashed.                        *)
PossibleDeliveryIsFound ==
  \A c \in PlanIds : \A m \in By(c) \cup PendingBy(c) :
    plans[c].stage = "outcome_unknown" =>
      Find("outcome_unknown", plans[c].acct, m.conv, m.text) # {}

(* A plan is stored over a matching attempt that was already unresolved    *)
(* when its command opened the database only by acknowledging one such.    *)
Repeats(p, d) ==
  /\ plans[d].stage = "outcome_unknown"
  /\ plans[d].acct = op[p].acct /\ plans[d].text = op[p].text
  /\ op[p].target \in {plans[d].target, plans[d].outcome.conv}
DuplicateIsAcknowledged ==
  [][\A p \in Procs :
       (pc[p] = "plan_store" /\ plans' # plans /\ pc'[p] = "down") =>
         \A d \in op[p].known : Repeats(p, d) =>
           op[p].ack \in PlanIds /\ Repeats(p, op[p].ack)]_vars

-----------------------------------------------------------------------------
(* What types alone do not say of a command: a confirmed one has a         *)
(* confirmation, and only a start creates.                                 *)
ControlFits ==
  \A p \in Procs :
    /\ pc[p] \notin {"down"} \cup PlanningPcs => op[p].cid \in PlanIds
    /\ pc[p] \in CreatePcs => ~ IsReply(p)

(* Why a confirmation is executed once: the claim consumes a plan nobody   *)
(* works on, and every later step of the work comes once.                  *)
NotWorking == {"down", "claim"} \cup PlanningPcs
Works(p, c) == pc[p] \notin NotWorking /\ op[p].cid = c
BeforeCreate == {"client", "start_scan", "create"}
BeforeSend == BeforeCreate \cup ReconcileCreatePcs \cup FirstSendPcs \cup {"send"}
Untouched == {"absent", "planned", "expired"}

OneWorker == \A c \in PlanIds : \A p, q \in Procs : Works(p, c) /\ Works(q, c) => p = q
WorkIsClaimed ==
  \A p \in Procs : pc[p] \notin NotWorking => plans[op[p].cid].stage \notin Untouched
AttemptsAreClaimed ==
  \A c \in PlanIds : sends[c] # 0 \/ creates[c] # 0 => plans[c].stage \notin Untouched
StepsComeOnce ==
  \A p \in Procs :
    /\ pc[p] \in BeforeSend => sends[op[p].cid] = 0
    /\ pc[p] \in BeforeCreate => creates[op[p].cid] = 0
Execution == OneWorker /\ WorkIsClaimed /\ AttemptsAreClaimed /\ StepsComeOnce
               /\ AtMostOneAttempt

(* Why a denial is true: a message needs a send, a failure is recorded by  *)
(* the only worker when there is none, and it stops working.               *)
Denials == {"failed_definite", "warning_blocked"}
OutgoingWasSent == \A c \in PlanIds : Outgoing(c) => sends[c] # 0
DenialsToRecord ==
  \A p \in Procs :
    pc[p] = "record" /\ op[p].mark.stage \in Denials => ~ Outgoing(op[p].cid)
DeniedIsOver ==
  \A c \in PlanIds : plans[c].stage \in Denials =>
    ~ Outgoing(c) /\ \A p \in Procs : ~ Works(p, c)
Denying == OutgoingWasSent /\ DenialsToRecord /\ DeniedIsOver

-----------------------------------------------------------------------------
(* The abstract view of a plan and of the inbox.                           *)
PhaseOf(c) ==
  CASE plans[c].stage = "absent" -> "unused"
    [] plans[c].stage = "planned" -> "planned"
    [] plans[c].stage = "deleted" -> "forgotten"
    [] InFlight(c) -> "claimed"
    [] plans[c].stage \in SettledStages -> "closed"
ReportOf(c) ==
  CASE plans[c].stage = "expired" -> "expired"
    [] plans[c].stage = "sent" /\ plans[c].outcome.tag = "sent" -> "sent"
    [] plans[c].stage = "sent" /\ plans[c].outcome.tag # "sent" -> "likely"
    [] plans[c].stage \in {"failed_definite", "warning_blocked"} -> "denied"
    [] plans[c].stage = "outcome_unknown" -> "unknown"
    [] plans[c].stage \in Stages \ SettledStages -> "none"

Promise == INSTANCE ConfirmedSend WITH
  phase <- [c \in PlanIds |-> PhaseOf(c)],
  report <- [c \in PlanIds |-> ReportOf(c)],
  delivered <- [c \in PlanIds |-> Cardinality(By(c))]

(* The commands keep the promise of ConfirmedSend.                         *)
KeepsPromise == Promise!Spec

-----------------------------------------------------------------------------
(* Time passes, and the user keeps running kcli commands, each of which    *)
(* opens the database.  Nothing is assumed of a command that was started.  *)
UsedSpec == Spec /\ WF_vars(Tick) /\ WF_vars(OpenOther)

(* No crash leaves a plan executing: past its deadline it is resolved,     *)
(* recovered as unknown or deleted.  (A deadline past the bound on time    *)
(* cannot pass in this model.)                                             *)
NothingStaysInFlight ==
  \A c \in PlanIds :
    InFlight(c) ~> (~ InFlight(c) \/ plans[c].expires > MaxTime)

-----------------------------------------------------------------------------
(* A confirmed command acts for the account its confirmation is bound to.  *)
ActsForBoundAccount ==
  \A p \in Procs : pc[p] \in {"create", "send"} => op[p].client = op[p].acct
=============================================================================
