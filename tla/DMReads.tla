-------------------------------- MODULE DMReads --------------------------------
(***************************************************************************)
(* dm list, dm get and dm mark-read of one account, side by side with one  *)
(* another, with other devices and with arriving messages:                 *)
(* internal/app/dm_read.go over the statements of                          *)
(* internal/state/dm_read_queries.go and the requests of                   *)
(* internal/kleinanzeigen/messages.go.  Of a conversation only whether it  *)
(* is unread is kept, of a message nothing.  The page the site answers     *)
(* with is any set of conversations, for the list moves between pages.     *)
(***************************************************************************)
EXTENDS Naturals, FiniteSets

CONSTANTS
  Convs,          \* conversations
  ReadCommands,       \* commands that run
  PageRows,       \* conversations of a full page
  ListLimits,     \* values of --limit
  ScanLimit,      \* the 500 conversations a paginated list fetches at most
  ReconcilePages, \* the five pages of dmReconcileRead
  Unsaid,        \* a conversation without a usable field "unread"
  NotStored

ASSUME ReadsAssumption ==
  /\ IsFiniteSet(Convs) /\ PageRows \in Nat \ {0} /\ ListLimits \subseteq Nat \ {0}
  /\ ScanLimit \in Nat /\ ReconcilePages \in Nat \ {0}

VARIABLES
  unread,         \* the site: the conversations that are unread
  lateReads,      \* mark-read requests that may still be applied
  summaries,      \* the rows of table conversations
  commands        \* what every command does

readsVars == <<unread, lateReads, summaries, commands>>

(* What a response says of the conversations it shows.                     *)
Flags == BOOLEAN \cup {Unsaid}
Reports == UNION {[shown -> Flags] : shown \in SUBSET Convs}
ListJob ==
  [stage : {"list", "store"}, unreadOnly : BOOLEAN, paginate : BOOLEAN, limit : ListLimits,
   fetched : Nat, full : BOOLEAN, fresh : BOOLEAN, shown : Reports,
   listed : SUBSET Convs, items : SUBSET Convs]
GetJob ==
  [stage : {"open", "merge"}, id : Convs, previous : BOOLEAN \cup {NotStored}, report : Flags]
(* wasRead: history, what was read at some time since the request; omitted *)
(* what a page of the reconciliation showed without saying whether it is.  *)
MarkJob ==
  [stage : {"send", "sent", "applied", "confirm", "reconcile", "confirmed"},
   ids : SUBSET Convs, pages : 0..ReconcilePages, found : SUBSET Convs,
   foundRead : SUBSET Convs, wasRead : SUBSET Convs, omitted : SUBSET Convs]
NotRunning == [stage |-> "idle"]
Ended == [stage |-> "ended"]

ReadsTypeOK ==
  /\ unread \subseteq Convs /\ lateReads \subseteq SUBSET Convs
  /\ summaries \in [Convs -> BOOLEAN \cup {NotStored}]
  /\ commands \in [ReadCommands -> ListJob \cup GetJob \cup MarkJob \cup {NotRunning, Ended}]

ReadsInit ==
  /\ unread \in SUBSET Convs /\ lateReads = {}
  /\ summaries = [c \in Convs |-> NotStored]
  /\ commands = [x \in ReadCommands |-> NotRunning]

-----------------------------------------------------------------------------
Does(x, stage) == commands[x].stage = stage
Turns(x, job) == commands' = [commands EXCEPT ![x] = job]
IsUnread(flag) == flag = TRUE   \* a flag that is unknown is parsed as false

(* The responses the site may give now.                                    *)
ReportsOf(shown) ==
  {r \in [shown -> Flags] : \A c \in shown : r[c] \in {(c \in unread), Unsaid}}
SitePages == {shown \in SUBSET Convs : Cardinality(shown) <= PageRows}

(* The site's unread conversations change, as every waiting command sees.  *)
Waits(job) == job.stage \in {"sent", "applied", "reconcile"}
Witnessed(jobs, remaining) ==
  [x \in ReadCommands |->
     IF Waits(jobs[x]) THEN [jobs[x] EXCEPT !.wasRead = @ \cup (Convs \ remaining)]
     ELSE jobs[x]]
SiteChanges(jobs, remaining) ==
  /\ unread' = remaining
  /\ commands' = Witnessed(jobs, remaining)

-----------------------------------------------------------------------------
(* dm list: a page, its conversations one by one, the reason to stop.      *)
BeginList(x, unreadOnly, paginate, limit) ==
  /\ Does(x, "idle")
  /\ Turns(x, [stage |-> "list", unreadOnly |-> unreadOnly, paginate |-> paginate,
               limit |-> limit, fetched |-> 0, full |-> FALSE, fresh |-> FALSE,
               shown |-> [c \in {} |-> Unsaid], listed |-> {}, items |-> {}])
  /\ UNCHANGED <<unread, lateReads, summaries>>
AtScanLimit(job) == job.paginate /\ job.fetched > 0 /\ job.fetched + PageRows > ScanLimit
ListPage(x, page) ==
  LET job == commands[x]
      new == DOMAIN page \ job.listed
  IN /\ Does(x, "list") /\ ~AtScanLimit(job)
     /\ Turns(x, [job EXCEPT !.stage = "store", !.fetched = @ + Cardinality(DOMAIN page),
          !.full = Cardinality(DOMAIN page) = PageRows, !.fresh = new # {},
          !.shown = [c \in new |-> page[c]]])
     /\ UNCHANGED <<unread, lateReads, summaries>>
Filled(job) == Cardinality(job.items) >= job.limit
(* UpsertConversationSummary for the next one: what the page does not say  *)
(* is stored as read.                                                      *)
ListStore(x) ==
  /\ Does(x, "store") /\ ~Filled(commands[x])
  /\ LET job == commands[x] IN \E c \in DOMAIN job.shown :
       /\ summaries' = [summaries EXCEPT ![c] = IsUnread(job.shown[c])]
       /\ Turns(x, [job EXCEPT !.listed = @ \cup {c},
            !.shown = [d \in DOMAIN job.shown \ {c} |-> job.shown[d]],
            !.items = IF job.unreadOnly /\ ~IsUnread(job.shown[c]) THEN @ ELSE @ \cup {c}])
  /\ UNCHANGED <<unread, lateReads>>
ListStops(job) == Filled(job) \/ ~job.full \/ ~job.fresh \/ ~job.paginate
ListPageDone(x) ==
  LET job == commands[x] IN
  /\ Does(x, "store") /\ (DOMAIN job.shown = {} \/ Filled(job))
  /\ Turns(x, IF ListStops(job) THEN Ended ELSE [job EXCEPT !.stage = "list"])
  /\ UNCHANGED <<unread, lateReads, summaries>>
ListScanned(x) ==
  /\ Does(x, "list") /\ AtScanLimit(commands[x])
  /\ Turns(x, Ended)
  /\ UNCHANGED <<unread, lateReads, summaries>>

-----------------------------------------------------------------------------
(* dm get: the stored row, the request, which may make the conversation    *)
(* read whether or not it is answered, and the row again.                  *)
BeginGet(x, c) ==
  /\ Does(x, "idle")
  /\ Turns(x, [stage |-> "open", id |-> c, previous |-> summaries[c], report |-> Unsaid])
  /\ UNCHANGED <<unread, lateReads, summaries>>
OpenConversation(x, touched) ==
  /\ Does(x, "open")
  /\ LET c == commands[x].id IN \E report \in ReportsOf({c}) :
       SiteChanges([commands EXCEPT ![x].stage = "merge", ![x].report = report[c]],
                   IF touched THEN unread \ {c} ELSE unread)
  /\ UNCHANGED <<lateReads, summaries>>
(* What the response does not say is taken from the row as it was read.    *)
StoreOpened(x) ==
  LET job == commands[x] IN
  /\ Does(x, "merge")
  /\ summaries' = [summaries EXCEPT ![job.id] =
       IF job.report = Unsaid /\ job.previous # NotStored THEN job.previous
       ELSE IsUnread(job.report)]
  /\ Turns(x, Ended)
  /\ UNCHANGED <<unread, lateReads>>

-----------------------------------------------------------------------------
(* dm mark-read: the conversations must be stored; a --dry-run ends here.  *)
BeginMarkRead(x, ids, dryRun) ==
  /\ Does(x, "idle") /\ ids # {} /\ \A c \in ids : summaries[c] # NotStored
  /\ Turns(x, IF dryRun THEN Ended
              ELSE [stage |-> "send", ids |-> ids, pages |-> 0, found |-> {},
                    foundRead |-> {}, wasRead |-> {}, omitted |-> {}])
  /\ UNCHANGED <<unread, lateReads, summaries>>
SendMarkRead(x) ==
  /\ Does(x, "send")
  /\ Turns(x, [commands[x] EXCEPT !.stage = "sent", !.wasRead = Convs \ unread])
  /\ UNCHANGED <<unread, lateReads, summaries>>
SiteApplies(x) ==
  /\ Does(x, "sent")
  /\ SiteChanges([commands EXCEPT ![x].stage = "applied"], unread \ commands[x].ids)
  /\ UNCHANGED <<lateReads, summaries>>

(* The answer: success; or an error that leaves open whether the request   *)
(* was, or may still be, applied.  Any other error ends the command.       *)
AnswerConfirms(x) ==
  /\ Does(x, "applied") /\ Turns(x, [commands[x] EXCEPT !.stage = "confirm"])
  /\ UNCHANGED <<unread, lateReads, summaries>>
AnswerIsAmbiguous(x, late) ==
  /\ Does(x, "applied") \/ Does(x, "sent")
  /\ Turns(x, [commands[x] EXCEPT !.stage = "reconcile"])
  /\ lateReads' = IF late /\ Does(x, "sent") THEN lateReads \cup {commands[x].ids} ELSE lateReads
  /\ UNCHANGED <<unread, summaries>>

(* dmReconcileRead: pages until every conversation was found; all of them  *)
(* must have been found, and read, which a conversation of which the page  *)
(* says nothing is taken to be.  The request is not repeated.              *)
AgreedOnFound(ids, found, foundRead) == found \subseteq foundRead   \* mutant
Agreed(ids, found, foundRead) == found = ids /\ foundRead = ids
ReconcilePage(x, page) ==
  LET job == commands[x]
      shown == DOMAIN page \cap job.ids
      found == job.found \cup shown
      foundRead == (job.foundRead \ shown) \cup {c \in shown : ~IsUnread(page[c])}
      over == found = job.ids \/ job.pages + 1 = ReconcilePages
                \/ Cardinality(DOMAIN page) < PageRows
  IN /\ Does(x, "reconcile")
     /\ Turns(x, IF over /\ ~Agreed(job.ids, found, foundRead) THEN Ended
          ELSE [job EXCEPT !.stage = IF over THEN "confirm" ELSE "reconcile",
                  !.pages = @ + 1, !.found = found, !.foundRead = foundRead,
                  !.omitted = @ \cup {c \in shown : page[c] = Unsaid}])
     /\ UNCHANGED <<unread, lateReads, summaries>>

(* MarkConversationSummariesRead, one transaction, and the output.         *)
ConfirmRead(x) ==
  LET job == commands[x] IN
  /\ Does(x, "confirm")
  /\ summaries' = [c \in Convs |-> IF c \in job.ids THEN FALSE ELSE summaries[c]]
  /\ Turns(x, [job EXCEPT !.stage = "confirmed"])
  /\ UNCHANGED <<unread, lateReads>>

(* An error, a crash, or the end of the command.                           *)
EndRead(x) ==
  /\ ~Does(x, "idle") /\ Turns(x, NotRunning)
  /\ UNCHANGED <<unread, lateReads, summaries>>

-----------------------------------------------------------------------------
(* The site: a request is applied late, a message arrives, another device  *)
(* reads.                                                                  *)
LateRead(ids) ==
  /\ ids \in lateReads /\ lateReads' = lateReads \ {ids}
  /\ SiteChanges(commands, unread \ ids)
  /\ UNCHANGED summaries
MessageArrives(c) ==
  /\ c \notin unread /\ SiteChanges(commands, unread \cup {c})
  /\ UNCHANGED <<lateReads, summaries>>
ReadElsewhere(c) ==
  /\ c \in unread /\ SiteChanges(commands, unread \ {c})
  /\ UNCHANGED <<lateReads, summaries>>

ReadsNext ==
  \/ \E x \in ReadCommands :
       \/ \E unreadOnly, paginate \in BOOLEAN, limit \in ListLimits :
            BeginList(x, unreadOnly, paginate, limit)
       \/ ListStore(x) \/ ListPageDone(x) \/ ListScanned(x)
       \/ \E shown \in SitePages : \E page \in ReportsOf(shown) :
            ListPage(x, page) \/ ReconcilePage(x, page)
       \/ \E c \in Convs : BeginGet(x, c)
       \/ \E touched \in BOOLEAN : OpenConversation(x, touched)
       \/ StoreOpened(x)
       \/ \E ids \in SUBSET Convs, dryRun \in BOOLEAN : BeginMarkRead(x, ids, dryRun)
       \/ SendMarkRead(x) \/ SiteApplies(x) \/ AnswerConfirms(x)
       \/ \E late \in BOOLEAN : AnswerIsAmbiguous(x, late)
       \/ ConfirmRead(x) \/ EndRead(x)
  \/ \E ids \in SUBSET Convs : LateRead(ids)
  \/ \E c \in Convs : MessageArrives(c) \/ ReadElsewhere(c)

ReadsSpec == ReadsInit /\ [][ReadsNext]_readsVars

-----------------------------------------------------------------------------
(* A mark-read that reports success, at once or by reconciliation: each of *)
(* its conversations was read at the site at some time since the request,  *)
(* whatever arrives, is applied late or moves between the pages; except    *)
(* for a conversation of which a page did not say whether it is.           *)
ConfirmedReadWasRead ==
  \A x \in ReadCommands :
    Does(x, "confirmed") =>
      commands[x].ids \subseteq commands[x].wasRead \cup commands[x].omitted
=============================================================================
