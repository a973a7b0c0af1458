------------------------------ MODULE SearchPages ------------------------------
(***************************************************************************)
(* One search command and the pages it fetches: the loop of                *)
(* internal/app/search.go, the decoded page of                             *)
(* internal/kleinanzeigen/search.go, and the links the website transport   *)
(* keeps in internal/kleinanzeigen/web_search.go.  What a page holds is    *)
(* decided when it is fetched, for the listings move while a search runs.  *)
(* A listing is its id; the order in which listings are printed, which is  *)
(* that of the pages, is left out.                                         *)
(***************************************************************************)
EXTENDS Naturals, Sequences, FiniteSets

CONSTANTS
  Ads,            \* listing ids
  Excluded,       \* those whose title or description an --exclude matches
  MaxRows,        \* rows of one page
  Limits,         \* values of --limit
  PagedLimit,     \* that of a search of several pages which names none (100)
  FirstPages,     \* values of --page
  LastPage,       \* the website transport refuses later pages (100)
  ScanBound,      \* searchMaxScannedIDs
  PageSize,       \* page_size
  Totals,         \* totals a JSON page may claim
  NoPage,         \* a continuation, or an output, without a next page
  Unreported,     \* a page that says nothing of its continuation
  NoTotal         \* a page without a total

ASSUME SearchAssumption ==
  /\ IsFiniteSet(Ads) /\ Excluded \subseteq Ads
  /\ MaxRows \in Nat /\ LastPage \in Nat /\ ScanBound \in Nat /\ PageSize \in Nat
  /\ Limits \subseteq Nat \ {0} /\ PagedLimit \in Nat \ {0} /\ PageSize # 0
  /\ FirstPages \subseteq Nat /\ Totals \subseteq Nat
  /\ NoPage \notin Nat /\ Unreported \notin Nat /\ NoPage # Unreported
  /\ NoTotal \notin Nat

VARIABLES
  search,         \* the command: its options, its loop and its output
  webPages        \* WebTransport.pages: what is known of the page numbers

searchVars == <<search, webPages>>

Pages == 0..(LastPage + 1)
Rows == UNION {[1..n -> Ads] : n \in 0..MaxRows}
(* A decoded page.  flawed: rows or fields that gave a contract warning.   *)
Page == [rows : Rows, flawed : BOOLEAN, next : Nat \cup {NoPage, Unreported},
         total : Totals \cup {NoTotal}]
Reasons == {"none", "bound", "empty_page", "two_pages_no_new_ids", "scan_bound",
            "known_total", "end_of_results", "single_page"}

Search ==
  [phase : {"new", "resolve", "query", "fetch", "found", "done", "failed"},
   site : {"web", "json"}, limit : Nat, paginate : BOOLEAN, page : Nat, fetches : Nat,
   returned : SUBSET Ads, seen : SUBSET Ads, offered : SUBSET Ads,
   noNew : 0..2, truncated : BOOLEAN, partial : BOOLEAN, stop : Reasons,
   next : Nat \cup {NoPage}]

SearchTypeOK ==
  /\ search \in Search
  /\ webPages \in [Pages -> {"unknown", "end", "linked"}]

NewSearch ==
  [phase |-> "new", site |-> "web", limit |-> 0, paginate |-> FALSE, page |-> 0,
   fetches |-> 0, returned |-> {}, seen |-> {}, offered |-> {}, noNew |-> 0,
   truncated |-> FALSE, partial |-> FALSE, stop |-> "none", next |-> NoPage]
NewPages == [p \in Pages |-> "unknown"]
SearchInit == search = NewSearch /\ webPages = NewPages

(* An accepted input, in its canonical form.                               *)
CanonicalLimit(limit, paginate) ==
  IF limit # 0 THEN limit ELSE IF paginate THEN PagedLimit ELSE PageSize
StartSearch(site, limit, paginate, first) ==
  /\ search.phase = "new"
  /\ search' = [search EXCEPT !.phase = "resolve", !.site = site, !.paginate = paginate,
                              !.limit = CanonicalLimit(limit, paginate), !.page = first]
  /\ UNCHANGED webPages

(* The category and the location, if there are any, and then the filters   *)
(* are looked up in the metadata, whose warnings make the output partial.  *)
ResolveReferences(warned) ==
  /\ search.phase = "resolve"
  /\ search' = [search EXCEPT !.phase = "query", !.partial = warned]
  /\ UNCHANGED webPages
BuildQuery(warned) ==
  /\ search.phase = "query"
  /\ search' = [search EXCEPT !.phase = "fetch", !.partial = @ \/ warned]
  /\ UNCHANGED webPages

-----------------------------------------------------------------------------
(* The rows of a page one after the other, up to the one that fills the    *)
(* output.                                                                 *)
IsNew(page, i) ==
  page.rows[i] \notin search.seen /\ \A j \in 1..(i - 1) : page.rows[j] # page.rows[i]
IsKept(page, i) == IsNew(page, i) /\ page.rows[i] \notin Excluded
KeptUpTo(page, i) == {page.rows[j] : j \in {k \in 1..i : IsKept(page, k)}}
Fills(page, i) ==
  IsKept(page, i) /\ Cardinality(search.returned \cup KeptUpTo(page, i)) = search.limit
Scanned(page) == {i \in DOMAIN page.rows : \A j \in 1..(i - 1) : ~Fills(page, j)}
Unscanned(page) == Scanned(page) # DOMAIN page.rows

NewIds(page) == {page.rows[i] : i \in {k \in Scanned(page) : IsNew(page, k)}}
KeptIds(page) == NewIds(page) \ Excluded
NeverCounted(page) == 0   \* mutant: pages without a new listing are not counted
SeenWithoutNew(page) == IF NewIds(page) = {} THEN search.noNew + 1 ELSE 0

(* The reason to stop after this page: the first that applies.             *)
StopReason(page) ==
  IF Cardinality(search.returned \cup KeptIds(page)) >= search.limit THEN "bound"
  ELSE IF page.rows = << >> THEN "empty_page"
  ELSE IF SeenWithoutNew(page) >= 2 THEN "two_pages_no_new_ids"
  ELSE IF Cardinality(search.seen \cup NewIds(page)) >= ScanBound THEN "scan_bound"
  ELSE IF page.total # NoTotal /\ (search.page + 1) * PageSize >= page.total
       THEN "known_total"
  ELSE IF page.next = NoPage THEN "end_of_results"
  ELSE IF ~search.paginate THEN "single_page"
  ELSE "none"

NextPage(page) == IF page.next \in Nat THEN page.next ELSE search.page + 1

(* The next page the output names.                                         *)
NextOfOutputIgnoresCut(page, reason) ==   \* mutant: a cut page is stepped over
  IF page.next \in Nat THEN page.next
  ELSE IF page.next = Unreported /\ reason = "single_page" THEN search.page + 1
  ELSE NoPage
NextOfOutputOfFullPage(page, reason) ==   \* mutant: a full output has no next page
  IF reason = "bound" THEN NoPage ELSE NextOfOutputIgnoresCut(page, reason)
NextOfOutput(page, reason) ==
  IF Unscanned(page) THEN NoPage
  ELSE IF page.next \in Nat THEN page.next
  ELSE IF page.next = Unreported /\ reason = "single_page" THEN search.page + 1
  ELSE NoPage

(* The body of the loop for a fetched page; the output, when it stops.     *)
TakePage(page) ==
  LET reason == StopReason(page) IN
  search' = [search EXCEPT
    !.phase = IF reason = "none" THEN "fetch" ELSE "done",
    !.fetches = @ + 1, !.offered = @ \cup {page.rows[i] : i \in DOMAIN page.rows},
    !.seen = @ \cup NewIds(page), !.returned = @ \cup KeptIds(page),
    !.noNew = SeenWithoutNew(page),
    !.truncated = Unscanned(page), !.stop = reason,
    !.partial = @ \/ page.flawed \/ Unscanned(page) \/ reason = "scan_bound",
    !.page = IF reason = "none" THEN NextPage(page) ELSE @,
    !.next = IF reason = "none" THEN NoPage ELSE NextOfOutput(page, reason)]

-----------------------------------------------------------------------------
(* The pages of the JSON transport: the site reports a continuation, which *)
(* may be any page, or does not; it reports a total, or does not.          *)
FetchJSON(page) ==
  /\ search.phase = "fetch" /\ search.site = "json"
  /\ TakePage(page)
  /\ UNCHANGED webPages

(* rememberSearch: what the document of page n links to.                   *)
Remember(n, linked) ==
  webPages' = [p \in Pages |->
    IF p \in linked \cup {n} THEN "linked"
    ELSE IF p = n + 1 THEN "end" ELSE webPages[p]]
(* The decoded page: the website's continuation is the following page, if  *)
(* the document links to it.                                               *)
WebPage(rows, flawed, n, linked) ==
  [rows |-> rows, flawed |-> flawed,
   next |-> IF n + 1 \in linked THEN n + 1 ELSE NoPage, total |-> NoTotal]
EmptyPage == WebPage(<< >>, FALSE, 0, {})

(* The first page is fetched through the search form.  It is what was      *)
(* asked for, or only shows which pages there are.                         *)
FetchForm(rows, flawed, linked) ==
  /\ search.phase = "fetch" /\ search.site = "web"
  /\ search.page <= LastPage /\ webPages[search.page] = "unknown"
  /\ Remember(0, linked)
  /\ IF search.page = 0 THEN TakePage(WebPage(rows, flawed, 0, linked))
     ELSE search' = [search EXCEPT !.phase = "found"]

(* A page through its link; a page known not to be there is empty.         *)
FetchLinked(rows, flawed, linked) ==
  /\ search.phase \in {"fetch", "found"} /\ search.site = "web"
  /\ search.page <= LastPage /\ webPages[search.page] = "linked"
  /\ Remember(search.page, linked)
  /\ TakePage(WebPage(rows, flawed, search.page, linked))
FetchKnownEnd ==
  /\ search.phase \in {"fetch", "found"} /\ search.site = "web"
  /\ search.page <= LastPage /\ webPages[search.page] = "end"
  /\ TakePage(EmptyPage)
  /\ UNCHANGED webPages

(* A reference that names nothing, a request, a page number or a write of  *)
(* the seller index that fails ends the command without output.            *)
SearchFails ==
  /\ search.phase \in {"resolve", "query", "fetch", "found"}
  /\ search' = [search EXCEPT !.phase = "failed"]
  /\ UNCHANGED webPages

(* The next search is a command of its own, with a transport of its own.   *)
EndSearch ==
  /\ search.phase \in {"done", "failed"}
  /\ search' = NewSearch /\ webPages' = NewPages

SearchNext ==
  \/ \E site \in {"web", "json"}, limit \in Limits \cup {0}, paginate \in BOOLEAN,
        first \in FirstPages : StartSearch(site, limit, paginate, first)
  \/ \E warned \in BOOLEAN : ResolveReferences(warned) \/ BuildQuery(warned)
  \/ \E rows \in Rows, flawed \in BOOLEAN :
       \/ \E next \in 0..LastPage \cup {NoPage, Unreported}, total \in Totals \cup {NoTotal} :
            FetchJSON([rows |-> rows, flawed |-> flawed, next |-> next, total |-> total])
       \/ \E linked \in SUBSET (1..(LastPage + 1)) :
            FetchForm(rows, flawed, linked) \/ FetchLinked(rows, flawed, linked)
  \/ FetchKnownEnd
  \/ SearchFails \/ EndSearch

SearchSpec == SearchInit /\ [][SearchNext]_searchVars

-----------------------------------------------------------------------------
(* Every listing a fetched page showed is in the output or excluded by the *)
(* user, unless the output says that a page was cut: it is then partial    *)
(* and names no next page, so that advancing cannot step over the rest.    *)
FetchedIsReturned ==
  search.phase = "done" =>
    \/ search.offered \ Excluded \subseteq search.returned
    \/ search.truncated /\ search.partial /\ search.next = NoPage

(* A complete output of the website without a next page is the end of the  *)
(* results: the last page that was fetched does not link to another.       *)
CompleteMeansExhausted ==
  search.phase = "done" /\ search.site = "web" /\ ~search.partial /\ search.next = NoPage =>
    webPages[search.page] = "end" \/ webPages[search.page + 1] = "end"

(* However the site numbers its continuations, and if it answers the same  *)
(* pages for ever, the loop ends: there is no more than one page without a *)
(* new listing between two that have one.                                  *)
PagesAreBounded == search.fetches <= 2 * (Cardinality(search.seen) + 1)
=============================================================================
