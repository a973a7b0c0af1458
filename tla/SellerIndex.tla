------------------------------ MODULE SellerIndex ------------------------------
(***************************************************************************)
(* The local index of the sellers a profile came across, and the commands  *)
(* that write it side by side: internal/state/search_queries.go,           *)
(* listing_queries.go and seller_retention.go, called by                   *)
(* internal/app/search.go, seller.go and listing.go.  A command takes the  *)
(* time of its observations before it writes them, a search even before it *)
(* fetches its first page.  A name is the source that gave it; titles,     *)
(* links' times and the public fields are left out.                        *)
(***************************************************************************)
EXTENDS Naturals, FiniteSets

CONSTANTS
  Sellers,        \* seller ids, numbers: ties of the retention are cut by id
  Listings,       \* listing ids
  Writers,        \* commands that run
  SellerRetention,   \* listingSellerRetention, in ticks
  SellerMaximum,     \* listingSellerMaximum
  MaxSightings,   \* bound on the sellers of a page
  MaxIndexTime,   \* bound on the clock
  NoRow

ASSUME IndexAssumption ==
  /\ Sellers \subseteq Nat /\ IsFiniteSet(Sellers)
  /\ SellerRetention \in Nat /\ SellerMaximum \in Nat \ {0} /\ MaxIndexTime \in Nat /\ MaxSightings \in Nat
  /\ NoRow \notin [source : {"search", "listing", "public-web"},
                   name : {"none", "search", "listing", "public-web"}, at : Nat]

VARIABLES
  indexTime,      \* the machine's clock
  sellers,        \* the rows of table sellers
  sellerLinks,    \* the rows of table seller_listings
  writers         \* what every command is about to write

indexVars == <<indexTime, sellers, sellerLinks, writers>>

Preferred == {"listing", "public-web"}
Sources == Preferred \cup {"search"}
Row == [source : Sources, name : Sources \cup {"none"}, at : 0..MaxIndexTime]
Link == [seller : Sellers, ad : Listings]
Tables == [Sellers -> Row \cup {NoRow}]
(* One listing of a page whose seller is known, with or without a name.    *)
Sighting == [seller : Sellers, ad : Listings, named : BOOLEAN]

IndexPages == {page \in SUBSET Sighting : Cardinality(page) \in 1..MaxSightings}

Resting == [task : {"none"}]
Searching == [task : {"search"}, at : 0..MaxIndexTime]
Fetching == [task : {"fetch"}, source : Preferred, seller : Sellers]
Observed == [task : {"write"}, source : Preferred, seller : Sellers, at : 0..MaxIndexTime]

IndexTypeOK ==
  /\ indexTime \in 0..MaxIndexTime
  /\ sellers \in Tables /\ sellerLinks \subseteq Link
  /\ writers \in [Writers -> Resting \cup Searching \cup Fetching \cup Observed]

Rest == [task |-> "none"]
IndexInit ==
  /\ indexTime = 0 /\ sellers = [s \in Sellers |-> NoRow] /\ sellerLinks = {}
  /\ writers = [w \in Writers |-> Rest]

-----------------------------------------------------------------------------
Known(table) == {s \in Sellers : table[s] # NoRow}

(* pruneSellers: what is too old for an observation made at the given time *)
(* goes, then all but the newest; the foreign key takes the links along.   *)
Recent(table, at) == {s \in Known(table) : at <= table[s].at + SellerRetention}
OlderFirst(table, s, t) ==   \* mutant: ORDER BY observed_at
  table[s].at < table[t].at \/ (table[s].at = table[t].at /\ s < t)
NewerFirst(table, s, t) ==
  table[s].at > table[t].at \/ (table[s].at = table[t].at /\ s < t)
Kept(table, at) ==
  {s \in Recent(table, at) :
     Cardinality({t \in Recent(table, at) : NewerFirst(table, t, s)}) < SellerMaximum}
WriteIndex(table, added, at) ==
  LET kept == Kept(table, at) IN
  /\ sellers' = [s \in Sellers |-> IF s \in kept THEN table[s] ELSE NoRow]
  /\ sellerLinks' = {l \in sellerLinks \cup added : l.seller \in kept}

(* SearchUpsertSellers for one page: a name of a listing or of a profile   *)
(* outranks that of a preview, the time is always that of the search.      *)
PreviewAlwaysWrites(row, named, at) ==   \* mutant: previews outrank every name
  IF row # NoRow /\ ~named
  THEN [row EXCEPT !.at = at]
  ELSE [source |-> "search", name |-> IF named THEN "search" ELSE "none", at |-> at]
PreviewRow(row, named, at) ==
  IF row # NoRow /\ (~named \/ (row.name # "none" /\ row.source \in Preferred))
  THEN [row EXCEPT !.at = at]
  ELSE [source |-> "search", name |-> IF named THEN "search" ELSE "none", at |-> at]
Previewed(page, at) ==
  [s \in Sellers |->
     IF \E p \in page : p.seller = s
     THEN PreviewRow(sellers[s], \E p \in page : p.seller = s /\ p.named, at)
     ELSE sellers[s]]
LinksOf(page) == {[seller |-> p.seller, ad |-> p.ad] : p \in page}

-----------------------------------------------------------------------------
(* A search, or the inventory page of a seller: any number of pages.       *)
BeginPages(w) ==
  /\ writers[w].task = "none"
  /\ writers' = [writers EXCEPT ![w] = [task |-> "search", at |-> indexTime]]
  /\ UNCHANGED <<indexTime, sellers, sellerLinks>>
IndexPage(w, page) ==
  /\ writers[w].task = "search"
  /\ WriteIndex(Previewed(page, writers[w].at), LinksOf(page), writers[w].at)
  /\ UNCHANGED <<indexTime, writers>>
EndPages(w) ==
  /\ writers[w].task = "search"
  /\ writers' = [writers EXCEPT ![w] = Rest]
  /\ UNCHANGED <<indexTime, sellers, sellerLinks>>

(* seller get reads the index and asks the website for what is not there;  *)
(* a listing's detail is fetched whatever the index holds.                 *)
BeginSeller(w, source, s) ==
  /\ writers[w].task = "none"
  /\ source = "public-web" => sellers[s] = NoRow
  /\ writers' = [writers EXCEPT ![w] = [task |-> "fetch", source |-> source, seller |-> s]]
  /\ UNCHANGED <<indexTime, sellers, sellerLinks>>
SellerFetched(w) ==
  /\ writers[w].task = "fetch"
  /\ writers' = [writers EXCEPT ![w] = [task |-> "write", source |-> @.source,
                                        seller |-> @.seller, at |-> indexTime]]
  /\ UNCHANGED <<indexTime, sellers, sellerLinks>>
(* UpsertSellerListing and UpsertPublicSeller                              *)
WriteSeller(w, ad) ==
  /\ writers[w].task = "write"
  /\ LET job == writers[w]
         row == [source |-> job.source, name |-> job.source, at |-> job.at]
     IN WriteIndex([sellers EXCEPT ![job.seller] = row],
                   IF job.source = "listing" THEN {[seller |-> job.seller, ad |-> ad]} ELSE {},
                   job.at)
  /\ writers' = [writers EXCEPT ![w] = Rest]
  /\ UNCHANGED indexTime

(* A request or a statement that fails ends the command; so does a crash.  *)
WriterFails(w) ==
  /\ writers[w].task \in {"fetch", "write"}
  /\ writers' = [writers EXCEPT ![w] = Rest]
  /\ UNCHANGED <<indexTime, sellers, sellerLinks>>

IndexTick ==
  /\ indexTime < MaxIndexTime /\ indexTime' = indexTime + 1
  /\ UNCHANGED <<sellers, sellerLinks, writers>>

IndexNext ==
  \/ \E w \in Writers :
       \/ BeginPages(w) \/ EndPages(w) \/ SellerFetched(w) \/ WriterFails(w)
       \/ \E page \in IndexPages : IndexPage(w, page)
       \/ \E source \in Preferred, s \in Sellers : BeginSeller(w, source, s)
       \/ \E ad \in Listings : WriteSeller(w, ad)
  \/ IndexTick

IndexSpec == IndexInit /\ [][IndexNext]_indexVars

-----------------------------------------------------------------------------
(* A name that a listing or a profile gave stays what it is, and stays     *)
(* marked as such, through every page of every search, until the seller is *)
(* pruned or another listing or profile gives a name.                      *)
PreferredNamesStay ==
  [][\A s \in Sellers :
       sellers[s] # NoRow /\ sellers'[s] # NoRow /\ sellers[s].source \in Preferred =>
         /\ sellers'[s].source \in Preferred
         /\ sellers'[s].name = sellers'[s].source]_indexVars

(* A step in which command w writes what it saw of some sellers: those of  *)
(* a page, or the one that it asked for.                                   *)
Writes(w, sighted) ==
  \/ \E page \in IndexPages : sighted = {p.seller : p \in page} /\ IndexPage(w, page)
  \/ /\ writers[w].task = "write" /\ sighted = {writers[w].seller}
     /\ \E ad \in Listings : WriteSeller(w, ad)

(* Why that step may drop a seller: the command's time is more than the    *)
(* retention after the seller was last seen, or the index is full of       *)
(* sellers that were not last seen before that.  Of a seller that this     *)
(* command sees, the last time is the command's own, be it an earlier one. *)
MayDrop(w, sighted, s) ==
  LET lastSeen == IF s \in sighted THEN writers[w].at ELSE sellers[s].at IN
  \/ writers[w].at > lastSeen + SellerRetention
  \/ /\ Cardinality(Known(sellers)') = SellerMaximum
     /\ \A t \in Known(sellers)' : sellers'[t].at >= lastSeen

(* A seller only leaves the index when a command writes what it saw, and   *)
(* for a cause that lies in that command and the rows it leaves behind: no *)
(* other command under way, however far its time lags, excuses the loss.   *)
DroppedForCause ==
  [][\A s \in Known(sellers) \ Known(sellers)' :
       /\ \E w \in Writers, sighted \in SUBSET Sellers : Writes(w, sighted)
       /\ \A w \in Writers, sighted \in SUBSET Sellers :
            Writes(w, sighted) => MayDrop(w, sighted, s)]_indexVars
=============================================================================
