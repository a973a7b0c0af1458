----------------------------- MODULE MetadataCache -----------------------------
(***************************************************************************)
(* What a profile caches of the site's metadata, and the commands that     *)
(* read it and fetch it again when it is too old, side by side:            *)
(* internal/kleinanzeigen/metadata.go over the statements of               *)
(* internal/state/discovery.go.  The module follows one table: the         *)
(* categories, the filters of one category, or the locations of one query. *)
(* What a document says is the time at which the site said it; that rows   *)
(* of it may be unusable, and what an answer then claims, is left out.     *)
(***************************************************************************)
EXTENDS Naturals

CONSTANTS
  Readers,        \* commands that run
  CategoryTTL, LocationTTL,   \* categoryTTL and locationTTL, in ticks
  FetchTime,      \* the longest a request for metadata takes
  MaxMetaTime,    \* bound on the clock
  NoEntry

ASSUME MetadataAssumption ==
  /\ CategoryTTL \in Nat /\ LocationTTL \in Nat /\ FetchTime \in Nat /\ MaxMetaTime \in Nat
  /\ NoEntry \notin [at : Nat, said : Nat]

VARIABLES
  metaTable,      \* the table
  metaTime,       \* the machine's clock
  metaCache,      \* what is stored of it
  readers         \* what every command waits for, or answered

metaVars == <<metaTable, metaTime, metaCache, readers>>

MetaTables == {"categories", "filters", "locations"}
TTL == IF metaTable = "locations" THEN LocationTTL ELSE CategoryTTL

(* Rows, or the row of a query.  said: when the site said it; at: the      *)
(* observed_at that is stored with it.  A table without rows is NoEntry.   *)
MetaTimes == 0..MaxMetaTime
MetaEntry == [at : MetaTimes, said : MetaTimes]
NoRead == [stage : {"idle"}]
ReadAsking == [stage : {"ask"}, refresh : BOOLEAN]
ReadWaiting == [stage : {"wait"}, asked : MetaTimes]
ReadStoring == [stage : {"store"}, empty : BOOLEAN, entry : MetaEntry]
(* The output.  time: when it was made.                                    *)
ReadAnswered == [stage : {"answered"}, source : {"cache", "site"}, entry : MetaEntry,
             time : MetaTimes, stale : BOOLEAN]

MetaTypeOK ==
  /\ metaTable \in MetaTables /\ metaTime \in MetaTimes
  /\ metaCache \in MetaEntry \cup {NoEntry}
  /\ readers \in [Readers -> NoRead \cup ReadAsking \cup ReadWaiting \cup ReadStoring \cup ReadAnswered]

MetaInit ==
  /\ metaTable \in MetaTables
  /\ metaTime = 0 /\ metaCache = NoEntry
  /\ readers = [r \in Readers |-> [stage |-> "idle"]]

-----------------------------------------------------------------------------
MetaAge == metaTime - metaCache.at
FreshInclusive == metaCache # NoEntry /\ MetaAge <= TTL   \* mutant
Fresh == metaCache # NoEntry /\ MetaAge < TTL

ReaderBecomes(r, job) ==
  /\ readers' = [readers EXCEPT ![r] = job]
  /\ UNCHANGED <<metaTable, metaTime>>
MetaAnswer(source, entry, stale) ==
  [stage |-> "answered", source |-> source, entry |-> entry, time |-> metaTime,
   stale |-> stale]

-----------------------------------------------------------------------------
(* Categories, Filters or Locations is called; locations have no --refresh *)
BeginRead(r, refresh) ==
  /\ readers[r].stage = "idle"
  /\ metaTable = "locations" => ~refresh
  /\ ReaderBecomes(r, [stage |-> "ask", refresh |-> refresh])
  /\ UNCHANGED metaCache

FromCache(r) ==
  /\ readers[r].stage = "ask" /\ ~readers[r].refresh /\ Fresh
  /\ ReaderBecomes(r, MetaAnswer("cache", metaCache, FALSE))
  /\ UNCHANGED metaCache
AskSite(r) ==
  /\ readers[r].stage = "ask" /\ (readers[r].refresh \/ ~Fresh)
  /\ ReaderBecomes(r, [stage |-> "wait", asked |-> metaTime])
  /\ UNCHANGED metaCache

(* The answer; the clock is read when it is decoded.  A list of categories *)
(* is not empty.                                                           *)
SiteAnswers(r, empty) ==
  /\ readers[r].stage = "wait" /\ metaTime <= readers[r].asked + FetchTime
  /\ metaTable = "categories" => ~empty
  /\ ReaderBecomes(r, [stage |-> "store", empty |-> empty,
                       entry |-> [at |-> metaTime, said |-> readers[r].asked]])
  /\ UNCHANGED metaCache

(* ReplaceCategories, ReplaceFilters and PutLocationCache replace what is  *)
(* there, whatever it is.  No filters leave no rows; no locations, a row.  *)
StoreMeta(r) ==
  LET job == readers[r] IN
  /\ job.stage = "store"
  /\ metaCache' = IF job.empty /\ metaTable = "filters" THEN NoEntry ELSE job.entry
  /\ ReaderBecomes(r, MetaAnswer("site", job.entry, FALSE))

(* CachedFilters, of schema filters: no request, and any age, which is     *)
(* part of the output.                                                     *)
FromCacheOnly(r) ==
  /\ readers[r].stage = "idle" /\ metaTable = "filters" /\ metaCache # NoEntry
  /\ ReaderBecomes(r, MetaAnswer("cache", metaCache, MetaAge >= CategoryTTL))
  /\ UNCHANGED metaCache

(* A request, a document or a statement that fails, or a reference that    *)
(* names no category, ends a command; and an answered command is over.     *)
EndRead(r) ==
  /\ readers[r].stage # "idle"
  /\ ReaderBecomes(r, [stage |-> "idle"])
  /\ UNCHANGED metaCache

MetaTick ==
  /\ metaTime < MaxMetaTime /\ metaTime' = metaTime + 1
  /\ UNCHANGED <<metaTable, metaCache, readers>>

MetaNext ==
  \/ \E r \in Readers :
       \/ \E refresh \in BOOLEAN : BeginRead(r, refresh)
       \/ FromCache(r) \/ AskSite(r) \/ StoreMeta(r) \/ FromCacheOnly(r) \/ EndRead(r)
       \/ \E empty \in BOOLEAN : SiteAnswers(r, empty)
  \/ MetaTick

MetaSpec == MetaInit /\ [][MetaNext]_metaVars

-----------------------------------------------------------------------------
(* An answer from the cache that is not marked as stale is what the site   *)
(* said less than the time to live and the time of one request ago,        *)
(* whoever fetched it and however the fetches of several commands overlap. *)
ServedIsRecent ==
  \A r \in Readers :
    LET job == readers[r] IN
    job.stage = "answered" /\ job.source = "cache" /\ ~job.stale =>
      job.time < job.entry.said + TTL + FetchTime
=============================================================================
