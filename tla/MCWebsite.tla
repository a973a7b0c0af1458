------------------------------- MODULE MCWebsite -------------------------------
(***************************************************************************)
(* Finite instances of what serves the public website: its pacing, a       *)
(* search, the index of sellers and the cached metadata.  Their state is   *)
(* apart, so a behaviour is one of one of them and the rest stands still.  *)
(***************************************************************************)
EXTENDS WebPacing, SearchPages, SellerIndex, MetadataCache, TLC

VARIABLE part   \* which

WebsiteInit ==
  /\ part \in {"web", "search", "index", "metadata"}
  /\ Init /\ SearchInit /\ IndexInit /\ MetaInit
  /\ part # "metadata" => metaTable = "categories"

WebPart == part = "web" /\ Next /\ UNCHANGED <<part, searchVars, indexVars, metaVars>>
SearchPart ==
  part = "search" /\ SearchNext /\ UNCHANGED <<part, vars, indexVars, metaVars>>
IndexPart ==
  part = "index" /\ IndexNext /\ UNCHANGED <<part, vars, searchVars, metaVars>>
MetadataPart ==
  part = "metadata" /\ MetaNext /\ UNCHANGED <<part, vars, searchVars, indexVars>>

WebsiteNext == WebPart \/ SearchPart \/ IndexPart \/ MetadataPart
WebsiteSpec == WebsiteInit /\ [][WebsiteNext]_<<part, vars, searchVars, indexVars, metaVars>>

(* The variables of the part that moves have their types.                  *)
WebsiteTypeOK ==
  /\ part = "web" => TypeOK
  /\ part = "search" => SearchTypeOK
  /\ part = "index" => IndexTypeOK
  /\ part = "metadata" => MetaTypeOK

Interchangeable == Permutations(Clients) \cup Permutations(Writers)
=============================================================================
