-------------------------------- MODULE MCLocal --------------------------------
(***************************************************************************)
(* Finite instances of what a signed-in profile keeps and asks for: its    *)
(* secrets, its identity, its configuration, downloaded images, the        *)
(* requests of the mobile transport and the conversations it read.  Their  *)
(* state is apart, so a behaviour is one of one of them and the rest       *)
(* stands still.  The secrets are a short value, one of two parts and one  *)
(* of three that begins like it.                                           *)
(***************************************************************************)
EXTENDS SecretStore, Downloads, ConfigStore, ProfileOpen, DMReads, MobilePacing, TLC

CONSTANTS s1, s2, s3
MCValues == {<<s1>>, <<s2, s3>>, <<s2, s1, s3>>}

VARIABLE part   \* which

LocalInit ==
  /\ part \in {"secrets", "downloads", "config", "profile", "reads", "mobile"}
  /\ Init /\ DownloadInit /\ ConfigInit /\ ProfileInit /\ ReadsInit /\ MobileInit
  /\ part # "reads" => unread = {}

SecretsPart ==
  /\ part = "secrets" /\ Next
  /\ UNCHANGED <<part, downloadVars, configVars, profileVars, readsVars, mobileVars>>
DownloadsPart ==
  /\ part = "downloads" /\ DownloadNext
  /\ UNCHANGED <<part, vars, configVars, profileVars, readsVars, mobileVars>>
ConfigPart ==
  /\ part = "config" /\ ConfigNext
  /\ UNCHANGED <<part, vars, downloadVars, profileVars, readsVars, mobileVars>>
ProfilePart ==
  /\ part = "profile" /\ ProfileNext
  /\ UNCHANGED <<part, vars, downloadVars, configVars, readsVars, mobileVars>>
ReadsPart ==
  /\ part = "reads" /\ ReadsNext
  /\ UNCHANGED <<part, vars, downloadVars, configVars, profileVars, mobileVars>>
MobilePart ==
  /\ part = "mobile" /\ MobileNext
  /\ UNCHANGED <<part, vars, downloadVars, configVars, profileVars, readsVars>>

LocalNext ==
  SecretsPart \/ DownloadsPart \/ ConfigPart \/ ProfilePart \/ ReadsPart \/ MobilePart
LocalSpec ==
  LocalInit
    /\ [][LocalNext]_<<part, vars, downloadVars, configVars, profileVars, readsVars, mobileVars>>

(* The variables of the part that moves have their types.                  *)
LocalTypeOK ==
  /\ part = "secrets" => TypeOK
  /\ part = "downloads" => DownloadTypeOK
  /\ part = "config" => ConfigTypeOK
  /\ part = "profile" => ProfileTypeOK
  /\ part = "reads" => ReadsTypeOK
  /\ part = "mobile" => MobileTypeOK

Interchangeable == Permutations(Procs) \cup Permutations(Callers)
=============================================================================
