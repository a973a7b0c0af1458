------------------------------ MODULE ProfileOpen ------------------------------
(***************************************************************************)
(* The identity of a profile: the rows profile_uuid, cursor_generation and *)
(* mobile_install_created_ms of table meta.  The first Open of a profile   *)
(* (internal/state/db.go) makes the first two in statements of their own;  *)
(* any number of commands open a profile side by side.                     *)
(***************************************************************************)
EXTENDS Naturals

CONSTANTS
  Openers,        \* commands
  MaxUuids,       \* bound on the identifiers made
  MaxGeneration,  \* bound on the sign-ins
  NoRowOf         \* no such row

ASSUME ProfileAssumption ==
  MaxUuids \in Nat /\ MaxGeneration \in Nat /\ NoRowOf \notin Nat

VARIABLES
  profileUuid, generation,   \* the rows, and whether the device
  installed,      \* has its time of installation
  uuidsMade,      \* the identifiers made so far are 1..uuidsMade
  openers         \* per command: where it is

profileVars == <<profileUuid, generation, installed, uuidsMade, openers>>

OpenStages == {"closed", "look", "make", "uuid", "generation", "open"}
(* uuid: what the command made, or was told later on.                      *)
Opener == [stage : OpenStages, uuid : 1..MaxUuids \cup {NoRowOf}]

ProfileTypeOK ==
  /\ profileUuid \in 1..MaxUuids \cup {NoRowOf}
  /\ generation \in 0..MaxGeneration \cup {NoRowOf}
  /\ installed \in BOOLEAN
  /\ uuidsMade \in 0..MaxUuids
  /\ openers \in [Openers -> Opener]

NotOpen == [stage |-> "closed", uuid |-> NoRowOf]
ProfileInit ==
  /\ profileUuid = NoRowOf /\ generation = NoRowOf /\ installed = FALSE
  /\ uuidsMade = 0 /\ openers = [o \in Openers |-> NotOpen]

-----------------------------------------------------------------------------
OpenerAt(o, stage) == openers[o].stage = stage
OpenerGoes(o, stage, uuid) == openers' = [openers EXCEPT ![o] = [stage |-> stage, uuid |-> uuid]]

(* Open: the database, its migrations, and ensureProfileUUID.              *)
BeginOpen(o) ==
  /\ OpenerAt(o, "closed") /\ OpenerGoes(o, "look", NoRowOf)
  /\ UNCHANGED <<profileUuid, generation, installed, uuidsMade>>
MissingEither == profileUuid = NoRowOf \/ generation = NoRowOf   \* mutant
Missing == profileUuid = NoRowOf
LookForUuid(o) ==
  /\ OpenerAt(o, "look") /\ OpenerGoes(o, IF Missing THEN "make" ELSE "open", NoRowOf)
  /\ UNCHANGED <<profileUuid, generation, installed, uuidsMade>>
MakeUuid(o) ==
  /\ OpenerAt(o, "make") /\ uuidsMade < MaxUuids
  /\ uuidsMade' = uuidsMade + 1 /\ OpenerGoes(o, "uuid", uuidsMade + 1)
  /\ UNCHANGED <<profileUuid, generation, installed>>
StoreUuid(o) ==
  /\ OpenerAt(o, "uuid")
  /\ profileUuid' = openers[o].uuid /\ OpenerGoes(o, "generation", openers[o].uuid)
  /\ UNCHANGED <<generation, installed, uuidsMade>>
StoreGeneration(o) ==
  /\ OpenerAt(o, "generation")
  /\ generation' = 0 /\ OpenerGoes(o, "open", NoRowOf)
  /\ UNCHANGED <<profileUuid, installed, uuidsMade>>

-----------------------------------------------------------------------------
(* ProfileUUID, of a command that binds a plan or a cursor to it.          *)
AskUuid(o) ==
  /\ OpenerAt(o, "open") /\ OpenerGoes(o, "open", profileUuid)
  /\ UNCHANGED <<profileUuid, generation, installed, uuidsMade>>
(* authAdvanceGeneration: an account is signed out, or gives way to        *)
(* another one.  Without a row of the generation it fails.                 *)
NextGeneration(o) ==
  /\ OpenerAt(o, "open") /\ generation # NoRowOf /\ generation < MaxGeneration
  /\ generation' = generation + 1
  /\ UNCHANGED <<profileUuid, installed, uuidsMade, openers>>
(* MobileInstallID, one transaction: the identifier and the time at which  *)
(* it was first asked for.                                                 *)
InstallId(o) ==
  /\ OpenerAt(o, "open") /\ OpenerGoes(o, "open", profileUuid)
  /\ installed' = TRUE
  /\ UNCHANGED <<profileUuid, generation, uuidsMade>>

(* A statement that fails, a crash or the end of the command.              *)
CloseProfile(o) ==
  /\ ~OpenerAt(o, "closed") /\ OpenerGoes(o, "closed", NoRowOf)
  /\ UNCHANGED <<profileUuid, generation, installed, uuidsMade>>

ProfileNext ==
  \E o \in Openers :
    \/ BeginOpen(o) \/ LookForUuid(o) \/ MakeUuid(o) \/ StoreUuid(o) \/ StoreGeneration(o)
    \/ AskUuid(o) \/ NextGeneration(o) \/ InstallId(o) \/ CloseProfile(o)

ProfileSpec == ProfileInit /\ [][ProfileNext]_profileVars

-----------------------------------------------------------------------------
(* The identifier a command was told is that of the profile for good:      *)
(* "ProfileUUID returns the random, stable identifier bound to this        *)
(* profile's private state database."                                      *)
UuidIsStable ==
  \A o \in Openers :
    OpenerAt(o, "open") /\ openers[o].uuid # NoRowOf => openers[o].uuid = profileUuid

(* The commands that found no identifier are the only ones that can change *)
(* it or take the generation back: once they have ended, however, and with *)
(* whatever they left behind, both are safe from every later command.      *)
Settled == profileUuid # NoRowOf /\ \A o \in Openers : openers[o].stage \in {"closed", "look", "open"}
SettledProfileStays ==
  [][Settled =>
       /\ Settled' /\ profileUuid' = profileUuid
       /\ generation # NoRowOf => generation' >= generation]_profileVars
=============================================================================
