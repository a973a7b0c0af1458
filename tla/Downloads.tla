------------------------------- MODULE Downloads -------------------------------
(***************************************************************************)
(* listing images --download: commands that fetch the images of a listing  *)
(* and install them in one directory (internal/app/listing.go and          *)
(* internal/media), side by side, while the user works in that directory.  *)
(* An image has one name, which it gets from its listing and its position. *)
(* The directory is held open; what replaces it at its path is left out.   *)
(***************************************************************************)
EXTENDS Naturals

CONSTANTS
  Downloaders,    \* commands
  ImageCount,     \* images of the listing, downloaded one after the other
  NoEntryThere

ASSUME DownloadAssumption == ImageCount \in Nat \ {0}

VARIABLES
  imageFiles,        \* per image: what has its name in the directory
  temporary,      \* per command: its temporary file
  downloads       \* per command: where it is

downloadVars == <<imageFiles, temporary, downloads>>

Images == 1..ImageCount
(* A regular file: whole, if it holds all bytes; synced, if the disk does. *)
(* What a command installed names it.  Anything else is special: a         *)
(* directory, or something like a symbolic link.                           *)
ImageFile == [whole : BOOLEAN, synced : BOOLEAN]
Installed == [kind : {"image"}, by : Downloaders, overwrote : BOOLEAN, file : ImageFile]
Foreign == [kind : {"user", "directory", "link"}]
DownloadStages == {"idle", "fetch", "inspect", "create", "write", "sync", "install", "clean",
           "done", "failed", "crashed"}
(* left: whether a temporary file of an image could not be removed         *)
DownloadJob == [stage : DownloadStages, image : Images, overwrite : BOOLEAN, failing : BOOLEAN,
                left : BOOLEAN]

DownloadTypeOK ==
  /\ imageFiles \in [Images -> Installed \cup Foreign \cup {NoEntryThere}]
  /\ temporary \in [Downloaders -> ImageFile \cup {NoEntryThere}]
  /\ downloads \in [Downloaders -> DownloadJob]

NoDownload == [stage |-> "idle", image |-> 1, overwrite |-> FALSE, failing |-> FALSE,
               left |-> FALSE]
DownloadInit ==
  /\ imageFiles = [i \in Images |-> NoEntryThere]
  /\ temporary = [d \in Downloaders |-> NoEntryThere]
  /\ downloads = [d \in Downloaders |-> NoDownload]

-----------------------------------------------------------------------------
DownloadAt(d, stage) == downloads[d].stage = stage
DownloadGoes(d, stage) == downloads' = [downloads EXCEPT ![d].stage = stage]
DownloadGivesUp(d) == downloads' = [downloads EXCEPT ![d].stage = "clean", ![d].failing = TRUE]
EntryOf(d) == imageFiles[downloads[d].image]

BeginDownload(d, overwrite) ==
  /\ DownloadAt(d, "idle")
  /\ downloads' = [downloads EXCEPT ![d] = [NoDownload EXCEPT !.stage = "fetch",
                                                             !.overwrite = overwrite]]
  /\ UNCHANGED <<imageFiles, temporary>>

(* The bytes are in memory. *)
ImageFetched(d) ==
  /\ DownloadAt(d, "fetch") /\ DownloadGoes(d, "inspect")
  /\ UNCHANGED <<imageFiles, temporary>>

(* writeAtomic: only a regular file is overwritten, and only if asked to.  *)
Replaceable(entry) == entry # NoEntryThere => entry.kind \in {"user", "image"}
InspectTarget(d) ==
  /\ DownloadAt(d, "inspect")
  /\ IF EntryOf(d) = NoEntryThere \/ (downloads[d].overwrite /\ Replaceable(EntryOf(d)))
     THEN DownloadGoes(d, "create") ELSE DownloadGivesUp(d)
  /\ UNCHANGED <<imageFiles, temporary>>

CreateTemporary(d) ==
  /\ DownloadAt(d, "create") /\ DownloadGoes(d, "write")
  /\ temporary' = [temporary EXCEPT ![d] = [whole |-> FALSE, synced |-> FALSE]]
  /\ UNCHANGED imageFiles
WriteTemporary(d) ==
  /\ DownloadAt(d, "write") /\ DownloadGoes(d, "sync")
  /\ temporary' = [temporary EXCEPT ![d].whole = TRUE]
  /\ UNCHANGED imageFiles
SyncNothing(d) ==   \* mutant: the file is not synced
  /\ DownloadAt(d, "sync") /\ DownloadGoes(d, "install")
  /\ UNCHANGED <<imageFiles, temporary>>
SyncTemporary(d) ==
  /\ DownloadAt(d, "sync") /\ DownloadGoes(d, "install")
  /\ temporary' = [temporary EXCEPT ![d].synced = TRUE]
  /\ UNCHANGED imageFiles

(* Without --overwrite, a rename that replaces nothing, or a link where    *)
(* there is no such rename, which leaves the temporary name; with it, a    *)
(* rename, which replaces anything but a directory.                        *)
MayInstallOver(d) ==   \* mutant: a plain rename
  EntryOf(d) # NoEntryThere => EntryOf(d).kind # "directory"
MayInstall(d) ==
  EntryOf(d) = NoEntryThere \/ (downloads[d].overwrite /\ EntryOf(d).kind # "directory")
InstallImage(d, linked) ==
  /\ DownloadAt(d, "install")
  /\ linked => ~downloads[d].overwrite
  /\ IF MayInstall(d)
     THEN /\ imageFiles' = [imageFiles EXCEPT ![downloads[d].image] =
               [kind |-> "image", by |-> d, overwrote |-> downloads[d].overwrite,
                file |-> temporary[d]]]
          /\ temporary' = [temporary EXCEPT ![d] = IF linked THEN @ ELSE NoEntryThere]
          /\ DownloadGoes(d, "clean")
     ELSE DownloadGivesUp(d) /\ UNCHANGED <<imageFiles, temporary>>

(* An error or an interrupt before that; the deferred Unlinkat, whose      *)
(* error nobody sees, and the next image, which has a temporary name of    *)
(* its own, or the output.                                                 *)
DownloadFails(d) ==
  /\ downloads[d].stage \in {"fetch", "inspect", "create", "write", "sync", "install"}
  /\ DownloadGivesUp(d)
  /\ UNCHANGED <<imageFiles, temporary>>
CleanUp(d, removed) ==
  /\ DownloadAt(d, "clean")
  /\ temporary' = [temporary EXCEPT ![d] = IF removed THEN NoEntryThere ELSE @]
  /\ LET leaves == downloads[d].left \/ (~removed /\ temporary[d] # NoEntryThere)
         job == [downloads[d] EXCEPT !.left = leaves] IN
     downloads' = [downloads EXCEPT ![d] =
       IF job.failing THEN [job EXCEPT !.stage = "failed"]
       ELSE IF job.image = ImageCount THEN [job EXCEPT !.stage = "done"]
       ELSE [job EXCEPT !.stage = "fetch", !.image = @ + 1]]
  /\ UNCHANGED imageFiles
DownloadEnds(d) ==
  /\ downloads[d].stage \in {"done", "failed"}
  /\ downloads' = [downloads EXCEPT ![d] = NoDownload]
  /\ temporary' = [temporary EXCEPT ![d] = NoEntryThere]
  /\ UNCHANGED imageFiles

-----------------------------------------------------------------------------
(* A command is killed and leaves its temporary file.                      *)
Downloading(d) == downloads[d].stage \notin {"idle", "done", "failed", "crashed"}
DownloadCrashes(d) ==
  /\ Downloading(d) /\ DownloadGoes(d, "crashed")
  /\ UNCHANGED <<imageFiles, temporary>>

(* The machine loses power: everything stops, and what is not on the disk  *)
(* is cut.                                                                 *)
Cut(file) == [file EXCEPT !.whole = @ /\ file.synced]
PowerLoss ==
  /\ \E d \in Downloaders : Downloading(d)
  /\ downloads' = [d \in Downloaders |->
       IF Downloading(d) THEN [downloads[d] EXCEPT !.stage = "crashed"] ELSE downloads[d]]
  /\ imageFiles' = [i \in Images |->
       IF imageFiles[i] # NoEntryThere /\ imageFiles[i].kind = "image"
       THEN [imageFiles[i] EXCEPT !.file = Cut(@)] ELSE imageFiles[i]]
  /\ temporary' = [d \in Downloaders |->
       IF temporary[d] = NoEntryThere THEN NoEntryThere ELSE Cut(temporary[d])]

(* The user, at any time. *)
UserChanges(i, entry) ==
  /\ imageFiles' = [imageFiles EXCEPT ![i] = entry]
  /\ UNCHANGED <<temporary, downloads>>

DownloadNext ==
  \/ \E d \in Downloaders :
       \/ \E overwrite \in BOOLEAN : BeginDownload(d, overwrite)
       \/ ImageFetched(d) \/ InspectTarget(d)
       \/ CreateTemporary(d) \/ WriteTemporary(d) \/ SyncTemporary(d)
       \/ \E linked \in BOOLEAN : InstallImage(d, linked)
       \/ DownloadFails(d) \/ DownloadEnds(d) \/ DownloadCrashes(d)
       \/ \E removed \in BOOLEAN : CleanUp(d, removed)
  \/ PowerLoss
  \/ \E i \in Images, entry \in Foreign \cup {NoEntryThere} : UserChanges(i, entry)

DownloadSpec == DownloadInit /\ [][DownloadNext]_downloadVars

-----------------------------------------------------------------------------
(* Whatever appears under the name of an image between the look at the     *)
(* directory and the installation, a command without --overwrite never     *)
(* replaces it, and no command replaces a directory.                       *)
NothingIsReplaced ==
  [][\A i \in Images :
       imageFiles[i] # NoEntryThere /\ imageFiles'[i] # NoEntryThere /\ imageFiles'[i].kind = "image" =>
         \/ imageFiles'[i].overwrote /\ imageFiles[i].kind # "directory"
         \/ imageFiles[i].kind = "image" /\ imageFiles'[i].by = imageFiles[i].by]_downloadVars

(* An installed image is complete, also after a crash of the command or of *)
(* the machine, and a command that came to its end left nothing else, if   *)
(* every temporary file that was still there could be removed.             *)
InstalledAreWhole ==
  /\ \A i \in Images :
       imageFiles[i] # NoEntryThere /\ imageFiles[i].kind = "image" => imageFiles[i].file.whole
  /\ \A d \in Downloaders :
       downloads[d].stage \in {"idle", "done", "failed"} /\ ~downloads[d].left =>
         temporary[d] = NoEntryThere
=============================================================================
