----------------------------- MODULE LocalProofs -----------------------------
(***************************************************************************)
(* What a signed-in profile keeps, for any number of commands: an image    *)
(* that is installed is whole, what config set leaves is sound, the        *)
(* identity of a profile is safe from every command that finds it, and a   *)
(* mark-read reports no success for a conversation that was never read.    *)
(***************************************************************************)
EXTENDS MCLocal, SecretStoreProofs, MobilePacingProofs, FiniteSetTheorems, TLAPS

IsImage(i) == imageFiles[i] # NoEntryThere /\ imageFiles[i].kind = "image"

(* The temporary file at each stage; no file is installed before the disk  *)
(* holds all of it.                                                        *)
TemporaryRight(d) ==
  /\ downloads[d].stage \in {"idle", "done", "failed", "fetch", "inspect", "create"}
     /\ ~downloads[d].left => temporary[d] = NoEntryThere
  /\ downloads[d].stage = "idle" => temporary[d] = NoEntryThere
  /\ downloads[d].stage \in {"write", "sync", "install"} => temporary[d] \in ImageFile
  /\ downloads[d].stage \in {"sync", "install"} => temporary[d].whole
  /\ downloads[d].stage = "install" => temporary[d].synced
OnDisk == \A i \in Images : IsImage(i) => imageFiles[i].file.whole /\ imageFiles[i].file.synced
DownloadInv == DownloadTypeOK /\ (\A d \in Downloaders : TemporaryRight(d)) /\ OnDisk

-----------------------------------------------------------------------------
LEMMA ImageIsInstalled ==
  ASSUME DownloadTypeOK, NEW i \in Images, IsImage(i) PROVE imageFiles[i] \in Installed
BY DEF DownloadTypeOK, IsImage, Foreign

(* A command that proceeds, or gives up, leaves the others where they are. *)
LEMMA GoesTyped ==
  ASSUME DownloadTypeOK, NEW d \in Downloaders, NEW stage \in DownloadStages,
         DownloadGoes(d, stage)
  PROVE  /\ downloads' \in [Downloaders -> DownloadJob] /\ downloads'[d].stage = stage
         /\ downloads'[d].left = downloads[d].left
         /\ \A e \in Downloaders \ {d} : downloads'[e] = downloads[e]
BY DEF DownloadTypeOK, DownloadGoes, DownloadJob

LEMMA GivesUpTyped ==
  ASSUME DownloadTypeOK, NEW d \in Downloaders, DownloadGivesUp(d)
  PROVE  /\ downloads' \in [Downloaders -> DownloadJob] /\ downloads'[d].stage = "clean"
         /\ \A e \in Downloaders \ {d} : downloads'[e] = downloads[e]
<1>1. downloads \in [Downloaders -> DownloadJob]
  BY DEF DownloadTypeOK
<1> DEFINE job == [downloads[d] EXCEPT !.stage = "clean", !.failing = TRUE]
<1>2. job \in DownloadJob /\ job.stage = "clean"
  BY <1>1 DEF DownloadJob, DownloadStages
<1>3. downloads' = [downloads EXCEPT ![d] = job]
  BY <1>1 DEF DownloadGivesUp
<1> QED
  BY <1>1, <1>2, <1>3

LEMMA InitRight == DownloadInit => DownloadInv
BY DownloadAssumption
   DEF DownloadInit, NoDownload, DownloadInv, DownloadTypeOK, TemporaryRight, OnDisk, IsImage,
       DownloadJob, DownloadStages, Images

LEMMA StepRight == DownloadInv /\ [DownloadNext]_downloadVars => DownloadInv'
<1> SUFFICES ASSUME DownloadInv, [DownloadNext]_downloadVars PROVE DownloadInv'
  OBVIOUS
<1>t. /\ DownloadTypeOK /\ downloads \in [Downloaders -> DownloadJob]
      /\ temporary \in [Downloaders -> ImageFile \cup {NoEntryThere}]
      /\ imageFiles \in [Images -> Installed \cup Foreign \cup {NoEntryThere}]
  BY DEF DownloadInv, DownloadTypeOK
<1>i. OnDisk /\ \A d \in Downloaders : TemporaryRight(d)
  BY DEF DownloadInv
(* One command moves, and no file of the directory changes.                *)
<1>p. ASSUME NEW d \in Downloaders, downloads' \in [Downloaders -> DownloadJob],
             temporary' \in [Downloaders -> ImageFile \cup {NoEntryThere}],
             \A e \in Downloaders \ {d} :
               downloads'[e] = downloads[e] /\ temporary'[e] = temporary[e],
             TemporaryRight(d)', UNCHANGED imageFiles
      PROVE  DownloadInv'
  <2>1. DownloadTypeOK' /\ OnDisk'
    BY <1>t, <1>i, <1>p DEF DownloadTypeOK, OnDisk, IsImage
  <2>2. \A e \in Downloaders : TemporaryRight(e)'
    BY <1>i, <1>p DEF TemporaryRight
  <2> QED
    BY <2>1, <2>2 DEF DownloadInv
(* It moves and its temporary file stays as it is.                         *)
<1>s. ASSUME NEW d \in Downloaders, NEW stage \in DownloadStages,
             DownloadGoes(d, stage), UNCHANGED <<imageFiles, temporary>>,
             stage \in {"inspect", "create"} /\ ~downloads[d].left => temporary[d] = NoEntryThere,
             stage \in {"inspect", "create", "crashed"}
      PROVE  DownloadInv'
  <2>1. TemporaryRight(d)'
    BY <1>t, <1>s, GoesTyped DEF TemporaryRight
  <2> QED
    BY <1>t, <1>s, <1>p, <2>1, GoesTyped
<1>g. ASSUME NEW d \in Downloaders, DownloadGivesUp(d), UNCHANGED <<imageFiles, temporary>>
      PROVE  DownloadInv'
  <2>1. TemporaryRight(d)'
    BY <1>t, <1>g, GivesUpTyped DEF TemporaryRight
  <2> QED
    BY <1>t, <1>g, <1>p, <2>1, GivesUpTyped
<1>1. ASSUME NEW d \in Downloaders, NEW overwrite \in BOOLEAN, BeginDownload(d, overwrite)
      PROVE  DownloadInv'
  <2> DEFINE job == [NoDownload EXCEPT !.stage = "fetch", !.overwrite = overwrite]
  <2>4. NoDownload \in DownloadJob
    BY DownloadAssumption DEF NoDownload, DownloadJob, DownloadStages, Images
  <2>1. job \in DownloadJob /\ job.stage = "fetch"
    BY <2>4 DEF DownloadJob, DownloadStages
  <2>2. downloads' = [downloads EXCEPT ![d] = job] /\ UNCHANGED <<imageFiles, temporary>>
    BY <1>1 DEF BeginDownload
  <2>3. TemporaryRight(d)'
    BY <1>1, <1>t, <1>i, <2>1, <2>2 DEF BeginDownload, DownloadAt, TemporaryRight
  <2> QED
    BY <1>t, <1>p, <2>1, <2>2, <2>3
<1>2. ASSUME NEW d \in Downloaders, ImageFetched(d) PROVE DownloadInv'
  BY <1>2, <1>s, <1>i DEF ImageFetched, DownloadAt, TemporaryRight, DownloadStages
<1>3. ASSUME NEW d \in Downloaders, InspectTarget(d) PROVE DownloadInv'
  BY <1>3, <1>s, <1>g, <1>i DEF InspectTarget, DownloadAt, TemporaryRight, DownloadStages
<1>4. ASSUME NEW d \in Downloaders, CreateTemporary(d) PROVE DownloadInv'
  <2> DEFINE file == [whole |-> FALSE, synced |-> FALSE]
  <2>1. DownloadGoes(d, "write") /\ temporary' = [temporary EXCEPT ![d] = file]
        /\ UNCHANGED imageFiles
    BY <1>4 DEF CreateTemporary
  <2>2. /\ downloads' \in [Downloaders -> DownloadJob] /\ downloads'[d].stage = "write"
        /\ \A e \in Downloaders \ {d} : downloads'[e] = downloads[e]
    BY <1>t, <2>1, GoesTyped DEF DownloadStages
  <2>3. file \in ImageFile
    BY DEF ImageFile
  <2>4. TemporaryRight(d)'
    BY <1>t, <2>1, <2>2, <2>3 DEF TemporaryRight
  <2> QED
    BY <1>t, <1>p, <2>1, <2>2, <2>3, <2>4
<1>5. ASSUME NEW d \in Downloaders, WriteTemporary(d) PROVE DownloadInv'
  <2> DEFINE file == [temporary[d] EXCEPT !.whole = TRUE]
  <2>1. /\ DownloadAt(d, "write") /\ DownloadGoes(d, "sync") /\ UNCHANGED imageFiles
        /\ temporary' = [temporary EXCEPT ![d] = file]
    BY <1>5 DEF WriteTemporary
  <2>2. /\ downloads' \in [Downloaders -> DownloadJob] /\ downloads'[d].stage = "sync"
        /\ \A e \in Downloaders \ {d} : downloads'[e] = downloads[e]
    BY <1>t, <2>1, GoesTyped DEF DownloadStages
  <2>3. temporary[d] \in ImageFile
    BY <1>i, <2>1 DEF DownloadAt, TemporaryRight
  <2>4. file \in ImageFile /\ file.whole
    BY <2>3 DEF ImageFile
  <2>5. TemporaryRight(d)'
    BY <1>t, <2>1, <2>2, <2>4 DEF TemporaryRight
  <2> QED
    BY <1>t, <1>p, <2>1, <2>2, <2>4, <2>5
<1>6. ASSUME NEW d \in Downloaders, SyncTemporary(d) PROVE DownloadInv'
  <2> DEFINE file == [temporary[d] EXCEPT !.synced = TRUE]
  <2>1. /\ DownloadAt(d, "sync") /\ DownloadGoes(d, "install") /\ UNCHANGED imageFiles
        /\ temporary' = [temporary EXCEPT ![d] = file]
    BY <1>6 DEF SyncTemporary
  <2>2. /\ downloads' \in [Downloaders -> DownloadJob] /\ downloads'[d].stage = "install"
        /\ \A e \in Downloaders \ {d} : downloads'[e] = downloads[e]
    BY <1>t, <2>1, GoesTyped DEF DownloadStages
  <2>3. temporary[d] \in ImageFile /\ temporary[d].whole
    BY <1>i, <2>1 DEF DownloadAt, TemporaryRight
  <2>4. file \in ImageFile /\ file.whole /\ file.synced
    BY <2>3 DEF ImageFile
  <2>5. TemporaryRight(d)'
    BY <1>t, <2>1, <2>2, <2>4 DEF TemporaryRight
  <2> QED
    BY <1>t, <1>p, <2>1, <2>2, <2>4, <2>5
<1>7. ASSUME NEW d \in Downloaders, NEW linked \in BOOLEAN, InstallImage(d, linked)
      PROVE  DownloadInv'
  <2> DEFINE image == downloads[d].image
             entry == [kind |-> "image", by |-> d, overwrote |-> downloads[d].overwrite,
                       file |-> temporary[d]]
  <2>1. CASE ~MayInstall(d)
    BY <1>7, <1>g, <2>1 DEF InstallImage
  <2>2. CASE MayInstall(d)
    <3>1. /\ DownloadAt(d, "install") /\ DownloadGoes(d, "clean")
          /\ imageFiles' = [imageFiles EXCEPT ![image] = entry]
          /\ temporary' = [temporary EXCEPT ![d] = IF linked THEN @ ELSE NoEntryThere]
      BY <1>7, <2>2 DEF InstallImage
    <3>2. /\ downloads' \in [Downloaders -> DownloadJob] /\ downloads'[d].stage = "clean"
          /\ \A e \in Downloaders \ {d} : downloads'[e] = downloads[e]
      BY <1>t, <3>1, GoesTyped DEF DownloadStages
    <3>3. temporary[d] \in ImageFile /\ temporary[d].whole /\ temporary[d].synced
      BY <1>i, <3>1 DEF DownloadAt, TemporaryRight
    <3>4. image \in Images /\ downloads[d].overwrite \in BOOLEAN
      BY <1>t DEF DownloadJob
    <3>5. entry \in Installed
      BY <3>3, <3>4 DEF Installed
    <3>6. DownloadTypeOK'
      BY <1>t, <3>1, <3>2, <3>3, <3>4, <3>5 DEF DownloadTypeOK
    <3>7. OnDisk'
      <4>1. ASSUME NEW i \in Images, IsImage(i)'
            PROVE  imageFiles'[i].file.whole /\ imageFiles'[i].file.synced
        <5>1. CASE i = image
          BY <5>1, <1>t, <3>1, <3>3
        <5>2. CASE i # image
          BY <5>2, <4>1, <1>t, <1>i, <3>1 DEF OnDisk, IsImage
        <5> QED
          BY <5>1, <5>2
      <4> QED
        BY <4>1 DEF OnDisk
    <3>8. \A e \in Downloaders : TemporaryRight(e)'
      BY <1>t, <1>i, <3>1, <3>2 DEF TemporaryRight
    <3> QED
      BY <3>6, <3>7, <3>8 DEF DownloadInv
  <2> QED
    BY <2>1, <2>2
<1>8. ASSUME NEW d \in Downloaders, DownloadFails(d) PROVE DownloadInv'
  BY <1>8, <1>g DEF DownloadFails
<1>9. ASSUME NEW d \in Downloaders, NEW removed \in BOOLEAN, CleanUp(d, removed)
      PROVE  DownloadInv'
  <2> DEFINE file == IF removed THEN NoEntryThere ELSE temporary[d]
             leaves == downloads[d].left \/ (~removed /\ temporary[d] # NoEntryThere)
             job == [downloads[d] EXCEPT !.left = leaves]
             then == IF job.failing THEN [job EXCEPT !.stage = "failed"]
                     ELSE IF job.image = ImageCount THEN [job EXCEPT !.stage = "done"]
                     ELSE [job EXCEPT !.stage = "fetch", !.image = @ + 1]
  <2>1. /\ temporary' = [temporary EXCEPT ![d] = file] /\ temporary'[d] = file
        /\ file \in ImageFile \cup {NoEntryThere}
    BY <1>9, <1>t DEF CleanUp
  <2>2. downloads[d] \in DownloadJob
    BY <1>t
  <2>3. job \in DownloadJob /\ (~job.left => file = NoEntryThere)
    BY <2>2 DEF DownloadJob
  <2>4. downloads' = [downloads EXCEPT ![d] = then] /\ UNCHANGED imageFiles
    BY <1>9, <2>1 DEF CleanUp
  <2> HIDE DEF job, file
  <2>5. job.image # ImageCount => job.image + 1 \in Images
    BY <2>3, DownloadAssumption DEF DownloadJob, Images
  <2>6. then \in DownloadJob /\ then.stage \in {"failed", "done", "fetch"} /\ then.left = job.left
    <3>1. [job EXCEPT !.stage = "failed"] \in DownloadJob
          /\ [job EXCEPT !.stage = "failed"].stage = "failed"
          /\ [job EXCEPT !.stage = "failed"].left = job.left
      BY <2>3 DEF DownloadJob, DownloadStages
    <3>2. [job EXCEPT !.stage = "done"] \in DownloadJob
          /\ [job EXCEPT !.stage = "done"].stage = "done"
          /\ [job EXCEPT !.stage = "done"].left = job.left
      BY <2>3 DEF DownloadJob, DownloadStages
    <3>3. ASSUME job.image # ImageCount
          PROVE  [job EXCEPT !.stage = "fetch", !.image = job.image + 1] \in DownloadJob
                 /\ [job EXCEPT !.stage = "fetch", !.image = job.image + 1].stage = "fetch"
                 /\ [job EXCEPT !.stage = "fetch", !.image = job.image + 1].left = job.left
      BY <3>3, <2>3, <2>5 DEF DownloadJob, DownloadStages
    <3> QED
      BY <3>1, <3>2, <3>3
  <2> HIDE DEF then
  <2>7. TemporaryRight(d)'
    BY <1>t, <2>1, <2>3, <2>4, <2>6 DEF TemporaryRight
  <2> QED
    BY <1>t, <1>p, <2>1, <2>4, <2>6, <2>7
<1>10. ASSUME NEW d \in Downloaders, DownloadEnds(d) PROVE DownloadInv'
  <2>1. NoDownload \in DownloadJob
    BY DownloadAssumption DEF NoDownload, DownloadJob, DownloadStages, Images
  <2>2. /\ downloads' = [downloads EXCEPT ![d] = NoDownload] /\ UNCHANGED imageFiles
        /\ temporary' = [temporary EXCEPT ![d] = NoEntryThere]
    BY <1>10 DEF DownloadEnds
  <2>3. TemporaryRight(d)'
    BY <1>t, <2>2 DEF TemporaryRight, NoDownload
  <2> QED
    BY <1>t, <1>p, <2>1, <2>2, <2>3
<1>11. ASSUME NEW d \in Downloaders, DownloadCrashes(d) PROVE DownloadInv'
  BY <1>11, <1>s DEF DownloadCrashes, DownloadStages
(* What the disk does not hold is cut; every installed image it holds.     *)
<1>12. CASE PowerLoss
  <2>1. \A file \in ImageFile : Cut(file) \in ImageFile
    BY DEF ImageFile, Cut
  <2>2. \A file \in ImageFile : file.synced =>
          Cut(file).whole = file.whole /\ Cut(file).synced
    BY DEF ImageFile, Cut
  <2>3. temporary' \in [Downloaders -> ImageFile \cup {NoEntryThere}]
    BY <1>12, <1>t, <2>1 DEF PowerLoss
  <2>4. /\ downloads' \in [Downloaders -> DownloadJob]
        /\ \A d \in Downloaders : IF Downloading(d) THEN downloads'[d].stage = "crashed"
                                  ELSE downloads'[d] = downloads[d]
    <3>1. \A d \in Downloaders : /\ [downloads[d] EXCEPT !.stage = "crashed"] \in DownloadJob
                                 /\ [downloads[d] EXCEPT !.stage = "crashed"].stage = "crashed"
      BY <1>t DEF DownloadJob, DownloadStages
    <3> QED
      BY <1>12, <1>t, <3>1 DEF PowerLoss
  <2>5. ASSUME NEW i \in Images
        PROVE  /\ imageFiles'[i] \in Installed \cup Foreign \cup {NoEntryThere}
               /\ IsImage(i)' => imageFiles'[i].file.whole /\ imageFiles'[i].file.synced
    <3>1. CASE IsImage(i)
      <4>1. imageFiles[i] \in Installed /\ imageFiles[i].file \in ImageFile
        BY <3>1, <1>t, ImageIsInstalled DEF Installed
      <4>2. imageFiles[i].file.whole /\ imageFiles[i].file.synced
        BY <3>1, <1>i DEF OnDisk
      <4>3. imageFiles'[i] = [imageFiles[i] EXCEPT !.file = Cut(imageFiles[i].file)]
        BY <3>1, <1>12 DEF PowerLoss, IsImage
      <4>4. imageFiles'[i] \in Installed /\ imageFiles'[i].file = Cut(imageFiles[i].file)
        BY <4>1, <4>3, <2>1 DEF Installed
      <4> QED
        BY <4>1, <4>2, <4>4, <2>2
    <3>2. CASE ~IsImage(i)
      BY <3>2, <1>12, <1>t DEF PowerLoss, IsImage
    <3> QED
      BY <3>1, <3>2
  <2>6. imageFiles' \in [Images -> Installed \cup Foreign \cup {NoEntryThere}] /\ OnDisk'
    <3>1. /\ imageFiles' = [i \in Images |-> imageFiles'[i]]
      BY <1>12 DEF PowerLoss
    <3> QED
      BY <2>5, <3>1 DEF OnDisk
  <2>7. ASSUME NEW d \in Downloaders PROVE TemporaryRight(d)'
    <3>0. temporary[d] = NoEntryThere => temporary'[d] = NoEntryThere
      BY <1>12 DEF PowerLoss
    <3>1. CASE Downloading(d)
      BY <3>1, <2>4 DEF TemporaryRight
    <3>2. CASE ~Downloading(d) /\ downloads[d].stage = "crashed"
      BY <3>2, <2>4 DEF TemporaryRight
    <3>3. CASE ~Downloading(d) /\ downloads[d].stage # "crashed"
      <4>1. downloads[d].stage \in {"idle", "done", "failed"} /\ downloads'[d] = downloads[d]
        BY <3>3, <2>4 DEF Downloading
      <4> QED
        BY <3>0, <4>1, <1>i DEF TemporaryRight
    <3> QED
      BY <3>1, <3>2, <3>3
  <2> QED
    BY <2>3, <2>4, <2>6, <2>7 DEF DownloadInv, DownloadTypeOK
<1>13. ASSUME NEW i \in Images, NEW entry \in Foreign \cup {NoEntryThere}, UserChanges(i, entry)
       PROVE  DownloadInv'
  <2>1. imageFiles' = [imageFiles EXCEPT ![i] = entry] /\ UNCHANGED <<temporary, downloads>>
    BY <1>13 DEF UserChanges
  <2>2. entry = NoEntryThere \/ entry.kind # "image"
    BY DEF Foreign
  <2>3. OnDisk'
    BY <1>t, <1>i, <2>1, <2>2 DEF OnDisk, IsImage
  <2>4. DownloadTypeOK'
    BY <1>t, <2>1 DEF DownloadTypeOK
  <2> QED
    BY <1>i, <2>1, <2>3, <2>4 DEF DownloadInv, TemporaryRight
<1>14. CASE UNCHANGED downloadVars
  BY <1>14 DEF downloadVars, DownloadInv, DownloadTypeOK, TemporaryRight, OnDisk, IsImage
<1> QED
  BY <1>1, <1>2, <1>3, <1>4, <1>5, <1>6, <1>7, <1>8, <1>9, <1>10, <1>11, <1>12, <1>13, <1>14
     DEF DownloadNext

LEMMA AlwaysRight == DownloadSpec => []DownloadInv
BY InitRight, StepRight, PTL DEF DownloadSpec

(* An installed image is complete, whatever crashed and whenever the power *)
(* was lost, and a command that ended left nothing else.                   *)
THEOREM ImagesAreWhole == DownloadSpec => []InstalledAreWhole
<1>1. DownloadInv => InstalledAreWhole
  BY DEF DownloadInv, TemporaryRight, OnDisk, IsImage, InstalledAreWhole
<1> QED
  BY AlwaysRight, <1>1, PTL

-----------------------------------------------------------------------------
(* What a step may do to what has the name of an image.                    *)
ReplacesNothing ==
  \A i \in Images :
    imageFiles[i] # NoEntryThere /\ imageFiles'[i] # NoEntryThere /\ imageFiles'[i].kind = "image" =>
      \/ imageFiles'[i].overwrote /\ imageFiles[i].kind # "directory"
      \/ imageFiles[i].kind = "image" /\ imageFiles'[i].by = imageFiles[i].by

LEMMA StepReplacesNothing ==
  ASSUME DownloadTypeOK, DownloadNext PROVE ReplacesNothing
<1>t. imageFiles \in [Images -> Installed \cup Foreign \cup {NoEntryThere}]
  BY DEF DownloadTypeOK
<1> SUFFICES ASSUME NEW i \in Images, imageFiles[i] # NoEntryThere,
                    imageFiles'[i] # NoEntryThere, imageFiles'[i].kind = "image"
             PROVE  \/ imageFiles'[i].overwrote /\ imageFiles[i].kind # "directory"
                    \/ imageFiles[i].kind = "image" /\ imageFiles'[i].by = imageFiles[i].by
  BY DEF ReplacesNothing
<1>1. CASE imageFiles'[i] = imageFiles[i]
  BY <1>1
<1>2. ASSUME NEW d \in Downloaders, NEW linked \in BOOLEAN, InstallImage(d, linked),
             imageFiles'[i] # imageFiles[i]
      PROVE  imageFiles'[i].overwrote /\ imageFiles[i].kind # "directory"
  <2>1. MayInstall(d) /\ imageFiles' = [imageFiles EXCEPT ![downloads[d].image] =
          [kind |-> "image", by |-> d, overwrote |-> downloads[d].overwrite, file |-> temporary[d]]]
    BY <1>2 DEF InstallImage
  <2>2. i = downloads[d].image
    BY <1>2, <1>t, <2>1
  <2> QED
    BY <1>t, <2>1, <2>2 DEF MayInstall, EntryOf
<1>3. ASSUME PowerLoss
      PROVE  imageFiles[i].kind = "image" /\ imageFiles'[i].by = imageFiles[i].by
  <2>1. CASE IsImage(i)
    <3>1. imageFiles[i] \in Installed
      BY <2>1, ImageIsInstalled
    <3>2. imageFiles'[i] = [imageFiles[i] EXCEPT !.file = Cut(imageFiles[i].file)]
      BY <2>1, <1>3 DEF PowerLoss, IsImage
    <3> QED
      BY <2>1, <3>1, <3>2 DEF Installed, IsImage
  <2>2. CASE ~IsImage(i)
    <3>1. imageFiles'[i] = imageFiles[i]
      BY <2>2, <1>3 DEF PowerLoss, IsImage
    <3> QED
      BY <2>2, <3>1 DEF IsImage
  <2> QED
    BY <2>1, <2>2
<1>4. ASSUME NEW j \in Images, NEW entry \in Foreign \cup {NoEntryThere}, UserChanges(j, entry)
      PROVE  imageFiles'[i] = imageFiles[i]
  <2>1. imageFiles' = [imageFiles EXCEPT ![j] = entry]
    BY <1>4 DEF UserChanges
  <2>2. entry = NoEntryThere \/ entry.kind # "image"
    BY DEF Foreign
  <2> QED
    BY <1>t, <2>1, <2>2
<1> QED
  BY <1>1, <1>2, <1>3, <1>4
     DEF DownloadNext, BeginDownload, ImageFetched, InspectTarget, CreateTemporary,
         WriteTemporary, SyncTemporary, DownloadFails, CleanUp, DownloadEnds, DownloadCrashes

(* Whatever comes to be under the name of an image while a command works,  *)
(* the command replaces it only if it was asked to, and never a directory. *)
THEOREM NothingElseIsReplaced == DownloadSpec => NothingIsReplaced
<1>1. DownloadInv /\ [DownloadNext]_downloadVars => [ReplacesNothing]_downloadVars
  BY StepReplacesNothing DEF DownloadInv
<1>2. DownloadSpec => [][ReplacesNothing]_downloadVars
  BY AlwaysRight, <1>1, PTL DEF DownloadSpec
<1> QED
  BY <1>2 DEF ReplacesNothing, NothingIsReplaced

-----------------------------------------------------------------------------

(* A command that is about to replace the file has all of it on the disk,  *)
(* and no value in it that Load refuses.                                   *)
Sound(file) ==
  file \in ConfigFile /\ file.indented /\ Accepted(file.values) /\ file.by = "set"
SetterRight(s) ==
  setters[s] # NoFile /\ setters[s].stage \in {"write", "sync", "replace"} =>
    /\ Sound(setters[s].file)
    /\ setters[s].stage \in {"sync", "replace"} => setters[s].file.decodes
    /\ setters[s].stage = "replace" => setters[s].file.synced
ConfigRight ==
  config # NoFile /\ config.by = "set" => Sound(config) /\ config.decodes /\ config.synced
ConfigInv == ConfigTypeOK /\ (\A s \in Setters : SetterRight(s)) /\ ConfigRight

LEMMA InitConfig == ConfigInit => ConfigInv
BY DEF ConfigInit, ConfigInv, ConfigTypeOK, SetterRight, ConfigRight

LEMMA EmptyIsConfig == EmptyConfig \in ConfigContents
BY DEF EmptyConfig, ConfigContents

(* What a command about to write holds, if Load accepted what it read.     *)
LEMMA NewConfig ==
  ASSUME ConfigTypeOK, config # NoFile => Loads(config), NEW setting \in Settings,
         NEW value \in ConfigValues
  PROVE  LET values == [ValuesRead EXCEPT ![setting] = value]
             new == [values |-> values, others |-> OthersRead, indented |-> TRUE,
                     decodes |-> FALSE, synced |-> FALSE, by |-> "set"]
         IN  Sound(new)
<1> DEFINE values == [ValuesRead EXCEPT ![setting] = value]
           new == [values |-> values, others |-> OthersRead, indented |-> TRUE,
                   decodes |-> FALSE, synced |-> FALSE, by |-> "set"]
<1>1. ValuesRead \in ConfigContents /\ OthersRead \in 0..MaxOthers
  BY EmptyIsConfig, ConfigAssumption DEF ValuesRead, OthersRead, ConfigTypeOK, ConfigFile
<1>2. Accepted(ValuesRead)
  BY ConfigAssumption DEF ValuesRead, Loads, Accepted, EmptyConfig
<1>3. values \in ConfigContents /\ Accepted(values)
  BY <1>1, <1>2, ConfigAssumption DEF ConfigContents, Accepted
<1> HIDE DEF values
<1>4. new \in ConfigFile
  BY <1>1, <1>3 DEF ConfigFile
<1>5. new.indented /\ new.values = values /\ new.by = "set"
  OBVIOUS
<1> HIDE DEF new
<1>6. Sound(new)
  BY <1>3, <1>4, <1>5 DEF Sound
<1> QED
  BY <1>6 DEF new, values

LEMMA StepConfig == ConfigInv /\ [ConfigNext]_configVars => ConfigInv'
<1> SUFFICES ASSUME ConfigInv, [ConfigNext]_configVars PROVE ConfigInv'
  OBVIOUS
<1>t. /\ ConfigTypeOK /\ config \in ConfigFile \cup {NoFile}
      /\ setters \in [Setters -> Setter \cup {NoFile}]
  BY DEF ConfigInv, ConfigTypeOK
<1>i. ConfigRight /\ \A s \in Setters : SetterRight(s)
  BY DEF ConfigInv
(* One command moves and the file stays.                                   *)
<1>p. ASSUME NEW s \in Setters, NEW setter \in Setter \cup {NoFile},
             setters' = [setters EXCEPT ![s] = setter], UNCHANGED config, SetterRight(s)'
      PROVE  ConfigInv'
  <2>1. ConfigTypeOK' /\ ConfigRight'
    BY <1>t, <1>i, <1>p DEF ConfigTypeOK, ConfigRight
  <2>2. \A r \in Setters : SetterRight(r)'
    BY <1>t, <1>i, <1>p DEF SetterRight
  <2> QED
    BY <2>1, <2>2 DEF ConfigInv
<1>1. ASSUME NEW s \in Setters, NEW setting \in Settings,
             NEW value \in ConfigValues \cup {Wrong}, NEW dryRun \in BOOLEAN,
             LoadConfig(s, setting, value, dryRun)
      PROVE  ConfigInv'
  <2> DEFINE loaded == value # Wrong /\ (config # NoFile => Loads(config))
             new == [values |-> [ValuesRead EXCEPT ![setting] = value], others |-> OthersRead,
                     indented |-> TRUE, decodes |-> FALSE, synced |-> FALSE, by |-> "set"]
             stage == IF ~loaded THEN "refused" ELSE IF dryRun THEN "set" ELSE "write"
             file == IF loaded /\ ~dryRun THEN new ELSE NoFile
  <2>1. loaded => Sound(new)
    BY <1>t, NewConfig
  <2>2. setters' = [setters EXCEPT ![s] = [stage |-> stage, file |-> file]] /\ UNCHANGED config
    BY <1>1 DEF LoadConfig
  <2> HIDE DEF loaded, new
  <2>3. /\ stage \in SetterStages /\ file \in ConfigFile \cup {NoFile}
        /\ stage \notin {"sync", "replace"} /\ (stage = "write" => Sound(file))
    BY <2>1 DEF SetterStages, Sound
  <2> HIDE DEF stage, file
  <2>5. [stage |-> stage, file |-> file] \in Setter
    BY <2>3 DEF Setter
  <2>6. SetterRight(s)'
    BY <1>t, <2>2, <2>3 DEF SetterRight, Sound, Accepted
  <2> QED
    BY <1>p, <2>2, <2>5, <2>6
<1>2. ASSUME NEW s \in Setters, WriteConfig(s) PROVE ConfigInv'
  <2>1. /\ setters[s] \in Setter /\ setters[s].stage = "write" /\ setters[s].file \in ConfigFile
        /\ Sound(setters[s].file)
    BY <1>2, <1>t, <1>i DEF WriteConfig, SetterAt, SetterRight, Sound
  <2> DEFINE file == [setters[s].file EXCEPT !.decodes = TRUE]
             setter == [setters[s] EXCEPT !.stage = "sync", !.file = file]
  <2>2. file \in ConfigFile /\ file.decodes /\ Sound(file)
    BY <2>1 DEF ConfigFile, Sound
  <2> HIDE DEF file
  <2>3. setter \in Setter /\ setter.stage = "sync" /\ setter.file = file
    BY <2>1, <2>2 DEF Setter, SetterStages
  <2>4. setters' = [setters EXCEPT ![s] = setter] /\ UNCHANGED config
    BY <1>2, <1>t, <2>1 DEF WriteConfig, file
  <2> HIDE DEF setter
  <2>5. SetterRight(s)'
    BY <1>t, <2>2, <2>3, <2>4 DEF SetterRight
  <2> QED
    BY <1>p, <2>3, <2>4, <2>5
<1>3. ASSUME NEW s \in Setters, SyncConfig(s) PROVE ConfigInv'
  <2>1. /\ setters[s] \in Setter /\ setters[s].stage = "sync" /\ setters[s].file \in ConfigFile
        /\ Sound(setters[s].file) /\ setters[s].file.decodes
    BY <1>3, <1>t, <1>i DEF SyncConfig, SetterAt, SetterRight, Sound
  <2> DEFINE file == [setters[s].file EXCEPT !.synced = TRUE]
             setter == [setters[s] EXCEPT !.stage = "replace", !.file = file]
  <2>2. file \in ConfigFile /\ file.decodes /\ file.synced /\ Sound(file)
    BY <2>1 DEF ConfigFile, Sound
  <2> HIDE DEF file
  <2>3. setter \in Setter /\ setter.stage = "replace" /\ setter.file = file
    BY <2>1, <2>2 DEF Setter, SetterStages
  <2>4. setters' = [setters EXCEPT ![s] = setter] /\ UNCHANGED config
    BY <1>3, <1>t, <2>1 DEF SyncConfig, file
  <2> HIDE DEF setter
  <2>5. SetterRight(s)'
    BY <1>t, <2>2, <2>3, <2>4 DEF SetterRight
  <2> QED
    BY <1>p, <2>3, <2>4, <2>5
<1>4. ASSUME NEW s \in Setters, ReplaceConfig(s) PROVE ConfigInv'
  <2>1. /\ setters[s] \in Setter /\ setters[s].file \in ConfigFile
        /\ setters[s].file.decodes /\ setters[s].file.synced /\ Sound(setters[s].file)
    BY <1>4, <1>t, <1>i DEF ReplaceConfig, SetterAt, SetterRight, Sound
  <2> DEFINE setter == [setters[s] EXCEPT !.stage = "protect", !.file = NoFile]
  <2>2. setter \in Setter /\ setter.stage = "protect"
    BY <2>1 DEF Setter, SetterStages
  <2>3. setters' = [setters EXCEPT ![s] = setter] /\ config' = setters[s].file
    BY <1>4, <1>t, <2>1 DEF ReplaceConfig
  <2> HIDE DEF setter
  <2>4. \A r \in Setters : SetterRight(r)'
    BY <1>t, <1>i, <2>2, <2>3 DEF SetterRight
  <2> QED
    BY <1>t, <2>1, <2>2, <2>3, <2>4 DEF ConfigInv, ConfigTypeOK, ConfigRight
<1>5. ASSUME NEW s \in Setters, ProtectConfig(s) PROVE ConfigInv'
  <2>1. setters[s] \in Setter
    BY <1>5, <1>t DEF ProtectConfig, SetterAt
  <2> DEFINE setter == [setters[s] EXCEPT !.stage = "set"]
  <2>2. setter \in Setter /\ setter.stage = "set"
    BY <2>1 DEF Setter, SetterStages
  <2>3. setters' = [setters EXCEPT ![s] = setter] /\ UNCHANGED config
    BY <1>5, <1>t DEF ProtectConfig, SetterGoes
  <2> HIDE DEF setter
  <2>4. SetterRight(s)'
    BY <1>t, <2>2, <2>3 DEF SetterRight
  <2> QED
    BY <1>p, <2>2, <2>3, <2>4
<1>6. ASSUME NEW s \in Setters, SetterEnds(s) PROVE ConfigInv'
  <2>1. setters' = [setters EXCEPT ![s] = NoFile] /\ UNCHANGED config
    BY <1>6 DEF SetterEnds
  <2>2. SetterRight(s)'
    BY <1>t, <2>1 DEF SetterRight
  <2> QED
    BY <1>p, <2>1, <2>2
(* What a command replaced the file with is on the disk already.           *)
<1>7. CASE ConfigPowerLoss
  <2>1. setters' \in [Setters -> Setter \cup {NoFile}] /\ \A s \in Setters : SetterRight(s)'
    BY <1>7 DEF ConfigPowerLoss, SetterRight
  <2>2. config \in ConfigFile
    BY <1>7, <1>t DEF ConfigPowerLoss
  <2>3. CASE config.synced
    BY <1>7, <1>t, <1>i, <2>1, <2>3 DEF ConfigPowerLoss, ConfigInv, ConfigTypeOK, ConfigRight
  <2>4. CASE ~config.synced
    <3> DEFINE cut == [config EXCEPT !.values = EmptyConfig, !.decodes = FALSE]
    <3>1. cut \in ConfigFile /\ cut.by = config.by
      BY <2>2, EmptyIsConfig DEF ConfigFile
    <3>2. config' = cut
      BY <1>7, <2>4 DEF ConfigPowerLoss
    <3>3. config.by # "set"
      BY <1>7, <1>i, <2>4 DEF ConfigRight, ConfigPowerLoss
    <3> HIDE DEF cut
    <3> QED
      BY <2>1, <3>1, <3>2, <3>3 DEF ConfigInv, ConfigTypeOK, ConfigRight
  <2> QED
    BY <2>3, <2>4
<1>8. ASSUME NEW values \in ConfigContents, NEW others \in 0..MaxOthers, NEW indented \in BOOLEAN,
             NEW decodes \in BOOLEAN, UserEdits(values, others, indented, decodes)
      PROVE  ConfigInv'
  <2>1. config' \in ConfigFile /\ config'.by = "user" /\ UNCHANGED setters
    BY <1>8 DEF UserEdits, ConfigFile
  <2> QED
    BY <1>t, <1>i, <2>1 DEF ConfigInv, ConfigTypeOK, ConfigRight, SetterRight
<1>9. CASE UserRemoves
  BY <1>9, <1>t, <1>i DEF UserRemoves, ConfigInv, ConfigTypeOK, ConfigRight, SetterRight
<1>10. CASE UNCHANGED configVars
  BY <1>10, <1>t, <1>i DEF configVars, ConfigInv, ConfigTypeOK, ConfigRight, SetterRight
<1> QED
  BY <1>1, <1>2, <1>3, <1>4, <1>5, <1>6, <1>7, <1>8, <1>9, <1>10 DEF ConfigNext

(* What a config set left decodes and holds nothing that Load refuses,     *)
(* however many overlap, whatever they set and whenever one is killed or   *)
(* the power is lost; so that it is loaded unless its settings, indented,  *)
(* exceed the limit.                                                       *)
THEOREM ShortConfigLoads == ConfigSpec => []ConfigLoadsIfShort
<1>1. ConfigInv => ConfigLoadsIfShort
  <2> SUFFICES ASSUME ConfigRight, config # NoFile, config.by = "set"
               PROVE  /\ config.decodes /\ Accepted(config.values)
                      /\ ~Loads(config) => 2 * Held(config) > ConfigLimit
    BY DEF ConfigInv, ConfigLoadsIfShort
  <2>1. config \in ConfigFile /\ config.indented /\ config.decodes /\ Accepted(config.values)
    BY DEF ConfigRight, Sound
  <2>2. Held(config) \in Nat
    <3> DEFINE held == {s \in Settings : config.values[s] # Unset}
    <3>1. Cardinality(held) \in Nat
      BY ConfigAssumption, FS_Subset, FS_CardinalityType
    <3>2. config.others \in Nat
      BY <2>1, ConfigAssumption DEF ConfigFile
    <3>3. Held(config) = config.others + Cardinality(held)
      BY DEF Held
    <3> HIDE DEF held
    <3> QED
      BY <3>1, <3>2, <3>3
  <2>3. ~Loads(config) => ~(2 * Held(config) <= ConfigLimit)
    BY <2>1 DEF Loads, LengthOf
  <2> QED
    BY <2>1, <2>2, <2>3, ConfigAssumption
<1> QED
  BY InitConfig, StepConfig, <1>1, PTL DEF ConfigSpec

-----------------------------------------------------------------------------
(* A sign-in counts from a generation that is a number, and a command that *)
(* is about to store an identifier has one.                                *)
ProfileInv ==
  /\ ProfileTypeOK
  /\ \A o \in Openers : OpenerAt(o, "uuid") => openers[o].uuid \in 1..MaxUuids

LEMMA InitProfile == ProfileInit => ProfileInv
<1> SUFFICES ASSUME ProfileInit PROVE ProfileInv
  OBVIOUS
<1>1. NotOpen \in Opener /\ NotOpen.stage = "closed"
  BY DEF NotOpen, Opener, OpenStages
<1>2. 0 \in 0..MaxUuids
  BY ProfileAssumption
<1> QED
  BY <1>1, <1>2 DEF ProfileInit, ProfileInv, ProfileTypeOK, OpenerAt

LEMMA OpenerMoves ==
  ASSUME ProfileTypeOK, NEW o \in Openers, NEW stage \in OpenStages,
         NEW uuid \in 1..MaxUuids \cup {NoRowOf}, OpenerGoes(o, stage, uuid)
  PROVE  /\ openers' \in [Openers -> Opener]
         /\ openers'[o].stage = stage /\ openers'[o].uuid = uuid
         /\ \A p \in Openers \ {o} : openers'[p] = openers[p]
BY DEF ProfileTypeOK, OpenerGoes, Opener

LEMMA StepProfile == ProfileInv /\ [ProfileNext]_profileVars => ProfileInv'
<1> SUFFICES ASSUME ProfileInv, [ProfileNext]_profileVars PROVE ProfileInv'
  OBVIOUS
<1> USE ProfileAssumption
<1>t. /\ ProfileTypeOK
      /\ profileUuid \in 1..MaxUuids \cup {NoRowOf}
      /\ generation \in 0..MaxGeneration \cup {NoRowOf}
      /\ installed \in BOOLEAN /\ uuidsMade \in 0..MaxUuids
  BY DEF ProfileInv, ProfileTypeOK
<1>p. ASSUME NEW o \in Openers, NEW stage \in OpenStages,
             NEW uuid \in 1..MaxUuids \cup {NoRowOf}, OpenerGoes(o, stage, uuid),
             stage = "uuid" => uuid \in 1..MaxUuids,
             profileUuid' \in 1..MaxUuids \cup {NoRowOf},
             generation' \in 0..MaxGeneration \cup {NoRowOf},
             installed' \in BOOLEAN, uuidsMade' \in 0..MaxUuids
      PROVE  ProfileInv'
  <2>1. /\ openers' \in [Openers -> Opener]
        /\ openers'[o].stage = stage /\ openers'[o].uuid = uuid
        /\ \A p \in Openers \ {o} : openers'[p] = openers[p]
    BY <1>p, <1>t, OpenerMoves
  <2> QED
    BY <1>p, <2>1 DEF ProfileInv, ProfileTypeOK, OpenerAt
<1>1. ASSUME NEW o \in Openers, BeginOpen(o) PROVE ProfileInv'
  BY <1>1, <1>p, <1>t DEF BeginOpen, OpenStages
<1>2. ASSUME NEW o \in Openers, LookForUuid(o) PROVE ProfileInv'
  BY <1>2, <1>p, <1>t DEF LookForUuid, OpenStages
<1>3. ASSUME NEW o \in Openers, MakeUuid(o) PROVE ProfileInv'
  <2>1. uuidsMade + 1 \in 1..MaxUuids /\ uuidsMade' = uuidsMade + 1
    BY <1>3, <1>t DEF MakeUuid
  <2> QED
    BY <1>3, <1>p, <1>t, <2>1 DEF MakeUuid, OpenStages
<1>4. ASSUME NEW o \in Openers, StoreUuid(o) PROVE ProfileInv'
  <2>1. openers[o].uuid \in 1..MaxUuids
    BY <1>4 DEF StoreUuid, ProfileInv
  <2> QED
    BY <1>4, <1>p, <1>t, <2>1 DEF StoreUuid, OpenStages
<1>5. ASSUME NEW o \in Openers, StoreGeneration(o) PROVE ProfileInv'
  <2>1. generation' = 0 /\ 0 \in 0..MaxGeneration
    BY <1>5 DEF StoreGeneration
  <2>2. OpenerGoes(o, "open", NoRowOf) /\ UNCHANGED <<profileUuid, installed, uuidsMade>>
    BY <1>5 DEF StoreGeneration
  <2> QED
    BY <1>p, <1>t, <2>1, <2>2 DEF OpenStages
<1>6. ASSUME NEW o \in Openers, AskUuid(o) PROVE ProfileInv'
  BY <1>6, <1>p, <1>t DEF AskUuid, OpenStages
<1>7. ASSUME NEW o \in Openers, NextGeneration(o) PROVE ProfileInv'
  <2>1. generation + 1 \in 0..MaxGeneration /\ generation' = generation + 1
    BY <1>7, <1>t DEF NextGeneration
  <2> QED
    BY <1>7, <1>t, <2>1 DEF NextGeneration, ProfileInv, ProfileTypeOK, OpenerAt
<1>8. ASSUME NEW o \in Openers, InstallId(o) PROVE ProfileInv'
  BY <1>8, <1>p, <1>t DEF InstallId, OpenStages
<1>9. ASSUME NEW o \in Openers, CloseProfile(o) PROVE ProfileInv'
  BY <1>9, <1>p, <1>t DEF CloseProfile, OpenStages
<1>10. CASE UNCHANGED profileVars
  BY <1>10 DEF profileVars, ProfileInv, ProfileTypeOK, OpenerAt
<1> QED
  BY <1>1, <1>2, <1>3, <1>4, <1>5, <1>6, <1>7, <1>8, <1>9, <1>10 DEF ProfileNext

LEMMA AlwaysProfile == ProfileSpec => []ProfileInv
BY InitProfile, StepProfile, PTL DEF ProfileSpec

(* What a step keeps of a profile that is settled.                         *)
KeepsIdentity ==
  Settled =>
    /\ Settled' /\ profileUuid' = profileUuid
    /\ generation # NoRowOf => generation' >= generation

(* A command that finds the identifier opens the profile and stores none.  *)
LEMMA StepKeepsIdentity == ASSUME ProfileInv, ProfileNext PROVE KeepsIdentity
<1> SUFFICES ASSUME Settled PROVE /\ Settled' /\ profileUuid' = profileUuid
                                  /\ generation # NoRowOf => generation' >= generation
  BY DEF KeepsIdentity
<1>t. /\ ProfileTypeOK /\ profileUuid \in 1..MaxUuids \cup {NoRowOf}
      /\ generation # NoRowOf => generation \in Nat
  BY ProfileAssumption DEF ProfileInv, ProfileTypeOK
<1>p. ASSUME NEW o \in Openers, NEW stage \in {"closed", "look", "open"},
             NEW uuid \in 1..MaxUuids \cup {NoRowOf}, OpenerGoes(o, stage, uuid),
             UNCHANGED <<profileUuid, generation>>
      PROVE  /\ Settled' /\ profileUuid' = profileUuid
             /\ generation # NoRowOf => generation' >= generation
  <2>1. openers'[o].stage = stage /\ \A p \in Openers \ {o} : openers'[p] = openers[p]
    BY <1>p, <1>t, OpenerMoves DEF OpenStages
  <2> QED
    BY <1>p, <1>t, <2>1 DEF Settled
<1>1. ASSUME NEW o \in Openers, LookForUuid(o)
      PROVE  OpenerGoes(o, "open", NoRowOf) /\ UNCHANGED <<profileUuid, generation>>
  BY <1>1 DEF LookForUuid, Missing, Settled
<1>2. ASSUME NEW o \in Openers PROVE ~MakeUuid(o) /\ ~StoreUuid(o) /\ ~StoreGeneration(o)
  BY <1>2 DEF Settled, MakeUuid, StoreUuid, StoreGeneration, OpenerAt
<1>3. ASSUME NEW o \in Openers, NextGeneration(o)
      PROVE  /\ Settled' /\ profileUuid' = profileUuid
             /\ generation # NoRowOf => generation' >= generation
  BY <1>3, <1>t DEF NextGeneration, Settled
<1> QED
  BY <1>1, <1>2, <1>3, <1>p, <1>t
     DEF ProfileNext, BeginOpen, AskUuid, InstallId, CloseProfile

(* Once the commands that made the identity of a profile have ended, no    *)
(* later one changes the identifier or takes the generation back, also     *)
(* when a crash left the generation without a row.                         *)
THEOREM IdentityStays == ProfileSpec => SettledProfileStays
<1>1. ProfileInv /\ [ProfileNext]_profileVars => [KeepsIdentity]_profileVars
  BY StepKeepsIdentity
<1>2. ProfileSpec => [][KeepsIdentity]_profileVars
  BY AlwaysProfile, <1>1, PTL DEF ProfileSpec
<1> QED
  BY <1>2 DEF KeepsIdentity, SettledProfileStays

-----------------------------------------------------------------------------
Job == ListJob \cup GetJob \cup MarkJob \cup {NotRunning, Ended}

(* What a mark-read may rely on at each stage, where the site's unread      *)
(* conversations are as given: all that is read now was seen to be; the     *)
(* site that applied it made all of its conversations read; a page of the   *)
(* reconciliation only counts what was read, or what it says nothing of.    *)
RightFor(job, remaining) ==
  /\ Waits(job) => Convs \ remaining \subseteq job.wasRead
  /\ job.stage \in {"send", "sent", "applied"} =>
       job.found = {} /\ job.foundRead = {} /\ job.pages = 0
  /\ job.stage = "applied" => job.ids \subseteq job.wasRead
  /\ job.stage = "reconcile" =>
       job.foundRead \subseteq job.wasRead \cup job.omitted /\ job.pages < ReconcilePages
  /\ job.stage \in {"confirm", "confirmed"} => job.ids \subseteq job.wasRead \cup job.omitted

ReadsInv == ReadsTypeOK /\ \A x \in ReadCommands : RightFor(commands[x], unread)

(* The stage of a command says which command it is. *)
LEMMA StageOfJob ==
  ASSUME NEW job \in Job
  PROVE  /\ job.stage \in {"list", "store"} => job \in ListJob
         /\ job.stage \in {"open", "merge"} => job \in GetJob
         /\ job.stage \in {"send", "sent", "applied", "confirm", "reconcile", "confirmed"}
              => job \in MarkJob
BY DEF Job, ListJob, GetJob, MarkJob, NotRunning, Ended

(* Only a mark-read has anything to rely on. *)
LEMMA OthersRight ==
  ASSUME NEW job, NEW remaining,
         job.stage \notin {"send", "sent", "applied", "confirm", "reconcile", "confirmed"}
  PROVE  RightFor(job, remaining) /\ ~ Waits(job)
BY DEF RightFor, Waits

(* A command that proceeds while the site stands still. *)
LEMMA TurnRight ==
  ASSUME ReadsInv, NEW x \in ReadCommands, NEW job \in Job, RightFor(job, unread),
         Turns(x, job), unread' = unread, lateReads' \subseteq SUBSET Convs,
         summaries' \in [Convs -> BOOLEAN \cup {NotStored}]
  PROVE  ReadsInv'
<1>1. commands' \in [ReadCommands -> Job] BY DEF ReadsInv, ReadsTypeOK, Turns, Job
<1>2. ReadsTypeOK' BY <1>1 DEF ReadsInv, ReadsTypeOK, Job
<1>3. \A y \in ReadCommands : commands'[y] = IF y = x THEN job ELSE commands[y]
  BY DEF ReadsInv, ReadsTypeOK, Turns
<1>4. \A y \in ReadCommands : RightFor(commands'[y], unread')
  BY <1>3 DEF ReadsInv
<1> QED BY <1>2, <1>4 DEF ReadsInv

(* A command that waits sees what becomes read. *)
LEMMA WitnessRight ==
  ASSUME NEW job \in Job, NEW before \in SUBSET Convs, NEW remaining \in SUBSET Convs,
         RightFor(job, before)
  PROVE  LET new == IF Waits(job) THEN [job EXCEPT !.wasRead = @ \cup (Convs \ remaining)]
                    ELSE job
         IN new \in Job /\ RightFor(new, remaining)
<1>1. CASE Waits(job)
  <2> DEFINE new == [job EXCEPT !.wasRead = @ \cup (Convs \ remaining)]
  <2>1. job \in MarkJob BY <1>1, StageOfJob DEF Waits
  <2>2. new \in MarkJob BY <2>1 DEF MarkJob
  <2>3. /\ new.wasRead = job.wasRead \cup (Convs \ remaining) /\ new.stage = job.stage
        /\ new.ids = job.ids /\ new.found = job.found /\ new.foundRead = job.foundRead
        /\ new.omitted = job.omitted /\ new.pages = job.pages
    BY <2>1 DEF MarkJob
  <2> HIDE DEF new
  <2>4. RightFor(new, remaining) BY <1>1, <2>3 DEF RightFor, Waits
  <2>5. new \in Job BY <2>2 DEF Job
  <2> QED BY <1>1, <2>4, <2>5 DEF new
<1>2. CASE ~ Waits(job) BY <1>2 DEF RightFor
<1> QED BY <1>1, <1>2

LEMMA SiteRight ==
  ASSUME ReadsInv, NEW jobs \in [ReadCommands -> Job], NEW remaining \in SUBSET Convs,
         NEW before \in SUBSET Convs,
         \A y \in ReadCommands : RightFor(jobs[y], before),
         SiteChanges(jobs, remaining), lateReads' \subseteq SUBSET Convs, summaries' = summaries
  PROVE  ReadsInv'
<1> DEFINE new(y) == IF Waits(jobs[y])
                     THEN [jobs[y] EXCEPT !.wasRead = @ \cup (Convs \ remaining)] ELSE jobs[y]
<1>1. commands' = [y \in ReadCommands |-> new(y)] /\ unread' = remaining
  BY DEF SiteChanges, Witnessed
<1>2. \A y \in ReadCommands : new(y) \in Job /\ RightFor(new(y), remaining)
  BY WitnessRight
<1> HIDE DEF new
<1>3. commands' \in [ReadCommands -> Job] BY <1>1, <1>2
<1>4. ReadsTypeOK' BY <1>1, <1>3 DEF ReadsInv, ReadsTypeOK, Job
<1>5. \A y \in ReadCommands : RightFor(commands'[y], unread') BY <1>1, <1>2
<1> QED BY <1>4, <1>5 DEF ReadsInv

LEMMA ReportTypes ==
  ASSUME ReadsInv, NEW shown \in SUBSET Convs, NEW page \in ReportsOf(shown)
  PROVE  /\ page \in [shown -> Flags] /\ DOMAIN page = shown /\ page \in Reports
         /\ \A c \in shown : page[c] \in {(c \in unread), Unsaid}
         /\ IsFiniteSet(shown) /\ Cardinality(shown) \in Nat
<1>1. page \in [shown -> Flags] /\ DOMAIN page = shown
      /\ \A c \in shown : page[c] \in {(c \in unread), Unsaid}
  BY DEF ReportsOf
<1>2. page \in Reports BY <1>1 DEF Reports
<1>3. IsFiniteSet(shown) BY ReadsAssumption, FS_Subset
<1>4. Cardinality(shown) \in Nat BY <1>3, FS_CardinalityType
<1> QED BY <1>1, <1>2, <1>3, <1>4

LEMMA InitReads == ReadsInit => ReadsInv
<1> SUFFICES ASSUME ReadsInit PROVE ReadsInv OBVIOUS
<1>1. ReadsTypeOK BY DEF ReadsInit, ReadsTypeOK
<1>2. \A x \in ReadCommands : RightFor(commands[x], unread)
  BY OthersRight DEF ReadsInit, NotRunning
<1> QED BY <1>1, <1>2 DEF ReadsInv

(* A page that does not show a conversation as unread, at a time when it is,*)
(* does not say whether it is.                                              *)
LEMMA NotShownUnread ==
  ASSUME NEW flag, NEW c, flag \in {(c \in unread), Unsaid}, ~ IsUnread(flag)
  PROVE  c \notin unread \/ flag = Unsaid
<1>1. flag = (c \in unread) \/ flag = Unsaid OBVIOUS
<1>2. ASSUME c \in unread, flag = (c \in unread) PROVE FALSE
  <2>1. (c \in unread) = TRUE BY <1>2
  <2>2. flag = TRUE BY <1>2, <2>1
  <2> QED BY <2>2 DEF IsUnread
<1> QED BY <1>1, <1>2

-----------------------------------------------------------------------------
(* dm list and dm get.                                                      *)
LEMMA OthersStep ==
  ASSUME ReadsInv, NEW x \in ReadCommands, NEW job \in Job, Turns(x, job),
         job.stage \in {"idle", "ended", "list", "store", "open", "merge"},
         unread' = unread, lateReads' = lateReads,
         summaries' \in [Convs -> BOOLEAN \cup {NotStored}]
  PROVE  ReadsInv'
<1>1. RightFor(job, unread) BY OthersRight
<1> QED BY <1>1, TurnRight DEF ReadsInv, ReadsTypeOK

LEMMA EndedIsJob == Ended \in Job /\ Ended.stage = "ended" /\ NotRunning \in Job /\ NotRunning.stage = "idle"
BY DEF Job, Ended, NotRunning

LEMMA ListSteps ==
  ASSUME ReadsInv, NEW x \in ReadCommands,
         \/ \E unreadOnly, paginate \in BOOLEAN, limit \in ListLimits :
              BeginList(x, unreadOnly, paginate, limit)
         \/ ListStore(x) \/ ListPageDone(x) \/ ListScanned(x)
         \/ \E shown \in SitePages : \E page \in ReportsOf(shown) : ListPage(x, page)
  PROVE  ReadsInv'
<1> DEFINE job == commands[x]
<1>0. job \in Job /\ summaries \in [Convs -> BOOLEAN \cup {NotStored}]
  BY DEF ReadsInv, ReadsTypeOK, Job
<1>1. ASSUME NEW unreadOnly \in BOOLEAN, NEW paginate \in BOOLEAN, NEW limit \in ListLimits,
             BeginList(x, unreadOnly, paginate, limit)
      PROVE  ReadsInv'
  <2> DEFINE new == [stage |-> "list", unreadOnly |-> unreadOnly, paginate |-> paginate,
               limit |-> limit, fetched |-> 0, full |-> FALSE, fresh |-> FALSE,
               shown |-> [c \in {} |-> Unsaid], listed |-> {}, items |-> {}]
  <2>1. [c \in {} |-> Unsaid] \in Reports
    <3>1. [c \in {} |-> Unsaid] \in [{} -> Flags] OBVIOUS
    <3>2. {} \in SUBSET Convs OBVIOUS
    <3> QED BY <3>1, <3>2 DEF Reports
  <2>2. new \in ListJob BY <2>1 DEF ListJob
  <2>3. new \in Job /\ new.stage = "list" BY <2>2 DEF Job
  <2>4. Turns(x, new) BY <1>1 DEF BeginList
  <2> HIDE DEF new
  <2> QED BY <1>0, <1>1, <2>3, <2>4, OthersStep DEF BeginList
<1>2. ASSUME NEW shown \in SitePages, NEW page \in ReportsOf(shown), ListPage(x, page)
      PROVE  ReadsInv'
  <2> DEFINE fresh == DOMAIN page \ job.listed
             rest == [c \in fresh |-> page[c]]
             size == Cardinality(DOMAIN page)
             new == [job EXCEPT !.stage = "store", !.fetched = @ + size,
                       !.full = size = PageRows, !.fresh = fresh # {}, !.shown = rest]
  <2>1. job \in ListJob BY <1>0, <1>2, StageOfJob DEF ListPage, Does
  <2>2. shown \in SUBSET Convs BY DEF SitePages
  <2>3. page \in [shown -> Flags] /\ DOMAIN page = shown /\ size \in Nat
    BY <2>2, ReportTypes
  <2>4. rest \in Reports
    <3>1. rest \in [fresh -> Flags] BY <2>3
    <3>2. fresh \in SUBSET Convs BY <2>2, <2>3
    <3> HIDE DEF fresh, rest
    <3> QED BY <3>1, <3>2 DEF Reports
  <2>5. (size = PageRows) \in BOOLEAN /\ (fresh # {}) \in BOOLEAN OBVIOUS
  <2>6. Turns(x, new) BY <1>2 DEF ListPage
  <2> HIDE DEF rest, size, fresh
  <2>7. new \in ListJob
    <3> DEFINE full == size = PageRows
               some == fresh # {}
    <3>1. full \in BOOLEAN /\ some \in BOOLEAN BY <2>5
    <3>2. new = [job EXCEPT !.stage = "store", !.fetched = @ + size, !.full = full,
                   !.fresh = some, !.shown = rest]
      OBVIOUS
    <3> HIDE DEF new, full, some
    <3>3. job.fetched + size \in Nat BY <2>1, <2>3 DEF ListJob
    <3> QED BY <2>1, <2>4, <3>1, <3>2, <3>3 DEF ListJob
  <2>8. new.stage = "store" BY <2>1 DEF ListJob
  <2>9. new \in Job BY <2>7 DEF Job
  <2> HIDE DEF new
  <2> QED BY <1>0, <1>2, <2>6, <2>8, <2>9, OthersStep DEF ListPage
<1>3. ASSUME ListStore(x) PROVE ReadsInv'
  <2>1. job \in ListJob /\ job.stage = "store" BY <1>0, <1>3, StageOfJob DEF ListStore, Does
  <2>2. PICK c \in DOMAIN job.shown :
          /\ summaries' = [summaries EXCEPT ![c] = IsUnread(job.shown[c])]
          /\ Turns(x, [job EXCEPT !.listed = @ \cup {c},
               !.shown = [d \in DOMAIN job.shown \ {c} |-> job.shown[d]],
               !.items = IF job.unreadOnly /\ ~IsUnread(job.shown[c]) THEN @ ELSE @ \cup {c}])
    BY <1>3 DEF ListStore
  <2> DEFINE rest == [d \in DOMAIN job.shown \ {c} |-> job.shown[d]]
             items == IF job.unreadOnly /\ ~IsUnread(job.shown[c]) THEN job.items
                      ELSE job.items \cup {c}
             new == [job EXCEPT !.listed = @ \cup {c}, !.shown = rest, !.items = items]
  <2>3. PICK all \in SUBSET Convs : job.shown \in [all -> Flags]
    BY <2>1 DEF ListJob, Reports
  <2>4. c \in Convs BY <2>2, <2>3
  <2>5. rest \in Reports
    <3>1. rest \in [all \ {c} -> Flags] BY <2>3
    <3>2. all \ {c} \in SUBSET Convs OBVIOUS
    <3> QED BY <3>1, <3>2 DEF Reports
  <2>6. items \in SUBSET Convs BY <2>1, <2>4 DEF ListJob
  <2>7. Turns(x, new)
    <3>1. new = [job EXCEPT !.listed = @ \cup {c},
               !.shown = [d \in DOMAIN job.shown \ {c} |-> job.shown[d]],
               !.items = IF job.unreadOnly /\ ~IsUnread(job.shown[c]) THEN @ ELSE @ \cup {c}]
      BY <2>1 DEF ListJob
    <3> QED BY <2>2, <3>1
  <2> HIDE DEF rest, items
  <2>8. new \in ListJob /\ new.stage = "store" BY <2>1, <2>4, <2>5, <2>6 DEF ListJob
  <2>9. new \in Job BY <2>8 DEF Job
  <2>10. summaries' \in [Convs -> BOOLEAN \cup {NotStored}]
    <3>1. IsUnread(job.shown[c]) \in BOOLEAN BY DEF IsUnread
    <3> QED BY <1>0, <2>2, <2>4, <3>1
  <2> HIDE DEF new
  <2> QED BY <1>3, <2>7, <2>8, <2>9, <2>10, OthersStep DEF ListStore
<1>4. ASSUME ListPageDone(x) PROVE ReadsInv'
  <2> DEFINE again == [job EXCEPT !.stage = "list"]
  <2>1. job \in ListJob BY <1>0, <1>4, StageOfJob DEF ListPageDone, Does
  <2>2. again \in ListJob /\ again.stage = "list" BY <2>1 DEF ListJob
  <2>3. Turns(x, Ended) \/ Turns(x, again) BY <1>4 DEF ListPageDone
  <2>4. again \in Job BY <2>2 DEF Job
  <2> HIDE DEF again
  <2> QED BY <1>0, <1>4, <2>2, <2>3, <2>4, EndedIsJob, OthersStep DEF ListPageDone
<1>5. ASSUME ListScanned(x) PROVE ReadsInv'
  BY <1>0, <1>5, EndedIsJob, OthersStep DEF ListScanned
<1> QED BY <1>1, <1>2, <1>3, <1>4, <1>5

LEMMA GetSteps ==
  ASSUME ReadsInv, NEW x \in ReadCommands,
         \/ \E c \in Convs : BeginGet(x, c)
         \/ \E touched \in BOOLEAN : OpenConversation(x, touched)
         \/ StoreOpened(x)
  PROVE  ReadsInv'
<1> DEFINE job == commands[x]
<1>0. job \in Job /\ summaries \in [Convs -> BOOLEAN \cup {NotStored}]
      /\ commands \in [ReadCommands -> Job] /\ unread \in SUBSET Convs
  BY DEF ReadsInv, ReadsTypeOK, Job
<1>1. ASSUME NEW c \in Convs, BeginGet(x, c) PROVE ReadsInv'
  <2> DEFINE new == [stage |-> "open", id |-> c, previous |-> summaries[c], report |-> Unsaid]
  <2>1. new \in GetJob BY <1>0 DEF GetJob, Flags
  <2>2. new \in Job /\ new.stage = "open" BY <2>1 DEF Job
  <2>3. Turns(x, new) BY <1>1 DEF BeginGet
  <2> HIDE DEF new
  <2> QED BY <1>0, <1>1, <2>2, <2>3, OthersStep DEF BeginGet
<1>2. ASSUME NEW touched \in BOOLEAN, OpenConversation(x, touched) PROVE ReadsInv'
  <2> DEFINE c == job.id
             remaining == IF touched THEN unread \ {c} ELSE unread
  <2>1. job \in GetJob BY <1>0, <1>2, StageOfJob DEF OpenConversation, Does
  <2>2. PICK report \in ReportsOf({c}) :
          SiteChanges([commands EXCEPT ![x].stage = "merge", ![x].report = report[c]], remaining)
    BY <1>2 DEF OpenConversation
  <2> DEFINE new == [job EXCEPT !.stage = "merge", !.report = report[c]]
             jobs == [commands EXCEPT ![x] = new]
  <2>3. c \in Convs BY <2>1 DEF GetJob
  <2>4. report[c] \in Flags
    <3>1. {c} \in SUBSET Convs BY <2>3
    <3>2. report \in [{c} -> Flags] BY <3>1, ReportTypes
    <3> QED BY <3>2
  <2>5. new \in GetJob /\ new.stage = "merge" BY <2>1, <2>4 DEF GetJob
  <2>6. [commands EXCEPT ![x].stage = "merge", ![x].report = report[c]] = jobs
    BY <1>0, <2>1 DEF GetJob
  <2>7. new \in Job BY <2>5 DEF Job
  <2>8. RightFor(new, unread)
    <3> HIDE DEF new
    <3> QED BY <2>5, OthersRight
  <2> HIDE DEF new
  <2>9. jobs \in [ReadCommands -> Job] /\ \A y \in ReadCommands : RightFor(jobs[y], unread)
    BY <1>0, <2>7, <2>8 DEF ReadsInv
  <2>10. remaining \in SUBSET Convs BY <1>0
  <2>11. SiteChanges(jobs, remaining) BY <2>2, <2>6
  <2>12. lateReads' \subseteq SUBSET Convs /\ summaries' = summaries
    BY <1>2 DEF OpenConversation, ReadsInv, ReadsTypeOK
  <2> HIDE DEF jobs, remaining
  <2> QED BY <1>0, <2>9, <2>10, <2>11, <2>12, SiteRight
<1>3. ASSUME StoreOpened(x) PROVE ReadsInv'
  <2>1. job \in GetJob BY <1>0, <1>3, StageOfJob DEF StoreOpened, Does
  <2> DEFINE kept == IF job.report = Unsaid /\ job.previous # NotStored THEN job.previous
                     ELSE IsUnread(job.report)
  <2>2. kept \in BOOLEAN
    <3>1. IsUnread(job.report) \in BOOLEAN BY DEF IsUnread
    <3>2. job.previous \in BOOLEAN \cup {NotStored} BY <2>1 DEF GetJob
    <3>3. CASE job.report = Unsaid /\ job.previous # NotStored
      <4>1. kept = job.previous BY <3>3
      <4> QED BY <3>2, <3>3, <4>1
    <3>4. CASE ~ (job.report = Unsaid /\ job.previous # NotStored)
      <4>1. kept = IsUnread(job.report) BY <3>4
      <4> QED BY <3>1, <4>1
    <3> QED BY <3>3, <3>4
  <2>3. summaries' = [summaries EXCEPT ![job.id] = kept] /\ Turns(x, Ended)
        /\ unread' = unread /\ lateReads' = lateReads
    BY <1>3 DEF StoreOpened
  <2> HIDE DEF kept
  <2>4. summaries' \in [Convs -> BOOLEAN \cup {NotStored}] BY <1>0, <2>2, <2>3
  <2> QED BY <2>3, <2>4, EndedIsJob, OthersStep
<1> QED BY <1>1, <1>2, <1>3

-----------------------------------------------------------------------------
(* dm mark-read.                                                            *)
LEMMA SendSteps ==
  ASSUME ReadsInv, NEW x \in ReadCommands,
         \/ \E ids \in SUBSET Convs, dryRun \in BOOLEAN : BeginMarkRead(x, ids, dryRun)
         \/ SendMarkRead(x) \/ SiteApplies(x) \/ AnswerConfirms(x)
         \/ \E late \in BOOLEAN : AnswerIsAmbiguous(x, late)
  PROVE  ReadsInv'
<1> DEFINE job == commands[x]
<1>0. /\ job \in Job /\ summaries \in [Convs -> BOOLEAN \cup {NotStored}]
      /\ commands \in [ReadCommands -> Job] /\ unread \in SUBSET Convs
      /\ lateReads \subseteq SUBSET Convs /\ RightFor(job, unread)
  BY DEF ReadsInv, ReadsTypeOK, Job
<1>1. ASSUME NEW ids \in SUBSET Convs, NEW dryRun \in BOOLEAN, BeginMarkRead(x, ids, dryRun)
      PROVE  ReadsInv'
  <2> DEFINE new == [stage |-> "send", ids |-> ids, pages |-> 0, found |-> {},
                     foundRead |-> {}, wasRead |-> {}, omitted |-> {}]
  <2>1. new \in MarkJob BY ReadsAssumption DEF MarkJob
  <2>2. new \in Job BY <2>1 DEF Job
  <2>3. RightFor(new, unread) BY DEF RightFor, Waits
  <2>4. unread' = unread /\ lateReads' = lateReads /\ summaries' = summaries
    BY <1>1 DEF BeginMarkRead
  <2>5. Turns(x, IF dryRun THEN Ended ELSE new) BY <1>1 DEF BeginMarkRead
  <2> HIDE DEF new
  <2>6. CASE dryRun
    <3>1. Turns(x, Ended) BY <2>5, <2>6
    <3> QED BY <1>0, <2>4, <3>1, EndedIsJob, OthersStep
  <2>7. CASE ~ dryRun
    <3>1. Turns(x, new) BY <2>5, <2>7
    <3> QED BY <1>0, <2>2, <2>3, <2>4, <3>1, TurnRight
  <2> QED BY <2>6, <2>7
<1>2. ASSUME SendMarkRead(x) PROVE ReadsInv'
  <2> DEFINE new == [job EXCEPT !.stage = "sent", !.wasRead = Convs \ unread]
  <2>1. job \in MarkJob /\ job.stage = "send" BY <1>0, <1>2, StageOfJob DEF SendMarkRead, Does
  <2>2. new \in MarkJob BY <2>1 DEF MarkJob
  <2>3. /\ new.stage = "sent" /\ new.wasRead = Convs \ unread /\ new.found = job.found
        /\ new.foundRead = job.foundRead /\ new.pages = job.pages
    BY <2>1 DEF MarkJob
  <2>4. Turns(x, new) /\ unread' = unread /\ lateReads' = lateReads /\ summaries' = summaries
    BY <1>2 DEF SendMarkRead
  <2> HIDE DEF new
  <2>5. RightFor(new, unread) BY <1>0, <2>1, <2>3 DEF RightFor, Waits
  <2>6. new \in Job BY <2>2 DEF Job
  <2> QED BY <1>0, <2>4, <2>5, <2>6, TurnRight
<1>3. ASSUME SiteApplies(x) PROVE ReadsInv'
  <2> DEFINE remaining == unread \ job.ids
             new == [job EXCEPT !.stage = "applied"]
             seen == [new EXCEPT !.wasRead = @ \cup (Convs \ remaining)]
             jobs == [commands EXCEPT ![x] = new]
             after(y) == IF Waits(jobs[y])
                         THEN [jobs[y] EXCEPT !.wasRead = @ \cup (Convs \ remaining)]
                         ELSE jobs[y]
  <2>1. job \in MarkJob /\ job.stage = "sent" BY <1>0, <1>3, StageOfJob DEF SiteApplies, Does
  <2>2. /\ new \in MarkJob /\ new.stage = "applied" /\ new.ids = job.ids
        /\ new.wasRead = job.wasRead /\ new.found = job.found
        /\ new.foundRead = job.foundRead /\ new.pages = job.pages
    BY <2>1 DEF MarkJob
  <2>3. [commands EXCEPT ![x].stage = "applied"] = jobs BY <1>0, <2>1 DEF MarkJob
  <2>4. SiteChanges(jobs, remaining) BY <1>3, <2>3 DEF SiteApplies
  <2>5. commands' = [y \in ReadCommands |-> after(y)] /\ unread' = remaining
    BY <2>4 DEF SiteChanges, Witnessed
  <2> HIDE DEF new
  <2>6. /\ seen \in MarkJob /\ seen.stage = "applied" /\ seen.ids = job.ids
        /\ seen.wasRead = job.wasRead \cup (Convs \ remaining) /\ seen.found = job.found
        /\ seen.foundRead = job.foundRead /\ seen.pages = job.pages
    BY <2>2 DEF MarkJob
  <2>7. after(x) = seen
    <3>1. jobs[x] = new BY <1>0
    <3>2. Waits(new) BY <2>2 DEF Waits
    <3> HIDE DEF jobs, remaining
    <3> QED BY <3>1, <3>2
  <2>8. RightFor(seen, remaining)
    <3>1. job.ids \subseteq Convs BY <2>1 DEF MarkJob
    <3>2. job.found = {} /\ job.foundRead = {} /\ job.pages = 0 BY <1>0, <2>1 DEF RightFor
    <3> HIDE DEF seen
    <3> QED BY <2>6, <3>1, <3>2 DEF RightFor, Waits
  <2>9. \A y \in ReadCommands \ {x} : jobs[y] = commands[y] BY <1>0
  <2>10. remaining \in SUBSET Convs BY <1>0
  <2> HIDE DEF seen, remaining
  <2>11. \A y \in ReadCommands : after(y) \in Job /\ RightFor(after(y), remaining)
    <3> SUFFICES ASSUME NEW y \in ReadCommands
                 PROVE  after(y) \in Job /\ RightFor(after(y), remaining)
      OBVIOUS
    <3>1. CASE y = x BY <2>6, <2>7, <2>8, <3>1 DEF Job
    <3>2. CASE y # x
      <4>1. commands[y] \in Job /\ RightFor(commands[y], unread) BY <1>0 DEF ReadsInv
      <4>2. jobs[y] = commands[y] BY <2>9, <3>2
      <4> HIDE DEF jobs
      <4> QED BY <1>0, <2>10, <4>1, <4>2, WitnessRight
    <3> QED BY <3>1, <3>2
  <2> HIDE DEF after
  <2>12. lateReads' = lateReads /\ summaries' = summaries BY <1>3 DEF SiteApplies
  <2>13. commands' \in [ReadCommands -> Job] BY <2>5, <2>11
  <2>14. ReadsTypeOK' BY <1>0, <2>5, <2>10, <2>12, <2>13 DEF ReadsTypeOK, Job
  <2> QED BY <2>5, <2>11, <2>14 DEF ReadsInv
<1>4. ASSUME AnswerConfirms(x) PROVE ReadsInv'
  <2> DEFINE new == [job EXCEPT !.stage = "confirm"]
  <2>1. job \in MarkJob /\ job.stage = "applied"
    BY <1>0, <1>4, StageOfJob DEF AnswerConfirms, Does
  <2>2. /\ new \in MarkJob /\ new.stage = "confirm" /\ new.ids = job.ids
        /\ new.wasRead = job.wasRead /\ new.omitted = job.omitted
    BY <2>1 DEF MarkJob
  <2>3. Turns(x, new) /\ unread' = unread /\ lateReads' = lateReads /\ summaries' = summaries
    BY <1>4 DEF AnswerConfirms
  <2> HIDE DEF new
  <2>4. RightFor(new, unread) BY <1>0, <2>1, <2>2 DEF RightFor, Waits
  <2>5. new \in Job BY <2>2 DEF Job
  <2> QED BY <1>0, <2>3, <2>4, <2>5, TurnRight
<1>5. ASSUME NEW late \in BOOLEAN, AnswerIsAmbiguous(x, late) PROVE ReadsInv'
  <2> DEFINE new == [job EXCEPT !.stage = "reconcile"]
  <2>1. job \in MarkJob /\ job.stage \in {"sent", "applied"}
    BY <1>0, <1>5, StageOfJob DEF AnswerIsAmbiguous, Does
  <2>2. /\ new \in MarkJob /\ new.stage = "reconcile" /\ new.wasRead = job.wasRead
        /\ new.foundRead = job.foundRead /\ new.pages = job.pages
    BY <2>1 DEF MarkJob
  <2>3. Turns(x, new) /\ unread' = unread /\ summaries' = summaries
    BY <1>5 DEF AnswerIsAmbiguous
  <2>4. lateReads' \subseteq SUBSET Convs
    <3>1. job.ids \in SUBSET Convs BY <2>1 DEF MarkJob
    <3> QED BY <1>0, <1>5, <3>1 DEF AnswerIsAmbiguous
  <2> HIDE DEF new
  <2>5. RightFor(new, unread) BY <1>0, <2>1, <2>2, ReadsAssumption DEF RightFor, Waits
  <2>6. new \in Job BY <2>2 DEF Job
  <2> QED BY <1>0, <2>3, <2>4, <2>5, <2>6, TurnRight
<1> QED BY <1>1, <1>2, <1>3, <1>4, <1>5

(* A page of the reconciliation: what it adds to the conversations found   *)
(* read was read when the page was made, or is not said.                   *)
LEMMA ReconcileStep ==
  ASSUME ReadsInv, NEW x \in ReadCommands, NEW shown \in SitePages,
         NEW page \in ReportsOf(shown), ReconcilePage(x, page)
  PROVE  ReadsInv'
<1> DEFINE job == commands[x]
           here == DOMAIN page \cap job.ids
           found == job.found \cup here
           foundRead == (job.foundRead \ here) \cup {c \in here : ~IsUnread(page[c])}
           unsaid == job.omitted \cup {c \in here : page[c] = Unsaid}
           over == \/ found = job.ids \/ job.pages + 1 = ReconcilePages
                   \/ Cardinality(DOMAIN page) < PageRows
           stage == IF over THEN "confirm" ELSE "reconcile"
           new == [job EXCEPT !.stage = stage, !.pages = @ + 1, !.found = found,
                     !.foundRead = foundRead, !.omitted = unsaid]
<1>0. /\ job \in Job /\ summaries \in [Convs -> BOOLEAN \cup {NotStored}]
      /\ lateReads \subseteq SUBSET Convs /\ RightFor(job, unread)
  BY DEF ReadsInv, ReadsTypeOK, Job
<1>1. job \in MarkJob /\ job.stage = "reconcile"
  BY <1>0, StageOfJob DEF ReconcilePage, Does
<1>2. /\ job.ids \subseteq Convs /\ job.found \subseteq Convs /\ job.foundRead \subseteq Convs
      /\ job.omitted \subseteq Convs /\ job.pages \in 0..ReconcilePages
      /\ job.wasRead \subseteq Convs
  BY <1>1 DEF MarkJob
<1>3. /\ Convs \ unread \subseteq job.wasRead
      /\ job.foundRead \subseteq job.wasRead \cup job.omitted /\ job.pages < ReconcilePages
  BY <1>0, <1>1 DEF RightFor, Waits
<1>4. DOMAIN page = shown /\ \A c \in shown : page[c] \in {(c \in unread), Unsaid}
  BY ReportTypes DEF SitePages
<1>5. found \subseteq Convs /\ foundRead \subseteq Convs /\ unsaid \subseteq Convs BY <1>2
<1>6. foundRead \subseteq job.wasRead \cup unsaid
  <2> SUFFICES ASSUME NEW c \in foundRead PROVE c \in job.wasRead \cup unsaid
    OBVIOUS
  <2>1. CASE c \in job.foundRead BY <1>3, <2>1
  <2>2. CASE c \in here /\ ~ IsUnread(page[c])
    <3>1. c \in shown /\ c \in Convs BY <1>2, <1>4, <2>2
    <3>2. page[c] \in {(c \in unread), Unsaid} BY <1>4, <3>1
    <3>3. c \notin unread \/ page[c] = Unsaid BY <2>2, <3>2, NotShownUnread
    <3>4. CASE c \notin unread BY <1>3, <3>1, <3>4
    <3>5. CASE page[c] = Unsaid BY <2>2, <3>5
    <3> QED BY <3>3, <3>4, <3>5
  <2> QED BY <2>1, <2>2
<1>7. Turns(x, IF over /\ ~Agreed(job.ids, found, foundRead) THEN Ended ELSE new)
      /\ unread' = unread /\ lateReads' = lateReads /\ summaries' = summaries
  BY DEF ReconcilePage
<1>8. over \/ job.pages + 1 # ReconcilePages OBVIOUS
<1> HIDE DEF found, foundRead, unsaid, over, here
<1>9. stage \in {"confirm", "reconcile"} /\ (stage = "confirm" <=> over) OBVIOUS
<1> HIDE DEF stage
<1>10. job.pages + 1 \in 0..ReconcilePages /\ (~ over => job.pages + 1 < ReconcilePages)
  BY <1>2, <1>3, <1>8, ReadsAssumption
<1>11. new \in MarkJob BY <1>1, <1>5, <1>9, <1>10 DEF MarkJob
<1>12. /\ new.stage = stage /\ new.ids = job.ids /\ new.wasRead = job.wasRead
       /\ new.pages = job.pages + 1 /\ new.foundRead = foundRead /\ new.omitted = unsaid
  BY <1>1 DEF MarkJob
<1>13. new \in Job BY <1>11 DEF Job
<1> HIDE DEF new
<1>14. CASE over /\ ~Agreed(job.ids, found, foundRead)
  <2>1. Turns(x, Ended) BY <1>7, <1>14
  <2> QED BY <1>0, <1>7, <2>1, EndedIsJob, OthersStep
<1>15. CASE ~ (over /\ ~Agreed(job.ids, found, foundRead))
  <2>1. Turns(x, new) BY <1>7, <1>15
  <2>2. over => foundRead = job.ids BY <1>15 DEF Agreed
  <2>3. RightFor(new, unread)
    BY <1>3, <1>6, <1>9, <1>10, <1>12, <2>2 DEF RightFor, Waits
  <2> QED BY <1>0, <1>7, <1>13, <2>1, <2>3, TurnRight
<1> QED BY <1>14, <1>15

LEMMA EndSteps ==
  ASSUME ReadsInv, NEW x \in ReadCommands, ConfirmRead(x) \/ EndRead(x)
  PROVE  ReadsInv'
<1> DEFINE job == commands[x]
<1>0. /\ job \in Job /\ summaries \in [Convs -> BOOLEAN \cup {NotStored}]
      /\ lateReads \subseteq SUBSET Convs /\ RightFor(job, unread)
  BY DEF ReadsInv, ReadsTypeOK, Job
<1>1. ASSUME ConfirmRead(x) PROVE ReadsInv'
  <2> DEFINE new == [job EXCEPT !.stage = "confirmed"]
  <2>1. job \in MarkJob /\ job.stage = "confirm" BY <1>0, <1>1, StageOfJob DEF ConfirmRead, Does
  <2>2. /\ new \in MarkJob /\ new.stage = "confirmed" /\ new.ids = job.ids
        /\ new.wasRead = job.wasRead /\ new.omitted = job.omitted
    BY <2>1 DEF MarkJob
  <2>3. Turns(x, new) /\ unread' = unread /\ lateReads' = lateReads
    BY <1>1 DEF ConfirmRead
  <2>4. summaries' \in [Convs -> BOOLEAN \cup {NotStored}]
    BY <1>0, <1>1 DEF ConfirmRead
  <2> HIDE DEF new
  <2>5. RightFor(new, unread) BY <1>0, <2>1, <2>2 DEF RightFor, Waits
  <2>6. new \in Job BY <2>2 DEF Job
  <2> QED BY <1>0, <2>3, <2>4, <2>5, <2>6, TurnRight
<1>2. ASSUME EndRead(x) PROVE ReadsInv'
  BY <1>0, <1>2, EndedIsJob, OthersStep DEF EndRead
<1> QED BY <1>1, <1>2

LEMMA ElsewhereSteps ==
  ASSUME ReadsInv,
         \/ \E ids \in SUBSET Convs : LateRead(ids)
         \/ \E c \in Convs : MessageArrives(c) \/ ReadElsewhere(c)
  PROVE  ReadsInv'
<1>0. /\ commands \in [ReadCommands -> Job] /\ unread \in SUBSET Convs
      /\ lateReads \subseteq SUBSET Convs /\ \A y \in ReadCommands : RightFor(commands[y], unread)
  BY DEF ReadsInv, ReadsTypeOK, Job
<1>1. PICK remaining \in SUBSET Convs : SiteChanges(commands, remaining)
  BY <1>0 DEF LateRead, MessageArrives, ReadElsewhere
<1>2. lateReads' \subseteq SUBSET Convs /\ summaries' = summaries
  BY <1>0 DEF LateRead, MessageArrives, ReadElsewhere
<1> QED BY <1>0, <1>1, <1>2, SiteRight

LEMMA StepReads == ReadsInv /\ [ReadsNext]_readsVars => ReadsInv'
<1> SUFFICES ASSUME ReadsInv, [ReadsNext]_readsVars PROVE ReadsInv' OBVIOUS
<1>1. CASE UNCHANGED readsVars
  BY <1>1 DEF readsVars, ReadsInv, ReadsTypeOK
<1>2. ASSUME NEW x \in ReadCommands,
             \/ \E unreadOnly, paginate \in BOOLEAN, limit \in ListLimits :
                  BeginList(x, unreadOnly, paginate, limit)
             \/ ListStore(x) \/ ListPageDone(x) \/ ListScanned(x)
             \/ \E shown \in SitePages : \E page \in ReportsOf(shown) :
                  ListPage(x, page) \/ ReconcilePage(x, page)
             \/ \E c \in Convs : BeginGet(x, c)
             \/ \E touched \in BOOLEAN : OpenConversation(x, touched)
             \/ StoreOpened(x)
             \/ \E ids \in SUBSET Convs, dryRun \in BOOLEAN : BeginMarkRead(x, ids, dryRun)
             \/ SendMarkRead(x) \/ SiteApplies(x) \/ AnswerConfirms(x)
             \/ \E late \in BOOLEAN : AnswerIsAmbiguous(x, late)
             \/ ConfirmRead(x) \/ EndRead(x)
      PROVE  ReadsInv'
  BY <1>2, ListSteps, GetSteps, SendSteps, ReconcileStep, EndSteps
<1>3. CASE ReadsNext BY <1>2, <1>3, ElsewhereSteps DEF ReadsNext
<1> QED BY <1>1, <1>3

(* A mark-read that reports success, at once or by reconciliation, only    *)
(* names conversations that were read at the site since its request, or of *)
(* which a page did not say it (dmReconcileRead).                          *)
THEOREM ReportedReadWasRead == ReadsSpec => []ConfirmedReadWasRead
<1>1. ReadsInv => ConfirmedReadWasRead
  BY DEF ReadsInv, RightFor, ConfirmedReadWasRead, Does
<1> QED BY <1>1, InitReads, StepReads, PTL DEF ReadsSpec

-----------------------------------------------------------------------------
(* One of them moves while the others rest.                                *)
LEMMA EachPartMoves ==
  ASSUME [LocalNext]_<<part, vars, downloadVars, configVars, profileVars, readsVars, mobileVars>>
  PROVE  /\ [Next]_vars /\ [DownloadNext]_downloadVars /\ [ConfigNext]_configVars
         /\ [ProfileNext]_profileVars /\ [ReadsNext]_readsVars /\ [MobileNext]_mobileVars
BY DEF LocalNext, SecretsPart, DownloadsPart, ConfigPart, ProfilePart, ReadsPart, MobilePart

(* What the run local checks is a behaviour of each of the parts, so that  *)
(* every theorem above holds in it, and those about the keyring and the    *)
(* mobile transport.                                                       *)
THEOREM PartsKeepTheirSpecs ==
  LocalSpec =>
    Spec /\ DownloadSpec /\ ConfigSpec /\ ProfileSpec /\ ReadsSpec /\ MobileSpec
<1>1. LocalInit =>
        Init /\ DownloadInit /\ ConfigInit /\ ProfileInit /\ ReadsInit /\ MobileInit
  BY DEF LocalInit
<1>2. [LocalNext]_<<part, vars, downloadVars, configVars, profileVars, readsVars, mobileVars>>
        => /\ [Next]_vars /\ [DownloadNext]_downloadVars /\ [ConfigNext]_configVars
           /\ [ProfileNext]_profileVars /\ [ReadsNext]_readsVars /\ [MobileNext]_mobileVars
  BY EachPartMoves
<1> QED
  BY <1>1, <1>2, PTL
  DEF LocalSpec, Spec, DownloadSpec, ConfigSpec, ProfileSpec, ReadsSpec, MobileSpec

(* Whatever a command of the profile does, and wherever it stops, the      *)
(* keyring, the profile's file and database, the images and the rows of    *)
(* the conversations keep the form the code gives them.                    *)
THEOREM LocalTypeCorrect == LocalSpec => []LocalTypeOK
<1>1. TypeOK /\ DownloadInv /\ ConfigInv /\ ProfileInv /\ ReadsInv /\ MobileTypeOK => LocalTypeOK
  BY DEF LocalTypeOK, DownloadInv, ConfigInv, ProfileInv, ReadsInv
<1>2. ConfigSpec => []ConfigInv
  BY InitConfig, StepConfig, PTL DEF ConfigSpec
<1>3. ReadsSpec => []ReadsInv
  BY InitReads, StepReads, PTL DEF ReadsSpec
<1> QED
  BY <1>1, <1>2, <1>3, PartsKeepTheirSpecs, TypeCorrect, AlwaysRight, AlwaysProfile,
     MobileTypeCorrect, PTL
=============================================================================
