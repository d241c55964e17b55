------------------------------- MODULE RcpOta -------------------------------
(***************************************************************************)
(* The SDK's firmware update: esp_br_http_ota downloads one image with an   *)
(* RCP part and perhaps a host part; esp_rcp_update keeps two RCP images in *)
(* flash and a sequence number with a verified flag in NVS, and at every    *)
(* boot, or when the RCP fails, esp_ot_try_update_rcp flashes the current   *)
(* image if the RCP runs another version.                                   *)
(*                                                                          *)
(* The download runs on a task of its own, started from the CLI (one at a   *)
(* time here); the RCP is handled on the launch or the OpenThread task.     *)
(* Both use s_handle without a lock.                                        *)
(***************************************************************************)
EXTENDS Naturals

CONSTANTS
  Versions,    \* firmware versions
  Bootable,    \* versions with which an RCP starts
  FaultSets,   \* what may fail in a run: subsets of "net" (download), "nvs"
               \* (writes), "uart" (connection to the RCP), "flash" (RCP
               \* flashing), "rcp" (failure while up), "crash" (power loss)
  Dead,        \* an RCP that does not start
  NoVersion,   \* the NULL version; a version string that was not read whole
  NoImage      \* a host partition without a valid image, an image without one

ASSUME RcpOtaAssumption ==
  /\ Bootable \subseteq Versions
  /\ Dead \notin Versions /\ NoVersion \notin Versions /\ NoImage \notin Versions
  /\ Dead # NoVersion

VARIABLES
  faults,    \* what may fail in this run
  dl,        \* where download_ota_image is
  img,       \* the image on the server: its RCP and host versions
  dslot,     \* the RCP image file the download has opened
  slot,      \* the two RCP image files: version and how much of it is there
  host,      \* the two host partitions
  boot,      \* the host partition otadata selects
  running,   \* the host partition that runs
  seq,       \* s_handle.update_seq
  verified,  \* s_handle.verified
  nvs,       \* the rcp_seq NVS key
  ot,        \* where esp_ot_try_update_rcp is
  arg,       \* its running_rcp_version
  val,       \* the value mark_image_verified is about to store
  uslot,     \* the RCP image file that esp_rcp_update has opened
  rcp        \* version the RCP runs

dlVars == <<dl, img, dslot>>
hostVars == <<host, boot, running>>
handleVars == <<seq, verified>>
otVars == <<ot, arg, val, uslot>>
vars == <<faults, dlVars, slot, hostVars, handleVars, nvs, otVars, rcp>>

Slots == {0, 1}
Images == [rcp : Versions, host : Versions \cup {NoImage}]

\* How much of an image file is there: nothing usable, the header, the header
\* and the version, all of it.
Parts == {"none", "header", "version", "whole"}

-----------------------------------------------------------------------------
(* The sequence number. *)

\* esp_rcp_get_update_seq, of s_handle and of what NVS holds.
SeqOf(s, v) == IF v THEN s ELSE 1 - s

Current == SeqOf(seq, verified)

\* esp_rcp_get_next_update_seq.
NextSlot == 1 - Current

NvsCurrent == SeqOf(nvs.seq, nvs.verified)

OtherPartition_ByBoot == 1 - boot

\* esp_ota_get_next_update_partition(NULL) goes by the running partition.
OtherPartition == 1 - running

-----------------------------------------------------------------------------
(* Boot. *)

\* load_rcp_update_seq; a missing key means sequence 0, verified.
Reboot ==
  /\ seq' = nvs.seq /\ verified' = nvs.verified
  /\ running' = IF host[boot] # NoImage THEN boot ELSE 1 - boot
  /\ dl' = "idle" /\ img' = img /\ dslot' = 0
  /\ ot' = "start" /\ arg' = NoVersion /\ val' = nvs /\ uslot' = 0

\* While it is flashed, the RCP may already be erased.
RcpCutOff == rcp' \in IF ot = "flash" THEN {rcp, Dead} ELSE {rcp}

PowerLoss ==
  /\ "crash" \in faults
  /\ Reboot
  /\ RcpCutOff
  /\ UNCHANGED <<faults, slot, host, boot, nvs>>

-----------------------------------------------------------------------------
(* esp_ot_try_update_rcp. *)

\* launch_openthread_border_router: an RCP that starts reports its version,
\* one that does not start raises rcp_failure_handler.
StartRcp ==
  /\ ot = "start"
  /\ ot' = "load"
  /\ arg' = IF rcp = Dead THEN NoVersion ELSE rcp
  /\ UNCHANGED <<faults, dlVars, slot, hostVars, handleVars, nvs, val, uslot, rcp>>

\* The RCP fails or turns out incompatible while the border router is up.
RcpFailure ==
  /\ "rcp" \in faults
  /\ ot = "up"
  /\ ot' = "load"
  /\ arg' = NoVersion
  /\ UNCHANGED <<faults, dlVars, slot, hostVars, handleVars, nvs, val, uslot, rcp>>

\* esp_rcp_load_version_in_storage; a version cut short is another version.
StoredVersion(s) == IF slot[s].part = "header" THEN NoVersion ELSE slot[s].ver

RcpUpToDate_Null ==
  arg = NoVersion \/ (slot[Current].part # "none" /\ StoredVersion(Current) = arg)

RcpUpToDate ==
  arg # NoVersion /\ slot[Current].part # "none" /\ StoredVersion(Current) = arg

\* The first half of esp_rcp_mark_image_verified: s_handle and the value to
\* store; whether the task restarts the host afterwards is part of "ot".
MarkVerified(flag, next) ==
  /\ seq' = Current
  /\ verified' = flag
  /\ val' = [seq |-> Current, verified |-> flag]
  /\ ot' = next

LoadVersion ==
  /\ ot = "load"
  /\ \/ RcpUpToDate /\ MarkVerified(TRUE, "store")
     \/ slot[Current].part = "none" /\ MarkVerified(FALSE, "store_restart")
     \/ /\ slot[Current].part # "none" /\ ~RcpUpToDate
        /\ ot' = "update"
        /\ UNCHANGED <<handleVars, val>>
  /\ UNCHANGED <<faults, dlVars, slot, hostVars, nvs, arg, uslot, rcp>>

\* esp_rcp_update cannot connect to the RCP, or finds no image.
UpdateRefused ==
  /\ ot = "update"
  /\ "uart" \in faults \/ slot[Current].part = "none"
  /\ MarkVerified(FALSE, "store_restart")
  /\ UNCHANGED <<faults, dlVars, slot, hostVars, nvs, arg, uslot, rcp>>

\* It opens the image file that is current now; a download on the other task may
\* submit another one before the flashing ends and before the mark is made.
OpenUpdate ==
  /\ ot = "update"
  /\ slot[Current].part # "none"
  /\ uslot' = Current
  /\ ot' = "flash"
  /\ UNCHANGED <<faults, dlVars, slot, hostVars, handleVars, nvs, arg, val, rcp>>

\* Every binary of the image is flashed and verified.
FlashDone ==
  /\ ot = "flash"
  /\ slot[uslot].part = "whole"
  /\ rcp' = IF slot[uslot].ver \in Bootable THEN slot[uslot].ver ELSE Dead
  /\ ot' = "mark"
  /\ UNCHANGED <<faults, dlVars, slot, hostVars, handleVars, nvs, arg, val, uslot>>

\* A binary is missing, or cannot be flashed in four attempts: abort().  With
\* the version but not the binaries in the file the RCP is already erased.
UpdateAborted ==
  /\ ot = "flash"
  /\ \/ slot[uslot].part = "header" /\ UNCHANGED rcp
     \/ slot[uslot].part = "version" /\ rcp' = Dead
     \/ slot[uslot].part = "whole" /\ "flash" \in faults /\ rcp' = Dead
  /\ Reboot
  /\ UNCHANGED <<faults, slot, host, boot, nvs>>

\* The mark goes to the image that is current by then.
MarkUpdated ==
  /\ ot = "mark"
  /\ MarkVerified(TRUE, "store_restart")
  /\ UNCHANGED <<faults, dlVars, slot, hostVars, nvs, arg, uslot, rcp>>

\* The second half of esp_rcp_mark_image_verified; its error is not looked at.
StoreMark ==
  /\ ot \in {"store", "store_restart"}
  /\ nvs' = val \/ ("nvs" \in faults /\ UNCHANGED nvs)
  /\ ot' = IF ot = "store" THEN "up" ELSE "restart"
  /\ UNCHANGED <<faults, dlVars, slot, hostVars, handleVars, arg, val, uslot, rcp>>

RestartAfterUpdate ==
  /\ ot = "restart"
  /\ Reboot
  /\ UNCHANGED <<faults, slot, host, boot, nvs, rcp>>

RcpTask ==
  \/ StartRcp \/ LoadVersion \/ UpdateRefused \/ OpenUpdate \/ FlashDone
  \/ UpdateAborted \/ MarkUpdated \/ StoreMark \/ RestartAfterUpdate

-----------------------------------------------------------------------------
(* download_ota_image, on the task of the CLI command. *)

\* The command exists once the border router has come up.
StartDownload(i) ==
  /\ dl = "idle"
  /\ ot = "up"
  /\ img' = i
  /\ dl' = "header"
  /\ UNCHANGED <<faults, dslot, slot, hostVars, handleVars, nvs, otVars, rcp>>

\* Any goto exit with an error: both parts are aborted.
DownloadFails ==
  /\ dl \in {"header", "body", "host", "host_boot"}
  /\ "net" \in faults
  /\ dl' = "idle"
  /\ UNCHANGED <<faults, img, dslot, slot, hostVars, handleVars, nvs, otVars, rcp>>

DownloadShort_Submitted ==
  /\ dl \in {"header", "body"}
  /\ "net" \in faults
  /\ dl' = "submit"
  /\ UNCHANGED <<faults, img, dslot, slot, hostVars, handleVars, nvs, otVars, rcp>>

\* The server's data is complete before the RCP part is: the loop ends without
\* an error and without a host part.
DownloadShort ==
  /\ dl \in {"header", "body"}
  /\ "net" \in faults
  /\ dl' = "rollback"
  /\ UNCHANGED <<faults, img, dslot, slot, hostVars, handleVars, nvs, otVars, rcp>>

\* receive_rcp_fw opens the next image file, which empties it.
OpenSlot ==
  /\ dl = "header"
  /\ dslot' = NextSlot
  /\ slot' = [slot EXCEPT ![NextSlot] = [ver |-> img.rcp, part |-> "none"]]
  /\ dl' = "body"
  /\ UNCHANGED <<faults, img, hostVars, handleVars, nvs, otVars, rcp>>

More(part) == CASE part = "none" -> "header"
                [] part = "header" -> "version"
                [] OTHER -> "whole"

\* More of the RCP part arrives; with the last of it the state is FINISHED.
ReceiveRcp ==
  /\ dl = "body"
  /\ slot' = [slot EXCEPT ![dslot] = [ver |-> @.ver, part |-> More(@.part)]]
  /\ dl' = IF More(slot[dslot].part) # "whole" THEN "body"
           ELSE IF img.host = NoImage THEN "submit" ELSE "host"
  /\ UNCHANGED <<faults, img, dslot, hostVars, handleVars, nvs, otVars, rcp>>

\* esp_ota_begin erases the other partition, esp_ota_end validates it.
ReceiveHost ==
  /\ dl = "host"
  /\ \/ host' = [host EXCEPT ![OtherPartition] = NoImage] /\ dl' = "host"
     \/ host' = [host EXCEPT ![OtherPartition] = img.host] /\ dl' = "host_boot"
  /\ UNCHANGED <<faults, img, dslot, slot, boot, running, handleVars, nvs, otVars, rcp>>

\* esp_ota_set_boot_partition refuses a partition without a valid image.
BootOther == boot' = IF host[OtherPartition] # NoImage THEN OtherPartition ELSE boot

SelectHost ==
  /\ dl = "host_boot"
  /\ BootOther
  /\ dl' = "submit"
  /\ UNCHANGED <<faults, img, dslot, slot, host, running, handleVars, nvs, otVars, rcp>>

\* esp_rcp_submit_new_image: s_handle first.
Submit ==
  /\ dl = "submit"
  /\ seq' = NextSlot
  /\ verified' = TRUE
  /\ dl' = "commit"
  /\ UNCHANGED <<faults, img, dslot, slot, hostVars, nvs, otVars, rcp>>

Commit_Unverified ==
  /\ dl = "commit"
  /\ nvs' = [seq |-> seq, verified |-> FALSE] /\ dl' = "restart"
  /\ UNCHANGED <<faults, img, dslot, slot, hostVars, handleVars, otVars, rcp>>

\* ... then NVS; s_handle is not changed back when that fails.
Commit ==
  /\ dl = "commit"
  /\ \/ nvs' = [seq |-> seq, verified |-> TRUE] /\ dl' = "restart"
     \/ "nvs" \in faults /\ UNCHANGED nvs /\ dl' = "rollback"
  /\ UNCHANGED <<faults, img, dslot, slot, hostVars, handleVars, otVars, rcp>>

\* esp_rcp_ota_end failed.
Rollback ==
  /\ dl = "rollback"
  /\ BootOther
  /\ dl' = "idle"
  /\ UNCHANGED <<faults, img, dslot, slot, host, running, handleVars, nvs, otVars, rcp>>

RestartAfterDownload ==
  /\ dl = "restart"
  /\ Reboot
  /\ RcpCutOff
  /\ UNCHANGED <<faults, slot, host, boot, nvs>>

DownloadTask ==
  \/ DownloadFails \/ DownloadShort \/ OpenSlot \/ ReceiveRcp \/ ReceiveHost
  \/ SelectHost \/ Submit \/ Commit \/ Rollback \/ RestartAfterDownload

-----------------------------------------------------------------------------
Init ==
  /\ \E v \in Bootable :
       /\ slot = [s \in Slots |->
            IF s = 0 THEN [ver |-> v, part |-> "whole"] ELSE [ver |-> v, part |-> "none"]]
       /\ host = [p \in Slots |-> IF p = 0 THEN v ELSE NoImage]
       /\ rcp \in {v, Dead}
       /\ img = [rcp |-> v, host |-> NoImage]
  /\ faults \in FaultSets
  /\ boot = 0 /\ running = 0
  /\ seq = 0 /\ verified = TRUE
  /\ nvs = [seq |-> 0, verified |-> TRUE]
  /\ dl = "idle" /\ dslot = 0
  /\ ot = "start" /\ arg = NoVersion /\ val = nvs /\ uslot = 0

Next ==
  \/ RcpTask \/ DownloadTask \/ PowerLoss \/ RcpFailure
  \/ \E i \in Images : StartDownload(i)

Spec == Init /\ [][Next]_vars

\* Both tasks keep running; nobody has to start a download, and the download
\* task stops erasing and goes on writing.
FairSpec ==
  /\ Spec
  /\ WF_vars(RcpTask)
  /\ WF_vars(DownloadTask)

-----------------------------------------------------------------------------
(* Properties. *)

TypeOK ==
  /\ faults \in FaultSets
  /\ dl \in {"idle", "header", "body", "host", "host_boot", "submit", "commit",
             "rollback", "restart"}
  /\ ot \in {"start", "load", "update", "flash", "mark", "store", "store_restart",
             "restart", "up"}
  /\ img \in Images /\ dslot \in Slots /\ uslot \in Slots
  /\ slot \in [Slots -> [ver : Versions, part : Parts]]
  /\ host \in [Slots -> Versions \cup {NoImage}]
  /\ boot \in Slots /\ running \in Slots
  /\ seq \in Slots /\ verified \in BOOLEAN
  /\ nvs \in [seq : Slots, verified : BOOLEAN]
  /\ val \in [seq : Slots, verified : BOOLEAN]
  /\ arg \in Versions \cup {NoVersion}
  /\ rcp \in Versions \cup {Dead}

\* NVS writes succeed and the RCP can be connected to.
Reliable == "nvs" \notin faults /\ "uart" \notin faults

\* The RCP image that this or the next boot uses is whole, whatever downloads
\* failed and power losses came in between.  A failed NVS write lets the next
\* download empty that file, and a refused update turns to the other file
\* without a look at it, so both are excluded.
ImagesWhole == slot[NvsCurrent].part = "whole" /\ slot[Current].part = "whole"

CurrentImageWhole == Reliable => ImagesWhole

\* What makes it inductive: outside of submission s_handle and NVS name the same
\* file, a download writes the other one, a mark that waits to be stored names
\* a whole file, and once submitted both files are whole.
Handover ==
  /\ ImagesWhole
  /\ ot \in {"store", "store_restart"} =>
       /\ val.verified /\ slot[val.seq].part = "whole"
       /\ dl \notin {"commit", "restart"} => val.seq = Current
  /\ dl \notin {"commit", "restart"} => Current = NvsCurrent
  /\ dl \in {"body", "host", "host_boot", "submit"} => dslot = NextSlot
  /\ dl \in {"host", "host_boot", "submit"} => slot[dslot].part = "whole"
  /\ dl \in {"commit", "restart"} => \A s \in Slots : slot[s].part = "whole"

HandoverInv == Reliable => Handover

\* The host partition in use is never the one being erased and written, and it
\* stays valid also when an update of the other one fails.
RunningHostValid == host[running] # NoImage

\* The RCP runs the version of the current image file.
RunsCurrent == rcp # Dead /\ slot[Current].ver = rcp

\* While the border router is up, and until it submits a new image, the RCP
\* runs the version of the current image file: no chain of failed downloads and
\* updates, fall-backs and power losses ends with another one (if NVS writes
\* succeed).
UpMeansUpToDate ==
  "nvs" \notin faults /\ ot = "up" /\ dl \notin {"commit", "restart"} => RunsCurrent

\* What makes it inductive: between a start and "up" no download is under way and
\* the RCP is what the version was asked of, and a download writes the file that
\* the RCP does not run.
UpToDate ==
  /\ ot \in {"start", "store"} \/ (ot = "load" /\ arg # NoVersion) => dl = "idle"
  /\ ot = "load" /\ arg # NoVersion => rcp = arg
  /\ ot = "store" => RunsCurrent
  /\ ot = "up" /\ dl \notin {"commit", "restart"} => RunsCurrent
  /\ ot = "up" /\ dl \in {"body", "host", "host_boot", "submit"} => dslot = NextSlot

UpToDateInv == "nvs" \notin faults => UpToDate

\* A submitted RCP image is running once the host has restarted and the update
\* has been made, if only downloads fail.
NewImageRuns ==
  \A v \in Bootable :
    faults \subseteq {"net"} /\ dl = "restart" /\ img.rcp = v ~> ot = "up" /\ rcp = v

\* Comment esp_br_http_ota.c:192 "rollback the host boot partition when failing
\* to end RCP OTA".
RollbackRestoresHost == [][dl = "rollback" /\ dl' = "idle" => boot' = running]_vars

\* docs/en/dev-guide/rcp_update.rst:41 "If the RCP fails to boot, the backup
\* image will be flashed to the RCP to revert the change".
BackupIsFlashed ==
  (\A s \in Slots : slot[s].part = "whole") /\ (\E s \in Slots : slot[s].ver \in Bootable)
    /\ rcp = Dead /\ dl = "idle"
      ~> (rcp # Dead \/ \E s \in Slots : slot[s].part # "whole")
=============================================================================
