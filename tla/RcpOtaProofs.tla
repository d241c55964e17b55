---------------------------- MODULE RcpOtaProofs ----------------------------
(***************************************************************************)
(* Proofs about RcpOta for any versions: the image file that the RCP is      *)
(* updated from stays whole as long as NVS writes succeed and the RCP can be *)
(* connected to, and the running host partition stays valid in any case.    *)
(***************************************************************************)
EXTENDS RcpOta, TLAPS

USE RcpOtaAssumption

Inv == TypeOK /\ Handover

LEMMA OtherSlot ==
  ASSUME NEW s \in Slots
  PROVE  1 - s \in Slots /\ 1 - s # s /\ 1 - (1 - s) = s
  BY DEF Slots

LEMMA SlotsNamed ==
  ASSUME TypeOK
  PROVE  Current \in Slots /\ NextSlot \in Slots /\ NvsCurrent \in Slots
         /\ OtherPartition \in Slots
  BY OtherSlot DEF TypeOK, Current, NextSlot, NvsCurrent, SeqOf, OtherPartition

LEMMA MarkType ==
  ASSUME TypeOK, NEW flag \in BOOLEAN, NEW next, MarkVerified(flag, next)
  PROVE  /\ seq' \in Slots /\ verified' \in BOOLEAN
         /\ val' \in [seq : Slots, verified : BOOLEAN]
<1>1. Current \in Slots
  BY SlotsNamed
<1>2. val' = [seq |-> Current, verified |-> flag]
  BY DEF MarkVerified
<1>3. val' \in [seq : Slots, verified : BOOLEAN]
  BY <1>1, <1>2
<1>. QED  BY <1>1, <1>3 DEF MarkVerified

\* A restart forgets what is not in flash.
LEMMA RebootType ==
  ASSUME TypeOK, Reboot, faults' = faults, slot' = slot, host' = host, boot' = boot, nvs' = nvs,
         rcp' \in Versions \cup {Dead}
  PROVE  TypeOK'
<1>1. seq' \in Slots /\ verified' \in BOOLEAN /\ val' \in [seq : Slots, verified : BOOLEAN]
  BY DEF TypeOK, Reboot
<1>2. running' \in Slots
  BY OtherSlot DEF TypeOK, Reboot
<1>3. dl' = "idle" /\ ot' = "start" /\ arg' = NoVersion /\ img' = img /\ dslot' = 0
      /\ uslot' = 0
  BY DEF Reboot
<1>4. 0 \in Slots
  BY DEF Slots
<1>. QED  BY <1>1, <1>2, <1>3, <1>4 DEF TypeOK

LEMMA ReceiveType ==
  ASSUME TypeOK, ReceiveRcp
  PROVE  TypeOK'
<1>1. \A q \in Parts : More(q) \in Parts
  BY DEF Parts, More
<1>2. slot[dslot].ver \in Versions /\ slot[dslot].part \in Parts
  BY DEF TypeOK
<1>3. [ver |-> slot[dslot].ver, part |-> More(slot[dslot].part)]
        \in [ver : Versions, part : Parts]
  BY <1>1, <1>2
<1>5. slot' \in [Slots -> [ver : Versions, part : Parts]]
  BY <1>3 DEF TypeOK, ReceiveRcp
<1>6. dl' \in {"body", "submit", "host"}
  BY DEF ReceiveRcp
<1>. QED  BY <1>5, <1>6 DEF TypeOK, ReceiveRcp, hostVars, handleVars, otVars

\* Every variable keeps its type.
LEMMA TypeStep ==
  ASSUME TypeOK, [Next]_vars
  PROVE  TypeOK'
<1>1. CASE PowerLoss \/ RestartAfterUpdate \/ RestartAfterDownload
  BY <1>1, RebootType DEF PowerLoss, RestartAfterUpdate, RestartAfterDownload, RcpCutOff, TypeOK
<1>2. CASE UpdateAborted
  BY <1>2, RebootType DEF UpdateAborted, TypeOK
<1>3. CASE StartRcp \/ RcpFailure
  BY <1>3 DEF StartRcp, RcpFailure, TypeOK, dlVars, hostVars, handleVars
<1>4. CASE LoadVersion
  <2>1. seq' \in Slots /\ verified' \in BOOLEAN /\ val' \in [seq : Slots, verified : BOOLEAN]
    <3>1. \/ MarkVerified(TRUE, "store") \/ MarkVerified(FALSE, "store_restart")
          \/ UNCHANGED <<handleVars, val>>
      BY <1>4 DEF LoadVersion
    <3>2. CASE UNCHANGED <<handleVars, val>>
      BY <3>2 DEF TypeOK, handleVars
    <3>. QED  BY <3>1, <3>2, MarkType
  <2>2. ot' \in {"store", "store_restart", "update"}
    BY <1>4 DEF LoadVersion, MarkVerified
  <2>. QED  BY <1>4, <2>1, <2>2 DEF LoadVersion, TypeOK, dlVars, hostVars
<1>5. CASE UpdateRefused \/ MarkUpdated
  <2>1. seq' \in Slots /\ verified' \in BOOLEAN /\ val' \in [seq : Slots, verified : BOOLEAN]
        /\ ot' = "store_restart"
    <3>1. ot' = "store_restart"
      BY <1>5 DEF UpdateRefused, MarkUpdated, MarkVerified
    <3>2. MarkVerified(TRUE, "store_restart") \/ MarkVerified(FALSE, "store_restart")
      BY <1>5 DEF UpdateRefused, MarkUpdated
    <3>. QED  BY <3>1, <3>2, MarkType
  <2>. QED  BY <1>5, <2>1 DEF UpdateRefused, MarkUpdated, TypeOK, dlVars, hostVars
<1>15. CASE OpenUpdate \/ FlashDone
  <2>1. rcp' \in Versions \cup {Dead} /\ uslot' \in Slots /\ ot' \in {"flash", "mark"}
    BY <1>15, SlotsNamed DEF OpenUpdate, FlashDone, TypeOK
  <2>. QED  BY <1>15, <2>1 DEF OpenUpdate, FlashDone, TypeOK, dlVars, hostVars, handleVars
<1>6. CASE StoreMark
  <2>1. nvs' \in [seq : Slots, verified : BOOLEAN]
    BY <1>6 DEF StoreMark, TypeOK
  <2>2. ot' \in {"up", "restart"}
    BY <1>6 DEF StoreMark
  <2>. QED  BY <1>6, <2>1, <2>2 DEF StoreMark, TypeOK, dlVars, hostVars, handleVars
<1>7. CASE DownloadFails \/ DownloadShort \/ \E i \in Images : StartDownload(i)
  BY <1>7 DEF DownloadFails, DownloadShort, StartDownload, TypeOK, hostVars,
     handleVars, otVars
<1>8. CASE OpenSlot
  <2>1. slot' \in [Slots -> [ver : Versions, part : Parts]]
    BY <1>8 DEF OpenSlot, TypeOK, Images, Parts
  <2>. QED  BY <1>8, <2>1, SlotsNamed DEF OpenSlot, TypeOK, hostVars, handleVars, otVars
<1>9. CASE ReceiveRcp
  BY <1>9, ReceiveType
<1>10. CASE ReceiveHost
  <2>1. host' \in [Slots -> Versions \cup {NoImage}]
    BY <1>10 DEF ReceiveHost, TypeOK, Images
  <2>2. dl' \in {"host", "host_boot"}
    BY <1>10 DEF ReceiveHost
  <2>. QED  BY <1>10, <2>1, <2>2 DEF ReceiveHost, TypeOK, handleVars, otVars
<1>11. CASE SelectHost \/ Rollback
  BY <1>11, SlotsNamed DEF SelectHost, Rollback, BootOther, TypeOK, handleVars, otVars
<1>12. CASE Submit
  BY <1>12, SlotsNamed DEF Submit, TypeOK, hostVars, otVars
<1>13. CASE Commit
  <2>1. nvs' \in [seq : Slots, verified : BOOLEAN]
    <3>1. [seq |-> seq, verified |-> TRUE] \in [seq : Slots, verified : BOOLEAN]
      BY DEF TypeOK
    <3>. QED  BY <1>13, <3>1 DEF Commit, TypeOK
  <2>2. dl' \in {"restart", "rollback"}
    BY <1>13 DEF Commit
  <2>. QED  BY <1>13, <2>1, <2>2 DEF Commit, TypeOK, hostVars, handleVars, otVars
<1>14. CASE UNCHANGED vars
  BY <1>14 DEF vars, TypeOK, dlVars, hostVars, handleVars, otVars
<1>. QED  BY <1>1, <1>2, <1>3, <1>4, <1>5, <1>6, <1>7, <1>8, <1>9, <1>10, <1>11,
     <1>12, <1>13, <1>14, <1>15 DEF Next, RcpTask, DownloadTask

\* Every variable keeps its type, with any faults.
THEOREM TypeCorrect == Spec => []TypeOK
<1>1. Init => TypeOK
  <2>. SUFFICES ASSUME Init PROVE TypeOK
    OBVIOUS
  <2>1. PICK v \in Bootable :
          /\ slot = [s \in Slots |->
               IF s = 0 THEN [ver |-> v, part |-> "whole"] ELSE [ver |-> v, part |-> "none"]]
          /\ host = [p \in Slots |-> IF p = 0 THEN v ELSE NoImage]
          /\ rcp \in {v, Dead}
          /\ img = [rcp |-> v, host |-> NoImage]
    BY DEF Init
  <2>2. v \in Versions
    OBVIOUS
  <2>3. slot \in [Slots -> [ver : Versions, part : Parts]]
    BY <2>1, <2>2 DEF Parts
  <2>4. host \in [Slots -> Versions \cup {NoImage}]
    BY <2>1, <2>2
  <2>5. img \in Images
    BY <2>1, <2>2 DEF Images
  <2>6. 0 \in Slots
    BY DEF Slots
  <2>. QED  BY <2>1, <2>2, <2>3, <2>4, <2>5, <2>6 DEF Init, TypeOK
<1>. QED  BY <1>1, TypeStep, PTL DEF Spec

-----------------------------------------------------------------------------
\* A restart reads NVS back into s_handle; no download is under way.
LEMMA RebootInv ==
  ASSUME Inv, Reboot, slot' = slot, nvs' = nvs
  PROVE  Handover'
<1>1. Current' = NvsCurrent /\ NvsCurrent' = NvsCurrent
  BY DEF Reboot, Current, NvsCurrent, SeqOf
<1>2. slot[NvsCurrent].part = "whole"
  BY DEF Inv, Handover, ImagesWhole
<1>3. ot' = "start" /\ dl' = "idle"
  BY DEF Reboot
<1>. QED  BY <1>1, <1>2, <1>3 DEF Handover, ImagesWhole

\* A step of the RCP task that leaves the files, NVS and the download alone and
\* marks the current file as verified, or marks nothing.
LEMMA MarkInv ==
  ASSUME Inv, UNCHANGED <<dlVars, slot, nvs>>,
         \/ MarkVerified(TRUE, "store")
         \/ MarkVerified(TRUE, "store_restart")
         \/ UNCHANGED <<handleVars, val>> /\ ot' \notin {"store", "store_restart"}
  PROVE  Handover'
<1>1. Current' = Current /\ NvsCurrent' = NvsCurrent /\ NextSlot' = NextSlot
  BY DEF MarkVerified, Current, NextSlot, NvsCurrent, SeqOf, handleVars
<1>2. ot' \in {"store", "store_restart"} => val'.verified /\ val'.seq = Current
  BY DEF MarkVerified
<1>3. UNCHANGED <<dl, dslot, slot>>
  BY DEF dlVars
<1>4. slot[Current].part = "whole"
  BY DEF Inv, Handover, ImagesWhole
<1>5. ImagesWhole'
  BY <1>1, <1>3 DEF Inv, Handover, ImagesWhole
<1>6. (ot' \in {"store", "store_restart"} =>
        /\ val'.verified /\ slot'[val'.seq].part = "whole"
        /\ dl' \notin {"commit", "restart"} => val'.seq = Current')
  BY <1>1, <1>2, <1>3, <1>4
<1>. QED  BY <1>1, <1>3, <1>5, <1>6 DEF Inv, Handover

\* A step of the download that leaves files, s_handle and NVS alone and goes
\* nowhere near a submission.
LEMMA DownloadQuiet ==
  ASSUME Inv, UNCHANGED <<dslot, slot, handleVars, nvs, otVars>>,
         dl \notin {"commit", "restart"},
         \/ dl' \in {"idle", "header", "rollback"}
         \/ dl \in {"host", "host_boot"} /\ dl' \in {"host", "host_boot", "submit"}
  PROVE  Handover'
<1>1. Current' = Current /\ NvsCurrent' = NvsCurrent /\ NextSlot' = NextSlot
  BY DEF Current, NextSlot, NvsCurrent, SeqOf, handleVars
<1>2. UNCHANGED <<ot, val>>
  BY DEF otVars
<1>. QED  BY <1>1, <1>2 DEF Inv, Handover, ImagesWhole

LEMMA OpenSlotInv ==
  ASSUME Inv, OpenSlot
  PROVE  Handover'
<1>1. Current' = Current /\ NvsCurrent' = NvsCurrent /\ NextSlot' = NextSlot
  BY DEF OpenSlot, Current, NextSlot, NvsCurrent, SeqOf, handleVars
<1>2. NvsCurrent = Current /\ dl = "header"
  BY DEF OpenSlot, Inv, Handover
<1>3. NextSlot # Current /\ Current \in Slots /\ NextSlot \in Slots
  BY OtherSlot, SlotsNamed DEF Inv, NextSlot
<1>4. slot'[Current] = slot[Current]
  BY <1>3 DEF OpenSlot, Inv, TypeOK
<1>5. UNCHANGED <<ot, val>> /\ dl' = "body" /\ dslot' = NextSlot
  BY DEF OpenSlot, otVars
<1>6. ImagesWhole'
  BY <1>1, <1>2, <1>4 DEF Inv, Handover, ImagesWhole
<1>7. ot \in {"store", "store_restart"} => val.verified /\ val.seq = Current
  BY <1>2 DEF Inv, Handover
<1>8. slot[Current].part = "whole"
  BY DEF Inv, Handover, ImagesWhole
<1>. QED  BY <1>1, <1>2, <1>4, <1>5, <1>6, <1>7, <1>8 DEF Handover

LEMMA ReceiveRcpInv ==
  ASSUME Inv, ReceiveRcp
  PROVE  Handover'
<1>1. Current' = Current /\ NvsCurrent' = NvsCurrent /\ NextSlot' = NextSlot
  BY DEF ReceiveRcp, Current, NextSlot, NvsCurrent, SeqOf, handleVars
<1>2. NvsCurrent = Current /\ dl = "body" /\ dslot = NextSlot
  BY DEF ReceiveRcp, Inv, Handover
<1>3. NextSlot # Current /\ Current \in Slots /\ NextSlot \in Slots
  BY OtherSlot, SlotsNamed DEF Inv, NextSlot
<1>4. slot'[Current] = slot[Current] /\ slot'[dslot].part = More(slot[dslot].part)
  BY <1>2, <1>3 DEF ReceiveRcp, Inv, TypeOK
<1>5. UNCHANGED <<ot, val, dslot>>
  BY DEF ReceiveRcp, otVars
<1>6. ImagesWhole'
  BY <1>1, <1>2, <1>4 DEF Inv, Handover, ImagesWhole
<1>7. ot \in {"store", "store_restart"} => val.verified /\ val.seq = Current
  BY <1>2 DEF Inv, Handover
<1>8. slot[Current].part = "whole"
  BY DEF Inv, Handover, ImagesWhole
<1>9. dl' \in {"body", "host", "submit"}
      /\ (dl' # "body" => slot'[dslot'].part = "whole")
  BY <1>4, <1>5 DEF ReceiveRcp
<1>. QED  BY <1>1, <1>2, <1>4, <1>5, <1>6, <1>7, <1>8, <1>9 DEF Handover

\* Both files are whole when s_handle turns to the new one.
LEMMA SubmitInv ==
  ASSUME Inv, Submit
  PROVE  Handover'
<1>1. dl = "submit" /\ dl' = "commit" /\ dslot = NextSlot
      /\ slot[dslot].part = "whole" /\ slot[Current].part = "whole"
  BY DEF Submit, Inv, Handover, ImagesWhole
<1>2. Slots = {Current, NextSlot} /\ NvsCurrent \in Slots
  BY SlotsNamed DEF Inv, Slots, NextSlot
<1>3. \A s \in Slots : slot[s].part = "whole"
  BY <1>1, <1>2
<1>4. Current' = NextSlot /\ NvsCurrent' = NvsCurrent
  BY DEF Submit, Current, NvsCurrent, SeqOf
<1>5. UNCHANGED <<ot, val, slot>>
  BY DEF Submit, otVars
<1>6. ImagesWhole'
  BY <1>2, <1>3, <1>4, <1>5 DEF ImagesWhole
<1>. QED  BY <1>1, <1>3, <1>5, <1>6 DEF Inv, Handover

\* Whichever of the two tasks writes NVS, it names a whole file.
LEMMA CommitInv ==
  ASSUME Inv, Reliable, Commit
  PROVE  Handover'
<1>1. dl = "commit" /\ dl' = "restart" /\ nvs' = [seq |-> seq, verified |-> TRUE]
  BY DEF Commit, Reliable
<1>2. \A s \in Slots : slot[s].part = "whole"
  BY <1>1 DEF Inv, Handover
<1>3. NvsCurrent' = seq /\ Current' = Current /\ seq \in Slots
  BY <1>1 DEF Commit, NvsCurrent, Current, SeqOf, handleVars, Inv, TypeOK
<1>4. UNCHANGED <<ot, val, slot>>
  BY DEF Commit, otVars
<1>5. ImagesWhole'
  BY <1>2, <1>3, <1>4, SlotsNamed DEF ImagesWhole, Inv
<1>. QED  BY <1>1, <1>2, <1>4, <1>5 DEF Inv, Handover

LEMMA StoreMarkInv ==
  ASSUME Inv, Reliable, StoreMark
  PROVE  Handover'
<1>1. nvs' = val /\ val.verified /\ slot[val.seq].part = "whole"
      /\ ot' \notin {"store", "store_restart"}
  BY DEF StoreMark, Reliable, Inv, Handover
<1>2. UNCHANGED <<dl, dslot, slot>>
  BY DEF StoreMark, dlVars
<1>3. NvsCurrent' = val.seq /\ Current' = Current /\ NextSlot' = NextSlot
  BY <1>1 DEF StoreMark, NvsCurrent, Current, NextSlot, SeqOf, handleVars
<1>4. dl \notin {"commit", "restart"} => val.seq = Current
  BY DEF StoreMark, Inv, Handover
<1>5. ImagesWhole'
  BY <1>1, <1>2, <1>3 DEF Inv, Handover, ImagesWhole
<1>. QED  BY <1>1, <1>2, <1>3, <1>4, <1>5 DEF Inv, Handover

LEMMA HandoverStep ==
  ASSUME Inv, Reliable, [Next]_vars
  PROVE  Handover'
<1>1. CASE PowerLoss \/ RestartAfterUpdate \/ RestartAfterDownload \/ UpdateAborted
  BY <1>1, RebootInv DEF PowerLoss, RestartAfterUpdate, RestartAfterDownload, UpdateAborted
<1>2. CASE StartRcp \/ RcpFailure
  BY <1>2, MarkInv DEF StartRcp, RcpFailure, dlVars
<1>3. CASE LoadVersion
  <2>1. slot[Current].part # "none"
    BY DEF Inv, Handover, ImagesWhole
  <2>2. \/ MarkVerified(TRUE, "store")
        \/ UNCHANGED <<handleVars, val>> /\ ot' \notin {"store", "store_restart"}
    BY <1>3, <2>1 DEF LoadVersion
  <2>. QED  BY <1>3, <2>2, MarkInv DEF LoadVersion
<1>4. CASE UpdateRefused
  BY <1>4 DEF UpdateRefused, Reliable, Inv, Handover, ImagesWhole
<1>5. CASE OpenUpdate \/ FlashDone \/ MarkUpdated
  BY <1>5, MarkInv DEF OpenUpdate, FlashDone, MarkUpdated, dlVars
<1>6. CASE StoreMark
  BY <1>6, StoreMarkInv
<1>7. CASE DownloadFails \/ DownloadShort \/ \E i \in Images : StartDownload(i)
  <2>1. UNCHANGED <<dslot, slot, handleVars, nvs, otVars>>
        /\ dl \notin {"commit", "restart"} /\ dl' \in {"idle", "header", "rollback"}
    BY <1>7 DEF DownloadFails, DownloadShort, StartDownload
  <2>. QED  BY <2>1, DownloadQuiet
<1>8. CASE ReceiveHost \/ SelectHost \/ Rollback
  <2>1. UNCHANGED <<dslot, slot, handleVars, nvs, otVars>>
        /\ dl \notin {"commit", "restart"}
        /\ \/ dl' = "idle"
           \/ dl \in {"host", "host_boot"} /\ dl' \in {"host", "host_boot", "submit"}
    BY <1>8 DEF ReceiveHost, SelectHost, Rollback
  <2>. QED  BY <2>1, DownloadQuiet
<1>9. CASE OpenSlot
  BY <1>9, OpenSlotInv
<1>10. CASE ReceiveRcp
  BY <1>10, ReceiveRcpInv
<1>11. CASE Submit
  BY <1>11, SubmitInv
<1>12. CASE Commit
  BY <1>12, CommitInv
<1>13. CASE UNCHANGED vars
  <2>1. UNCHANGED <<dl, dslot, slot, ot, val, seq, verified, nvs>>
    BY <1>13 DEF vars, dlVars, handleVars, otVars
  <2>. QED  BY <2>1 DEF Inv, Handover, ImagesWhole, Current, NextSlot,
       NvsCurrent, SeqOf
<1>. QED  BY <1>1, <1>2, <1>3, <1>4, <1>5, <1>6, <1>7, <1>8, <1>9, <1>10, <1>11,
     <1>12, <1>13 DEF Next, RcpTask, DownloadTask

\* What may fail does not change.
LEMMA FaultsFixed ==
  ASSUME [Next]_vars
  PROVE  faults' = faults
  BY DEF Next, RcpTask, DownloadTask, PowerLoss, RestartAfterUpdate,
     RestartAfterDownload, UpdateAborted, StartRcp, RcpFailure, LoadVersion,
     UpdateRefused, OpenUpdate, FlashDone, MarkUpdated, StoreMark, DownloadFails, DownloadShort,
     StartDownload, OpenSlot, ReceiveRcp, ReceiveHost, SelectHost, Submit, Commit,
     Rollback, vars

\* With reliable NVS writes and a connectable RCP the two tasks hand the image
\* files over to each other without ever naming one that is not whole.
THEOREM HandedOver == Spec => []HandoverInv
<1>1. Init => HandoverInv
  BY DEF Init, HandoverInv, Handover, ImagesWhole, Current, NextSlot, NvsCurrent,
     SeqOf, Slots
<1>2. TypeOK /\ HandoverInv /\ [Next]_vars => HandoverInv'
  BY HandoverStep, FaultsFixed DEF Inv, HandoverInv, Reliable
<1>. QED  BY <1>1, <1>2, TypeCorrect, PTL DEF Spec

\* So downloads, aborted updates and power losses leave the image of this and
\* of the next boot whole.
THEOREM CurrentWhole == Spec => []CurrentImageWhole
<1>1. HandoverInv => CurrentImageWhole
  BY DEF HandoverInv, Handover, CurrentImageWhole
<1>. QED  BY <1>1, HandedOver, PTL

\* A restart finds a valid host partition: the one that ran if not the one
\* that otadata selects.
LEMMA RebootKeepsHost ==
  ASSUME TypeOK, RunningHostValid, Reboot, host' = host
  PROVE  RunningHostValid'
<1>1. CASE host[boot] # NoImage
  BY <1>1 DEF Reboot, RunningHostValid
<1>2. CASE host[boot] = NoImage
  <2>1. boot # running
    BY <1>2 DEF RunningHostValid
  <2>2. 1 - boot = running
    BY <2>1 DEF TypeOK, Slots
  <2>. QED  BY <1>2, <2>2 DEF Reboot, RunningHostValid
<1>. QED  BY <1>1, <1>2

\* With any faults, downloads spare the host partition in use.
THEOREM RunningHost == Spec => []RunningHostValid
<1>1. Init => RunningHostValid
  <2>. SUFFICES ASSUME Init PROVE RunningHostValid
    OBVIOUS
  <2>1. PICK v \in Bootable : host = [p \in Slots |-> IF p = 0 THEN v ELSE NoImage]
    BY DEF Init
  <2>2. host[0] = v /\ running = 0
    BY <2>1 DEF Init, Slots
  <2>. QED  BY <2>2 DEF RunningHostValid
<1>2. TypeOK /\ RunningHostValid /\ [Next]_vars => RunningHostValid'
  <2>. SUFFICES ASSUME TypeOK, RunningHostValid, [Next]_vars PROVE RunningHostValid'
    OBVIOUS
  <2>1. CASE PowerLoss \/ RestartAfterUpdate \/ RestartAfterDownload \/ UpdateAborted
    BY <2>1, RebootKeepsHost
       DEF PowerLoss, RestartAfterUpdate, RestartAfterDownload, UpdateAborted
  <2>2. CASE ReceiveHost
    <3>1. OtherPartition # running
      BY DEF OtherPartition, TypeOK, Slots
    <3>. QED  BY <2>2, <3>1 DEF ReceiveHost, RunningHostValid, TypeOK
  <2>3. CASE UNCHANGED <<host, running>>
    BY <2>3 DEF RunningHostValid
  <2>4. CASE \/ StartRcp \/ LoadVersion \/ UpdateRefused \/ OpenUpdate \/ FlashDone
             \/ MarkUpdated \/ StoreMark \/ RcpFailure \/ UNCHANGED vars
    BY <2>4, <2>3 DEF StartRcp, LoadVersion, UpdateRefused, OpenUpdate, FlashDone,
       MarkUpdated, StoreMark, RcpFailure, vars, hostVars
  <2>5. CASE \/ DownloadFails \/ DownloadShort \/ OpenSlot \/ ReceiveRcp \/ SelectHost
             \/ Submit \/ Commit \/ Rollback \/ \E i \in Images : StartDownload(i)
    BY <2>5, <2>3 DEF DownloadFails, DownloadShort, OpenSlot, ReceiveRcp, SelectHost,
       Submit, Commit, Rollback, StartDownload, hostVars
  <2>. QED  BY <2>1, <2>2, <2>4, <2>5 DEF Next, RcpTask, DownloadTask
<1>. QED  BY <1>1, <1>2, TypeCorrect, PTL DEF Spec
-----------------------------------------------------------------------------
(* The RCP and the current image file. *)

\* A step of the download task that leaves s_handle and the current file alone.
LEMMA DownloadSpares ==
  ASSUME TypeOK, UpToDate, UNCHANGED <<handleVars, otVars, rcp>>,
         dl \notin {"commit", "restart"},
         dl = "idle" => ot = "up",
         slot'[Current] = slot[Current],
         dl' \in {"body", "host", "host_boot", "submit"} =>
           dslot' = NextSlot \/ (dl \in {"body", "host", "host_boot"} /\ dslot' = dslot)
  PROVE  UpToDate'
<1>1. Current' = Current /\ NextSlot' = NextSlot /\ UNCHANGED <<ot, arg>>
  BY DEF Current, NextSlot, SeqOf, handleVars, otVars
<1>2. RunsCurrent' <=> RunsCurrent
  BY <1>1 DEF RunsCurrent
<1>. QED  BY <1>1, <1>2 DEF UpToDate

LEMMA DownloadUpToDate ==
  ASSUME TypeOK, UpToDate,
         \/ DownloadFails \/ DownloadShort \/ OpenSlot \/ ReceiveRcp \/ ReceiveHost
         \/ SelectHost \/ Rollback \/ \E i \in Images : StartDownload(i)
  PROVE  UpToDate'
<1>1. NextSlot # Current /\ Current \in Slots /\ NextSlot \in Slots
  BY OtherSlot, SlotsNamed DEF NextSlot
<1>2. CASE OpenSlot
  <2>1. slot'[Current] = slot[Current] /\ dslot' = NextSlot
    BY <1>1, <1>2 DEF OpenSlot, TypeOK
  <2>. QED  BY <1>2, <2>1, DownloadSpares DEF OpenSlot
<1>3. CASE ReceiveRcp /\ ot = "up"
  <2>1. dl = "body" /\ dslot = NextSlot
    BY <1>3 DEF ReceiveRcp, UpToDate
  <2>2. slot'[Current] = slot[Current] /\ dslot' = dslot
    BY <1>1, <1>3, <2>1 DEF ReceiveRcp, TypeOK
  <2>. QED  BY <1>3, <2>1, <2>2, DownloadSpares DEF ReceiveRcp
<1>4. CASE ReceiveRcp /\ ot # "up"
  <2>1. dl = "body" /\ UNCHANGED <<ot, arg, rcp>>
    BY <1>4 DEF ReceiveRcp, otVars
  <2>. QED  BY <1>4, <2>1 DEF UpToDate
<1>5. CASE DownloadFails \/ DownloadShort \/ ReceiveHost \/ SelectHost \/ Rollback
           \/ \E i \in Images : StartDownload(i)
  <2>1. slot' = slot /\ UNCHANGED <<dslot, handleVars, otVars, rcp>>
        /\ dl \notin {"commit", "restart"} /\ (dl = "idle" => ot = "up")
        /\ (dl' \in {"body", "host", "host_boot", "submit"} =>
              dl \in {"body", "host", "host_boot"})
    BY <1>5 DEF DownloadFails, DownloadShort, ReceiveHost, SelectHost, Rollback, StartDownload
  <2>. QED  BY <2>1, DownloadSpares
<1>. QED  BY <1>2, <1>3, <1>4, <1>5

LEMMA LoadUpToDate ==
  ASSUME TypeOK, UpToDate, LoadVersion
  PROVE  UpToDate'
<1>1. UNCHANGED <<dl, dslot, slot, arg, rcp>> /\ ot = "load"
  BY DEF LoadVersion, dlVars
<1>2. CASE RcpUpToDate /\ MarkVerified(TRUE, "store")
  <2>1. dl = "idle" /\ rcp = arg /\ arg # NoVersion
    BY <1>1, <1>2 DEF RcpUpToDate, UpToDate
  <2>2. slot[Current].ver = arg
    BY <1>2, <2>1 DEF RcpUpToDate, StoredVersion
  <2>3. rcp # Dead
    BY <2>1 DEF TypeOK
  <2>4. Current' = Current /\ ot' = "store"
    BY <1>2 DEF MarkVerified, Current, SeqOf
  <2>. QED  BY <1>1, <2>1, <2>2, <2>3, <2>4 DEF UpToDate, RunsCurrent
<1>3. CASE ot' \in {"store_restart", "update"}
  BY <1>3 DEF UpToDate
<1>. QED  BY <1>2, <1>3 DEF LoadVersion, MarkVerified

\* Whatever fails but NVS writes, the two tasks keep it.
LEMMA UpToDateStep ==
  ASSUME TypeOK, UpToDate, "nvs" \notin faults, [Next]_vars
  PROVE  UpToDate'
<1>1. CASE PowerLoss \/ RestartAfterUpdate \/ RestartAfterDownload \/ UpdateAborted
  <2>1. ot' = "start" /\ dl' = "idle"
    BY <1>1 DEF PowerLoss, RestartAfterUpdate, RestartAfterDownload, UpdateAborted, Reboot
  <2>. QED  BY <2>1 DEF UpToDate
<1>2. CASE StartRcp
  <2>1. ot' = "load" /\ dl' = dl /\ rcp' = rcp /\ dl = "idle"
        /\ arg' = IF rcp = Dead THEN NoVersion ELSE rcp
    BY <1>2 DEF StartRcp, UpToDate, dlVars
  <2>. QED  BY <2>1 DEF UpToDate
<1>3. CASE RcpFailure
  BY <1>3 DEF RcpFailure, UpToDate
<1>4. CASE LoadVersion
  BY <1>4, LoadUpToDate
<1>5. CASE UpdateRefused \/ OpenUpdate \/ FlashDone \/ MarkUpdated
  <2>1. ot' \in {"flash", "mark", "store_restart"}
    BY <1>5 DEF UpdateRefused, OpenUpdate, FlashDone, MarkUpdated, MarkVerified
  <2>. QED  BY <2>1 DEF UpToDate
<1>6. CASE StoreMark
  <2>1. UNCHANGED <<dl, slot, rcp>> /\ Current' = Current /\ ot' \in {"up", "restart"}
        /\ (ot' = "up" => ot = "store")
    BY <1>6 DEF StoreMark, dlVars, handleVars, Current, SeqOf
  <2>. QED  BY <2>1 DEF UpToDate, RunsCurrent
<1>7. CASE Submit
  <2>1. dl = "submit" /\ dl' = "commit" /\ UNCHANGED <<ot, arg, rcp>>
    BY <1>7 DEF Submit, otVars
  <2>. QED  BY <2>1 DEF UpToDate
<1>8. CASE Commit
  <2>1. dl = "commit" /\ dl' = "restart" /\ UNCHANGED <<ot, arg, rcp>>
    BY <1>8 DEF Commit, otVars
  <2>. QED  BY <2>1 DEF UpToDate
<1>9. CASE \/ DownloadFails \/ DownloadShort \/ OpenSlot \/ ReceiveRcp \/ ReceiveHost
           \/ SelectHost \/ Rollback \/ \E i \in Images : StartDownload(i)
  BY <1>9, DownloadUpToDate
<1>10. CASE UNCHANGED vars
  <2>1. UNCHANGED <<dl, dslot, slot, ot, arg, rcp>> /\ Current' = Current /\ NextSlot' = NextSlot
    BY <1>10 DEF vars, dlVars, handleVars, otVars, Current, NextSlot, SeqOf
  <2>. QED  BY <2>1 DEF UpToDate, RunsCurrent
<1>. QED  BY <1>1, <1>2, <1>3, <1>4, <1>5, <1>6, <1>7, <1>8, <1>9, <1>10
     DEF Next, RcpTask, DownloadTask

\* If NVS writes succeed, a border router that is up has an RCP with the version
\* of the current image file, whatever else failed before (UpMeansUpToDate;
\* esp_ot_try_update_rcp and esp_rcp_mark_image_verified).
THEOREM RcpFollowsImage == Spec => []UpMeansUpToDate
<1>1. Init => UpToDateInv
  BY DEF Init, UpToDateInv, UpToDate
<1>2. TypeOK /\ UpToDateInv /\ [Next]_vars => UpToDateInv'
  BY UpToDateStep, FaultsFixed DEF UpToDateInv
<1>3. UpToDateInv => UpMeansUpToDate
  BY DEF UpToDateInv, UpToDate, UpMeansUpToDate
<1>. QED  BY <1>1, <1>2, <1>3, TypeCorrect, PTL DEF Spec
=============================================================================
