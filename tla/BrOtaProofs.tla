----------------------------- MODULE BrOtaProofs -----------------------------
(***************************************************************************)
(* Proofs about BrOta for any number of handlers, any versions and faults:  *)
(* what was announced to the server is what the delayed task finds, and an  *)
(* image on trial always has one to fall back to.                           *)
(***************************************************************************)
EXTENDS BrOta, TLAPS

USE BrOtaAssumption

LEMMA OtherPartition ==
  ASSUME NEW p \in Partitions
  PROVE  /\ 1 - p \in Partitions /\ 1 - p # p /\ 1 - (1 - p) = p
         /\ \A q \in Partitions : q = p \/ q = 1 - p
  BY DEF Partitions

\* A restart forgets what is not in flash.
LEMMA BootType ==
  ASSUME TypeOK, NEW states \in [Partitions -> OtaStates], Boot(states)
  PROVE  TypeOK'
<1>1. running' \in Partitions /\ pick' \in Partitions
  BY OtherPartition DEF TypeOK, Boot
<1>2. ota' \in [Partitions -> OtaStates]
  BY DEF Boot, OtaStates
<1>. QED  BY <1>1, <1>2 DEF TypeOK, Boot

\* Every variable keeps its type.
LEMMA TypeStep ==
  ASSUME TypeOK, [Next]_vars
  PROVE  TypeOK'
<1>1. CASE PowerLoss \/ DelayedRestart
  BY <1>1, BootType DEF PowerLoss, DelayedRestart, TypeOK
<1>2. CASE RegisterRoutes
  BY <1>2 DEF RegisterRoutes, TypeOK, handlerVars, statusVars, flashVars
<1>3. CASE ConfirmRunningApp
  <2>1. ota' \in [Partitions -> OtaStates]
    BY <1>3 DEF ConfirmRunningApp, TypeOK, OtaStates
  <2>. QED  BY <1>3, <2>1 DEF ConfirmRunningApp, TypeOK, handlerVars, statusVars
<1>4. CASE DelayedRollback
  <2>1. CASE Boot([ota EXCEPT ![running] = "invalid"])
    <3>1. [ota EXCEPT ![running] = "invalid"] \in [Partitions -> OtaStates]
      BY DEF TypeOK, OtaStates
    <3>. QED  BY <2>1, <3>1, BootType
  <2>2. CASE ~Boot([ota EXCEPT ![running] = "invalid"])
    BY <1>4, <2>2 DEF DelayedRollback, TypeOK, handlerVars, flashVars
  <2>. QED  BY <2>1, <2>2
<1>5. ASSUME NEW w \in Workers, Request(w) \/ Handler(w)
      PROVE  TypeOK'
  <2>1. CASE Request(w)
    <3>1. pc' \in [Workers -> Holding \cup Scheduling \cup {"idle"}]
      BY <2>1 DEF Request, Begin, TypeOK, Holding
    <3>2. new' \in [Workers -> Versions] /\ lock' \in Workers
      BY <2>1 DEF Request, Begin, TypeOK
    <3>. QED  BY <2>1, <3>1, <3>2 DEF Request, TypeOK, statusVars, flashVars
  <2>2. CASE BadRequest(w) \/ StartStream(w)
    BY <2>2 DEF BadRequest, StartStream, Fail, End, TypeOK, Holding, Streaming, statusVars, flashVars
  <2>3. CASE ReadHeader(w)
    BY <2>3 DEF ReadHeader, Fail, End, TypeOK, Holding, Streaming, flashVars
  <2>4. CASE EraseOther(w)
    BY <2>4 DEF EraseOther, Fail, End, TypeOK, Holding, Streaming, statusVars
  <2>5. CASE ReceiveBody(w)
    BY <2>5 DEF ReceiveBody, Fail, End, TypeOK, Holding, Streaming, statusVars
  <2>6. CASE SelectOther(w)
    <3>1. pick' \in Partitions
      BY <2>6, OtherPartition DEF SelectOther, TypeOK, Other
    <3>2. ota' \in [Partitions -> OtaStates]
      BY <2>6 DEF SelectOther, TypeOK, OtaStates
    <3>. QED  BY <2>6, <3>1, <3>2 DEF SelectOther, Fail, End, TypeOK, Holding, Streaming
  <2>7. CASE HttpConfirm(w)
    BY <2>7 DEF HttpConfirm, Fail, End, TypeOK, OtaStates
  <2>8. CASE HttpRollback(w)
    BY <2>8 DEF HttpRollback, Fail, End, TypeOK, Holding, flashVars
  <2>9. CASE Answer(w) \/ Schedule(w)
    BY <2>9 DEF Answer, Schedule, TypeOK, Holding, Scheduling, statusVars, flashVars
  <2>. QED  BY <1>5, <2>1, <2>2, <2>3, <2>4, <2>5, <2>6, <2>7, <2>8, <2>9 DEF Handler
<1>6. CASE UNCHANGED vars
  BY <1>6 DEF vars, TypeOK, handlerVars, statusVars, flashVars
<1>. QED  BY <1>1, <1>2, <1>3, <1>4, <1>5, <1>6 DEF Next

\* Every variable keeps its type, with any faults.
THEOREM TypeCorrect == Spec => []TypeOK
<1>1. Init => TypeOK
  BY DEF Init, TypeOK, Partitions, OtaStates
<1>. QED  BY <1>1, TypeStep, PTL DEF Spec

-----------------------------------------------------------------------------
Inv == TypeOK /\ OtaInv

LEMMA OtherNamed ==
  ASSUME TypeOK
  PROVE  /\ Other \in Partitions /\ Other # running
         /\ \A q \in Partitions : q = running \/ q = Other
  BY OtherPartition DEF TypeOK, Other

LEMMA OtherStays ==
  ASSUME running' = running
  PROVE  Other' = Other
  BY DEF Other

\* After a restart nothing is announced or under way; the partition that was
\* the running one is the fallback of an image on trial.
LEMMA BootInv ==
  ASSUME Inv, NEW states, Boot(states),
         \/ states = ota
         \/ /\ states = [ota EXCEPT ![running] = "invalid"]
            /\ RollbackPossible /\ pick = running
  PROVE  OtaInv'
<1>1. /\ Other \in Partitions /\ Other # running
      /\ \A q \in Partitions : q = running \/ q = Other
      /\ running \in Partitions /\ pick \in Partitions
  BY OtherNamed DEF Inv, TypeOK
<1>2. pick = running => 1 - pick = Other
  BY DEF Other
<1>3. pick # running => pick = Other /\ 1 - pick = running
  BY <1>1, OtherPartition DEF Other
<1>4. Handlers' /\ Stream' /\ AnnouncedImageIntact' /\ AnnouncedRollbackPossible'
  BY DEF Boot, Handlers, Stream, AnnouncedImageIntact, AnnouncedRollbackPossible,
     Announced, Holding, Streaming, Scheduling, Inv, TypeOK
<1>5. /\ ota \in [Partitions -> OtaStates]
      /\ pick = Other =>
           ota[running] # "pending" /\ ota[Other] = "new" /\ part[Other] # Blank
      /\ ota[Other] # "pending"
      /\ ota[Other] = "new" => pick = Other
      /\ part[running] # Blank /\ ota[running] \notin Refused \cup {"new"}
      /\ ota[running] = "pending" => RollbackPossible
  BY DEF Inv, TypeOK, OtaInv, Selected, TrialHasFallback
<1>6. part' = part /\ pick' = running' /\ ~pending'
  BY DEF Boot
<1>7. CASE pick = Other
  <2>1. states = ota
    BY <1>1, <1>7
  <2>2. Startable(pick, states)
    BY <1>5, <1>7, <2>1 DEF Startable, Refused
  <2>3. running' = Other /\ Other' = running
    BY <1>1, <1>3, <1>7, <2>2 DEF Boot, Other
  <2>4. ota' = [ota EXCEPT ![Other] = "pending"]
    BY <1>1, <1>5, <1>7, <2>1, <2>2 DEF Boot
  <2>5. ota'[Other] = "pending" /\ ota'[running] = ota[running]
    BY <1>1, <1>5, <2>4
  <2>6. Selected'
    BY <1>1, <1>5, <1>6, <1>7, <2>3, <2>5 DEF Selected
  <2>7. RollbackPossible'
    BY <1>5, <1>6, <2>3, <2>5 DEF RollbackPossible
  <2>8. TrialHasFallback'
    BY <1>5, <1>6, <1>7, <2>3, <2>5, <2>7 DEF TrialHasFallback, Refused
  <2>. QED  BY <1>4, <2>6, <2>8 DEF OtaInv
<1>8. CASE pick = running /\ states = ota /\ ota[running] # "pending"
  <2>1. Startable(pick, states)
    BY <1>5, <1>8 DEF Startable, Refused
  <2>2. running' = running /\ Other' = Other
    BY <1>8, <2>1 DEF Boot, Other
  <2>3. ota' = ota
    BY <1>5, <1>8, <2>1 DEF Boot
  <2>. QED  BY <1>1, <1>4, <1>5, <1>6, <1>8, <2>2, <2>3 DEF OtaInv, Selected, TrialHasFallback
<1>9. CASE pick = running /\ states[running] \in {"invalid", "pending"} /\ RollbackPossible
           /\ states[Other] = ota[Other]
  <2>1. ~Startable(pick, states)
    BY <1>9 DEF Startable, Refused
  <2>2. running' = Other /\ Other' = running
    BY <1>2, <1>9, <1>1, <2>1, OtherPartition DEF Boot, Other
  <2>3. ota[Other] \notin {"new", "pending"}
    BY <1>1, <1>5, <1>9
  <2>4. ota'[Other] = ota[Other] /\ ota'[running] \in {"invalid", "aborted"}
    BY <1>1, <1>2, <1>9, <2>1, <2>3 DEF Boot
  <2>. QED  BY <1>1, <1>4, <1>5, <1>6, <1>9, <2>2, <2>3, <2>4 DEF OtaInv, Selected,
            TrialHasFallback, RollbackPossible, Refused
<1>. QED  BY <1>1, <1>5, <1>7, <1>8, <1>9

\* Before an announcement the holder of the lock is alone: nothing is scheduled
\* and every other handler is idle.
Working == Streaming \cup {"check", "confirm", "rollback"}

LEMMA Alone ==
  ASSUME Inv, NEW w \in Workers, pc[w] \in Working
  PROVE  /\ lock = w /\ ~pending /\ delayed = {} /\ main = "up" /\ pick = running
         /\ \A u \in Workers : u # w => pc[u] = "idle"
<1>1. pc[w] \in Holding /\ pc[w] # "idle"
      /\ pc[w] \notin Scheduling \cup {"restart_answer", "rollback_answer"}
  BY DEF Working, Holding, Streaming, Scheduling
<1>2. ~pending /\ lock = w
  BY <1>1 DEF Inv, OtaInv, Handlers
<1>3. delayed = {} /\ main = "up" /\ pick = running
  BY <1>1, <1>2 DEF Inv, OtaInv, Handlers, Selected
<1>4. ASSUME NEW u \in Workers, u # w
      PROVE  pc[u] = "idle"
  <2>1. pc[u] \notin Holding
    BY <1>2, <1>4 DEF Inv, OtaInv, Handlers
  <2>2. pc[u] # "idle" => pc[u] \notin Scheduling
    BY <1>2 DEF Inv, OtaInv, Handlers
  <2>. QED  BY <2>1, <2>2 DEF Inv, TypeOK
<1>. QED  BY <1>2, <1>3, <1>4

\* With nothing announced and nothing selected, the selection and the fallback
\* only depend on partitions and otadata.
LEMMA NothingAnnounced ==
  ASSUME NEW w \in Workers, delayed' = {},
         \A u \in Workers : u # w => pc'[u] = "idle",
         pc'[w] \notin Scheduling \cup {"restart_answer", "rollback_answer"}
  PROVE  AnnouncedImageIntact' /\ AnnouncedRollbackPossible'
BY DEF AnnouncedImageIntact, AnnouncedRollbackPossible, Announced, Scheduling

\* The handler that is alone goes on to x or, with x = "idle", gives the lock
\* back; it announces nothing.
LEMMA StillAlone ==
  ASSUME Inv, NEW w \in Workers, pc[w] \in Working, NEW x,
         (x \in Working /\ lock' = lock) \/ (x = "idle" /\ lock' = NoWorker),
         pc' = [pc EXCEPT ![w] = x], ~pending', delayed' = delayed, main' = main
  PROVE  Handlers' /\ AnnouncedImageIntact' /\ AnnouncedRollbackPossible'
<1>1. /\ lock = w /\ delayed = {} /\ main = "up"
      /\ \A u \in Workers : u # w => pc[u] = "idle"
  BY Alone
<1>2. pc'[w] = x /\ \A u \in Workers : u # w => pc'[u] = "idle"
  BY <1>1 DEF Inv, TypeOK
<1>3. x \notin Scheduling \cup {"restart_answer", "rollback_answer"}
      /\ (x = "idle" \/ x \in Holding) /\ "idle" \notin Holding /\ "idle" \notin Working
  BY DEF Working, Holding, Streaming, Scheduling
<1>4. AnnouncedImageIntact' /\ AnnouncedRollbackPossible'
  BY <1>1, <1>2, <1>3, NothingAnnounced
<1>5. Handlers'
  BY <1>1, <1>2, <1>3 DEF Handlers
<1>. QED  BY <1>4, <1>5

\* A way out of a handler, with the running image perhaps confirmed.
LEMMA WayOut ==
  ASSUME Inv, NEW w \in Workers, pc[w] \in Working, End(w), ~pending',
         UNCHANGED <<main, new, delayed, part, pick, running>>,
         \/ ota' = ota
         \/ ota' = [ota EXCEPT ![running] = IF @ = "pending" THEN "valid" ELSE @]
  PROVE  OtaInv'
<1>1. Handlers' /\ AnnouncedImageIntact' /\ AnnouncedRollbackPossible'
  BY StillAlone DEF End
<1>2. pick = running /\ \A u \in Workers : u # w => pc[u] = "idle"
  BY Alone
<1>3. \A u \in Workers : pc'[u] = "idle"
  BY <1>2 DEF End, Inv, TypeOK
<1>4. Stream'
  BY <1>3 DEF Stream
<1>5. /\ Other \in Partitions /\ Other # running /\ running \in Partitions
      /\ ota \in [Partitions -> OtaStates]
  BY OtherNamed DEF Inv, TypeOK
<1>6. Other' = Other
  BY OtherStays
<1>7. ota'[Other] = ota[Other]
      /\ ota'[running] = (IF ota[running] = "pending" /\ ota' # ota THEN "valid" ELSE ota[running])
  BY <1>5
<1>8. Selected'
  BY <1>2, <1>5, <1>6, <1>7 DEF Inv, OtaInv, Selected
<1>9. TrialHasFallback'
  BY <1>5, <1>6, <1>7 DEF Inv, OtaInv, TrialHasFallback, RollbackPossible, Refused
<1>. QED  BY <1>1, <1>4, <1>8, <1>9 DEF OtaInv

\* A step from one point of the stream to the next, before the selection.
LEMMA NextStage ==
  ASSUME Inv, NEW w \in Workers, pc[w] \in Working, NEW x \in Streaming,
         pc' = [pc EXCEPT ![w] = x], ~pending',
         UNCHANGED <<lock, main, new, delayed, ota, pick, running>>,
         \/ part' = part
         \/ /\ ota[running] # "pending"
            /\ \E v \in Versions \cup {Blank} : part' = [part EXCEPT ![Other] = v],
         x \in {"erase", "body", "select"} => Accepted(new[w]),
         x \in {"body", "select"} => ota[running] # "pending",
         x = "select" => part'[Other] = new[w]
  PROVE  OtaInv'
<1>1. x \in Working
  BY DEF Working
<1>2. Handlers' /\ AnnouncedImageIntact' /\ AnnouncedRollbackPossible'
  <2>1. (x \in Working /\ lock' = lock) \/ (x = "idle" /\ lock' = NoWorker)
    BY <1>1
  <2>2. delayed' = delayed /\ main' = main
    OBVIOUS
  <2>. QED  BY <2>1, <2>2, StillAlone
<1>3. pick = running /\ \A u \in Workers : u # w => pc[u] = "idle"
  BY Alone
<1>4. pc'[w] = x /\ \A u \in Workers : u # w => pc'[u] = "idle"
  BY <1>3 DEF Inv, TypeOK
<1>5. /\ Other \in Partitions /\ Other # running /\ running \in Partitions
      /\ part \in [Partitions -> Versions \cup {Blank}]
  BY OtherNamed DEF Inv, TypeOK
<1>6. Other' = Other /\ part'[running] = part[running]
  BY <1>5, OtherStays
<1>7. Stream'
  BY <1>4, <1>6 DEF Stream, Accepted
<1>8. Selected'
  BY <1>3, <1>5, <1>6 DEF Inv, OtaInv, Selected
<1>9. TrialHasFallback'
  BY <1>6 DEF Inv, OtaInv, TrialHasFallback, RollbackPossible
<1>. QED  BY <1>2, <1>7, <1>8, <1>9 DEF OtaInv

\* A request begins: every handler was idle.
LEMMA RequestStep ==
  ASSUME Inv, NEW w \in Workers, Request(w)
  PROVE  OtaInv'
<1>1. PICK x \in {"check", "confirm", "rollback"} : Begin(w, x)
  BY DEF Request
<1>2. main = "up" /\ UNCHANGED <<main, st, pending, delayed, part, ota, pick, running>>
  BY DEF Request, ServerUp, statusVars, flashVars
<1>3. ~pending /\ delayed = {} /\ \A u \in Workers : pc[u] = "idle"
  <2>1. ~pending /\ lock = NoWorker
    BY <1>1 DEF Begin
  <2>2. delayed = {}
    BY <2>1 DEF Inv, OtaInv, Handlers
  <2>3. ASSUME NEW u \in Workers PROVE pc[u] = "idle"
    <3>1. pc[u] \notin Holding
      BY <2>1 DEF Inv, OtaInv, Handlers
    <3>2. pc[u] # "idle" => pc[u] \notin Scheduling
      BY <2>1 DEF Inv, OtaInv, Handlers
    <3>. QED  BY <3>1, <3>2 DEF Inv, TypeOK
  <2>. QED  BY <2>1, <2>2, <2>3
<1>4. lock' = w /\ pc'[w] = x /\ \A u \in Workers : u # w => pc'[u] = "idle"
  BY <1>1, <1>3 DEF Begin, Inv, TypeOK
<1>5. x \in Holding /\ "idle" \notin Holding
      /\ x \notin Scheduling \cup {"restart_answer", "rollback_answer"}
  BY DEF Holding, Scheduling, Streaming
<1>6. Handlers'
  BY <1>2, <1>3, <1>4, <1>5 DEF Handlers
<1>7. AnnouncedImageIntact' /\ AnnouncedRollbackPossible'
  BY <1>2, <1>3, <1>4, <1>5, NothingAnnounced
<1>8. Stream'
  BY <1>4 DEF Stream
<1>9. Other' = Other
  BY <1>2, OtherStays
<1>10. Selected' /\ TrialHasFallback'
  BY <1>2, <1>9 DEF Inv, OtaInv, Selected, TrialHasFallback, RollbackPossible
<1>. QED  BY <1>6, <1>7, <1>8, <1>10 DEF OtaInv

\* The handler announces a restart or a roll-back.
LEMMA Announce ==
  ASSUME Inv, NEW w \in Workers, pc[w] \in Working,
         NEW kind \in {"restart", "rollback"},
         pc' = [pc EXCEPT ![w] = IF kind = "restart" THEN "restart_answer" ELSE "rollback_answer"],
         pending', UNCHANGED <<lock, main, new, delayed, part, running>>,
         kind = "restart" =>
           /\ pick' = Other /\ ota' = [ota EXCEPT ![Other] = "new"]
           /\ part[Other] # Blank /\ part[Other] > part[running]
           /\ ota[running] # "pending",
         kind = "rollback" => RollbackPossible /\ UNCHANGED <<ota, pick>>
  PROVE  OtaInv'
<1>1. /\ lock = w /\ delayed = {} /\ main = "up" /\ pick = running
      /\ \A u \in Workers : u # w => pc[u] = "idle"
  BY Alone
<1>2. /\ pc'[w] = IF kind = "restart" THEN "restart_answer" ELSE "rollback_answer"
      /\ \A u \in Workers : u # w => pc'[u] = "idle"
  BY <1>1 DEF Inv, TypeOK
<1>3. Handlers'
  BY <1>1, <1>2 DEF Handlers, Holding, Streaming, Scheduling
<1>4. Stream'
  BY <1>2 DEF Stream
<1>5. /\ Other \in Partitions /\ Other # running /\ running \in Partitions
      /\ ota \in [Partitions -> OtaStates]
  BY OtherNamed DEF Inv, TypeOK
<1>6. Other' = Other
  BY OtherStays
<1>7. ota'[running] = ota[running]
      /\ ota'[Other] = IF kind = "restart" THEN "new" ELSE ota[Other]
  BY <1>5
<1>8. Selected'
  BY <1>1, <1>5, <1>6, <1>7 DEF Inv, OtaInv, Selected
<1>9. TrialHasFallback'
  BY <1>6, <1>7 DEF Inv, OtaInv, TrialHasFallback, RollbackPossible
<1>10. AnnouncedImageIntact'
  BY <1>1, <1>2, <1>5, <1>6, <1>7 DEF AnnouncedImageIntact, Announced
<1>11. AnnouncedRollbackPossible'
  BY <1>1, <1>2, <1>6 DEF AnnouncedRollbackPossible, Announced, RollbackPossible
<1>. QED  BY <1>3, <1>4, <1>8, <1>9, <1>10, <1>11 DEF OtaInv

\* An announcement passes from the handler to the task; only the lock is freed.
LEMMA PassOn ==
  ASSUME Inv, NEW w \in Workers, Answer(w) \/ Schedule(w)
  PROVE  OtaInv'
<1>1. UNCHANGED <<main, new, st, pending, part, ota, pick, running>>
  BY DEF Answer, Schedule, statusVars, flashVars
<1>2. Other' = Other
  BY <1>1, OtherStays
<1>3. Selected' /\ TrialHasFallback'
  BY <1>1, <1>2 DEF Inv, OtaInv, Selected, TrialHasFallback, RollbackPossible
<1>4. \A u \in Workers : u # w => pc'[u] = pc[u]
  BY DEF Answer, Schedule, Inv, TypeOK
<1>5. pending /\ main = "up"
  BY DEF Answer, Schedule, Inv, OtaInv, Handlers, Scheduling
<1>6. pc'[w] \in Scheduling \cup {"idle"}
  BY DEF Answer, Schedule, Inv, TypeOK, Scheduling
<1>7. \A u \in Workers : lock' = u <=> pc'[u] \in Holding
  BY <1>4, <1>6 DEF Answer, Schedule, Inv, OtaInv, Handlers, Holding, Streaming, Scheduling
<1>8. Handlers'
  BY <1>1, <1>4, <1>5, <1>6, <1>7 DEF Handlers, Inv, OtaInv
<1>9. Stream'
  BY <1>1, <1>2, <1>4, <1>6 DEF Stream, Inv, OtaInv, Scheduling, Accepted
<1>10. \A kind \in {"restart", "rollback"} : Announced(kind)' => Announced(kind)
  BY <1>4 DEF Announced, Answer, Schedule, Inv, TypeOK
<1>11. AnnouncedImageIntact' /\ AnnouncedRollbackPossible'
  BY <1>1, <1>2, <1>10 DEF AnnouncedImageIntact, AnnouncedRollbackPossible,
     RollbackPossible, Inv, OtaInv
<1>. QED  BY <1>3, <1>8, <1>9, <1>11 DEF OtaInv

-----------------------------------------------------------------------------
(* Every step. *)

LEMMA HandlerStep ==
  ASSUME Inv, NEW w \in Workers, Handler(w)
  PROVE  OtaInv'
<1>1. CASE pc[w] \in Working /\ Fail(w) /\ UNCHANGED <<main, new, delayed, flashVars, running>>
  <2>1. ~pending'
    BY <1>1, Alone DEF Fail
  <2>. QED  BY <1>1, <2>1, WayOut DEF Fail, flashVars
<1>2. CASE BadRequest(w)
  <2>1. pc[w] \in Working /\ End(w)
        /\ UNCHANGED <<main, new, delayed, part, ota, pick, running, pending>>
    BY <1>2 DEF BadRequest, Working, statusVars, flashVars
  <2>. QED  BY <2>1, Alone, WayOut
<1>3. CASE StartStream(w) /\ ~Fail(w)
  <2>1. pc[w] \in Working /\ "header" \in Streaming
    BY <1>3 DEF StartStream, Working, Streaming
  <2>2. ~pending' /\ pc' = [pc EXCEPT ![w] = "header"]
        /\ UNCHANGED <<lock, main, new, delayed, part, ota, pick, running>>
    BY <1>3 DEF StartStream, flashVars
  <2>. QED  BY <2>1, <2>2, NextStage
<1>4. CASE ReadHeader(w) /\ ~Fail(w)
  <2>1. pc[w] \in Working /\ "erase" \in Streaming
    BY <1>4 DEF ReadHeader, Working, Streaming
  <2>2. Accepted(new[w]) /\ pending' = pending /\ pc' = [pc EXCEPT ![w] = "erase"]
        /\ UNCHANGED <<lock, main, new, delayed, part, ota, pick, running>>
    BY <1>4 DEF ReadHeader, flashVars
  <2>. QED  BY <2>1, <2>2, Alone, NextStage
<1>5. CASE EraseOther(w) /\ ~Fail(w)
  <2>1. pc[w] \in Working /\ "body" \in Streaming
    BY <1>5 DEF EraseOther, Working, Streaming
  <2>2. /\ ota[running] # "pending" /\ pending' = pending
        /\ part' = [part EXCEPT ![Other] = Blank] /\ pc' = [pc EXCEPT ![w] = "body"]
        /\ UNCHANGED <<lock, main, new, delayed, ota, pick, running>>
    BY <1>5 DEF EraseOther, statusVars
  <2>3. Accepted(new[w])
    BY <1>5 DEF EraseOther, Inv, OtaInv, Stream
  <2>4. ~pending'
    BY <2>1, <2>2, Alone
  <2>5. \E v \in Versions \cup {Blank} : part' = [part EXCEPT ![Other] = v]
    BY <2>2
  <2>. QED  BY <2>1, <2>2, <2>3, <2>4, <2>5, NextStage
<1>6. CASE ReceiveBody(w) /\ ~Fail(w)
  <2>1. pc[w] \in Working /\ "select" \in Streaming
    BY <1>6 DEF ReceiveBody, Working, Streaming
  <2>2. /\ pending' = pending
        /\ part' = [part EXCEPT ![Other] = new[w]] /\ pc' = [pc EXCEPT ![w] = "select"]
        /\ UNCHANGED <<lock, main, new, delayed, ota, pick, running>>
    BY <1>6 DEF ReceiveBody, statusVars
  <2>3. Accepted(new[w]) /\ ota[running] # "pending"
    BY <1>6 DEF ReceiveBody, Inv, OtaInv, Stream
  <2>4. ~pending'
    BY <2>1, <2>2, Alone
  <2>5. part'[Other] = new[w] /\ new[w] \in Versions
    BY <2>2, OtherNamed DEF Inv, TypeOK
  <2>6. \E v \in Versions \cup {Blank} : part' = [part EXCEPT ![Other] = v]
    BY <2>2, <2>5
  <2>. QED  BY <2>1, <2>2, <2>3, <2>4, <2>5, <2>6, NextStage
<1>7. CASE SelectOther(w) /\ ~Fail(w)
  <2>1. pc[w] \in Working /\ pc[w] = "select"
    BY <1>7 DEF SelectOther, Working, Streaming
  <2>2. Accepted(new[w]) /\ ota[running] # "pending" /\ part[Other] = new[w]
    BY <2>1 DEF Inv, OtaInv, Stream
  <2>3. new[w] \in Nat \ {0}
    BY DEF Inv, TypeOK
  <2>4. part[Other] # Blank /\ part[Other] > part[running]
    BY <2>2, <2>3 DEF Accepted, Blank
  <2>5. /\ pending' /\ pick' = Other /\ ota' = [ota EXCEPT ![Other] = "new"]
        /\ pc' = [pc EXCEPT ![w] = "restart_answer"]
        /\ UNCHANGED <<lock, main, new, delayed, part, running>>
    BY <1>7 DEF SelectOther
  <2>. QED  BY <2>1, <2>2, <2>4, <2>5, Announce
<1>8. CASE HttpConfirm(w) /\ ~Fail(w)
  <2>1. pc[w] \in Working /\ ~pending' /\ End(w)
        /\ UNCHANGED <<main, new, delayed, part, pick, running>>
        /\ ota' = [ota EXCEPT ![running] = IF @ = "pending" THEN "valid" ELSE @]
    BY <1>8 DEF HttpConfirm, Working
  <2>. QED  BY <2>1, WayOut
<1>9. CASE HttpRollback(w) /\ ~Fail(w)
  <2>1. /\ pc[w] \in Working /\ RollbackPossible /\ pending'
        /\ pc' = [pc EXCEPT ![w] = "rollback_answer"]
        /\ UNCHANGED <<lock, main, new, delayed, part, ota, pick, running>>
    BY <1>9 DEF HttpRollback, Working, flashVars
  <2>. QED  BY <2>1, Announce
<1>10. CASE Answer(w) \/ Schedule(w)
  BY <1>10, PassOn
<1>11. ASSUME Fail(w),
              \/ StartStream(w) \/ ReadHeader(w) \/ EraseOther(w) \/ ReceiveBody(w)
              \/ SelectOther(w) \/ HttpConfirm(w) \/ HttpRollback(w)
       PROVE  pc[w] \in Working /\ UNCHANGED <<main, new, delayed, flashVars, running>>
  <2>1. pc'[w] = "idle" /\ st' = "failed"
    BY <1>11 DEF Fail, End, Inv, TypeOK
  <2>2. pc[w] \in Working
    BY <1>11 DEF StartStream, ReadHeader, EraseOther, ReceiveBody, SelectOther,
       HttpConfirm, HttpRollback, Working, Streaming
  <2>3. UNCHANGED <<main, new, delayed, flashVars, running>>
    BY <1>11, <2>1 DEF StartStream, ReadHeader, EraseOther, ReceiveBody, SelectOther,
       HttpConfirm, HttpRollback, flashVars, statusVars, Inv, TypeOK
  <2>. QED  BY <2>2, <2>3
<1>. QED  BY <1>1, <1>2, <1>3, <1>4, <1>5, <1>6, <1>7, <1>8, <1>9, <1>10, <1>11 DEF Handler

\* The main task confirms before the server starts: nothing is under way.
LEMMA MainStep ==
  ASSUME Inv, RegisterRoutes \/ ConfirmRunningApp
  PROVE  OtaInv'
<1>1. /\ ~pending /\ delayed = {} /\ pick = running
      /\ \A w \in Workers : pc[w] = "idle" /\ lock # w
  BY DEF RegisterRoutes, ConfirmRunningApp, Inv, OtaInv, Handlers, Selected, Holding, Streaming
<1>2. /\ UNCHANGED <<lock, pc, new, delayed, part, pick, running>> /\ ~pending'
      /\ ota' = ota \/ ota' = [ota EXCEPT ![running] = "valid"]
      /\ ota[running] = "pending" \/ ota' = ota
  BY <1>1 DEF RegisterRoutes, ConfirmRunningApp, handlerVars, statusVars, flashVars
<1>3. Handlers'
  BY <1>1, <1>2 DEF Handlers, Holding, Streaming
<1>4. Stream' /\ AnnouncedImageIntact' /\ AnnouncedRollbackPossible'
  BY <1>1, <1>2 DEF Stream, AnnouncedImageIntact, AnnouncedRollbackPossible, Announced
<1>5. /\ Other' = Other /\ Other \in Partitions /\ Other # running /\ running \in Partitions
      /\ ota \in [Partitions -> OtaStates]
  BY <1>2, OtherStays, OtherNamed DEF Inv, TypeOK
<1>6. ota'[Other] = ota[Other] /\ ota'[running] \in {ota[running], "valid"}
  BY <1>2, <1>5
<1>7. Selected'
  BY <1>1, <1>2, <1>5, <1>6 DEF Selected, Inv, OtaInv
<1>8. TrialHasFallback'
  BY <1>2, <1>5, <1>6 DEF TrialHasFallback, RollbackPossible, Refused, Inv, OtaInv
<1>. QED  BY <1>3, <1>4, <1>7, <1>8 DEF OtaInv

\* The delayed roll-back finds what was announced, unless flash fails; then
\* the flags stay set.
LEMMA RollbackStep ==
  ASSUME Inv, DelayedRollback
  PROVE  OtaInv'
<1>1. CASE RollbackPossible /\ pick = running /\ Boot([ota EXCEPT ![running] = "invalid"])
  BY <1>1, BootInv
<1>2. CASE /\ delayed' = delayed \ {"rollback"}
           /\ UNCHANGED <<main, lock, pc, new, pending, part, ota, pick, running>>
  <2>1. Other' = Other
    BY <1>2, OtherStays
  <2>2. Handlers' /\ Stream' /\ Selected' /\ TrialHasFallback'
    BY <1>2, <2>1 DEF Inv, OtaInv, Handlers, Stream, Accepted, Selected, TrialHasFallback,
       RollbackPossible
  <2>3. \A kind \in {"restart", "rollback"} : Announced(kind)' => Announced(kind)
    BY <1>2 DEF Announced
  <2>4. AnnouncedImageIntact' /\ AnnouncedRollbackPossible'
    BY <1>2, <2>1, <2>3 DEF Inv, OtaInv, AnnouncedImageIntact, AnnouncedRollbackPossible,
       RollbackPossible
  <2>. QED  BY <2>2, <2>4 DEF OtaInv
<1>3. RollbackPossible /\ pick = running
  BY DEF DelayedRollback, Inv, OtaInv, AnnouncedRollbackPossible, Announced
<1>. QED  BY <1>1, <1>2, <1>3 DEF DelayedRollback, handlerVars, flashVars

\* OtaInv is an invariant: whatever is announced keeps every operation out, so
\* that the delayed task finds the partitions as the handler left them.
THEOREM Inductive == Spec => []OtaInv
<1>1. Init => Inv
  <2>. SUFFICES ASSUME Init PROVE OtaInv
    BY DEF Init, TypeOK, Partitions, OtaStates, Inv
  <2>1. Handlers /\ Stream
    BY DEF Init, Handlers, Stream, Holding, Streaming
  <2>2. Other = 1 /\ pick = running /\ part[running] # Blank
        /\ \A p \in Partitions : ota[p] = "undefined"
    BY DEF Init, Other
  <2>3. 0 \in Partitions /\ 1 \in Partitions
    BY DEF Partitions
  <2>4. running = 0
    BY DEF Init
  <2>5. Selected /\ TrialHasFallback
    BY <2>2, <2>3, <2>4 DEF Selected, TrialHasFallback, Refused
  <2>6. AnnouncedImageIntact /\ AnnouncedRollbackPossible
    BY DEF Init, AnnouncedImageIntact, AnnouncedRollbackPossible, Announced
  <2>. QED  BY <2>1, <2>5, <2>6 DEF OtaInv
<1>2. Inv /\ [Next]_vars => Inv'
  <2>. SUFFICES ASSUME Inv, [Next]_vars PROVE OtaInv'
    BY TypeStep DEF Inv
  <2>1. CASE PowerLoss \/ DelayedRestart
    BY <2>1, BootInv DEF PowerLoss, DelayedRestart
  <2>2. CASE RegisterRoutes \/ ConfirmRunningApp
    BY <2>2, MainStep
  <2>3. CASE DelayedRollback
    BY <2>3, RollbackStep
  <2>4. ASSUME NEW w \in Workers, Request(w) \/ Handler(w) PROVE OtaInv'
    BY <2>4, RequestStep, HandlerStep
  <2>5. CASE UNCHANGED vars
    BY <2>5 DEF vars, handlerVars, statusVars, flashVars, Inv, OtaInv, Handlers, Stream,
       Accepted, Selected, TrialHasFallback, RollbackPossible, Other, AnnouncedImageIntact,
       AnnouncedRollbackPossible, Announced
  <2>. QED  BY <2>1, <2>2, <2>3, <2>4, <2>5 DEF Next
<1>. QED  BY <1>1, <1>2, PTL DEF Spec, Inv

\* From the answer "rebooting" to the restart the new image stays whole,
\* selected and newer, although the lock was given back.
THEOREM ImageIntact == Spec => []AnnouncedImageIntact
BY Inductive, PTL DEF OtaInv

\* A roll-back that was answered finds its target when the task runs.
THEOREM RollbackIntact == Spec => []AnnouncedRollbackPossible
BY Inductive, PTL DEF OtaInv
=============================================================================
