--------------------------- MODULE ReactorProofs ---------------------------
(***************************************************************************)
(* Proofs about Reactor for every number of cameras, of clients and of     *)
(* places in the pending tables.                                           *)
(***************************************************************************)
EXTENDS Reactor, FiniteSetTheorems, TLAPS

LEMMA SuccessorType ==
  ASSUME NEW i \in Cameras
  PROVE  Successor(i) \in Cameras
BY CameraAssumption DEF Successor, Cameras

LEMMA NewImageType ==
  TypeOK /\ activeCamera # NULL => NewImage \in Image
<1> SUFFICES ASSUME TypeOK, activeCamera # NULL PROVE NewImage \in Image
  OBVIOUS
<1>1. activeCamera \in Cameras /\ cameraIterator \in Cameras
  BY DEF TypeOK
<1>2. lastImage[cameraIterator].mark \in {0, 1}
  BY <1>1 DEF TypeOK, Image, NoImage
<1>3. 1 - lastImage[cameraIterator].mark \in {0, 1}
  BY <1>2
<1> QED BY <1>1, <1>3 DEF NewImage, Image

(* Type correctness: the iterator and the active camera always index the   *)
(* tables, and the tables hold what the handlers expect in them.           *)
THEOREM TypeCorrect == Spec => []TypeOK
<1>1. Init => TypeOK
  <2> SUFFICES ASSUME Init PROVE TypeOK
    OBVIOUS
  <2>1. NoReply \in [kind : ReplyKinds, image : Image \cup {NoImage}]
    BY DEF NoReply, ReplyKinds
  <2>2. 0 \in Cameras
    BY CameraAssumption DEF Cameras
  <2>3. pending \in [Cameras -> Seq(Clients)]
    BY DEF Init
  <2> QED BY <2>1, <2>2, <2>3 DEF Init, TypeOK, Links
<1>2. TypeOK /\ [Next]_vars => TypeOK'
  <2> SUFFICES ASSUME TypeOK, [Next]_vars PROVE TypeOK'
    OBVIOUS
  <2> USE DEF TypeOK
  <2>1. CASE OpenNextCamera
    BY <2>1, SuccessorType DEF OpenNextCamera, reqVars, Links
  <2>2. CASE OpenNextCameraFails
    BY <2>2, SuccessorType DEF OpenNextCameraFails, reqVars
  <2>3. CASE KeepCamera \/ EpollFails \/ Exited
    BY <2>3 DEF KeepCamera, EpollFails, Exited, reqVars, camVars, vars
  <2>4. CASE EpollWait
    <3>1. \A i \in EventIds, b \in BOOLEAN : [id |-> i, err |-> b] \in Events
      BY DEF Events
    <3>2. \A i : (i = CAMERA_ID /\ link = "err") \in BOOLEAN
      OBVIOUS
    <3>3. batch' \subseteq Events
      BY <2>4, <3>1, <3>2, Zenon DEF EpollWait
    <3> QED BY <2>4, <3>3 DEF EpollWait, reqVars, camVars
  <2>5. ASSUME NEW e \in batch, SignalEvent(e) PROVE TypeOK'
    BY <2>5 DEF SignalEvent, Take, Resume, reqVars, camVars
  <2>6. ASSUME NEW e \in batch, CameraEvents(e) PROVE TypeOK'
    <3>1. CASE CameraIdle(e) \/ CameraCloseFails(e)
      BY <3>1 DEF CameraIdle, CameraCloseFails, CameraEvent, Take, Resume, reqVars, camVars
    <3>2. CASE CameraDropped(e) \/ CameraImageNotStored(e)
      BY <3>2 DEF CameraDropped, CameraImageNotStored, CameraEvent, CloseActive, Take, Resume,
                  reqVars, Links
    <3>3. CASE CameraImage(e)
      <4>1. activeCamera \in Cameras /\ NewImage \in Image
        BY <3>3, NewImageType DEF CameraImage, CameraEvent
      <4>2. PICK processed \in BOOLEAN : StoreAndFill(NewImage, processed)
        BY <3>3 DEF CameraImage
      <4>3. /\ lastImage' \in [Cameras -> Image \cup {NoImage}]
            /\ pending' \in [Cameras -> Seq(Clients)]
            /\ ready' \subseteq EventIds
        BY <4>1, <4>2 DEF StoreAndFill
      <4>4. reply' \in [Clients -> [kind : ReplyKinds, image : Image \cup {NoImage}]]
        <5>1. PICK failed \in SUBSET InTable(cameraIterator) :
                reply' = [c \in Clients |->
                            IF c \in failed THEN Lost
                            ELSE IF c \in InTable(cameraIterator) THEN Jpeg(NewImage)
                            ELSE reply[c]]
          BY <4>2 DEF StoreAndFill
        <5>2. /\ Lost \in [kind : ReplyKinds, image : Image \cup {NoImage}]
              /\ Jpeg(NewImage) \in [kind : ReplyKinds, image : Image \cup {NoImage}]
          BY <4>1 DEF Lost, Jpeg, ReplyKinds
        <5> QED BY <5>1, <5>2
      <4>5. client' \in [Clients -> {"idle", "arrived", "parsed", "waiting", "answered"}]
        BY <4>2 DEF StoreAndFill, Parsed
      <4>6. /\ pc' \in {"top", "dispatch"}
            /\ activeCamera' = NULL
            /\ open' \in [Cameras -> BOOLEAN]
            /\ link' \in Links
            /\ batch' \subseteq Events
            /\ UNCHANGED <<shutdown, cameraIterator, request, seen>>
        BY <3>3 DEF CameraImage, CameraEvent, CloseActive, Take, Resume, Links
      <4> QED BY <4>3, <4>4, <4>5, <4>6
    <3>4. CASE CameraKills(e)
      BY <3>4 DEF CameraKills, CameraEvent, Take, reqVars, Links
    <3> QED BY <2>6, <3>1, <3>2, <3>3, <3>4 DEF CameraEvents
  <2>7. ASSUME NEW e \in batch, ScgiEvent(e) \/ ScgiEventFails(e) PROVE TypeOK'
    BY <2>7 DEF ScgiEvent, ScgiEventFails, Take, Resume, Parsed, reqVars, camVars
  <2>8. ASSUME NEW c \in Clients, HandleRequest(c) PROVE TypeOK'
    <3>1. ASSUME ~Refused(c) PROVE request[c].source \in Cameras
      BY <3>1, RequestAssumption, CameraAssumption
         DEF Refused, RequestType, NoRequest, Cameras
    <3>2. CASE RequestRefused(c)
      BY <3>2 DEF RequestRefused, Answer, NotFound, ReplyKinds, camVars
    <3>3. CASE RequestWaits(c)
      BY <3>1, <3>3 DEF RequestWaits, camVars
    <3>4. CASE RequestImmediate(c)
      <4>1. lastImage[request[c].source] \in Image \cup {NoImage}
        BY <3>1, <3>4 DEF RequestImmediate
      <4> QED BY <3>4, <4>1 DEF RequestImmediate, Answer, NotFound, Jpeg, ReplyKinds, camVars
    <3>5. CASE RequestImmediateFails(c)
      BY <3>5 DEF RequestImmediateFails, Answer, Lost, ReplyKinds, camVars
    <3>6. CASE RequestOverrunsTable(c)
      BY <3>6 DEF RequestOverrunsTable, reqVars, camVars
    <3> QED BY <2>8, <3>2, <3>3, <3>4, <3>5, <3>6 DEF HandleRequest
  <2>9. CASE ScgiFlush
    BY <2>9 DEF ScgiFlush, Parsed, camVars
  <2>10. CASE Cleanup
    BY <2>10 DEF Cleanup, Links, reqVars
  <2>11. CASE Device
    BY <2>11 DEF Device, DeviceAccepts, DeviceSendsMore, DeviceSendsJunk, DeviceSendsImage,
       DeviceSendsBigImage, DeviceSendsEmpty, DeviceSendsOversized,
       DeviceCloses, DeviceFails, DeviceStep, Links, EventIds, reqVars
  <2>12. CASE SignalArrives
    BY <2>12 DEF SignalArrives, EventIds, reqVars, camVars
  <2>13. ASSUME NEW c \in Clients, ClientSends(c) \/ ClientDone(c) PROVE TypeOK'
    <3>1. NoReply \in [kind : ReplyKinds, image : Image \cup {NoImage}]
      BY DEF NoReply, ReplyKinds
    <3>2. CASE ClientSends(c)
      BY <3>2 DEF ClientSends, EventIds, camVars
    <3>3. CASE ClientDone(c)
      BY <3>1, <3>3 DEF ClientDone, camVars
    <3> QED BY <2>13, <3>2, <3>3
  <2>14. CASE UNCHANGED vars
    BY <2>14 DEF vars
  <2> QED
    BY <2>1, <2>2, <2>3, <2>4, <2>5, <2>6, <2>7, <2>8, <2>9, <2>10, <2>11, <2>12, <2>13, <2>14
       DEF Next, Adapter, Users
<1> QED BY <1>1, <1>2, PTL DEF Spec

-----------------------------------------------------------------------------
(* The connection.  AtMostOneConnection and CameraEventsAreCurrent are not *)
(* inductive: that an event in the batch is current rests on an edge       *)
(* belonging to the socket that is open, on the batch holding one event    *)
(* per descriptor, and on cameras being opened only between batches.       *)

OnlyActiveOpen == \A i \in Cameras : open[i] => activeCamera = i

LinkIsOpen == link # "none" => activeCamera # NULL /\ open[activeCamera]

EdgeHasLink == CAMERA_ID \in ready => link # "none"

EventHasLink == \A e \in batch : e.id = CAMERA_ID => link # "none"

OneEventEach == \A e, f \in batch : e.id = f.id => e = f

BatchInDispatch == batch # {} => pc \in {"dispatch", "requests", "flush", "killed", "overrun"}

ConnInv ==
  /\ OnlyActiveOpen /\ LinkIsOpen /\ EdgeHasLink
  /\ EventHasLink /\ OneEventEach /\ BatchInDispatch

LEMMA ConnInvInit == Init => ConnInv
BY DEF Init, ConnInv, OnlyActiveOpen, LinkIsOpen, EdgeHasLink, EventHasLink,
       OneEventEach, BatchInDispatch

(* What rsva11001_connection_close leaves behind.                          *)
LEMMA CloseKeepsConn ==
  ASSUME TypeOK, ConnInv, NEW e \in batch, CameraEvent(e), CloseActive, Resume,
         ready' \subseteq ready \ {CAMERA_ID}
  PROVE  ConnInv'
<1> USE DEF ConnInv
<1>1. activeCamera \in Cameras /\ e.id = CAMERA_ID /\ batch' = batch \ {e}
  BY DEF TypeOK, CameraEvent, Take
<1>2. OnlyActiveOpen' /\ LinkIsOpen'
  <2>1. \A i \in Cameras : ~open'[i]
    BY <1>1 DEF CloseActive, OnlyActiveOpen, TypeOK
  <2> QED BY <2>1 DEF CloseActive, OnlyActiveOpen, LinkIsOpen
<1>3. EdgeHasLink'
  BY DEF EdgeHasLink
<1>4. EventHasLink'
  BY <1>1 DEF EventHasLink, OneEventEach
<1>5. OneEventEach' /\ BatchInDispatch'
  BY <1>1 DEF OneEventEach, BatchInDispatch, Resume
<1> QED BY <1>2, <1>3, <1>4, <1>5

LEMMA ConnInvStep == TypeOK /\ ConnInv /\ [Next]_vars => ConnInv'
<1> SUFFICES ASSUME TypeOK, ConnInv, [Next]_vars PROVE ConnInv'
  OBVIOUS
<1> DEFINE Conn == <<activeCamera, open, link>>
<1>0. ASSUME UNCHANGED Conn, ready' \subseteq ready \cup {SIGFD_ID, SCGI_ID}, batch' \subseteq batch,
             batch' # {} => pc' \in {"dispatch", "requests", "flush", "killed", "overrun"}
      PROVE  ConnInv'
  BY <1>0 DEF ConnInv, OnlyActiveOpen, LinkIsOpen, EdgeHasLink, EventHasLink,
              OneEventEach, BatchInDispatch, CAMERA_ID, SIGFD_ID, SCGI_ID
<1>1. CASE OpenNextCamera
  <2>1. cameraIterator \in Cameras /\ open \in [Cameras -> BOOLEAN]
    BY DEF TypeOK
  <2>2. cameraIterator # NULL
    BY <2>1, CameraAssumption DEF Cameras, NULL
  <2>3. batch = {} /\ batch' = {} /\ link' = "syn"
    BY <1>1 DEF OpenNextCamera, ConnInv, BatchInDispatch
  <2>4. \A i \in Cameras : ~open[i]
    BY <1>1, CameraAssumption DEF OpenNextCamera, ConnInv, OnlyActiveOpen, Cameras, NULL
  <2> QED BY <1>1, <2>1, <2>2, <2>3, <2>4
          DEF OpenNextCamera, ConnInv, OnlyActiveOpen, LinkIsOpen, EdgeHasLink,
              EventHasLink, OneEventEach, BatchInDispatch
<1>2. CASE OpenNextCameraFails
  <2>1. cameraIterator \in Cameras /\ open \in [Cameras -> BOOLEAN]
    BY DEF TypeOK
  <2>2. batch = {} /\ batch' = {} /\ link = "none" /\ link' = "none"
    BY <1>2 DEF OpenNextCameraFails, ConnInv, BatchInDispatch, LinkIsOpen
  <2>3. \A i \in Cameras : ~open[i]
    BY <1>2, CameraAssumption DEF OpenNextCameraFails, ConnInv, OnlyActiveOpen, Cameras, NULL
  <2> QED BY <1>2, <2>1, <2>2, <2>3
          DEF OpenNextCameraFails, ConnInv, OnlyActiveOpen, LinkIsOpen, EdgeHasLink,
              EventHasLink, OneEventEach, BatchInDispatch
<1>3. CASE KeepCamera \/ EpollFails \/ Exited \/ UNCHANGED vars
  <2>1. UNCHANGED Conn /\ ready' = ready /\ batch' = batch
    BY <1>3 DEF KeepCamera, EpollFails, Exited, vars, camVars
  <2>2. batch # {} => pc' \in {"dispatch", "requests", "flush", "killed", "overrun"}
    BY <1>3 DEF KeepCamera, EpollFails, Exited, vars, ConnInv, BatchInDispatch
  <2> QED BY <1>0, <2>1, <2>2
<1>4. CASE EpollWait
  <2>1. UNCHANGED Conn /\ ready' = {} /\ pc' = "dispatch"
    BY <1>4 DEF EpollWait, camVars
  <2>2. \A e \in batch' : e.id \in ready
    BY <1>4 DEF EpollWait
  <2>3. \A e, f \in batch' : e.id = f.id => e = f
    BY <1>4 DEF EpollWait
  <2> QED BY <2>1, <2>2, <2>3
          DEF ConnInv, OnlyActiveOpen, LinkIsOpen, EdgeHasLink, EventHasLink,
              OneEventEach, BatchInDispatch
<1>5. ASSUME NEW e \in batch, SignalEvent(e) \/ ScgiEvent(e) \/ ScgiEventFails(e)
      PROVE  ConnInv'
  <2>1. UNCHANGED Conn /\ ready' \subseteq ready /\ batch' \subseteq batch
    BY <1>5 DEF SignalEvent, ScgiEvent, ScgiEventFails, Take, camVars
  <2>2. batch' # {} => pc' \in {"dispatch", "requests", "flush", "killed", "overrun"}
    BY <1>5 DEF SignalEvent, ScgiEvent, ScgiEventFails, Resume
  <2> QED BY <1>0, <2>1, <2>2
<1>6. ASSUME NEW e \in batch, CameraEvents(e) PROVE ConnInv'
  <2>1. CASE CameraIdle(e) \/ CameraCloseFails(e)
    <3>1. UNCHANGED Conn /\ ready' = ready /\ batch' \subseteq batch
      BY <2>1 DEF CameraIdle, CameraCloseFails, CameraEvent, Take, camVars
    <3>2. batch' # {} => pc' \in {"dispatch", "requests", "flush", "killed", "overrun"}
      BY <2>1 DEF CameraIdle, CameraCloseFails, Resume
    <3> QED BY <1>0, <3>1, <3>2
  <2>2. CASE CameraDropped(e) \/ CameraImageNotStored(e)
    BY <2>2, CloseKeepsConn DEF CameraDropped, CameraImageNotStored
  <2>3. CASE CameraImage(e)
    <3>1. ready' \subseteq ready \ {CAMERA_ID}
      BY <2>3 DEF CameraImage, StoreAndFill
    <3> QED BY <2>3, <3>1, CloseKeepsConn DEF CameraImage
  <2>4. CASE CameraKills(e)
    <3>1. /\ e.id = CAMERA_ID /\ batch' = batch \ {e} /\ ready' = {} /\ link' = "none"
          /\ pc' = "killed" /\ open' = [i \in Cameras |-> FALSE]
      BY <2>4 DEF CameraKills, CameraEvent, Take
    <3>2. \A f \in batch' : f.id # CAMERA_ID
      BY <3>1 DEF ConnInv, OneEventEach
    <3> QED BY <3>1, <3>2 DEF ConnInv, OnlyActiveOpen, LinkIsOpen, EdgeHasLink, EventHasLink,
                OneEventEach, BatchInDispatch
  <2> QED BY <1>6, <2>1, <2>2, <2>3, <2>4 DEF CameraEvents
<1>7. ASSUME NEW c \in Clients, HandleRequest(c) \/ ClientSends(c) \/ ClientDone(c)
      PROVE  ConnInv'
  <2>1. /\ UNCHANGED Conn /\ batch' = batch
        /\ ready' \subseteq ready \cup {SCGI_ID}
        /\ pc' = pc \/ pc' \in {"flush", "overrun"}
    BY <1>7 DEF HandleRequest, RequestRefused, RequestWaits, RequestOverrunsTable,
                RequestImmediate, RequestImmediateFails, ClientSends, ClientDone, camVars
  <2> QED BY <1>0, <2>1 DEF ConnInv, BatchInDispatch
<1>8. CASE ScgiFlush
  <2>1. /\ UNCHANGED Conn /\ batch' = batch /\ ready' \subseteq ready
        /\ batch # {} => pc' = "dispatch"
    BY <1>8 DEF ScgiFlush, camVars
  <2> QED BY <1>0, <2>1
<1>9. CASE Cleanup
  <2>1. batch = {}
    BY <1>9 DEF Cleanup, ConnInv, BatchInDispatch
  <2> QED BY <1>9, <2>1 DEF Cleanup, ConnInv, OnlyActiveOpen, LinkIsOpen, EdgeHasLink,
              EventHasLink, OneEventEach, BatchInDispatch
<1>10. CASE Device
  <2>1. link # "none" /\ link' # "none"
    BY <1>10 DEF Device, DeviceAccepts, DeviceSendsMore, DeviceSendsJunk, DeviceSendsImage,
       DeviceSendsBigImage, DeviceSendsEmpty, DeviceSendsOversized,
       DeviceCloses, DeviceFails, DeviceStep
  <2>2. UNCHANGED <<pc, activeCamera, open, batch>>
    BY <1>10 DEF Device, DeviceAccepts, DeviceSendsMore, DeviceSendsJunk, DeviceSendsImage,
       DeviceSendsBigImage, DeviceSendsEmpty, DeviceSendsOversized,
       DeviceCloses, DeviceFails, DeviceStep
  <2> QED BY <2>1, <2>2 DEF ConnInv, OnlyActiveOpen, LinkIsOpen, EdgeHasLink,
              EventHasLink, OneEventEach, BatchInDispatch
<1>11. CASE SignalArrives
  <2>1. UNCHANGED Conn /\ batch' = batch /\ ready' = ready \cup {SIGFD_ID} /\ pc' = pc
    BY <1>11 DEF SignalArrives, camVars
  <2> QED BY <1>0, <2>1 DEF ConnInv, BatchInDispatch
<1> QED
  BY <1>1, <1>2, <1>3, <1>4, <1>5, <1>6, <1>7, <1>8, <1>9, <1>10, <1>11
     DEF Next, Adapter, Users

(* The invariant of the connection: whatever is pending belongs to the one *)
(* connection of the active camera.                                        *)
THEOREM ConnCorrect == Spec => []ConnInv
<1>1. Spec => []TypeOK
  BY TypeCorrect
<1> QED BY <1>1, ConnInvInit, ConnInvStep, PTL DEF Spec

(* However the cameras, the signals and the clients interleave, and        *)
(* whatever fails, the DVR never sees a second connection.                 *)
THEOREM OneConnection == Spec => []AtMostOneConnection
<1>1. ConnInv => AtMostOneConnection
  BY DEF ConnInv, OnlyActiveOpen, AtMostOneConnection
<1> QED BY <1>1, ConnCorrect, PTL

(* The assertions at the head of processActiveCamera and of                *)
(* rsva11001_connection_process never fail.                                *)
THEOREM EventsAreCurrent == Spec => []CameraEventsAreCurrent
<1>1. ConnInv => CameraEventsAreCurrent
  BY DEF ConnInv, LinkIsOpen, EventHasLink, CameraEventsAreCurrent
<1> QED BY <1>1, ConnCorrect, PTL

-----------------------------------------------------------------------------
(* The table of images.  The iterator is always one past the camera that   *)
(* is active, so an image goes to the entry after its camera's.            *)

IteratorIsPast == activeCamera # NULL => cameraIterator = Successor(activeCamera)

EntryIsSuccessor ==
  \A s \in Cameras : lastImage[s] # NoImage => s = Successor(lastImage[s].cam)

EntryInv == IteratorIsPast /\ EntryIsSuccessor

LEMMA SuccessorIsModulo ==
  ASSUME NEW i \in Cameras
  PROVE  Successor(i) = (i + 1) % numCameras
BY CameraAssumption DEF Successor, Cameras

LEMMA EntryInvStep == TypeOK /\ EntryInv /\ [Next]_vars => EntryInv'
<1> SUFFICES ASSUME TypeOK, EntryInv, [Next]_vars PROVE EntryInv'
  OBVIOUS
<1> USE DEF EntryInv
<1>0. ASSUME UNCHANGED cameraIterator, activeCamera' \in {activeCamera, NULL}, UNCHANGED lastImage
      PROVE  EntryInv'
  BY <1>0 DEF IteratorIsPast, EntryIsSuccessor, Successor
<1>1. CASE OpenNextCamera \/ OpenNextCameraFails
  BY <1>1 DEF OpenNextCamera, OpenNextCameraFails, IteratorIsPast, EntryIsSuccessor, Successor
<1>2. ASSUME NEW e \in batch, CameraImage(e) PROVE EntryInv'
  <2>1. activeCamera # NULL /\ cameraIterator \in Cameras
    BY <1>2 DEF CameraImage, CameraEvent, TypeOK
  <2>2. cameraIterator = Successor(NewImage.cam)
    BY <2>1 DEF IteratorIsPast, NewImage
  <2>3. lastImage' = [lastImage EXCEPT ![cameraIterator] = NewImage]
    BY <1>2 DEF CameraImage, StoreAndFill
  <2>4. EntryIsSuccessor'
    BY <2>2, <2>3 DEF EntryIsSuccessor, TypeOK, Successor
  <2>5. IteratorIsPast'
    BY <1>2 DEF CameraImage, CloseActive, IteratorIsPast
  <2> QED BY <2>4, <2>5
<1>3. ASSUME NEW e \in batch,
             \/ CameraIdle(e) \/ CameraDropped(e) \/ CameraKills(e) \/ CameraCloseFails(e)
             \/ CameraImageNotStored(e)
      PROVE  EntryInv'
  BY <1>0, <1>3 DEF CameraIdle, CameraDropped, CameraKills, CameraCloseFails, CameraImageNotStored,
                    CloseActive, camVars
<1>4. ASSUME NEW e \in batch, SignalEvent(e) \/ ScgiEvent(e) \/ ScgiEventFails(e)
      PROVE  EntryInv'
  BY <1>0, <1>4 DEF SignalEvent, ScgiEvent, ScgiEventFails, camVars
<1>5. ASSUME NEW c \in Clients, HandleRequest(c) \/ ClientSends(c) \/ ClientDone(c)
      PROVE  EntryInv'
  BY <1>0, <1>5 DEF HandleRequest, RequestRefused, RequestWaits, RequestOverrunsTable,
                    RequestImmediate, RequestImmediateFails, ClientSends, ClientDone, camVars
<1>6. CASE KeepCamera \/ EpollFails \/ Exited \/ EpollWait \/ ScgiFlush \/ Cleanup
           \/ SignalArrives \/ UNCHANGED vars
  BY <1>0, <1>6 DEF KeepCamera, EpollFails, Exited, EpollWait, ScgiFlush, Cleanup,
                    SignalArrives, camVars, vars
<1>7. CASE Device
  BY <1>0, <1>7 DEF Device, DeviceAccepts, DeviceSendsMore, DeviceSendsJunk, DeviceSendsImage,
       DeviceSendsBigImage, DeviceSendsEmpty, DeviceSendsOversized,
       DeviceCloses, DeviceFails, DeviceStep
<1> QED
  BY <1>1, <1>2, <1>3, <1>4, <1>5, <1>6, <1>7 DEF Next, Adapter, Users, CameraEvents

(* The invariant of the table: the iterator is the successor of the active *)
(* camera, and every entry that of the camera it shows.                    *)
THEOREM EntryCorrect == Spec => []EntryInv
<1>1. Init => EntryInv
  BY DEF Init, EntryInv, IteratorIsPast, EntryIsSuccessor
<1> QED BY <1>1, EntryInvStep, TypeCorrect, PTL DEF Spec

(* An entry of the image table, and so a file camera_<n>.jpg, only ever    *)
(* shows one camera, however many turns failed in between.                 *)
THEOREM OneCameraPerEntry == Spec => []EntryBelongsToOneCamera
<1>1. TypeOK /\ EntryInv => EntryBelongsToOneCamera
  <2> SUFFICES ASSUME TypeOK, EntryInv, NEW s \in Cameras, lastImage[s] # NoImage
               PROVE  s = (lastImage[s].cam + 1) % numCameras
    BY DEF EntryBelongsToOneCamera
  <2>1. lastImage[s].cam \in Cameras
    BY DEF TypeOK, Image
  <2> QED BY <2>1, SuccessorIsModulo DEF EntryInv, EntryIsSuccessor
<1> QED BY <1>1, EntryCorrect, TypeCorrect, PTL

-----------------------------------------------------------------------------
(* The same table as the replies see it.                                   *)
Table == INSTANCE ImageStore WITH Pictures <- Image, Nothing <- NoImage, shown <- lastImage

Publishes == \E c \in Cameras, p \in Image : Table!Publish(c, p)

LEMMA StoreStep == TypeOK /\ EntryInv /\ [Next]_vars => [Publishes]_lastImage
<1> SUFFICES ASSUME TypeOK, EntryInv, [Next]_vars PROVE Publishes \/ lastImage' = lastImage
  OBVIOUS
<1>1. ASSUME NEW e \in batch, CameraImage(e) PROVE Publishes
  <2>1. activeCamera \in Cameras /\ activeCamera # NULL /\ cameraIterator \in Cameras
    BY <1>1 DEF CameraImage, CameraEvent, TypeOK
  <2>2. lastImage' = [lastImage EXCEPT ![cameraIterator] = NewImage]
    BY <1>1 DEF CameraImage, StoreAndFill
  <2>3. NewImage \in Image
    BY <2>1, NewImageType
  <2>4. NewImage.cam = activeCamera /\ NewImage.mark # lastImage[cameraIterator].mark
    <3>1. lastImage[cameraIterator].mark \in {0, 1}
      BY <2>1 DEF TypeOK, Image, NoImage
    <3> QED BY <3>1 DEF NewImage
  <2>5. ASSUME NEW d \in Cameras, NewImage = lastImage[d] PROVE FALSE
    <3>1. lastImage[d] # NoImage
      BY <2>1, <2>4, <2>5 DEF NoImage
    <3>2. d = Successor(activeCamera)
      BY <2>4, <2>5, <3>1 DEF EntryInv, EntryIsSuccessor
    <3>3. d = cameraIterator
      BY <2>1, <3>2 DEF EntryInv, IteratorIsPast
    <3> QED BY <2>4, <2>5, <3>3
  <2> QED BY <2>1, <2>2, <2>3, <2>5 DEF Publishes, Table!Publish
<1>2. CASE \A e \in batch : ~CameraImage(e)
  BY <1>2 DEF Next, Adapter, Device, Users, CameraEvents, HandleRequest, OpenNextCamera,
     OpenNextCameraFails, KeepCamera, EpollWait, SignalEvent, CameraIdle, CameraDropped, CameraKills,
     CameraCloseFails, CameraImageNotStored, ScgiEvent, ScgiEventFails, RequestRefused,
     RequestWaits, RequestOverrunsTable, RequestImmediate, RequestImmediateFails, ScgiFlush,
     Cleanup, EpollFails, Exited, DeviceAccepts, DeviceSendsMore, DeviceSendsJunk,
     DeviceSendsImage, DeviceSendsBigImage, DeviceSendsEmpty, DeviceSendsOversized,
       DeviceCloses, DeviceFails, DeviceStep,
     SignalArrives, ClientSends, ClientDone, vars
<1> QED BY <1>1, <1>2

(* The event loop keeps the promise of ImageStore with its one assignment  *)
(* in place of the system calls of writeImageFile, which ImageFile is      *)
(* shown to keep as well: no failed turn, and no camera, ever puts an      *)
(* image under two entries or, while the adapter runs, takes one away.     *)
THEOREM LastImageIsImageStore == Spec => Table!Spec /\ [][Publishes]_lastImage
<1>1. Init => Table!Init
  BY DEF Init, Table!Init, Table!Empty
<1>2. [Publishes]_lastImage => [Table!Next]_lastImage
  BY DEF Publishes, Table!Next
<1> QED BY <1>1, <1>2, StoreStep, EntryCorrect, TypeCorrect, PTL DEF Spec, Table!Spec

-----------------------------------------------------------------------------
(* Waiting requests.                                                       *)

Places(c, s) == {i \in DOMAIN pending[s] : pending[s][i] = c}

(* WaitersAreInTheTable for one client and one camera.                     *)
InPlace(c, s) ==
  IF client[c] = "waiting" /\ request[c].source = s
  THEN \E i \in Places(c, s) : Places(c, s) = {i}
  ELSE Places(c, s) = {}

LEMMA WaitersByPlace ==
  WaitersAreInTheTable <=> \A c \in Clients, s \in Cameras : InPlace(c, s)
BY DEF WaitersAreInTheTable, InPlace, Places

(* A step that leaves the tables, the waiting clients and their requests   *)
(* alone.                                                                  *)
LEMMA WaitersUntouched ==
  ASSUME WaitersAreInTheTable, UNCHANGED pending,
         \A c \in Clients : client'[c] = "waiting" <=> client[c] = "waiting",
         \A c \in Clients : client[c] = "waiting" => request'[c] = request[c]
  PROVE  WaitersAreInTheTable'
<1>1. ASSUME NEW c \in Clients, NEW s \in Cameras PROVE InPlace(c, s)'
  BY WaitersByPlace DEF InPlace, Places
<1> QED BY <1>1, WaitersByPlace DEF WaitersAreInTheTable, InPlace, Places

LEMMA WaitersStep == TypeOK /\ WaitersAreInTheTable /\ [Next]_vars => WaitersAreInTheTable'
<1> SUFFICES ASSUME TypeOK, WaitersAreInTheTable, [Next]_vars PROVE WaitersAreInTheTable'
  OBVIOUS
<1>1. ASSUME NEW d \in Clients, RequestWaits(d) PROVE WaitersAreInTheTable'
  <2> DEFINE src == request[d].source
  <2>1. src \in Cameras
    BY <1>1, RequestAssumption, CameraAssumption
       DEF RequestWaits, Refused, RequestType, NoRequest, Cameras, TypeOK
  <2>2. client[d] = "parsed" /\ client' = [client EXCEPT ![d] = "waiting"] /\ request' = request
    BY <1>1 DEF RequestWaits, Handling
  <2>3. pending' = [pending EXCEPT ![src] = Append(pending[src], d)]
    BY <1>1 DEF RequestWaits
  <2>4. pending[src] \in Seq(Clients)
    BY <2>1 DEF TypeOK
  <2>5. ASSUME NEW c \in Clients, NEW s \in Cameras PROVE InPlace(c, s)'
    <3>1. InPlace(c, s)
      BY WaitersByPlace
    <3>2. CASE s # src
      <4>1. pending'[s] = pending[s]
        BY <2>1, <2>3, <3>2 DEF TypeOK
      <4>2. client'[c] = client[c] \/ (c = d /\ request'[c].source # s)
        BY <2>2, <3>2 DEF TypeOK
      <4>3. Places(c, s)' = Places(c, s)
        BY <4>1 DEF Places
      <4> QED BY <2>2, <3>1, <4>2, <4>3 DEF InPlace
    <3>3. CASE s = src
      <4>1. pending'[s] = Append(pending[s], d) /\ pending[s] \in Seq(Clients)
        BY <2>1, <2>3, <2>4, <3>3 DEF TypeOK
      <4>2. CASE c = d
        <5>1. Places(c, s) = {}
          BY <2>2, <3>1, <4>2 DEF InPlace
        <5>2. Places(c, s)' = {Len(pending[s]) + 1}
          BY <4>1, <4>2, <5>1 DEF Places
        <5> QED BY <2>2, <3>3, <4>2, <5>2 DEF InPlace, TypeOK
      <4>3. CASE c # d
        <5>1. Places(c, s)' = Places(c, s)
          BY <4>1, <4>3 DEF Places
        <5>2. client'[c] = client[c]
          BY <2>2, <4>3 DEF TypeOK
        <5> QED BY <2>2, <3>1, <5>1, <5>2 DEF InPlace
      <4> QED BY <4>2, <4>3
    <3> QED BY <3>2, <3>3
  <2> QED BY <2>5 DEF WaitersAreInTheTable, InPlace, Places
<1>2. ASSUME NEW e \in batch, CameraImage(e) PROVE WaitersAreInTheTable'
  <2>1. cameraIterator \in Cameras /\ request' = request
    BY <1>2 DEF CameraImage, TypeOK
  <2>2. PICK processed \in BOOLEAN : StoreAndFill(NewImage, processed)
    BY <1>2 DEF CameraImage
  <2>3. /\ pending' = [pending EXCEPT ![cameraIterator] = << >>]
        /\ \A c \in Clients :
             IF c \in InTable(cameraIterator) THEN client'[c] = "answered"
             ELSE client'[c] = client[c] \/ (client[c] = "arrived" /\ client'[c] = "parsed")
    BY <2>2 DEF StoreAndFill, Parsed
  <2>4. ASSUME NEW c \in Clients, NEW s \in Cameras PROVE InPlace(c, s)'
    <3>1. \A t \in Cameras : InPlace(c, t)
      BY WaitersByPlace
    <3>2. CASE s = cameraIterator
      <4>1. Places(c, s)' = {}
        BY <2>1, <2>3, <3>2 DEF Places, TypeOK
      <4>2. ~(client'[c] = "waiting" /\ request'[c].source = s)
        <5>1. CASE c \in InTable(s)
          BY <2>3, <3>2, <5>1
        <5>2. CASE c \notin InTable(s)
          <6>1. Places(c, s) = {}
            BY <5>2 DEF Places, InTable
          <6>2. ~(client[c] = "waiting" /\ request[c].source = s)
            BY <3>1, <6>1 DEF InPlace
          <6> QED BY <2>1, <2>3, <3>2, <5>2, <6>2
        <5> QED BY <5>1, <5>2
      <4> QED BY <4>1, <4>2 DEF InPlace
    <3>3. CASE s # cameraIterator
      <4>1. Places(c, s)' = Places(c, s)
        BY <2>1, <2>3, <3>3 DEF Places, TypeOK
      <4>2. CASE c \in InTable(cameraIterator)
        <5>1. Places(c, cameraIterator) # {}
          BY <4>2 DEF Places, InTable
        <5>2. request[c].source = cameraIterator
          BY <2>1, <3>1, <5>1 DEF InPlace
        <5>3. Places(c, s) = {}
          BY <3>1, <3>3, <5>2 DEF InPlace
        <5> QED BY <2>1, <3>3, <4>1, <5>2, <5>3 DEF InPlace
      <4>3. CASE c \notin InTable(cameraIterator)
        <5>1. client'[c] = "waiting" <=> client[c] = "waiting"
          BY <2>3, <4>3
        <5> QED BY <2>1, <3>1, <4>1, <5>1 DEF InPlace
      <4> QED BY <4>2, <4>3
    <3> QED BY <3>2, <3>3
  <2> QED BY <2>4 DEF WaitersAreInTheTable, InPlace, Places
<1>3. ASSUME NEW c \in Clients,
             \/ RequestRefused(c) \/ RequestImmediate(c) \/ RequestImmediateFails(c)
             \/ RequestOverrunsTable(c) \/ ClientSends(c) \/ ClientDone(c)
      PROVE  WaitersAreInTheTable'
  BY <1>3, WaitersUntouched
     DEF RequestRefused, RequestImmediate, RequestImmediateFails, RequestOverrunsTable,
         ClientSends, ClientDone, Answer, Handling, reqVars, TypeOK
<1>4. ASSUME NEW e \in batch, SignalEvent(e) \/ ScgiEvent(e) \/ ScgiEventFails(e)
      PROVE  WaitersAreInTheTable'
  BY <1>4, WaitersUntouched DEF SignalEvent, ScgiEvent, ScgiEventFails, Parsed, reqVars, TypeOK
<1>5. ASSUME NEW e \in batch,
             \/ CameraIdle(e) \/ CameraDropped(e) \/ CameraKills(e) \/ CameraCloseFails(e)
             \/ CameraImageNotStored(e)
      PROVE  WaitersAreInTheTable'
  BY <1>5, WaitersUntouched DEF CameraIdle, CameraDropped, CameraKills, CameraCloseFails,
                    CameraImageNotStored, reqVars
<1>6. CASE ScgiFlush
  BY <1>6, WaitersUntouched DEF ScgiFlush, Parsed, TypeOK
<1>7. CASE \/ OpenNextCamera \/ OpenNextCameraFails \/ KeepCamera \/ EpollFails \/ Exited
           \/ EpollWait \/ Cleanup \/ SignalArrives \/ UNCHANGED vars
  BY <1>7, WaitersUntouched DEF OpenNextCamera, OpenNextCameraFails, KeepCamera, EpollFails,
                    Exited, EpollWait, Cleanup, SignalArrives, reqVars, vars
<1>8. CASE Device
  BY <1>8, WaitersUntouched DEF Device, DeviceAccepts, DeviceSendsMore, DeviceSendsJunk,
       DeviceSendsImage, DeviceSendsBigImage, DeviceSendsEmpty, DeviceSendsOversized,
       DeviceCloses, DeviceFails, DeviceStep, reqVars
<1> QED
  BY <1>1, <1>2, <1>3, <1>4, <1>5, <1>6, <1>7, <1>8
     DEF Next, Adapter, Users, CameraEvents, HandleRequest

(* No interleaving of arriving requests with stored, failed or discarded   *)
(* images makes the pending tables lose a waiting request or hold one that *)
(* is already answered.                                                    *)
THEOREM WaitersCorrect == Spec => []WaitersAreInTheTable
<1>1. Init => WaitersAreInTheTable
  BY DEF Init, WaitersAreInTheTable
<1> QED BY <1>1, WaitersStep, TypeCorrect, PTL DEF Spec

-----------------------------------------------------------------------------
(* The size of the pending tables, which the code does not compare         *)
(* numPending with.  A client is one connection to the SCGI server: while  *)
(* it waits it sends no further request, so it has one place at most.      *)

PlacePerClient == IsFiniteSet(Clients) /\ Cardinality(Clients) <= MAX_PENDING_REQUESTS

(* A full table needs as many waiting clients as it has places, and the    *)
(* client that would overrun it is none of them.                           *)
LEMMA FullTableNeedsMore ==
  ASSUME TypeOK, WaitersAreInTheTable, PlacePerClient, NEW c \in Clients
  PROVE  ~RequestOverrunsTable(c)
<1> SUFFICES ASSUME RequestOverrunsTable(c) PROVE FALSE
  OBVIOUS
<1> DEFINE src == request[c].source
           others == Clients \ {c}
<1>1. src \in Cameras
  BY RequestAssumption, CameraAssumption
     DEF RequestOverrunsTable, Refused, RequestType, NoRequest, Cameras, TypeOK
<1>2. client[c] = "parsed"
  BY DEF RequestOverrunsTable, Handling
<1>3. /\ pending[src] \in Seq(Clients)
      /\ Len(pending[src]) = MAX_PENDING_REQUESTS
      /\ DOMAIN pending[src] = 1 .. MAX_PENDING_REQUESTS
  BY <1>1, PendingAssumption DEF RequestOverrunsTable, TypeOK
<1>4. \A d \in Clients : InPlace(d, src)
  BY <1>1, WaitersByPlace
<1>5. \A i \in 1 .. MAX_PENDING_REQUESTS : pending[src][i] \in others
  BY <1>2, <1>3, <1>4 DEF InPlace, Places
<1>6. \A i, j \in 1 .. MAX_PENDING_REQUESTS : pending[src][i] = pending[src][j] => i = j
  <2> SUFFICES ASSUME NEW i \in 1 .. MAX_PENDING_REQUESTS, NEW j \in 1 .. MAX_PENDING_REQUESTS,
                      pending[src][i] = pending[src][j]
               PROVE  i = j
    OBVIOUS
  <2> DEFINE d == pending[src][i]
  <2>1. d \in Clients /\ i \in Places(d, src) /\ j \in Places(d, src)
    BY <1>3, <1>5 DEF Places
  <2>2. \E k \in Places(d, src) : Places(d, src) = {k}
    BY <1>4, <2>1 DEF InPlace
  <2> QED BY <2>1, <2>2
<1>7. IsFiniteSet(others) /\ Cardinality(others) = Cardinality(Clients) - 1
  BY FS_RemoveElement DEF PlacePerClient
<1>8. Cardinality(Clients) \in Nat
  BY FS_CardinalityType DEF PlacePerClient
<1>9. /\ IsFiniteSet(1 .. MAX_PENDING_REQUESTS)
      /\ Cardinality(1 .. MAX_PENDING_REQUESTS) = MAX_PENDING_REQUESTS
  BY FS_Interval, PendingAssumption
<1>10. Cardinality(others) < Cardinality(1 .. MAX_PENDING_REQUESTS)
  BY <1>7, <1>8, <1>9, PendingAssumption DEF PlacePerClient
<1>11. pending[src] \in [1 .. MAX_PENDING_REQUESTS -> others]
  BY <1>3, <1>5
<1>12. \E i, j \in 1 .. MAX_PENDING_REQUESTS : i # j /\ pending[src][i] = pending[src][j]
  <2> HIDE DEF others
  <2> QED BY ZenonT(40), <1>7, <1>9, <1>10, <1>11, FS_PigeonHole
<1> QED BY <1>6, <1>12

LEMMA TableStep ==
  ASSUME TypeOK, WaitersAreInTheTable, PlacePerClient, PendingFitsTable, [Next]_vars
  PROVE  PendingFitsTable'
<1> USE DEF PendingFitsTable
<1>1. CASE OpenNextCamera \/ OpenNextCameraFails \/ KeepCamera \/ EpollFails \/ Exited
           \/ EpollWait \/ ScgiFlush \/ Cleanup \/ SignalArrives \/ UNCHANGED vars
  BY <1>1 DEF OpenNextCamera, OpenNextCameraFails, KeepCamera, EpollFails, Exited, EpollWait,
              ScgiFlush, Cleanup, SignalArrives, vars
<1>2. ASSUME NEW e \in batch, CameraEvents(e) \/ SignalEvent(e) \/ ScgiEvent(e) \/ ScgiEventFails(e)
      PROVE  PendingFitsTable'
  BY <1>2 DEF CameraEvents, CameraIdle, CameraDropped, CameraKills, CameraCloseFails, CameraImage,
              CameraImageNotStored, SignalEvent, ScgiEvent, ScgiEventFails, Resume
<1>3. ASSUME NEW c \in Clients, HandleRequest(c) \/ ClientSends(c) \/ ClientDone(c)
      PROVE  PendingFitsTable'
  <2>1. ~RequestOverrunsTable(c)
    BY FullTableNeedsMore
  <2> QED BY <1>3, <2>1 DEF HandleRequest, RequestRefused, RequestWaits, RequestImmediate,
                            RequestImmediateFails, ClientSends, ClientDone, Handling
<1>4. CASE Device
  BY <1>4 DEF Device, DeviceAccepts, DeviceSendsMore, DeviceSendsJunk, DeviceSendsImage,
              DeviceSendsBigImage, DeviceSendsEmpty, DeviceSendsOversized,
       DeviceCloses, DeviceFails, DeviceStep
<1> QED BY <1>1, <1>2, <1>3, <1>4 DEF Next, Adapter, Users

(* As long as no more than MAX_PENDING_REQUESTS connections exist at once  *)
(* none is written past a pending table, although handleNewRequest never   *)
(* looks whether there is room: every place is that of a connection that   *)
(* waits, and the image that answers it empties the table.  With one more  *)
(* connection the table can be overrun (MCReactorTable.cfg).               *)
THEOREM TableSuffices == PlacePerClient => (Spec => []PendingFitsTable)
<1> SUFFICES ASSUME PlacePerClient PROVE Spec => []PendingFitsTable
  OBVIOUS
<1>1. Init => PendingFitsTable
  BY DEF Init, PendingFitsTable
<1>2. TypeOK /\ WaitersAreInTheTable /\ PendingFitsTable /\ [Next]_vars => PendingFitsTable'
  BY TableStep
<1> QED BY <1>1, <1>2, TypeCorrect, WaitersCorrect, PTL DEF Spec

-----------------------------------------------------------------------------
(* Replies.  A waiting request still sees the image that was in the table  *)
(* when it came, because the step that replaces the image answers it.      *)

WaitersSeeCurrent ==
  \A c \in Clients : client[c] = "waiting" => seen[c] = lastImage[request[c].source]

ReplyInv == WaitersSeeCurrent /\ RepliesAreFresh

(* A step that answers nobody, starts no wait and stores no image.         *)
LEMMA RepliesUntouched ==
  ASSUME ReplyInv, UNCHANGED lastImage,
         \A c \in Clients : client'[c] \in {"waiting", "answered"} =>
           /\ client'[c] = client[c] /\ request'[c] = request[c]
           /\ seen'[c] = seen[c] /\ reply'[c] = reply[c]
  PROVE  ReplyInv'
BY DEF ReplyInv, WaitersSeeCurrent, RepliesAreFresh

LEMMA ReplyStep ==
  TypeOK /\ EntryInv /\ WaitersAreInTheTable /\ ReplyInv /\ [Next]_vars => ReplyInv'
<1> SUFFICES ASSUME TypeOK, EntryInv, WaitersAreInTheTable, ReplyInv, [Next]_vars
             PROVE  ReplyInv'
  OBVIOUS
<1>1. ASSUME NEW e \in batch, CameraImage(e) PROVE ReplyInv'
  <2>1. /\ activeCamera \in Cameras /\ cameraIterator \in Cameras
        /\ request' = request /\ seen' = seen
    BY <1>1 DEF CameraImage, CameraEvent, TypeOK
  <2>2. PICK processed \in BOOLEAN : StoreAndFill(NewImage, processed)
    BY <1>1 DEF CameraImage
  <2>3. cameraIterator = (NewImage.cam + 1) % numCameras
    <3>1. NewImage.cam = activeCamera
      BY DEF NewImage
    <3>2. activeCamera # NULL
      BY <2>1, CameraAssumption DEF Cameras, NULL
    <3> QED BY <2>1, <3>1, <3>2, SuccessorIsModulo DEF EntryInv, IteratorIsPast
  <2>4. NewImage # lastImage[cameraIterator]
    <3>1. lastImage[cameraIterator].mark \in {0, 1}
      BY <2>1 DEF TypeOK, Image, NoImage
    <3> QED BY <3>1 DEF NewImage
  <2>5. \A c \in InTable(cameraIterator) :
          c \in Clients => client[c] = "waiting" /\ request[c].source = cameraIterator
    BY <2>1 DEF WaitersAreInTheTable, InTable
  <2>6. ASSUME NEW c \in Clients PROVE
          IF c \in InTable(cameraIterator)
          THEN client'[c] = "answered" /\ reply'[c] \in {Lost, Jpeg(NewImage)}
          ELSE client'[c] \in {client[c], Parsed[c]} /\ reply'[c] = reply[c]
    BY <2>2 DEF StoreAndFill
  <2>7. lastImage' = [lastImage EXCEPT ![cameraIterator] = NewImage]
    BY <2>2 DEF StoreAndFill
  <2>8. WaitersSeeCurrent'
    <3> SUFFICES ASSUME NEW c \in Clients, client'[c] = "waiting"
                 PROVE  seen'[c] = lastImage'[request'[c].source]
      BY DEF WaitersSeeCurrent
    <3>1. c \notin InTable(cameraIterator) /\ client[c] = "waiting"
      BY <2>6 DEF Parsed
    <3>2. request[c].source # cameraIterator
      BY <2>1, <3>1 DEF WaitersAreInTheTable, InTable
    <3> QED BY <2>1, <2>7, <3>1, <3>2 DEF ReplyInv, WaitersSeeCurrent, TypeOK
  <2>9. RepliesAreFresh'
    <3> SUFFICES ASSUME NEW c \in Clients, client'[c] = "answered", reply'[c].kind = "jpeg"
                 PROVE  /\ request'[c].wait => reply'[c].image # seen'[c]
                        /\ request'[c].source = (reply'[c].image.cam + 1) % numCameras
      BY DEF RepliesAreFresh
    <3>1. CASE c \in InTable(cameraIterator)
      <4>1. reply'[c].image = NewImage
        BY <2>6, <3>1 DEF Lost, Jpeg
      <4>2. request[c].source = cameraIterator /\ seen[c] = lastImage[cameraIterator]
        BY <2>5, <3>1 DEF ReplyInv, WaitersSeeCurrent
      <4> QED BY <2>1, <2>3, <2>4, <4>1, <4>2
    <3>2. CASE c \notin InTable(cameraIterator)
      <4>1. client[c] = "answered" /\ reply'[c] = reply[c]
        BY <2>6, <3>2 DEF Parsed
      <4> QED BY <2>1, <4>1 DEF ReplyInv, RepliesAreFresh
    <3> QED BY <3>1, <3>2
  <2> QED BY <2>8, <2>9 DEF ReplyInv
<1>2. ASSUME NEW d \in Clients, RequestWaits(d) PROVE ReplyInv'
  BY <1>2 DEF RequestWaits, ReplyInv, WaitersSeeCurrent, RepliesAreFresh, TypeOK
<1>3. ASSUME NEW d \in Clients, RequestImmediate(d) PROVE ReplyInv'
  <2>1. ~Refused(d) /\ ~request[d].wait /\ UNCHANGED <<lastImage, request, seen>>
    BY <1>3 DEF RequestImmediate
  <2>2. request[d].source \in Cameras
    BY <2>1, RequestAssumption, CameraAssumption
       DEF Refused, RequestType, NoRequest, Cameras, TypeOK
  <2> DEFINE img == lastImage[request[d].source]
  <2>3. /\ client' = [client EXCEPT ![d] = "answered"]
        /\ reply' = [reply EXCEPT ![d] = IF img = NoImage THEN NotFound ELSE Jpeg(img)]
    BY <1>3 DEF RequestImmediate, Answer
  <2>4. reply'[d].kind = "jpeg" => reply'[d].image = img /\ img # NoImage
    BY <2>3 DEF NotFound, Jpeg, TypeOK
  <2>5. img # NoImage => request[d].source = (img.cam + 1) % numCameras
    <3> SUFFICES ASSUME img # NoImage PROVE request[d].source = (img.cam + 1) % numCameras
      OBVIOUS
    <3>1. img.cam \in Cameras
      BY <2>2 DEF TypeOK, Image
    <3> QED BY <2>2, <3>1, SuccessorIsModulo DEF EntryInv, EntryIsSuccessor
  <2>6. \A c \in Clients \ {d} : client'[c] = client[c] /\ reply'[c] = reply[c]
    BY <2>3 DEF TypeOK
  <2>7. client'[d] = "answered"
    BY <2>3 DEF TypeOK
  <2>8. WaitersSeeCurrent'
    BY <2>1, <2>6, <2>7 DEF ReplyInv, WaitersSeeCurrent
  <2>9. RepliesAreFresh'
    <3>1. ASSUME NEW c \in Clients, c # d, client'[c] = "answered", reply'[c].kind = "jpeg"
          PROVE  /\ request'[c].wait => reply'[c].image # seen'[c]
                 /\ request'[c].source = (reply'[c].image.cam + 1) % numCameras
      BY <2>1, <2>6, <3>1 DEF ReplyInv, RepliesAreFresh
    <3>2. ASSUME reply'[d].kind = "jpeg"
          PROVE  /\ request'[d].wait => reply'[d].image # seen'[d]
                 /\ request'[d].source = (reply'[d].image.cam + 1) % numCameras
      BY <2>1, <2>4, <2>5, <3>2
    <3> QED BY <3>1, <3>2 DEF RepliesAreFresh
  <2> QED BY <2>8, <2>9 DEF ReplyInv
<1>4. ASSUME NEW d \in Clients, RequestRefused(d) \/ RequestImmediateFails(d) PROVE ReplyInv'
  <2>1. UNCHANGED <<lastImage, request, seen>>
    BY <1>4 DEF RequestRefused, RequestImmediateFails
  <2>2. client'[d] = "answered" /\ reply'[d].kind # "jpeg"
    BY <1>4 DEF RequestRefused, RequestImmediateFails, Answer, NotFound, Lost, TypeOK
  <2>3. \A c \in Clients \ {d} : client'[c] = client[c] /\ reply'[c] = reply[c]
    BY <1>4 DEF RequestRefused, RequestImmediateFails, Answer, TypeOK
  <2> QED BY <2>1, <2>2, <2>3 DEF ReplyInv, WaitersSeeCurrent, RepliesAreFresh
<1>5. ASSUME NEW c \in Clients, RequestOverrunsTable(c) \/ ClientSends(c) \/ ClientDone(c)
      PROVE  ReplyInv'
  BY <1>5, RepliesUntouched DEF RequestOverrunsTable, ClientSends, ClientDone, reqVars, TypeOK
<1>6. ASSUME NEW e \in batch, SignalEvent(e) \/ ScgiEvent(e) \/ ScgiEventFails(e)
      PROVE  ReplyInv'
  BY <1>6, RepliesUntouched DEF SignalEvent, ScgiEvent, ScgiEventFails, Parsed, reqVars, TypeOK
<1>7. ASSUME NEW e \in batch,
             \/ CameraIdle(e) \/ CameraDropped(e) \/ CameraKills(e) \/ CameraCloseFails(e)
             \/ CameraImageNotStored(e)
      PROVE  ReplyInv'
  BY <1>7, RepliesUntouched DEF CameraIdle, CameraDropped, CameraKills, CameraCloseFails,
                    CameraImageNotStored, reqVars
<1>8. CASE ScgiFlush
  BY <1>8, RepliesUntouched DEF ScgiFlush, Parsed, TypeOK
<1>9. CASE \/ OpenNextCamera \/ OpenNextCameraFails \/ KeepCamera \/ EpollFails \/ Exited
           \/ EpollWait \/ Cleanup \/ SignalArrives \/ UNCHANGED vars
  BY <1>9, RepliesUntouched DEF OpenNextCamera, OpenNextCameraFails, KeepCamera, EpollFails,
                    Exited, EpollWait, Cleanup, SignalArrives, reqVars, vars
<1>10. CASE Device
  BY <1>10, RepliesUntouched DEF Device, DeviceAccepts, DeviceSendsMore, DeviceSendsJunk,
       DeviceSendsImage, DeviceSendsBigImage, DeviceSendsEmpty, DeviceSendsOversized,
       DeviceCloses, DeviceFails, DeviceStep, reqVars
<1> QED
  BY <1>1, <1>2, <1>3, <1>4, <1>5, <1>6, <1>7, <1>8, <1>9, <1>10
     DEF Next, Adapter, Users, CameraEvents, HandleRequest

(* A request that asked to wait is never answered with the image it could  *)
(* have had at once, and every image sent is one of the camera asked for.  *)
THEOREM RepliesCorrect == Spec => []RepliesAreFresh
<1>1. Init => ReplyInv
  BY DEF Init, ReplyInv, WaitersSeeCurrent, RepliesAreFresh
<1>2. Spec => []ReplyInv
  BY <1>1, ReplyStep, TypeCorrect, EntryCorrect, WaitersCorrect, PTL DEF Spec
<1>3. ReplyInv => RepliesAreFresh
  BY DEF ReplyInv
<1> QED BY <1>2, <1>3, PTL
-----------------------------------------------------------------------------
(* Only the constant LinkStep of CameraLink is used: its variables take    *)
(* no part in it.                                                          *)
Link == INSTANCE CameraLink WITH edge <- CAMERA_ID \in ready, turn <- pc, outcome <- pc

(* The event loop meets every behaviour of a camera connection, and no     *)
(* other: what the DVR may do in Reactor to the connection that            *)
(* rsva11001_connection_process and epoll_wait report on is what           *)
(* CameraConnection is shown to do in CameraLink, edges that announce      *)
(* nothing new included.                                                   *)
THEOREM DeviceIsCameraLink ==
  TypeOK =>
    (Device <=>
       /\ <<link, link'>> \in Link!LinkStep \/ (link # "none" /\ link' = link)
       /\ ready' = ready \cup {CAMERA_ID}
       /\ UNCHANGED <<pc, shutdown, activeCamera, cameraIterator, open, batch, lastImage, reqVars>>)
<1> SUFFICES ASSUME TypeOK
             PROVE  Device <=>
                      /\ <<link, link'>> \in Link!LinkStep \/ (link # "none" /\ link' = link)
                      /\ ready' = ready \cup {CAMERA_ID}
                      /\ UNCHANGED <<pc, shutdown, activeCamera, cameraIterator, open, batch,
                                     lastImage, reqVars>>
  OBVIOUS
<1> DEFINE Rest ==
      /\ ready' = ready \cup {CAMERA_ID}
      /\ UNCHANGED <<pc, shutdown, activeCamera, cameraIterator, open, batch, lastImage, reqVars>>
<1>1. Device <=>
        /\ Rest
        /\ \/ link = "syn" /\ link' = "up"
           \/ link \in Links \ {"none"} /\ link' = link
           \/ link = "up" /\ link' = "mute"
           \/ link \in {"up", "big"} /\ link' = "image"
           \/ link \in {"up", "image"} /\ link' = "big"
           \/ link \in {"image", "big"} /\ link' = "up"
           \/ link \in {"up", "image", "big"} /\ link' = "fatal"
           \/ link \in {"up", "mute", "image", "big"} /\ link' = "fin"
           \/ link \in {"syn", "up", "mute", "image", "big", "fatal", "fin"} /\ link' = "err"
  BY DEF Device, DeviceAccepts, DeviceSendsMore, DeviceSendsJunk, DeviceSendsImage,
         DeviceSendsBigImage, DeviceSendsEmpty, DeviceSendsOversized,
       DeviceCloses, DeviceFails, DeviceStep
<1>2. <<link, link'>> \in Link!LinkStep \/ (link # "none" /\ link' = link) <=>
        \/ link = "syn" /\ link' = "up"
        \/ link \in Links \ {"none"} /\ link' = link
        \/ link = "up" /\ link' = "mute"
        \/ link \in {"up", "big"} /\ link' = "image"
        \/ link \in {"up", "image"} /\ link' = "big"
        \/ link \in {"image", "big"} /\ link' = "up"
        \/ link \in {"up", "image", "big"} /\ link' = "fatal"
        \/ link \in {"up", "mute", "image", "big"} /\ link' = "fin"
        \/ link \in {"syn", "up", "mute", "image", "big", "fatal", "fin"} /\ link' = "err"
  BY DEF Link!LinkStep, TypeOK, Links
<1> QED BY <1>1, <1>2
=============================================================================
