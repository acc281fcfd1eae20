-------------------------- MODULE PollCycleProofs --------------------------
(***************************************************************************)
(* Reactor implements PollCycle, for every number of cameras and clients:  *)
(* the proof that every step of the event loop is a step of the round      *)
(* robin, or none.                                                         *)
(***************************************************************************)
EXTENDS ReactorProofs

(* The camera whose connection is open is the active one.                  *)
ActiveIsOpen == activeCamera # NULL /\ open[activeCamera]

OpenIsActive == OpenCamera = IF ActiveIsOpen THEN activeCamera ELSE NULL

LEMMA OpenCameraIsActive == TypeOK /\ ConnInv => OpenIsActive
<1> SUFFICES ASSUME TypeOK, ConnInv PROVE OpenIsActive
  OBVIOUS
<1> USE DEF OpenIsActive, ActiveIsOpen
<1>1. \A i \in Cameras : open[i] => i = activeCamera
  BY DEF ConnInv, OnlyActiveOpen
<1>2. CASE activeCamera # NULL /\ open[activeCamera]
  <2>1. activeCamera \in Cameras /\ open[activeCamera]
    BY <1>2 DEF TypeOK
  <2>2. (CHOOSE i \in Cameras : open[i]) = activeCamera
    BY <1>1, <2>1
  <2> QED BY <1>2, <2>1, <2>2 DEF OpenCamera
<1>3. CASE ~(activeCamera # NULL /\ open[activeCamera])
  <2>1. ~\E i \in Cameras : open[i]
    BY <1>1, <1>3, CameraAssumption DEF Cameras, NULL
  <2> QED BY <1>3, <2>1 DEF OpenCamera
<1> QED BY <1>2, <1>3

(* The states between two steps, and the step.                             *)
CycleStep ==
  /\ TypeOK /\ ConnInv /\ OpenIsActive /\ OpenIsActive'
  /\ [Next]_vars

(* A step that leaves the cameras and the images alone may only stop the   *)
(* adapter.                                                                *)
LEMMA StopOrStutter ==
  ASSUME CycleStep, UNCHANGED <<activeCamera, cameraIterator, open, lastImage>>,
         Stopping => Stopping'
  PROVE  [Cycle!CycleNext]_(Cycle!cycleVars)
<1>1. OpenCamera' = OpenCamera
  BY DEF CycleStep, OpenIsActive, ActiveIsOpen
<1>2. CASE Stopping' <=> Stopping
  BY <1>1, <1>2 DEF Cycle!cycleVars, Stopping
<1>3. CASE Stopping' /\ ~Stopping
  <2>1. Cycle!Stop
    BY <1>1, <1>3 DEF Cycle!Stop, Stopping
  <2> QED BY <2>1 DEF Cycle!CycleNext
<1> QED BY <1>2, <1>3

(* Inside of the handlers the adapter is stopping exactly when shutdown is *)
(* set.                                                                    *)
LEMMA CloseEndsTurn ==
  ASSUME CycleStep, NEW e \in batch, CameraEvent(e), CloseActive, Resume, UNCHANGED shutdown
  PROVE  /\ OpenCamera = activeCamera /\ OpenCamera # NULL /\ OpenCamera' = NULL
         /\ Stopping' <=> Stopping
<1>1. activeCamera # NULL /\ open[activeCamera]
  BY DEF CycleStep, ConnInv, EventHasLink, LinkIsOpen, CameraEvent, Take
<1>2. OpenCamera = activeCamera
  BY <1>1 DEF CycleStep, OpenIsActive, ActiveIsOpen
<1>3. OpenCamera' = NULL
  BY DEF CycleStep, CloseActive, OpenIsActive, ActiveIsOpen
<1>4. Stopping' <=> Stopping
  BY DEF CameraEvent, Take, Resume, Stopping
<1> QED BY <1>1, <1>2, <1>3, <1>4

LEMMA StepIsCycleStep ==
  ASSUME CycleStep
  PROVE  [Cycle!CycleNext]_(Cycle!cycleVars)
<1> USE DEF CycleStep
<1>1. CASE OpenNextCamera \/ OpenNextCameraFails
  <2>1. /\ cameraIterator \in Cameras /\ cameraIterator # NULL /\ OpenCamera = NULL
        /\ activeCamera' = cameraIterator /\ UNCHANGED lastImage /\ ~Stopping
    BY <1>1, CameraAssumption
       DEF OpenIsActive, ActiveIsOpen, OpenNextCamera, OpenNextCameraFails, TypeOK, Cameras, NULL, Stopping
  <2>2. Cycle!NextTurn
    BY <1>1, <2>1, CameraAssumption
       DEF OpenNextCamera, OpenNextCameraFails, Cycle!NextTurn, Successor, Cameras
  <2>3. CASE open'[cameraIterator]
    <3>1. OpenCamera' = cameraIterator
      BY <2>1, <2>3 DEF OpenIsActive, ActiveIsOpen
    <3>2. Cycle!Connect
      BY <2>1, <2>2, <3>1 DEF Cycle!Connect, Cycle!Nobody, NULL, Stopping
    <3> QED BY <3>2 DEF Cycle!CycleNext
  <2>4. CASE ~open'[cameraIterator]
    <3>1. OpenCamera' = NULL
      BY <2>1, <2>4 DEF OpenIsActive, ActiveIsOpen
    <3>2. shutdown'
      BY <1>1, <2>1, <2>4 DEF OpenNextCamera, OpenNextCameraFails, TypeOK
    <3>3. Cycle!CannotConnect
      BY <2>1, <2>2, <3>1, <3>2 DEF Cycle!CannotConnect, Cycle!Nobody, NULL, Stopping
    <3> QED BY <3>3 DEF Cycle!CycleNext
  <2> QED BY <2>3, <2>4
<1>2. CASE KeepCamera \/ EpollFails \/ EpollWait \/ ScgiFlush \/ Exited \/ SignalArrives
           \/ UNCHANGED vars
  <2>1. UNCHANGED <<activeCamera, cameraIterator, open, lastImage>>
    BY <1>2 DEF KeepCamera, EpollFails, EpollWait, ScgiFlush, Exited, SignalArrives, vars, camVars
  <2>2. Stopping => Stopping'
    BY <1>2 DEF KeepCamera, EpollFails, EpollWait, ScgiFlush, Exited, SignalArrives, vars, Stopping
  <2> QED BY <2>1, <2>2, StopOrStutter
<1>3. ASSUME NEW e \in batch,
             \/ SignalEvent(e) \/ ScgiEvent(e) \/ ScgiEventFails(e)
             \/ CameraIdle(e) \/ CameraCloseFails(e)
      PROVE  [Cycle!CycleNext]_(Cycle!cycleVars)
  <2>1. UNCHANGED <<activeCamera, cameraIterator, open, lastImage>>
    BY <1>3 DEF SignalEvent, ScgiEvent, ScgiEventFails, CameraIdle, CameraCloseFails, camVars
  <2>2. Stopping => Stopping'
    BY <1>3 DEF SignalEvent, ScgiEvent, ScgiEventFails, CameraIdle, CameraCloseFails,
                CameraEvent, Take, Stopping
  <2> QED BY <2>1, <2>2, StopOrStutter
<1>4. ASSUME NEW e \in batch, CameraDropped(e) \/ CameraImageNotStored(e)
      PROVE  [Cycle!CycleNext]_(Cycle!cycleVars)
  <2>1. /\ CameraEvent(e) /\ CloseActive /\ Resume
        /\ UNCHANGED <<shutdown, cameraIterator, lastImage>>
    BY <1>4 DEF CameraDropped, CameraImageNotStored
  <2>2. Cycle!Disconnect
    BY <2>1, CloseEndsTurn DEF Cycle!Disconnect, Cycle!Nobody, NULL, Stopping
  <2> QED BY <2>2 DEF Cycle!CycleNext
<1>5. ASSUME NEW e \in batch, CameraImage(e)
      PROVE  [Cycle!CycleNext]_(Cycle!cycleVars)
  <2>1. CameraEvent(e) /\ CloseActive /\ Resume /\ UNCHANGED <<shutdown, cameraIterator>>
    BY <1>5 DEF CameraImage
  <2>2. /\ lastImage' = [lastImage EXCEPT ![cameraIterator] = NewImage]
        /\ NewImage.cam = activeCamera
    BY <1>5 DEF CameraImage, StoreAndFill, NewImage
  <2>3. [s \in Cameras |-> lastImage'[s].cam]
          = [[s \in Cameras |-> lastImage[s].cam] EXCEPT ![cameraIterator] = activeCamera]
    BY <2>2 DEF TypeOK
  <2>4. Cycle!Publish
    BY <2>1, <2>3, CloseEndsTurn DEF Cycle!Publish, Cycle!Nobody, NULL, Stopping
  <2> QED BY <2>4 DEF Cycle!CycleNext
<1>6. ASSUME NEW c \in Clients, HandleRequest(c) \/ ClientSends(c) \/ ClientDone(c)
      PROVE  [Cycle!CycleNext]_(Cycle!cycleVars)
  <2>1. UNCHANGED <<activeCamera, cameraIterator, open, lastImage>>
    BY <1>6 DEF HandleRequest, RequestRefused, RequestWaits, RequestOverrunsTable,
                RequestImmediate, RequestImmediateFails, ClientSends, ClientDone, camVars
  <2>2. Stopping => Stopping'
    BY <1>6 DEF HandleRequest, RequestRefused, RequestWaits, RequestOverrunsTable,
                RequestImmediate, RequestImmediateFails, ClientSends, ClientDone, Stopping,
                Handling
  <2> QED BY <2>1, <2>2, StopOrStutter
<1>7. CASE Cleanup
  <2>1. /\ Stopping /\ Stopping' /\ UNCHANGED <<cameraIterator, lastImage>>
        /\ OpenCamera' = NULL
    BY <1>7 DEF Cleanup, Stopping, TypeOK, OpenIsActive, ActiveIsOpen
  <2>2. CASE OpenCamera = NULL
    BY <2>1, <2>2 DEF Cycle!cycleVars, Stopping
  <2>3. CASE OpenCamera # NULL
    <3>1. Cycle!Disconnect
      BY <2>1, <2>3 DEF Cycle!Disconnect, Cycle!Nobody, NULL, Stopping
    <3> QED BY <3>1 DEF Cycle!CycleNext
  <2> QED BY <2>2, <2>3
<1>8. CASE Device
  <2>1. UNCHANGED <<pc, shutdown, activeCamera, cameraIterator, open, lastImage>>
    BY <1>8 DEF Device, DeviceAccepts, DeviceSendsMore, DeviceSendsJunk, DeviceSendsImage,
       DeviceSendsBigImage, DeviceSendsEmpty, DeviceSendsOversized,
       DeviceCloses, DeviceFails, DeviceStep
  <2> QED BY <2>1, StopOrStutter DEF Stopping
<1>9. ASSUME NEW e \in batch, CameraKills(e)
      PROVE  [Cycle!CycleNext]_(Cycle!cycleVars)
  <2>1. /\ CameraEvent(e) /\ UNCHANGED <<activeCamera, cameraIterator, lastImage>>
        /\ open' = [i \in Cameras |-> FALSE] /\ Stopping'
    BY <1>9 DEF CameraKills, Stopping
  <2>2. activeCamera \in Cameras /\ open[activeCamera]
    BY <2>1 DEF ConnInv, EventHasLink, LinkIsOpen, CameraEvent, Take, TypeOK
  <2>3. OpenCamera # NULL /\ OpenCamera' = NULL
    BY <2>1, <2>2, CameraAssumption DEF OpenIsActive, ActiveIsOpen, Cameras, NULL
  <2>4. Cycle!Die
    BY <2>1, <2>3 DEF Cycle!Die, Cycle!Nobody, NULL, Stopping
  <2> QED BY <2>4 DEF Cycle!CycleNext
<1> QED
  BY <1>1, <1>2, <1>3, <1>4, <1>5, <1>6, <1>7, <1>8, <1>9 DEF Next, Adapter, Users, CameraEvents

(* The event loop implements the round robin of the README: one connection *)
(* at a time, the cameras in turn, an image published only at the end of   *)
(* its turn and under the entry of its camera, no turn after the decision  *)
(* to stop or in a process that was killed.                                *)
THEOREM ReactorImplementsPollCycle == Spec => ImplementsPollCycle
<1>1. Init => Cycle!CycleInit
  BY DEF Init, Cycle!CycleInit, Cycle!Nobody, Cycle!Cameras, OpenCamera, NULL, NoImage, Cameras
<1>2. TypeOK /\ ConnInv /\ OpenIsActive /\ OpenIsActive' /\ [Next]_vars
        => [Cycle!CycleNext]_(Cycle!cycleVars)
  BY StepIsCycleStep DEF CycleStep
<1> QED
  BY <1>1, <1>2, TypeCorrect, ConnCorrect, OpenCameraIsActive, PTL
     DEF Spec, ImplementsPollCycle, Cycle!CycleSpec
=============================================================================
