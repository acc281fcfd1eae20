------------------------------ MODULE Reactor ------------------------------
(***************************************************************************)
(* The event loop of the adapter (main.c): one thread that polls the       *)
(* cameras of the DVR one after the other over a single connection at a    *)
(* time, keeps the last image of each, and answers SCGI requests for them. *)
(*                                                                         *)
(* An action is one iteration step of reactor(): a system call that can    *)
(* let the outside world in, or the whole handling of one epoll event or   *)
(* of one request.  The DVR, the SCGI clients and the signals act between  *)
(* any two of them.  The camera connection appears through the results     *)
(* that rsva11001_connection_process and _getLatestImage can return; its   *)
(* inside is the subject of JpegReceiver.                                  *)
(***************************************************************************)
EXTENDS Integers, Sequences

CONSTANTS
  numCameras,           \* globals.numCameras, accepted by readConfiguration
  MAX_NUM_CAMERAS,      \* size of the per-camera tables
  MAX_PENDING_REQUESTS, \* size of one pendingRequests[].connections table
  Clients,              \* SCGI connections; each carries one request at a time
  Requests              \* the requests the clients may send

ASSUME CameraAssumption ==
  /\ numCameras \in Nat \ {0}
  /\ MAX_NUM_CAMERAS \in Nat
  /\ numCameras < MAX_NUM_CAMERAS

ASSUME PendingAssumption == MAX_PENDING_REQUESTS \in Nat \ {0}

(* Cameras index globals.conns, globals.lastImage and                      *)
(* globals.pendingRequests alike.                                          *)
Cameras == 0 .. (numCameras - 1)

NULL == -1

CAMERA_ID == 0
SIGFD_ID == 1
SCGI_ID == 2
EventIds == {CAMERA_ID, SIGFD_ID, SCGI_ID}

(* A request as handleNewRequest sees it: valid is FALSE when the method,  *)
(* the path or the query string is refused; source = numCameras stands for *)
(* every number that is too large; wait is the query parameter wait=1.     *)
RequestType == [valid : BOOLEAN, source : 0 .. numCameras, wait : BOOLEAN]

ASSUME RequestAssumption == Requests \subseteq RequestType

NoRequest == [valid |-> FALSE, source |-> numCameras, wait |-> FALSE]

(* An image is known by the camera that took it and by a mark that tells   *)
(* it from the previous image of the same table entry.                     *)
Image == [cam : Cameras, mark : {0, 1}]
NoImage == [cam |-> NULL, mark |-> 0]

ReplyKinds == {"none", "404", "lost", "jpeg"}
NoReply == [kind |-> "none", image |-> NoImage]
NotFound == [kind |-> "404", image |-> NoImage]
Lost == [kind |-> "lost", image |-> NoImage]
Jpeg(img) == [kind |-> "jpeg", image |-> img]

(* What the DVR has done on the open connection: "syn" connecting, "up"    *)
(* connected with no whole image received, "mute" the body was rejected    *)
(* and the parser ignores the rest, "image" a whole image is received,     *)
(* "big" one that does not fit the caller's buffer, "fatal" one larger     *)
(* than the receive buffer, "fin" the DVR closed, "err" the socket failed. *)
Links == {"none", "syn", "up", "mute", "image", "big", "fatal", "fin", "err"}

VARIABLES
  pc,             \* where reactor() is
  shutdown,       \* its local variable
  activeCamera,   \* globals.activeCamera, an index of conns or NULL
  cameraIterator, \* globals.cameraIterator
  open,           \* conns[i]->sockfd # -1
  link,           \* what happened on the socket of the active camera
  ready,          \* epoll ids with an edge that epoll_wait has not returned
  batch,          \* events returned by epoll_wait and not handled yet
  lastImage,      \* globals.lastImage
  pending,        \* globals.pendingRequests
  client,         \* state of each SCGI connection
  request,        \* the request it carries
  seen,           \* lastImage of its source when it began to wait
  reply           \* what it was answered

camVars == <<activeCamera, cameraIterator, open, link>>
reqVars == <<pending, client, request, seen, reply>>
vars == <<pc, shutdown, activeCamera, cameraIterator, open, link, ready,
          batch, lastImage, pending, client, request, seen, reply>>

Init ==
  /\ pc = "top"
  /\ shutdown = FALSE
  /\ activeCamera = NULL
  /\ cameraIterator = 0
  /\ open = [i \in Cameras |-> FALSE]
  /\ link = "none"
  /\ ready = {}
  /\ batch = {}
  /\ lastImage = [i \in Cameras |-> NoImage]
  /\ pending = [i \in Cameras |-> << >>]
  /\ client = [c \in Clients |-> "idle"]
  /\ request = [c \in Clients |-> NoRequest]
  /\ seen = [c \in Clients |-> NoImage]
  /\ reply = [c \in Clients |-> NoReply]

-----------------------------------------------------------------------------
(* The head of the loop.                                                   *)

(* Mutant: the wrap-around comes one too late.                             *)
SuccessorLate(i) == IF i + 1 > numCameras THEN 0 ELSE i + 1

Successor(i) == IF i + 1 >= numCameras THEN 0 ELSE i + 1

(* openNextCameraConnection succeeds: the camera the iterator names        *)
(* becomes active and the iterator moves on before the image is stored.    *)
OpenNextCamera ==
  /\ pc = "top" /\ ~shutdown /\ activeCamera = NULL
  /\ ~open[cameraIterator]
  /\ activeCamera' = cameraIterator
  /\ cameraIterator' = Successor(cameraIterator)
  /\ open' = [open EXCEPT ![cameraIterator] = TRUE]
  /\ link' = "syn"
  /\ pc' = "wait"
  /\ UNCHANGED <<shutdown, ready, batch, lastImage, reqVars>>

(* rsva11001_connection_open or epoll_ctl fails; in the second case (a     *)
(* connection already open included) the socket stays open.                *)
OpenNextCameraFails ==
  /\ pc = "top" /\ ~shutdown /\ activeCamera = NULL
  /\ activeCamera' = cameraIterator
  /\ cameraIterator' = Successor(cameraIterator)
  /\ \E leftOpen \in {open[cameraIterator], TRUE} :
       open' = [open EXCEPT ![cameraIterator] = leftOpen]
  /\ shutdown' = TRUE
  /\ UNCHANGED <<pc, link, ready, batch, lastImage, reqVars>>

KeepCamera ==
  /\ pc = "top" /\ ~shutdown /\ activeCamera # NULL
  /\ pc' = "wait"
  /\ UNCHANGED <<shutdown, camVars, ready, batch, lastImage, reqVars>>

(* epoll_wait returns every pending edge: three descriptors are            *)
(* registered, fewer than MAX_EVENTS, so one call drains them and the      *)
(* inner loop ends after it.  The error flags are those of this moment.    *)
EpollWait ==
  /\ pc = "wait" /\ ready # {}
  /\ batch' = {[id |-> i, err |-> i = CAMERA_ID /\ link = "err"] : i \in ready}
  /\ ready' = {}
  /\ pc' = "dispatch"
  /\ UNCHANGED <<shutdown, camVars, lastImage, reqVars>>

(* EINTR is ignored; any other error leaves reactor() at once.             *)
EpollFails ==
  /\ pc = "wait"
  /\ \/ ready = {} /\ pc' = "top"
     \/ pc' = "cleanup"
  /\ UNCHANGED <<shutdown, camVars, ready, batch, lastImage, reqVars>>

-----------------------------------------------------------------------------
(* Events.                                                                 *)

(* The event is taken from the batch; the batch is handled to its end even *)
(* when shutdown is set.                                                   *)
Take(e) ==
  /\ pc = "dispatch" /\ e \in batch
  /\ batch' = batch \ {e}

Resume == pc' = IF batch' = {} THEN "top" ELSE "dispatch"

(* Mutant: the signal is noticed and the loop goes on.                     *)
SignalEventIgnored(e) ==
  /\ Take(e) /\ e.id = SIGFD_ID
  /\ Resume
  /\ UNCHANGED <<shutdown, camVars, ready, lastImage, reqVars>>

(* Mutant: the connections are closed at once, before the batch ends.      *)
SignalEventCloses(e) ==
  /\ Take(e) /\ e.id = SIGFD_ID
  /\ shutdown' = TRUE
  /\ open' = [i \in Cameras |-> FALSE]
  /\ link' = "none"
  /\ Resume
  /\ UNCHANGED <<activeCamera, cameraIterator, ready, lastImage, reqVars>>

SignalEvent(e) ==
  /\ Take(e) /\ e.id = SIGFD_ID
  /\ shutdown' = TRUE
  /\ Resume
  /\ UNCHANGED <<camVars, ready, lastImage, reqVars>>

(* Mutant: the active camera is forgotten and its socket is not closed.    *)
CloseActiveForgets ==
  /\ activeCamera' = NULL
  /\ link' = "none"
  /\ UNCHANGED open

(* rsva11001_connection_close: closing the descriptor removes it, and any  *)
(* edge it still had, from the epoll set.                                  *)
CloseActive ==
  /\ open' = [open EXCEPT ![activeCamera] = FALSE]
  /\ activeCamera' = NULL
  /\ link' = "none"

CameraEvent(e) == Take(e) /\ e.id = CAMERA_ID /\ activeCamera # NULL

(* Mutant: recv returning 0 is taken for no data.                          *)
FailingButClosed == {"big", "err"}

(* The links on which the connection is given up: recv returned 0 or an    *)
(* error, or the image does not fit.                                       *)
Failing == {"big", "fin", "err"}

(* processActiveCamera returns 0 without an image: wait for more.          *)
CameraIdle(e) ==
  /\ CameraEvent(e)
  /\ ~e.err /\ link \notin Failing \cup {"image", "fatal"}
  /\ Resume
  /\ UNCHANGED <<shutdown, camVars, ready, lastImage, reqVars>>

(* Mutant: a camera that failed costs the next one its turn.               *)
CameraDroppedSkips(e) ==
  /\ CameraEvent(e)
  /\ e.err \/ link \in Failing
  /\ CloseActive
  /\ cameraIterator' = Successor(cameraIterator)
  /\ ready' = ready \ {CAMERA_ID}
  /\ Resume
  /\ UNCHANGED <<shutdown, lastImage, reqVars>>

(* ERR or HUP was reported, or processActiveCamera returns -1.             *)
CameraDropped(e) ==
  /\ CameraEvent(e)
  /\ e.err \/ link \in Failing
  /\ CloseActive
  /\ ready' = ready \ {CAMERA_ID}
  /\ Resume
  /\ UNCHANGED <<shutdown, cameraIterator, lastImage, reqVars>>

(* The process ends in rsva11001_connection_process, by the assertion of   *)
(* the receive buffer or by the SIGPIPE of a send to a socket that failed, *)
(* and the kernel closes what it had open.  That needs a socket that was   *)
(* connected once; here every failed one may do it.                        *)
CameraKills(e) ==
  /\ CameraEvent(e)
  /\ ~e.err /\ link \in {"fatal", "err"}
  /\ pc' = "killed"
  /\ open' = [i \in Cameras |-> FALSE]
  /\ link' = "none"
  /\ ready' = {}
  /\ UNCHANGED <<shutdown, activeCamera, cameraIterator, lastImage, reqVars>>

(* close() fails, on the paths of CameraDropped and CameraImage alike.     *)
CameraCloseFails(e) ==
  /\ CameraEvent(e)
  /\ e.err \/ link \in Failing \cup {"image"}
  /\ shutdown' = TRUE
  /\ Resume
  /\ UNCHANGED <<camVars, ready, lastImage, reqVars>>

(* sg_server_process reads every request that has arrived, and with them   *)
(* consumes what made the server's descriptor ready.                       *)
Parsed == [c \in Clients |-> IF client[c] = "arrived" THEN "parsed" ELSE client[c]]

InTable(s) == {pending[s][i] : i \in DOMAIN pending[s]}

(* The table entry that writeImageFile writes is the iterator's, which is  *)
(* already one past the camera that delivered.                             *)
NewImage ==
  [cam |-> activeCamera, mark |-> 1 - lastImage[cameraIterator].mark]

(* Mutants of the store: under the index of the active camera; the old     *)
(* image is sent; the table is not emptied; the table is emptied unread.   *)
FillAll(entry, img, sent, emptied, answered) ==
  LET waiting == IF answered THEN InTable(cameraIterator) ELSE {}
  IN  /\ lastImage' = [lastImage EXCEPT ![entry] = img]
      /\ reply' = [c \in Clients |-> IF c \in waiting THEN Jpeg(sent) ELSE reply[c]]
      /\ pending' = IF emptied THEN [pending EXCEPT ![cameraIterator] = << >>]
                     ELSE pending
      /\ client' = [c \in Clients |-> IF c \in waiting THEN "answered" ELSE client[c]]
      /\ ready' = ready \ {CAMERA_ID}
StoreUnderActive(img, processed) == FillAll(activeCamera, img, img, TRUE, TRUE)
StoreAfterFill(img, processed) ==
  FillAll(cameraIterator, img, lastImage[cameraIterator], TRUE, TRUE)
StoreKeepsTable(img, processed) == FillAll(cameraIterator, img, img, FALSE, TRUE)
StoreForgetsWaiters(img, processed) == FillAll(cameraIterator, img, img, TRUE, FALSE)

(* writeImageFile from the store on: every waiting connection is answered  *)
(* or its write fails, which is only logged; the table is emptied; then    *)
(* sg_server_process runs (processed) or fails, which only ends the turn.  *)
StoreAndFill(img, processed) ==
  /\ lastImage' = [lastImage EXCEPT ![cameraIterator] = img]
  /\ \E failed \in SUBSET InTable(cameraIterator) :
       reply' = [c \in Clients |->
                   IF c \in failed THEN Lost
                   ELSE IF c \in InTable(cameraIterator) THEN Jpeg(img)
                   ELSE reply[c]]
  /\ pending' = [pending EXCEPT ![cameraIterator] = << >>]
  /\ client' = [c \in Clients |->
                  IF c \in InTable(cameraIterator) THEN "answered"
                  ELSE IF processed THEN Parsed[c] ELSE client[c]]
  /\ ready' = ready \ (IF processed THEN {CAMERA_ID, SCGI_ID} ELSE {CAMERA_ID})

(* A whole image: the connection is closed, the image stored and the       *)
(* waiting requests answered.                                              *)
CameraImage(e) ==
  /\ CameraEvent(e)
  /\ ~e.err /\ link = "image"
  /\ CloseActive
  /\ \E processed \in BOOLEAN : StoreAndFill(NewImage, processed)
  /\ Resume
  /\ UNCHANGED <<shutdown, cameraIterator, request, seen>>

(* unlink, open, ftruncate, mmap, close or munmap fails: the old image is  *)
(* kept and nobody is answered.                                            *)
CameraImageNotStored(e) ==
  /\ CameraEvent(e)
  /\ ~e.err /\ link = "image"
  /\ CloseActive
  /\ ready' = ready \ {CAMERA_ID}
  /\ Resume
  /\ UNCHANGED <<shutdown, cameraIterator, lastImage, reqVars>>

-----------------------------------------------------------------------------
(* SCGI requests.                                                          *)

ScgiEvent(e) ==
  /\ Take(e) /\ e.id = SCGI_ID
  /\ client' = Parsed
  /\ ready' = ready \ {SCGI_ID}
  /\ pc' = "requests"
  /\ UNCHANGED <<shutdown, camVars, lastImage, pending, request, seen, reply>>

ScgiEventFails(e) ==
  /\ Take(e) /\ e.id = SCGI_ID
  /\ shutdown' = TRUE
  /\ Resume
  /\ UNCHANGED <<camVars, ready, lastImage, reqVars>>

(* handleNewRequest, one action per way out.                               *)
Handling(c) == pc = "requests" /\ client[c] = "parsed"

Answer(c, r) ==
  /\ client' = [client EXCEPT ![c] = "answered"]
  /\ reply' = [reply EXCEPT ![c] = r]

Refused(c) == ~request[c].valid \/ request[c].source >= numCameras

RequestRefused(c) ==
  /\ Handling(c) /\ Refused(c)
  /\ Answer(c, NotFound)
  /\ UNCHANGED <<pc, shutdown, camVars, ready, batch, lastImage, pending, request, seen>>

(* The connection goes to the next free place of the table.                *)
RequestWaits(c) ==
  /\ Handling(c) /\ ~Refused(c) /\ request[c].wait
  /\ Len(pending[request[c].source]) < MAX_PENDING_REQUESTS
  /\ pending' = [pending EXCEPT ![request[c].source] = Append(@, c)]
  /\ client' = [client EXCEPT ![c] = "waiting"]
  /\ seen' = [seen EXCEPT ![c] = lastImage[request[c].source]]
  /\ UNCHANGED <<pc, shutdown, camVars, ready, batch, lastImage, request, reply>>

(* The size of the table is not checked.  The write past its end falls on  *)
(* numPending; what the program does with a pointer for a count is not     *)
(* followed any further.                                                   *)
RequestOverrunsTable(c) ==
  /\ Handling(c) /\ ~Refused(c) /\ request[c].wait
  /\ Len(pending[request[c].source]) = MAX_PENDING_REQUESTS
  /\ pc' = "overrun"
  /\ UNCHANGED <<shutdown, camVars, ready, batch, lastImage, reqVars>>

RequestImmediate(c) ==
  /\ Handling(c) /\ ~Refused(c) /\ ~request[c].wait
  /\ LET img == lastImage[request[c].source]
     IN  Answer(c, IF img = NoImage THEN NotFound ELSE Jpeg(img))
  /\ UNCHANGED <<pc, shutdown, camVars, ready, batch, lastImage, pending, request, seen>>

(* sendJpeg fails: handleNewRequest returns false and the adapter stops.   *)
RequestImmediateFails(c) ==
  /\ Handling(c) /\ ~Refused(c) /\ ~request[c].wait
  /\ lastImage[request[c].source] # NoImage
  /\ Answer(c, Lost)
  /\ shutdown' = TRUE
  /\ pc' = "flush"
  /\ UNCHANGED <<camVars, ready, batch, lastImage, pending, request, seen>>

(* The second sg_server_process, after the last request or the failed one. *)
ScgiFlush ==
  /\ \/ pc = "requests" /\ \A c \in Clients : client[c] # "parsed"
     \/ pc = "flush"
  /\ \/ client' = Parsed /\ ready' = ready \ {SCGI_ID} /\ UNCHANGED shutdown
     \/ shutdown' = TRUE /\ UNCHANGED <<client, ready>>
  /\ pc' = IF batch = {} THEN "top" ELSE "dispatch"
  /\ UNCHANGED <<camVars, batch, lastImage, pending, request, seen, reply>>

-----------------------------------------------------------------------------
(* After the loop: closeScgiServer and cleanupCameraConnections.           *)
Cleanup ==
  /\ pc = "cleanup" \/ (pc = "top" /\ shutdown)
  /\ pc' = "exited"
  /\ open' = [i \in Cameras |-> FALSE]
  /\ link' = "none"
  /\ ready' = {}
  /\ UNCHANGED <<shutdown, activeCamera, cameraIterator, batch, lastImage, reqVars>>

Exited == pc \in {"exited", "killed", "overrun"} /\ UNCHANGED vars

-----------------------------------------------------------------------------
(* The outside world.                                                      *)

Running == pc \notin {"exited", "killed", "overrun"}

DeviceStep(from, to) ==
  /\ link \in from
  /\ link' = to
  /\ ready' = ready \cup {CAMERA_ID}
  /\ UNCHANGED <<pc, shutdown, activeCamera, cameraIterator, open, batch, lastImage, reqVars>>

DeviceAccepts == DeviceStep({"syn"}, "up")

(* More of what was sent already, or an edge that announces nothing new.   *)
DeviceSendsMore == \E l \in Links \ {"none"} : DeviceStep({l}, l)

DeviceSendsJunk == DeviceStep({"up"}, "mute")
DeviceSendsImage == DeviceStep({"up", "big"}, "image")
DeviceSendsBigImage == DeviceStep({"up", "image"}, "big")

(* An image of no bytes takes back the one before it: getLatestImage then  *)
(* says that there is none.                                                *)
DeviceSendsEmpty == DeviceStep({"image", "big"}, "up")

DeviceSendsOversized == DeviceStep({"up", "image", "big"}, "fatal")
DeviceCloses == DeviceStep({"up", "mute", "image", "big"}, "fin")
DeviceFails == DeviceStep({"syn", "up", "mute", "image", "big", "fatal", "fin"}, "err")

SignalArrives ==
  /\ Running /\ ~shutdown /\ SIGFD_ID \notin ready
  /\ ready' = ready \cup {SIGFD_ID}
  /\ UNCHANGED <<pc, shutdown, camVars, batch, lastImage, reqVars>>

ClientSends(c) ==
  /\ Running /\ client[c] = "idle"
  /\ \E r \in Requests : request' = [request EXCEPT ![c] = r]
  /\ client' = [client EXCEPT ![c] = "arrived"]
  /\ ready' = ready \cup {SCGI_ID}
  /\ UNCHANGED <<pc, shutdown, camVars, batch, lastImage, pending, seen, reply>>

ClientDone(c) ==
  /\ client[c] = "answered"
  /\ client' = [client EXCEPT ![c] = "idle"]
  /\ request' = [request EXCEPT ![c] = NoRequest]
  /\ seen' = [seen EXCEPT ![c] = NoImage]
  /\ reply' = [reply EXCEPT ![c] = NoReply]
  /\ UNCHANGED <<pc, shutdown, camVars, ready, batch, lastImage, pending>>

-----------------------------------------------------------------------------
CameraEvents(e) ==
  \/ CameraIdle(e) \/ CameraDropped(e) \/ CameraKills(e) \/ CameraCloseFails(e)
  \/ CameraImage(e) \/ CameraImageNotStored(e)

HandleRequest(c) ==
  \/ RequestRefused(c) \/ RequestWaits(c) \/ RequestOverrunsTable(c)
  \/ RequestImmediate(c) \/ RequestImmediateFails(c)

(* The steps of the adapter itself that do not wait for anything.          *)
Adapter ==
  \/ OpenNextCamera \/ OpenNextCameraFails \/ KeepCamera \/ EpollWait
  \/ \E e \in batch : \/ SignalEvent(e) \/ CameraEvents(e)
                       \/ ScgiEvent(e) \/ ScgiEventFails(e)
  \/ \E c \in Clients : HandleRequest(c)
  \/ ScgiFlush \/ Cleanup

Device ==
  \/ DeviceAccepts \/ DeviceSendsMore \/ DeviceSendsJunk \/ DeviceSendsImage
  \/ DeviceSendsBigImage \/ DeviceSendsEmpty \/ DeviceSendsOversized
  \/ DeviceCloses \/ DeviceFails

Users == SignalArrives \/ \E c \in Clients : ClientSends(c) \/ ClientDone(c)

Next == Adapter \/ EpollFails \/ Exited \/ Device \/ Users

Spec == Init /\ [][Next]_vars

-----------------------------------------------------------------------------
(* Safety.                                                                 *)

Events == [id : EventIds, err : BOOLEAN]

(* Every variable stays in its type; in particular the iterator and the    *)
(* active camera index the tables.                                         *)
TypeOK ==
  /\ pc \in {"top", "wait", "dispatch", "requests", "flush", "cleanup", "exited",
            "killed", "overrun"}
  /\ shutdown \in BOOLEAN
  /\ activeCamera \in Cameras \cup {NULL}
  /\ cameraIterator \in Cameras
  /\ open \in [Cameras -> BOOLEAN]
  /\ link \in Links
  /\ ready \subseteq EventIds
  /\ batch \subseteq Events
  /\ lastImage \in [Cameras -> Image \cup {NoImage}]
  /\ pending \in [Cameras -> Seq(Clients)]
  /\ client \in [Clients -> {"idle", "arrived", "parsed", "waiting", "answered"}]
  /\ request \in [Clients -> Requests \cup {NoRequest}]
  /\ seen \in [Clients -> Image \cup {NoImage}]
  /\ reply \in [Clients -> [kind : ReplyKinds, image : Image \cup {NoImage}]]

(* The DVR boots or freezes one client when a second connects (README):    *)
(* no two camera connections are ever open, whatever fails on the way.     *)
AtMostOneConnection ==
  \A i, j \in Cameras : open[i] /\ open[j] => i = j

(* An event of the camera descriptor that epoll_wait has returned is       *)
(* handled while the connection it came from is still the active one: the  *)
(* assertions of processActiveCamera and rsva11001_connection_process      *)
(* (activeCamera != NULL, sockfd != -1) cannot fail.                       *)
CameraEventsAreCurrent ==
  \A e \in batch : e.id = CAMERA_ID => activeCamera # NULL /\ open[activeCamera]

(* A table entry only ever holds images of one camera, the one before it   *)
(* in the cycle, because the iterator has moved on when the image comes.   *)
EntryBelongsToOneCamera ==
  \A s \in Cameras : lastImage[s] # NoImage =>
    s = (lastImage[s].cam + 1) % numCameras

(* A connection waits exactly when it is in the table of its source, once: *)
(* no waiting connection is forgotten and none would be answered twice.    *)
WaitersAreInTheTable ==
  \A c \in Clients, s \in Cameras :
    LET places == {i \in DOMAIN pending[s] : pending[s][i] = c}
    IN  IF client[c] = "waiting" /\ request[c].source = s
        THEN \E i \in places : places = {i}
        ELSE places = {}

(* A request with wait=1 is answered with an image that replaced the one   *)
(* in the table when the request came, and of the camera it named.         *)
RepliesAreFresh ==
  \A c \in Clients : client[c] = "answered" /\ reply[c].kind = "jpeg" =>
    /\ request[c].wait => reply[c].image # seen[c]
    /\ request[c].source = (reply[c].image.cam + 1) % numCameras

(* No connection is written past the end of a table of                     *)
(* MAX_PENDING_REQUESTS connections.                                       *)
PendingFitsTable == pc # "overrun"

(* The event loop implements the cycle of the README.                      *)
OpenCamera == IF \E i \in Cameras : open[i] THEN CHOOSE i \in Cameras : open[i] ELSE NULL

Cycle == INSTANCE PollCycle WITH
  busy <- OpenCamera,
  turn <- cameraIterator,
  table <- [s \in Cameras |-> lastImage[s].cam],
  stopped <- shutdown \/ pc \in {"cleanup", "exited", "killed", "overrun"}

ImplementsPollCycle == Cycle!CycleSpec

-----------------------------------------------------------------------------
(* Liveness.  The adapter's thread keeps running; it only blocks in        *)
(* epoll_wait, which returns when an edge is pending.                      *)

AdapterFairness == WF_vars(Adapter)

(* The DVR sends a finite amount and then closes the connection (README):  *)
(* a connection does not stay without an end.                              *)
DeviceFairness ==
  WF_vars(link # "fin" /\ (DeviceAccepts \/ DeviceCloses \/ DeviceFails))

FairSpec == Spec /\ AdapterFairness /\ DeviceFairness

Stopping == shutdown \/ pc \in {"cleanup", "exited", "killed", "overrun"}

(* A signal stops the adapter, whatever the clients do and however the     *)
(* connections end (that each call of rsva11001_connection_process ends is *)
(* ConnectionsEnd of CameraConnection), unless it is killed before.        *)
SignalStopsAdapter == (SIGFD_ID \in ready) ~> (pc \in {"exited", "killed"})

(* The round robin goes on: every camera has its turn again and again,     *)
(* unless the adapter stops. The wait in epoll_wait has no timeout, so     *)
(* this rests on DeviceFairness.                                           *)
EveryCameraGetsItsTurn ==
  \A i \in Cameras : []<>(activeCamera = i \/ Stopping)

-----------------------------------------------------------------------------
(* What a DVR does that does not let its images be read: it refuses a      *)
(* connection; it closes, fails or sends more than the receive buffer      *)
(* holds while an image is awaited or waits to be read; it lets an image   *)
(* be followed by an empty one or by one larger than the caller's buffer.  *)
Impatient ==
  \/ link = "syn" /\ link' \in {"fin", "err"}
  \/ link \in {"up", "image", "big"} /\ link' \in {"fin", "err", "fatal"}
  \/ link = "image" /\ link' \in {"up", "big"}

Turn(i, A) == activeCamera = i /\ A
StoresImage == \E e \in batch : CameraImage(e)

(* From some time on the DVR is patient and sends an image to whoever      *)
(* waits; each camera sends images that fit again and again, and storing   *)
(* them does not fail every time.                                          *)
Patience ==
  /\ <>[][~Impatient]_vars
  /\ WF_vars(link = "up" /\ (DeviceSendsImage \/ DeviceSendsBigImage))
  /\ \A i \in Cameras :
       /\ SF_vars(Turn(i, link = "up" /\ DeviceSendsImage))
       /\ SF_vars(Turn(i, StoresImage))

(* Every waiting request is answered when the next image of its camera is  *)
(* stored, if the adapter is not stopped and the DVR is patient.           *)
WaitersAreServed ==
  Patience =>
  \A c \in Clients : client[c] = "waiting" ~> (client[c] # "waiting" \/ Stopping)
=============================================================================
