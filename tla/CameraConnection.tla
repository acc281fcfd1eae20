-------------------------- MODULE CameraConnection --------------------------
(***************************************************************************)
(* One camera connection (rsva11001.c: open, process, close) and its       *)
(* socket, as the event loop drives it.  An action is one system call: the *)
(* DVR and the kernel act between any two of them.  The socket is          *)
(* registered for edge-triggered events, so whatever process leaves        *)
(* undone is only taken up again if a further edge comes.                  *)
(*                                                                         *)
(* What the body says is abstracted to segments (BodySegments);            *)
(* JpegReceiver is about their bytes.                                      *)
(***************************************************************************)
EXTENDS Integers, Sequences, FiniteSetsExt, BodySegments

CONSTANTS
  outputLength,  \* bytes of the request
  SendRoom,      \* bytes the kernel takes before send says EAGAIN
  MaxInbox       \* bound: segments received by the kernel and not read

ASSUME RequestAssumption == outputLength \in Nat \ {0}
ASSUME KernelAssumption == SendRoom \in Nat \ {0} /\ MaxInbox \in Nat

VARIABLES
  pc,           \* where the thread is
  sockfd,       \* sockfd # -1
  connected,    \* as in the code
  bytesWritten, \* of the request
  body,         \* what parser and receiver made of the data: the image that
                \* getLatestImage would find, and how they stand
  outcome,      \* how the last connection ended
  tcp,          \* state of the socket; "failed": calls return an error
  room,         \* free space of the send buffer
  nospace,      \* send has said EAGAIN: an edge will announce free space
  inbox,        \* received segments
  fin,          \* the DVR has closed
  edge          \* an edge that epoll_wait has not returned

sockVars == <<tcp, room, nospace, inbox, fin>>
connVars == <<sockfd, connected, bytesWritten, body, outcome>>
vars == <<pc, sockfd, connected, bytesWritten, body, outcome,
          tcp, room, nospace, inbox, fin, edge>>

Init ==
  /\ pc = "closed"
  /\ sockfd = FALSE /\ connected = FALSE /\ bytesWritten = 0
  /\ body = NoBody /\ outcome = "none"
  /\ tcp = "none" /\ room = SendRoom /\ nospace = FALSE
  /\ inbox = << >> /\ fin = FALSE /\ edge = FALSE

-----------------------------------------------------------------------------
(* rsva11001_connection_open and the registration with epoll.              *)
Open ==
  /\ pc = "closed" /\ ~sockfd
  /\ pc' = "wait"
  /\ sockfd' = TRUE /\ connected' = FALSE /\ bytesWritten' = 0
  /\ body' = NoBody /\ outcome' = "none"
  /\ tcp' = "connecting" /\ room' = SendRoom /\ nospace' = FALSE
  /\ inbox' = << >> /\ fin' = FALSE /\ edge' = FALSE

(* socket, getaddrinfo, connect or malloc fails and the socket is closed   *)
(* again; or the request does not fit its buffer, or epoll_ctl fails, and  *)
(* it is not.  The event loop stops.                                       *)
OpenFails ==
  /\ pc = "closed"
  /\ pc' = "stopped"
  /\ sockfd' \in BOOLEAN
  /\ UNCHANGED <<connected, bytesWritten, body, outcome, sockVars, edge>>

(* epoll_wait returns the edge.  On ERR or HUP the event loop gives the    *)
(* connection up without a call of process.                                *)
EpollWait ==
  /\ pc = "wait" /\ edge
  /\ edge' = FALSE
  /\ pc' = IF tcp = "failed" THEN "close" ELSE "process"
  /\ UNCHANGED <<connVars, sockVars>>

-----------------------------------------------------------------------------
(* rsva11001_connection_process.  Mutants stand before what they replace.  *)

At(place) == pc = place /\ UNCHANGED <<sockfd, outcome, tcp, fin, edge>>

(* poll says that the socket is not writable yet: nothing to do.           *)
StillConnecting ==
  /\ At("process") /\ ~connected /\ tcp = "connecting"
  /\ pc' = "result"
  /\ UNCHANGED <<connected, bytesWritten, body, room, nospace, inbox>>

(* SO_ERROR is set.                                                        *)
ConnectFailed ==
  /\ At("process") /\ ~connected /\ tcp = "failed"
  /\ pc' = "close"
  /\ UNCHANGED <<connected, bytesWritten, body, room, nospace, inbox>>

(* The connection is good, or was found good in an earlier call.           *)
CheckedConnection ==
  /\ At("process") /\ (connected \/ tcp = "established")
  /\ connected' = TRUE
  /\ pc' = "send"
  /\ UNCHANGED <<bytesWritten, body, room, nospace, inbox>>

Unsent == outputLength - bytesWritten

(* Mutant: what was sent before is not taken off.                          *)
SendAgain ==
  /\ At("send") /\ Unsent > 0 /\ tcp # "failed" /\ room > 0
  /\ LET n == IF room < outputLength THEN room ELSE outputLength
     IN  bytesWritten' = bytesWritten + n /\ room' = room - n
  /\ UNCHANGED <<pc, connected, body, nospace, inbox>>

(* send takes what there is room for, and the loop goes on.                *)
Send ==
  /\ At("send") /\ Unsent > 0 /\ tcp # "failed" /\ room > 0
  /\ LET n == IF room < Unsent THEN room ELSE Unsent
     IN  bytesWritten' = bytesWritten + n /\ room' = room - n
  /\ UNCHANGED <<pc, connected, body, nospace, inbox>>

SendBlocks ==
  /\ At("send") /\ Unsent > 0 /\ tcp # "failed" /\ room = 0
  /\ nospace' = TRUE
  /\ pc' = "recv"
  /\ UNCHANGED <<connected, bytesWritten, body, room, inbox>>

SendFails ==
  /\ At("send") /\ Unsent > 0 /\ tcp = "failed"
  /\ pc' = "close"
  /\ UNCHANGED <<connected, bytesWritten, body, room, nospace, inbox>>

(* The error is EPIPE: send is called without MSG_NOSIGNAL and SIGPIPE is  *)
(* neither blocked nor ignored, so that the process ends.                  *)
SendKills ==
  /\ At("send") /\ Unsent > 0 /\ tcp = "failed"
  /\ pc' = "killed"
  /\ UNCHANGED <<connected, bytesWritten, body, room, nospace, inbox>>

AllSent ==
  /\ At("send") /\ Unsent = 0
  /\ pc' = "recv"
  /\ UNCHANGED <<connected, bytesWritten, body, room, nospace, inbox>>

(* Mutant: one recv per call.                                              *)
RecvOnce ==
  /\ At("recv") /\ inbox # << >>
  /\ body' = Execute(body, Head(inbox))
  /\ inbox' = Tail(inbox)
  /\ body'.state # "ended"
  /\ pc' = "result"
  /\ UNCHANGED <<connected, bytesWritten, room, nospace>>

Recv ==
  /\ At("recv") /\ inbox # << >>
  /\ body' = Execute(body, Head(inbox))
  /\ inbox' = Tail(inbox)
  /\ body'.state # "ended"
  /\ UNCHANGED <<pc, connected, bytesWritten, room, nospace>>

(* An assertion of the receiver fails.                                     *)
RecvKills ==
  /\ At("recv") /\ inbox # << >>
  /\ body' = Execute(body, Head(inbox))
  /\ inbox' = Tail(inbox)
  /\ body'.state = "ended"
  /\ pc' = "killed"
  /\ UNCHANGED <<connected, bytesWritten, room, nospace>>

(* Mutant: the end of the connection is taken for the end of the data.     *)
RecvEndWaits ==
  /\ At("recv") /\ inbox = << >> /\ (fin \/ tcp = "failed")
  /\ pc' = "result"
  /\ UNCHANGED <<connected, bytesWritten, body, room, nospace, inbox>>

(* recv returns 0 or an error.                                             *)
RecvEnd ==
  /\ At("recv") /\ inbox = << >> /\ (fin \/ tcp = "failed")
  /\ pc' = "close"
  /\ UNCHANGED <<connected, bytesWritten, body, room, nospace, inbox>>

(* Mutant: EAGAIN is an error like any other.                              *)
RecvBlocksFails ==
  /\ At("recv") /\ inbox = << >> /\ ~fin /\ tcp # "failed"
  /\ pc' = "close"
  /\ UNCHANGED <<connected, bytesWritten, body, room, nospace, inbox>>

RecvBlocks ==
  /\ At("recv") /\ inbox = << >> /\ ~fin /\ tcp # "failed"
  /\ pc' = "result"
  /\ UNCHANGED <<connected, bytesWritten, body, room, nospace, inbox>>

-----------------------------------------------------------------------------
(* What the event loop makes of it.                                        *)

KeepWaiting ==
  /\ pc = "result" /\ body.offer = "none"
  /\ pc' = "wait"
  /\ UNCHANGED <<connVars, sockVars, edge>>

(* rsva11001_connection_close; with the descriptor goes its edge.          *)
Close(how) ==
  /\ pc' = "closed"
  /\ sockfd' = FALSE
  /\ outcome' = how
  /\ tcp' = "none" /\ edge' = FALSE
  /\ UNCHANGED <<connected, bytesWritten, body, room, nospace, inbox, fin>>

Deliver == pc = "result" /\ body.offer = "image" /\ Close("image")

(* process failed, or getLatestImage found an image that is too large.     *)
GiveUp ==
  /\ pc = "close" \/ (pc = "result" /\ body.offer = "big")
  /\ Close("dropped")

CloseFails ==
  /\ pc = "close" \/ (pc = "result" /\ body.offer # "none")
  /\ pc' = "stopped"
  /\ UNCHANGED <<connVars, sockVars, edge>>

(* The event loop has stopped, or the process has ended.                   *)
Over == pc \in {"stopped", "killed"}

Stopped == Over /\ UNCHANGED vars

Thread ==
  \/ Open \/ OpenFails \/ EpollWait
  \/ StillConnecting \/ ConnectFailed \/ CheckedConnection
  \/ Send \/ SendBlocks \/ SendFails \/ SendKills \/ AllSent
  \/ Recv \/ RecvKills \/ RecvEnd \/ RecvBlocks
  \/ KeepWaiting \/ Deliver \/ GiveUp \/ CloseFails

-----------------------------------------------------------------------------
(* The kernel and the DVR.                                                 *)

Alive == ~Over /\ UNCHANGED <<pc, connVars>>

Accepts ==
  /\ Alive /\ tcp = "connecting"
  /\ tcp' = "established" /\ edge' = TRUE
  /\ UNCHANGED <<room, nospace, inbox, fin>>

Sends(segment) ==
  /\ Alive /\ tcp = "established" /\ ~fin /\ Len(inbox) < MaxInbox
  /\ inbox' = Append(inbox, segment) /\ edge' = TRUE
  /\ UNCHANGED <<tcp, room, nospace, fin>>

Closes ==
  /\ Alive /\ tcp = "established" /\ ~fin
  /\ fin' = TRUE /\ edge' = TRUE
  /\ UNCHANGED <<tcp, room, nospace, inbox>>

Fails ==
  /\ Alive /\ tcp \in {"connecting", "established"}
  /\ tcp' = "failed" /\ edge' = TRUE
  /\ UNCHANGED <<room, nospace, inbox, fin>>

(* The send buffer empties; only who was told EAGAIN hears of it.          *)
Drains ==
  /\ Alive /\ tcp = "established" /\ room < SendRoom
  /\ room' \in (room + 1) .. SendRoom
  /\ nospace' = FALSE
  /\ edge' = (edge \/ nospace)
  /\ UNCHANGED <<tcp, inbox, fin>>

(* An edge with nothing behind it: epoll promises one for every change,    *)
(* not only then, and process is written for it.                           *)
Wakes ==
  /\ Alive /\ tcp # "none"
  /\ edge' = TRUE
  /\ UNCHANGED sockVars

Outside ==
  \/ Accepts \/ Closes \/ Fails \/ Drains \/ Wakes
  \/ \E s \in Segments : Sends(s)

Next == Thread \/ Outside \/ Stopped

Spec == Init /\ [][Next]_vars

-----------------------------------------------------------------------------
(* Every variable stays in its type.                                       *)
TypeOK ==
  /\ pc \in {"closed", "wait", "process", "send", "recv", "result", "close", "stopped",
            "killed"}
  /\ sockfd \in BOOLEAN /\ connected \in BOOLEAN
  /\ bytesWritten \in 0 .. outputLength
  /\ body \in [offer : {"none", "image", "big"}, state : {"ok", "error", "ended"}]
  /\ outcome \in {"none", "image", "dropped"}
  /\ tcp \in {"none", "connecting", "established", "failed"}
  /\ room \in 0 .. SendRoom /\ nospace \in BOOLEAN
  /\ inbox \in Seq(Segments)
  /\ fin \in BOOLEAN /\ edge \in BOOLEAN

(* When the event loop waits and no edge is pending, there is nothing that *)
(* process could do: no data, end or error to read, the connection noticed *)
(* if it is established, the request sent or the kernel bound to announce  *)
(* room for the rest.                                                      *)
NoLostEdge ==
  pc = "wait" /\ ~edge =>
    /\ inbox = << >> /\ ~fin /\ tcp # "failed"
    /\ tcp = "established" => connected /\ (Unsent = 0 \/ nospace)

(* README: "Wait for at least one JPEG image", "Write JPEG image to file": *)
(* a connection over which a whole image was received before the DVR       *)
(* closed it yields one.                                                   *)
ReceivedImageIsDelivered == outcome = "dropped" /\ fin => body.offer # "image"

(* The segments of q that are looked at: what follows junk is not.         *)
Heard(q) == {i \in DOMAIN q : \A j \in 1 .. (i - 1) : q[j] \notin {"junk", "fatal"}}

Images(q) == {i \in Heard(q) : q[i] \in {"image", "big", "empty"}}

(* What Execute makes of b and all segments of q, the oldest first.        *)
ExecuteAll(b, q) ==
  IF b.state # "ok" THEN b ELSE
  [offer |-> IF Images(q) = {} THEN b.offer ELSE OfferOf(q[Max(Images(q))]),
   state |-> IF \E i \in Heard(q) : q[i] = "fatal" THEN "ended"
             ELSE IF \E i \in Heard(q) : q[i] = "junk" THEN "error" ELSE "ok"]

(* The event loop may take a call of process for a single step: seen from  *)
(* it, the connection is the link of Reactor.                              *)
Pending == ExecuteAll(body, inbox)

LinkOf(b) ==
  IF b.state = "ended" THEN "fatal"
  ELSE IF b.offer # "none" THEN b.offer
  ELSE IF b.state = "error" THEN "mute" ELSE "up"

Answered == pc = "result" /\ body.offer # "none"

Gone == pc = "closed" \/ Over

linkSeen ==
  IF Gone THEN "none"
  ELSE IF Answered THEN body.offer
  ELSE IF tcp = "connecting" THEN "syn"
  ELSE IF tcp = "failed" THEN "err"
  ELSE IF fin /\ Pending.state # "ended" THEN "fin" ELSE LinkOf(Pending)

edgeSeen == edge /\ ~Gone

turnSeen ==
  CASE Gone -> pc
    [] pc = "wait" \/ (pc = "result" /\ ~Answered) -> "waiting"
    [] OTHER -> "handling"

Link == INSTANCE CameraLink WITH link <- linkSeen, edge <- edgeSeen, turn <- turnSeen

ImplementsLink == Link!LinkSpec

-----------------------------------------------------------------------------
(* The thread runs, the kernel sends what it was given, and the DVR does   *)
(* not leave a connection open for ever (README).                          *)
Fairness ==
  /\ WF_vars(Thread)
  /\ WF_vars(Drains)
  /\ WF_vars(~fin /\ (Accepts \/ Closes \/ Fails))

FairSpec == Spec /\ Fairness

(* Every connection ends and makes room for the next camera, if the        *)
(* adapter does not end before it.                                         *)
ConnectionsEnd == sockfd ~> (~sockfd \/ Over)
=============================================================================
