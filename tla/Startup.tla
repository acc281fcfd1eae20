------------------------------ MODULE Startup ------------------------------
(***************************************************************************)
(* main() around the event loop: the environment is read, descriptors, the *)
(* camera connections and the SCGI server are set up one after the other,  *)
(* each step may fail, and the way out releases what was set up.           *)
(*                                                                         *)
(* A text of the environment is known by whether it is there and by the    *)
(* arrays it fits: "short" fits every array (63 characters), "medium" only *)
(* globals.host (255), "long" none.  RSVA11001_NUM_CAMERAS is missing, a   *)
(* number, or a text that is not a number.                                 *)
(***************************************************************************)
EXTENDS Integers

CONSTANT MAX_NUM_CAMERAS

ASSUME CameraAssumption == MAX_NUM_CAMERAS \in Nat \ {0}

Texts == {"missing", "short", "medium", "long"}
Missing == -1
NotANumber == -2
Numbers == 0 .. (MAX_NUM_CAMERAS + 1)

Slots == 0 .. (MAX_NUM_CAMERAS - 1)
Descriptors == {"signalFd", "epollFd"}

VARIABLES
  env,        \* the environment
  pc,         \* the next step of main
  numCameras, \* globals.numCameras
  conns,      \* globals.conns: "null" or "alive"
  server,     \* globals.server: "null", "alive", or "dangling" after free
  fds,        \* open descriptors
  watched,    \* descriptors in the epoll set
  exitCode,   \* what main returns
  fault       \* how the process was killed instead, or "none"

vars == <<env, pc, numCameras, conns, server, fds, watched, exitCode, fault>>
resources == <<conns, server, fds, watched>>

Init ==
  /\ env \in [host : Texts, password : Texts, username : Texts,
              cameras : Numbers \cup {Missing, NotANumber}]
  /\ pc = "config" /\ numCameras = 0
  /\ conns = [i \in Slots |-> "null"]
  /\ server = "null" /\ fds = {} /\ watched = {}
  /\ exitCode = 0 /\ fault = "none"

Return(code) == pc' = "exited" /\ exitCode' = code /\ UNCHANGED <<env, fault>>
Goto(step) == pc' = step /\ UNCHANGED <<env, exitCode, fault>>
Killed(how) == pc' = "exited" /\ fault' = how /\ UNCHANGED <<env, exitCode>>

-----------------------------------------------------------------------------
(* readConfiguration.  The user name is not checked, and no length is.     *)

Incomplete ==
  env.host = "missing" \/ env.password = "missing" \/ env.cameras = Missing

FitsArrays ==
  /\ env.host \in {"short", "medium"}
  /\ env.password = "short" /\ env.username = "short"

(* strtoul gives 0 for a text that is not a number.                        *)
Parsed == IF env.cameras = NotANumber THEN 0 ELSE env.cameras

(* The texts are copied.  One that does not fit runs into the arrays after *)
(* it, which are set again later or never read with such a text, and past  *)
(* globals when it is long enough: main goes on, or is killed.             *)
TextsCopied == pc = "config" /\ ~Incomplete /\ env.username # "missing"

ConfigurationRefused ==
  /\ \/ pc = "config" /\ Incomplete
     \/ TextsCopied /\ Parsed >= MAX_NUM_CAMERAS
  /\ Return(1)
  /\ UNCHANGED <<numCameras, resources>>

(* strcpy from NULL, or past the end of an array.                          *)
ConfigurationKills ==
  /\ pc = "config" /\ ~Incomplete /\ ~FitsArrays
  /\ Killed(IF env.username = "missing" THEN "null" ELSE "overrun")
  /\ UNCHANGED <<numCameras, resources>>

ReadConfiguration ==
  /\ TextsCopied /\ Parsed < MAX_NUM_CAMERAS
  /\ numCameras' = Parsed
  /\ Goto("signal")
  /\ UNCHANGED resources

-----------------------------------------------------------------------------
SetupSignalFd ==
  /\ pc = "signal"
  /\ \/ fds' = fds \cup {"signalFd"} /\ Goto("epoll")
     \/ UNCHANGED fds /\ Return(1)
  /\ UNCHANGED <<numCameras, conns, server, watched>>

(* epoll_create1 and epoll_ctl may each fail.                              *)
SetupEpollFd ==
  /\ pc = "epoll"
  /\ \/ /\ fds' = fds \cup {"epollFd"} /\ watched' = {"signalFd"}
        /\ Goto("cameras")
     \/ /\ fds' \in {fds, fds \cup {"epollFd"}} /\ UNCHANGED watched
        /\ Return(1)
  /\ UNCHANGED <<numCameras, conns, server>>

Configured == {i \in Slots : conns[i] = "alive"}

(* Mutant: only the host is range checked.                                 *)
AcceptsHost == env.host = "short"

(* configure takes texts of at most 63 characters.  A text that ran into   *)
(* another array is itself still too long there.                           *)
Accepts == env.host = "short" /\ env.username = "short" /\ env.password = "short"

(* The loop of setupCameraConnections: malloc and configure.               *)
SetupCamera(i) ==
  /\ pc = "cameras" /\ i < numCameras
  /\ conns[i] = "null" /\ \A j \in Slots : j < i => conns[j] = "alive"
  /\ \/ /\ Accepts
        /\ conns' = [conns EXCEPT ![i] = "alive"]
        /\ Goto("cameras")
     \/ UNCHANGED conns /\ Return(1)
  /\ UNCHANGED <<numCameras, server, fds, watched>>

(* Mutant: the loop ends one camera early.                                 *)
CamerasDoneEarly ==
  /\ pc = "cameras" /\ \A i \in Slots : i < numCameras - 1 => conns[i] = "alive"
  /\ Goto("scgi")
  /\ UNCHANGED <<numCameras, resources>>

CamerasDone ==
  /\ pc = "cameras" /\ \A i \in Slots : i < numCameras => conns[i] = "alive"
  /\ Goto("scgi")
  /\ UNCHANGED <<numCameras, resources>>

(* Mutant: the label stands before closeScgiServer.                        *)
SetupScgiServerClosed ==
  /\ pc = "scgi"
  /\ \/ server' = "alive" /\ watched' = watched \cup {"server"} /\ Goto("reactor")
     \/ server' \in {"null", "dangling"} /\ UNCHANGED watched /\ Goto("closeScgi")
  /\ UNCHANGED <<numCameras, conns, fds>>

(* sg_server_malloc fails; sg_server_init, the descriptor or epoll_ctl     *)
(* fails and the server is freed, its pointer kept; or all is well.        *)
SetupScgiServer ==
  /\ pc = "scgi"
  /\ \/ server' = "alive" /\ watched' = watched \cup {"server"} /\ Goto("reactor")
     \/ server' \in {"null", "dangling"} /\ UNCHANGED watched /\ Goto("cleanUpFds")
  /\ UNCHANGED <<numCameras, conns, fds>>

(* reactor() returns (its result is not looked at), unless the assertion   *)
(* of its first openNextCameraConnection fails.                            *)
RunReactor ==
  /\ pc = "reactor"
  /\ IF conns[0] = "null" THEN Killed("assert") ELSE Goto("closeScgi")
  /\ UNCHANGED <<numCameras, resources>>

-----------------------------------------------------------------------------
CloseScgiServer ==
  /\ pc = "closeScgi"
  /\ IF server = "alive" THEN server' = "null" /\ Goto("cleanUpFds")
     ELSE UNCHANGED server /\ Killed("serverGone")
  /\ UNCHANGED <<numCameras, conns, fds, watched>>

CleanUpFds ==
  /\ pc = "cleanUpFds"
  /\ fds' = {} /\ watched' = {}
  /\ Goto("cleanUpCameras")
  /\ UNCHANGED <<numCameras, conns, server>>

(* Mutant: the last camera is left out.                                    *)
CleanupAllButLast ==
  /\ pc = "cleanUpCameras"
  /\ conns' = [i \in Slots |-> IF i < numCameras - 1 THEN "null" ELSE conns[i]]
  /\ Return(0)
  /\ UNCHANGED <<numCameras, server, fds, watched>>

(* cleanupCameraConnections and rsva11001_connection_destroy.              *)
CleanupCameraConnections ==
  /\ pc = "cleanUpCameras"
  /\ IF \E i \in Slots : i < numCameras /\ conns[i] = "null"
     THEN UNCHANGED conns /\ Killed("connectionGone")
     ELSE /\ conns' = [i \in Slots |-> IF i < numCameras THEN "null" ELSE conns[i]]
          /\ Return(0)
  /\ UNCHANGED <<numCameras, server, fds, watched>>

Exited == pc = "exited" /\ UNCHANGED vars

Next ==
  \/ ConfigurationRefused \/ ConfigurationKills \/ ReadConfiguration
  \/ SetupSignalFd \/ SetupEpollFd
  \/ (\E i \in Slots : SetupCamera(i)) \/ CamerasDone
  \/ SetupScgiServer \/ RunReactor
  \/ CloseScgiServer \/ CleanUpFds \/ CleanupCameraConnections
  \/ Exited

Spec == Init /\ [][Next]_vars

-----------------------------------------------------------------------------
(* The event loop starts with all it needs: the signal and the server are  *)
(* watched, and every camera it will index has a connection.  A text that  *)
(* was copied past its array never reaches an event loop with cameras.     *)
ReactorIsReady ==
  pc = "reactor" =>
    /\ fds = Descriptors /\ watched = {"signalFd", "server"} /\ server = "alive"
    /\ Configured = 0 .. (numCameras - 1)
    /\ numCameras > 0 => FitsArrays

(* The way out never touches a server or a connection that is not there,   *)
(* whichever step failed.                                                  *)
CleanupIsSafe == fault \notin {"serverGone", "connectionGone"}

(* When main returns 0 everything has been released.                       *)
ExitReleases ==
  pc = "exited" /\ fault = "none" /\ exitCode = 0 =>
    fds = {} /\ Configured = {} /\ server # "alive"

(* The assertion of openNextCameraConnection that there is a camera.       *)
ActiveCameraExists == fault # "assert"
=============================================================================
