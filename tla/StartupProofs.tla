--------------------------- MODULE StartupProofs ---------------------------
(***************************************************************************)
(* Proofs about Startup for every number of slots for cameras.             *)
(***************************************************************************)
EXTENDS Startup, TLAPS

(* Which steps have everything before them done.                           *)
BeforeCameras == {"config", "signal", "epoll"}
AfterCameras == {"scgi", "reactor", "closeScgi", "cleanUpFds", "cleanUpCameras"}
Steps == BeforeCameras \cup AfterCameras \cup {"cameras", "exited"}

Types ==
  /\ env.cameras \in Numbers \cup {Missing, NotANumber}
  /\ pc \in Steps
  /\ numCameras \in 0 .. (MAX_NUM_CAMERAS - 1)
  /\ conns \in [Slots -> {"null", "alive"}]
  /\ exitCode \in {0, 1}

(* A connection is only made for a camera there is, from texts that fit;   *)
(* from the server on every camera has one.                                *)
ConnsInv ==
  /\ \A i \in Slots : conns[i] = "alive" => i < numCameras /\ FitsArrays
  /\ pc \in BeforeCameras => \A i \in Slots : conns[i] = "null"
  /\ pc \in AfterCameras => \A i \in Slots : i < numCameras => conns[i] = "alive"

ServerInv ==
  /\ pc \in BeforeCameras \cup {"cameras", "scgi"} => server = "null"
  /\ pc \in {"reactor", "closeScgi"} => server = "alive"
  /\ pc \in {"cleanUpFds", "cleanUpCameras"} => server # "alive"

FdsInv ==
  /\ pc \in {"config", "signal"} => fds = {}
  /\ pc = "epoll" => fds = {"signalFd"}
  /\ pc \in {"cameras", "scgi", "reactor"} => fds = Descriptors
  /\ pc \in {"cameras", "scgi"} => watched = {"signalFd"}
  /\ pc = "reactor" => watched = {"signalFd", "server"}
  /\ pc = "cleanUpCameras" => fds = {}

StartInv == Types /\ ConnsInv /\ ServerInv /\ FdsInv /\ CleanupIsSafe /\ ExitReleases

LEMMA StartStep == StartInv /\ [Next]_vars => StartInv'
<1> SUFFICES ASSUME StartInv, [Next]_vars PROVE StartInv'
  OBVIOUS
<1> USE DEF StartInv, Types, Steps, BeforeCameras, AfterCameras
<1>0. FitsArrays' = FitsArrays
  BY DEF FitsArrays, Next, ConfigurationRefused, ConfigurationKills, ReadConfiguration,
     SetupSignalFd, SetupEpollFd, SetupCamera, CamerasDone, SetupScgiServer, RunReactor,
     CloseScgiServer, CleanUpFds, CleanupCameraConnections, Exited, Return, Goto, Killed, vars
<1>1. CASE ConfigurationRefused
  <2>1. Types' /\ ConnsInv'
    BY <1>0, <1>1 DEF ConfigurationRefused, TextsCopied, Return, resources, ConnsInv
  <2>2. ServerInv' /\ FdsInv'
    BY <1>1 DEF ConfigurationRefused, TextsCopied, Return, resources, ServerInv, FdsInv
  <2>3. CleanupIsSafe' /\ ExitReleases'
    BY <1>1 DEF ConfigurationRefused, TextsCopied, Return, resources, CleanupIsSafe, ExitReleases
  <2> QED BY <2>1, <2>2, <2>3
<1>2. CASE ConfigurationKills
  <2>1. Types' /\ ConnsInv'
    BY <1>0, <1>2 DEF ConfigurationKills, Killed, resources, ConnsInv
  <2>2. ServerInv' /\ FdsInv'
    BY <1>2 DEF ConfigurationKills, Killed, resources, ServerInv, FdsInv
  <2>3. CleanupIsSafe' /\ ExitReleases'
    BY <1>2 DEF ConfigurationKills, Killed, resources, CleanupIsSafe, ExitReleases
  <2> QED BY <2>1, <2>2, <2>3
<1>3. CASE ReadConfiguration
  <2>0. Parsed \in 0 .. (MAX_NUM_CAMERAS - 1)
    BY <1>3, CameraAssumption
       DEF ReadConfiguration, TextsCopied, Incomplete, Parsed, Numbers, Missing, NotANumber
  <2>1. Types' /\ ConnsInv'
    BY <1>0, <1>3, <2>0 DEF ReadConfiguration, TextsCopied, Goto, resources, ConnsInv
  <2>2. ServerInv' /\ FdsInv'
    BY <1>3 DEF ReadConfiguration, TextsCopied, Goto, resources, ServerInv, FdsInv
  <2>3. CleanupIsSafe' /\ ExitReleases'
    BY <1>3 DEF ReadConfiguration, TextsCopied, Goto, resources, CleanupIsSafe, ExitReleases
  <2> QED BY <2>1, <2>2, <2>3
<1>4. CASE SetupSignalFd
  <2>1. Types' /\ ConnsInv'
    BY <1>0, <1>4 DEF SetupSignalFd, Return, Goto, ConnsInv
  <2>2. ServerInv' /\ FdsInv'
    BY <1>4 DEF SetupSignalFd, Return, Goto, ServerInv, FdsInv
  <2>3. CleanupIsSafe' /\ ExitReleases'
    BY <1>4 DEF SetupSignalFd, Return, Goto, CleanupIsSafe, ExitReleases
  <2> QED BY <2>1, <2>2, <2>3
<1>5. CASE SetupEpollFd
  <2>1. Types' /\ ConnsInv'
    BY <1>0, <1>5 DEF SetupEpollFd, Return, Goto, Descriptors, ConnsInv
  <2>2. ServerInv' /\ FdsInv'
    BY <1>5 DEF SetupEpollFd, Return, Goto, Descriptors, ServerInv, FdsInv
  <2>3. CleanupIsSafe' /\ ExitReleases'
    BY <1>5 DEF SetupEpollFd, Return, Goto, Descriptors, CleanupIsSafe, ExitReleases
  <2> QED BY <2>1, <2>2, <2>3
<1>6. ASSUME NEW i \in Slots, SetupCamera(i) PROVE StartInv'
  <2>1. Types' /\ ConnsInv'
    BY <1>0, <1>6 DEF SetupCamera, Accepts, FitsArrays, Return, Goto, ConnsInv
  <2>2. ServerInv' /\ FdsInv'
    BY <1>6 DEF SetupCamera, Return, Goto, ServerInv, FdsInv
  <2>3. CleanupIsSafe' /\ ExitReleases'
    BY <1>6 DEF SetupCamera, Return, Goto, CleanupIsSafe, ExitReleases
  <2> QED BY <2>1, <2>2, <2>3
<1>7. CASE CamerasDone
  <2>1. Types' /\ ConnsInv'
    BY <1>0, <1>7 DEF CamerasDone, Goto, resources, ConnsInv
  <2>2. ServerInv' /\ FdsInv'
    BY <1>7 DEF CamerasDone, Goto, resources, ServerInv, FdsInv
  <2>3. CleanupIsSafe' /\ ExitReleases'
    BY <1>7 DEF CamerasDone, Goto, resources, CleanupIsSafe, ExitReleases
  <2> QED BY <2>1, <2>2, <2>3
<1>8. CASE SetupScgiServer
  <2>1. Types' /\ ConnsInv'
    BY <1>0, <1>8 DEF SetupScgiServer, Goto, ConnsInv
  <2>2. ServerInv' /\ FdsInv'
    BY <1>8 DEF SetupScgiServer, Goto, ServerInv, FdsInv
  <2>3. CleanupIsSafe' /\ ExitReleases'
    BY <1>8 DEF SetupScgiServer, Goto, CleanupIsSafe, ExitReleases
  <2> QED BY <2>1, <2>2, <2>3
<1>9. CASE RunReactor
  <2>1. Types' /\ ConnsInv'
    BY <1>0, <1>9 DEF RunReactor, Goto, Killed, resources, ConnsInv
  <2>2. ServerInv' /\ FdsInv'
    BY <1>9 DEF RunReactor, Goto, Killed, resources, ServerInv, FdsInv
  <2>3. CleanupIsSafe' /\ ExitReleases'
    BY <1>9 DEF RunReactor, Goto, Killed, resources, CleanupIsSafe, ExitReleases
  <2> QED BY <2>1, <2>2, <2>3
<1>10. CASE CloseScgiServer
  <2>1. Types' /\ ConnsInv'
    BY <1>0, <1>10 DEF CloseScgiServer, Goto, Killed, ConnsInv
  <2>2. ServerInv' /\ FdsInv'
    BY <1>10 DEF CloseScgiServer, Goto, Killed, ServerInv, FdsInv
  <2>3. CleanupIsSafe' /\ ExitReleases'
    BY <1>10 DEF CloseScgiServer, Goto, Killed, ServerInv, CleanupIsSafe, ExitReleases
  <2> QED BY <2>1, <2>2, <2>3
<1>11. CASE CleanUpFds
  <2>1. Types' /\ ConnsInv'
    BY <1>0, <1>11 DEF CleanUpFds, Goto, ConnsInv
  <2>2. ServerInv' /\ FdsInv'
    BY <1>11 DEF CleanUpFds, Goto, ServerInv, FdsInv
  <2>3. CleanupIsSafe' /\ ExitReleases'
    BY <1>11 DEF CleanUpFds, Goto, CleanupIsSafe, ExitReleases
  <2> QED BY <2>1, <2>2, <2>3
<1>12. CASE CleanupCameraConnections
  <2>1. conns' = [i \in Slots |-> IF i < numCameras THEN "null" ELSE conns[i]] /\ Return(0)
    BY <1>12 DEF CleanupCameraConnections, ConnsInv
  <2>2. \A i \in Slots : conns'[i] = "null"
    BY <2>1 DEF ConnsInv
  <2>3. Configured' = {}
    BY <2>2 DEF Configured
  <2>4. UNCHANGED <<numCameras, server, fds, watched>> /\ pc = "cleanUpCameras"
    BY <1>12 DEF CleanupCameraConnections
  <2>5. Types' /\ ConnsInv'
    BY <1>0, <2>1, <2>2, <2>4 DEF Return, ConnsInv
  <2>6. ServerInv' /\ FdsInv'
    BY <2>1, <2>4 DEF Return, ServerInv, FdsInv
  <2>7. CleanupIsSafe' /\ ExitReleases'
    BY <2>1, <2>3, <2>4 DEF Return, CleanupIsSafe, ExitReleases, ServerInv, FdsInv
  <2> QED BY <2>5, <2>6, <2>7
<1>13. CASE Exited \/ UNCHANGED vars
  BY <1>0, <1>13 DEF Exited, vars, Configured,
     ConnsInv, ServerInv, FdsInv, CleanupIsSafe, ExitReleases
<1> QED
  BY <1>1, <1>2, <1>3, <1>4, <1>5, <1>6, <1>7, <1>8, <1>9, <1>10,
     <1>11, <1>12, <1>13 DEF Next

LEMMA StartCorrect == Spec => []StartInv
<1>1. Init => StartInv
  BY CameraAssumption DEF Init, StartInv, Types, Steps, BeforeCameras, AfterCameras,
     ConnsInv, ServerInv, FdsInv, CleanupIsSafe, ExitReleases
<1> QED BY <1>1, StartStep, PTL DEF Spec

(* Whatever the environment and however many slots there are, the event    *)
(* loop finds its descriptors, the server and every connection in place,   *)
(* and with a camera to poll no text was copied past its array.            *)
THEOREM ReactorStartsReady == Spec => []ReactorIsReady
<1>1. StartInv => ReactorIsReady
  <2> SUFFICES ASSUME StartInv, pc = "reactor" PROVE ReactorIsReady
    BY DEF ReactorIsReady
  <2>1. fds = Descriptors /\ watched = {"signalFd", "server"} /\ server = "alive"
    BY DEF StartInv, FdsInv, ServerInv
  <2>2. \A i \in Slots : conns[i] = "alive" <=> i < numCameras
    BY DEF StartInv, ConnsInv, AfterCameras
  <2>3. Configured = 0 .. (numCameras - 1)
    BY <2>2, CameraAssumption DEF StartInv, Types, Configured, Slots
  <2>4. numCameras > 0 => FitsArrays
    <3>1. numCameras > 0 => 0 \in Slots /\ conns[0] = "alive"
      BY <2>2, CameraAssumption DEF StartInv, Types, Slots
    <3> QED BY <3>1 DEF StartInv, ConnsInv
  <2> QED BY <2>1, <2>3, <2>4 DEF ReactorIsReady
<1> QED BY <1>1, StartCorrect, PTL

(* The labels of main stand in an order in which nothing is released that  *)
(* is not there.                                                           *)
THEOREM CleanupSafe == Spec => []CleanupIsSafe
<1>1. StartInv => CleanupIsSafe
  BY DEF StartInv
<1> QED BY <1>1, StartCorrect, PTL

(* A main that returns 0 has released everything.                          *)
THEOREM ExitHasReleased == Spec => []ExitReleases
<1>1. StartInv => ExitReleases
  BY DEF StartInv
<1> QED BY <1>1, StartCorrect, PTL
=============================================================================
