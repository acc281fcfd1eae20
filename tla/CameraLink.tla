----------------------------- MODULE CameraLink -----------------------------
(***************************************************************************)
(* What the event loop relies on in a camera connection.  The event loop   *)
(* (Reactor) knows a connection by its link, the result its next call of   *)
(* rsva11001_connection_process and _getLatestImage will have, and by the  *)
(* edge that announces that the result may have changed.  A call takes no  *)
(* time here.                                                              *)
(***************************************************************************)

VARIABLES
  link,    \* as in Reactor
  edge,    \* an edge that epoll_wait has not returned
  turn,    \* "closed", "waiting" for an event, "handling" one, "stopped", or
           \* "killed" with the process
  outcome  \* how the last connection ended

linkVars == <<link, edge, turn, outcome>>

LinkInit ==
  /\ link = "none" /\ edge = FALSE /\ turn = "closed" /\ outcome = "none"

Connect ==
  /\ turn = "closed"
  /\ link' = "syn" /\ edge' = FALSE /\ turn' = "waiting" /\ outcome' = "none"

(* What the DVR may do to the link; all of it is announced.                *)
LinkStep ==
  { <<"syn", "up">>, <<"up", "mute">> }
  \cup {<<l, l>> : l \in {"mute", "fatal"}}
  \cup ({"up", "image", "big"} \X {"up", "image", "big", "fatal"})
  \cup {<<l, "fin">> : l \in {"up", "mute", "image", "big"}}
  \cup {<<l, "err">> : l \in {"syn", "up", "mute", "image", "big", "fatal", "fin"}}

Device ==
  /\ \/ <<link, link'>> \in LinkStep
     \/ link # "none" /\ link' = link
  /\ edge' = TRUE
  /\ UNCHANGED <<turn, outcome>>

TakeEvent ==
  /\ turn = "waiting" /\ edge
  /\ edge' = FALSE /\ turn' = "handling"
  /\ UNCHANGED <<link, outcome>>

(* The connection is kept only while nothing can be said of it yet.        *)
Idle ==
  /\ turn = "handling" /\ link \in {"syn", "up", "mute"}
  /\ turn' = "waiting"
  /\ UNCHANGED <<link, edge, outcome>>

Drop ==
  /\ turn = "handling" /\ link \in {"big", "fin", "err"}
  /\ link' = "none" /\ edge' = FALSE /\ turn' = "closed" /\ outcome' = "dropped"

Deliver ==
  /\ turn = "handling" /\ link = "image"
  /\ link' = "none" /\ edge' = FALSE /\ turn' = "closed" /\ outcome' = "image"

(* The process ends in the call: in an assertion of the receiver, or with  *)
(* SIGPIPE.                                                                *)
Kill ==
  /\ turn = "handling" /\ link \in {"fatal", "err"}
  /\ turn' = "killed" /\ link' = "none" /\ edge' = FALSE
  /\ UNCHANGED outcome

(* The connection cannot be opened, or not be closed.                      *)
Stop ==
  /\ \/ turn = "closed"
     \/ turn = "handling" /\ link \notin {"syn", "up", "mute", "fatal"}
  /\ turn' = "stopped" /\ link' = "none" /\ edge' = FALSE
  /\ UNCHANGED outcome

LinkNext == Connect \/ Device \/ TakeEvent \/ Idle \/ Drop \/ Deliver \/ Kill \/ Stop

LinkSpec == LinkInit /\ [][LinkNext]_linkVars
=============================================================================
