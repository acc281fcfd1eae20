----------------------------- MODULE PollCycle -----------------------------
(***************************************************************************)
(* What the adapter promises the DVR and the readers of its images: the    *)
(* round-robin cycle of the README.  The DVR serves one client at a time,  *)
(* so there is never more than one connection; cameras take turns in a     *)
(* fixed order; an image is published only at the end of its camera's      *)
(* turn, under the entry that always belongs to that camera; once the      *)
(* adapter has decided to stop, no turn begins.  A process that ends in    *)
(* the middle of a turn leaves no connection and publishes nothing.        *)
(***************************************************************************)
EXTENDS Integers

CONSTANT numCameras

Cameras == 0 .. (numCameras - 1)
Nobody == -1

VARIABLES
  busy,    \* the camera whose connection is open, or Nobody
  turn,    \* the camera whose turn comes next
  table,   \* the camera whose image is published under each entry, or Nobody
  stopped  \* the adapter has decided to stop

cycleVars == <<busy, turn, table, stopped>>

CycleInit ==
  /\ busy = Nobody
  /\ turn = 0
  /\ table = [s \in Cameras |-> Nobody]
  /\ stopped = FALSE

NextTurn == turn' = IF turn = numCameras - 1 THEN 0 ELSE turn + 1

Connect ==
  /\ ~stopped /\ busy = Nobody
  /\ busy' = turn
  /\ NextTurn
  /\ stopped' \in BOOLEAN
  /\ UNCHANGED table

CannotConnect ==
  /\ ~stopped /\ busy = Nobody
  /\ stopped' = TRUE
  /\ NextTurn
  /\ UNCHANGED <<busy, table>>

Disconnect ==
  /\ busy # Nobody
  /\ busy' = Nobody
  /\ UNCHANGED <<turn, table, stopped>>

Publish ==
  /\ busy # Nobody
  /\ busy' = Nobody
  /\ table' = [table EXCEPT ![turn] = busy]
  /\ UNCHANGED <<turn, stopped>>

Stop ==
  /\ ~stopped
  /\ stopped' = TRUE
  /\ UNCHANGED <<busy, turn, table>>

Die ==
  /\ busy # Nobody
  /\ busy' = Nobody
  /\ stopped' = TRUE
  /\ UNCHANGED <<turn, table>>

CycleNext ==
  Connect \/ CannotConnect \/ Disconnect \/ Publish \/ Stop \/ Die

CycleSpec == CycleInit /\ [][CycleNext]_cycleVars
=============================================================================
