----------------------------- MODULE MCReactor -----------------------------
(* Reactor on small instances.                                             *)
EXTENDS Reactor, TLC

SomeRequests ==
  { [valid |-> FALSE, source |-> 0, wait |-> FALSE],
    [valid |-> TRUE, source |-> numCameras, wait |-> TRUE] }
  \cup [valid : {TRUE}, source : {0}, wait : BOOLEAN]

WaitingRequests == { [valid |-> TRUE, source |-> 0, wait |-> TRUE] }

ClientSymmetry == Permutations(Clients)
=============================================================================
