----------------------------- MODULE ImageStore -----------------------------
(***************************************************************************)
(* What the table of last images promises to the replies that are made     *)
(* from it: at every moment an entry shows nothing or one whole image, a   *)
(* new image takes the place of the old one in a single step, no image is  *)
(* under two entries, and only a restart of the adapter takes one away.    *)
(* ImageFile reaches this with six system calls of which any may fail;     *)
(* Reactor takes it for one assignment.                                    *)
(***************************************************************************)
CONSTANTS
  Cameras,  \* entries of globals.lastImage
  Pictures, \* whole images
  Nothing   \* what an entry shows that was never written

VARIABLE shown \* what a reply with the entry would carry

Empty == [c \in Cameras |-> Nothing]

Init == shown = Empty

Publish(c, p) ==
  /\ \A d \in Cameras : p # shown[d]
  /\ shown' = [shown EXCEPT ![c] = p]

Restart == shown' = Empty

Next == Restart \/ \E c \in Cameras, p \in Pictures : Publish(c, p)

Spec == Init /\ [][Next]_shown
=============================================================================
