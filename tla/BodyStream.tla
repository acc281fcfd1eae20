----------------------------- MODULE BodyStream -----------------------------
(***************************************************************************)
(* What the receiver of images (JpegReceiver) relies on in the HTTP        *)
(* parser: the body comes in pieces that one call of recv can hold, none   *)
(* of them empty, and nothing comes after an error, in particular not      *)
(* after a piece the receiver has refused.                                 *)
(***************************************************************************)
EXTENDS Integers

CONSTANT MaxPiece  \* RecvSize of JpegReceiver

VARIABLES
  handed,  \* bytes of the body handed to the receiver
  failed   \* the parser has an error

bodyVars == <<handed, failed>>

BodyInit == handed = 0 /\ failed = FALSE

Piece ==
  /\ ~failed
  /\ handed' - handed \in 1 .. MaxPiece
  /\ failed' \in BOOLEAN

Fail == ~failed /\ failed' = TRUE /\ UNCHANGED handed

BodySpec == BodyInit /\ [][Piece \/ Fail]_bodyVars
=============================================================================
