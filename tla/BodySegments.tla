---------------------------- MODULE BodySegments ----------------------------
(***************************************************************************)
(* The body of a camera's response as the connection sees it.  A piece of  *)
(* it is a segment: a "part" that completes nothing, one that completes an *)
(* "image", one that completes a "big" image, which the caller's buffer    *)
(* does not hold, one that completes an "empty" image, of length zero,     *)
(* "junk" that the receiver rejects, or a "fatal" one, of an image that    *)
(* the receive buffer does not hold, at which the process ends.  What      *)
(* parser and receiver made of the pieces so far is what getLatestImage    *)
(* would find and how they stand: "ok", "error" when the parser has one,   *)
(* or "ended" with the process.  CameraConnection works with segments;     *)
(* JpegReceiver shows that the bytes behave so.                            *)
(***************************************************************************)

Segments == {"part", "image", "big", "empty", "junk", "fatal"}

NoBody == [offer |-> "none", state |-> "ok"]

(* What getLatestImage says of an image: of an empty one, that there is    *)
(* none.                                                                   *)
OfferOf(segment) == IF segment = "empty" THEN "none" ELSE segment

(* http_parser_execute and the receiver on one segment: after an error     *)
(* nothing is looked at any more; a later image replaces an earlier one.   *)
Execute(b, segment) ==
  IF b.state # "ok" \/ segment = "part" THEN b
  ELSE IF segment = "junk" THEN [b EXCEPT !.state = "error"]
  ELSE IF segment = "fatal" THEN [b EXCEPT !.state = "ended"]
  ELSE [b EXCEPT !.offer = OfferOf(segment)]
=============================================================================
