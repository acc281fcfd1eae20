---------------------------- MODULE JpegReceiver ----------------------------
(***************************************************************************)
(* The receiving side of a camera connection (rsva11001.c): the on_body    *)
(* callback rsva11001_connection_recv cuts the body of the DVR's endless   *)
(* HTTP response into images with two buffers, ping and pong.  One is      *)
(* filled; the other holds the last image that was completed, which        *)
(* rsva11001_connection_getLatestImage hands out.                          *)
(*                                                                         *)
(* A byte of the body is known by the connection it came over (a bit that  *)
(* changes with every connection) and by its position in the body.  What   *)
(* the bytes say is told by the stream: where the magic 'JPGS' stands, the *)
(* length that follows it, and where the magic 'JPGE' stands.  Comparisons *)
(* look at the bytes a buffer really holds, so that a byte copied to the   *)
(* wrong place or left from an earlier connection shows.                   *)
(***************************************************************************)
EXTENDS Integers, BodySegments

CONSTANTS
  HeaderSize,  \* HEADER_SIZE, 8: the magic and the length
  FooterSize,  \* FOOTER_SIZE, 4
  BufferSize,  \* BASE_BUFFER_SIZE, 16383*2
  RecvSize,    \* BUFFER_SIZE of the receive loop, 16383
  WordSize,    \* 2^32, the range of jpegLength and of totalLength
  CallerSize,  \* room for an image in main.c, 30000
  Streams      \* the bodies the DVR may send

ASSUME SizeAssumption ==
  /\ HeaderSize \in Nat \ {0} /\ FooterSize \in Nat \ {0}
  /\ BufferSize \in Nat /\ RecvSize \in Nat \ {0}
  /\ BufferSize >= 2 * RecvSize
  /\ HeaderSize <= BufferSize /\ BufferSize < WordSize
  /\ WordSize \in Nat /\ HeaderSize + FooterSize < WordSize

(* A body of size bytes.  starts are the positions at which the DVR begins *)
(* an image: the first byte, and the byte after each packaged image.       *)
IsStream(s) ==
  /\ s.size \in Nat
  /\ s.magic \subseteq Nat /\ s.footer \subseteq Nat /\ s.starts \subseteq Nat
  /\ s.length \in [s.magic -> 0 .. (WordSize - 1)]
  /\ 0 \in s.starts
  /\ \A p \in s.starts \cap s.magic :
       p + HeaderSize + s.length[p] + FooterSize \in s.starts

ASSUME StreamAssumption == \A s \in Streams : IsStream(s)

Gens == {0, 1}
Zero == [gen |-> 2, pos |-> 0]  \* a byte that bzero wrote
Junk == [gen |-> 3, pos |-> 0]  \* a byte from before the data of the call

Cells == 0 .. (BufferSize - 1)

VARIABLES
  gen,      \* which connection this is
  stream,   \* the body sent over it, and over the one before
  taken,    \* how many bytes of the body were handed to recv
  ping,     \* whether pingReceiveBuffer is the active one
  buf,      \* pingReceiveBuffer is buf[TRUE], pongReceiveBuffer buf[FALSE]
  received, \* activeReceiveBufferBytesReceived
  state     \* "ok"; "error" after the callback returned 1; "nospace" and
            \* "crashed" when the process has ended

vars == <<gen, stream, taken, ping, buf, received, state>>

Init ==
  /\ gen = 0
  /\ stream \in [Gens -> Streams]
  /\ stream[0] = stream[1]
  /\ taken = 0
  /\ ping = TRUE
  /\ buf = [b \in BOOLEAN |-> [i \in Cells |-> Zero]]
  /\ received = 0
  /\ state = "ok"

Alive == state \in {"ok", "error"}

(* Mutant: only the buffer that is being filled is cleared.                *)
OpenDirty ==
  /\ Alive
  /\ gen' = 1 - gen
  /\ \E s \in Streams : stream' = [stream EXCEPT ![1 - gen] = s]
  /\ taken' = 0 /\ ping' = TRUE /\ received' = 0 /\ state' = "ok"
  /\ buf' = [buf EXCEPT ![ping] = [i \in Cells |-> Zero]]

(* The part of rsva11001_connection_open that prepares for the next body:  *)
(* both buffers are cleared and the parser is initialised.                 *)
Open ==
  /\ Alive
  /\ gen' = 1 - gen
  /\ \E s \in Streams : stream' = [stream EXCEPT ![1 - gen] = s]
  /\ taken' = 0
  /\ ping' = TRUE
  /\ buf' = [b \in BOOLEAN |-> [i \in Cells |-> Zero]]
  /\ received' = 0
  /\ state' = "ok"

-----------------------------------------------------------------------------
(* What memcmp and ntohl see in a buffer.                                  *)

Byte(p) == [gen |-> gen, pos |-> p]

(* The bytes from cell i on are n successive bytes of one body.            *)
RunAt(b, i, n) ==
  /\ b[i].gen \in Gens
  /\ \A k \in 0 .. (n - 1) : b[i + k] = [gen |-> b[i].gen, pos |-> b[i].pos + k]

HasMagic(b) == RunAt(b, 0, HeaderSize) /\ b[0].pos \in stream[b[0].gen].magic

jpegLength(b) == stream[b[0].gen].length[b[0].pos]

HasFooter(b) ==
  LET i == HeaderSize + jpegLength(b)
  IN  RunAt(b, i, FooterSize) /\ b[i].pos \in stream[b[i].gen].footer

(* HEADER_SIZE + jpegLength + FOOTER_SIZE is computed in 32 bits.          *)
totalLength(b) == (HeaderSize + jpegLength(b) + FooterSize) % WordSize

Wraps(b) == HeaderSize + jpegLength(b) + FooterSize >= WordSize

-----------------------------------------------------------------------------
(* rsva11001_connection_recv, called with the next n bytes of the body.    *)

spaceRemaining == BufferSize - received

amountToCopy(n) == IF n < spaceRemaining THEN n ELSE spaceRemaining

(* The active buffer after the copy, and how much of it is filled.         *)
Filled(n) ==
  [i \in Cells |-> IF i >= received /\ i < received + amountToCopy(n)
                   THEN Byte(taken + i - received) ELSE buf[ping][i]]
Now(n) == received + amountToCopy(n)

Called(n) ==
  /\ state = "ok"
  /\ n \in 1 .. RecvSize /\ taken + n <= stream[gen].size
  /\ taken' = taken + n
  /\ UNCHANGED <<gen, stream>>

(* assert(spaceRemaining != 0): the process ends.                          *)
RecvNoSpace(n) ==
  /\ Called(n) /\ spaceRemaining = 0
  /\ state' = "nospace"
  /\ UNCHANGED <<ping, buf, received>>

Copied(n) ==
  /\ Called(n) /\ spaceRemaining # 0
  /\ buf' = [buf EXCEPT ![ping] = Filled(n)]
  /\ received' = Now(n)
  /\ UNCHANGED ping

(* Mutant: an image that ends exactly where the data ends is not seen.     *)
WholeButLast(n) == totalLength(Filled(n)) < Now(n)

Whole(n) == totalLength(Filled(n)) <= Now(n)

HeaderGood(n) == Now(n) >= HeaderSize /\ HasMagic(Filled(n))

(* The header, or the rest of the image, has not come yet.                 *)
RecvPartial(n) ==
  /\ Copied(n)
  /\ Now(n) < HeaderSize \/ (HeaderGood(n) /\ ~Whole(n))
  /\ UNCHANGED state

(* A callback that returns 1 leaves an error in the parser for good.       *)
RecvBadHeader(n) ==
  /\ Copied(n)
  /\ Now(n) >= HeaderSize /\ ~HasMagic(Filled(n))
  /\ state' = "error"

(* Mutant: the buffers are swapped before the footer is looked at.         *)
RecvBadFooterSwaps(n) ==
  /\ Called(n) /\ spaceRemaining # 0
  /\ HeaderGood(n) /\ Whole(n) /\ ~Wraps(Filled(n)) /\ ~HasFooter(Filled(n))
  /\ buf' = [buf EXCEPT ![ping] = Filled(n)]
  /\ received' = 0
  /\ ping' = ~ping
  /\ state' = "error"

RecvBadFooter(n) ==
  /\ Copied(n)
  /\ HeaderGood(n) /\ Whole(n) /\ ~Wraps(Filled(n)) /\ ~HasFooter(Filled(n))
  /\ state' = "error"

(* totalLength wrapped around: the footer is looked for outside of the     *)
(* buffer, which the process survives only if the memory there is mapped.  *)
RecvWraps(n) ==
  /\ Copied(n)
  /\ HeaderGood(n) /\ Whole(n) /\ Wraps(Filled(n))
  /\ state' \in {"error", "crashed"}

(* The bytes of this call that complete the image.  When the image was     *)
(* complete before the call the number is negative: an unsigned underflow  *)
(* that makes the second memcpy start before the data.                     *)
ForMessage(n) == totalLength(Filled(n)) - received

(* Mutant: the length of the message is not taken off.                     *)
OverflowUncut(n) == received + n

overflow(n) == n - ForMessage(n)

Data(j) == IF j < 0 THEN Junk ELSE Byte(taken + j)

swapBuffers == ping' = ~ping

(* The image is complete: swapBuffers, and the rest of the data goes to    *)
(* the head of the new active buffer.                                      *)
RecvComplete(n) ==
  /\ Called(n) /\ spaceRemaining # 0
  /\ HeaderGood(n) /\ Whole(n) /\ ~Wraps(Filled(n)) /\ HasFooter(Filled(n))
  /\ swapBuffers
  /\ buf' = [buf EXCEPT
               ![ping] = Filled(n),
               ![~ping] = [i \in Cells |-> IF i < overflow(n)
                                           THEN Data(ForMessage(n) + i)
                                           ELSE buf[~ping][i]]]
  /\ received' = overflow(n)
  /\ UNCHANGED state

(* http_parser_execute returns at once when the parser has an error.       *)
Ignored(n) ==
  /\ state = "error"
  /\ n \in 1 .. RecvSize /\ taken + n <= stream[gen].size
  /\ taken' = taken + n
  /\ UNCHANGED <<gen, stream, ping, buf, received, state>>

Recv(n) ==
  \/ RecvNoSpace(n) \/ RecvPartial(n) \/ RecvBadHeader(n) \/ RecvBadFooter(n)
  \/ RecvWraps(n) \/ RecvComplete(n) \/ Ignored(n)

(* The process has ended.                                                  *)
Ended == ~Alive /\ UNCHANGED vars

Next == Open \/ (\E n \in 1 .. RecvSize : Recv(n)) \/ Ended

Spec == Init /\ [][Next]_vars

-----------------------------------------------------------------------------
(* rsva11001_connection_getLatestImage: the buffer that is not active, if  *)
(* it holds an image.                                                      *)
Latest == buf[~ping]

Held == HasMagic(Latest) /\ HasFooter(Latest)

(* Of an image of length zero it says the same as of none: size 0 and      *)
(* true, which main.c takes for "no image yet".                            *)
Offered == Held /\ jpegLength(Latest) # 0

(* What it returns: an image, or that there is none yet, or that the image *)
(* is too large for the caller.                                            *)
getLatestImage ==
  IF ~Offered THEN "none" ELSE IF jpegLength(Latest) <= CallerSize THEN "image" ELSE "big"

-----------------------------------------------------------------------------
(* Every variable stays in its type; in particular neither memcpy writes   *)
(* past the end of a buffer.                                               *)
TypeOK ==
  /\ gen \in Gens
  /\ stream \in [Gens -> Streams]
  /\ taken \in Nat
  /\ ping \in BOOLEAN
  /\ buf \in [BOOLEAN -> [Cells -> [gen : Gens, pos : Nat] \cup {Zero, Junk}]]
  /\ received \in 0 .. BufferSize
  /\ state \in {"ok", "error", "nospace", "crashed"}

(* What getLatestImage looks at is one image of this connection, byte by   *)
(* byte, that begins where the DVR began one: never the rest of an earlier *)
(* connection, a mixture of two images, or data that looks like a header.  *)
LatestIsAnImage ==
  Held =>
    LET p == Latest[0].pos
        n == HeaderSize + jpegLength(Latest) + FooterSize
    IN  /\ p \in stream[gen].starts
        /\ n <= BufferSize
        /\ \A i \in 0 .. (n - 1) : Latest[i] = Byte(p + i)

(* The first image of a body that fits the buffer.                         *)
FirstTotal(s) == HeaderSize + s.length[0] + FooterSize
FirstImageFits(s) ==
  /\ 0 \in s.magic /\ FirstTotal(s) <= BufferSize
  /\ HeaderSize + s.length[0] \in s.footer

(* The images of a body whose length is zero.                              *)
EmptyImages(s) == {p \in s.starts \cap s.magic : s.length[p] = 0}

(* As soon as the last byte of the first image is in, and from then on     *)
(* whatever follows it, an image is on offer, so that the wait for "at     *)
(* least one JPEG image" ends, unless the last image that was completed is *)
(* an empty one of the DVR's: neither a cut of the data, nor an image that *)
(* is rejected, nor an underflow takes the offer away.                     *)
FirstImageIsOffered ==
  FirstImageFits(stream[gen]) /\ taken >= FirstTotal(stream[gen])
    => Offered \/ (Held /\ Latest[0].pos \in EmptyImages(stream[gen]))

(* While the connection lasts, the image that was completed last is only   *)
(* ever replaced by a later one; data that is refused does not take it     *)
(* away.                                                                   *)
ImagesAdvance ==
  [][Held /\ gen' = gen => Held' /\ Latest'[0].pos >= Latest[0].pos]_vars

(* Seen from the connection, one call of recv is the execution of one      *)
(* segment of the body: only an empty image withdraws the one on offer,    *)
(* nothing changes after an error, nor on an error or at the end of the    *)
(* process but the error or the end itself, and a new connection begins    *)
(* with nothing.                                                           *)
BodySeen == [offer |-> getLatestImage, state |-> IF Alive THEN state ELSE "ended"]

ExecutesSegments ==
  [][\/ gen' # gen /\ BodySeen' = NoBody
     \/ gen' = gen /\ \E s \in Segments : BodySeen' = Execute(BodySeen, s)]_vars

(* How long the image that begins at p is with its header and footer.      *)
Total(s, p) == HeaderSize + s.length[p] + FooterSize

(* The process only ends in recv, in the assertion on the remaining space  *)
(* or in the read of a footer far away, for an image of the DVR that does  *)
(* not fit the buffer: no cut of the data and no underflow fills a buffer  *)
(* with less.                                                              *)
OnlyOversizedImagesEnd ==
  ~Alive => \E p \in stream[gen].starts \cap stream[gen].magic :
              p + HeaderSize <= taken /\ Total(stream[gen], p) > BufferSize

(* A body of whole images that fit the buffer.                             *)
WholeBody(s) ==
  \A p \in s.starts : p < s.size =>
    /\ p \in s.magic /\ p + HeaderSize + s.length[p] \in s.footer
    /\ s.length[p] # 0 /\ Total(s, p) <= BufferSize

(* Such a body whose images are no shorter than what one call can bring.   *)
SteadyBody(s) ==
  WholeBody(s) /\ \A p \in s.starts : p < s.size => Total(s, p) >= RecvSize

NextImage == IF Held THEN Latest[0].pos + Total(stream[gen], Latest[0].pos) ELSE 0

(* The image behind the one on offer is not complete.                      *)
NoneBehind ==
  NextImage < stream[gen].size => taken < NextImage + Total(stream[gen], NextImage)

(* Of such a body nothing is rejected, every image that was completed is   *)
(* offered to the caller, and the one on offer is the last one that has    *)
(* arrived.                                                                *)
NewestIsOffered ==
  SteadyBody(stream[gen]) => state = "ok" /\ (Held => Offered) /\ NoneBehind

(* "Called to retrieve the most recent image this connection received", of *)
(* any body of whole images.  One call can bring the end of an image and   *)
(* all of a short one behind it, and recv looks for one image only.        *)
MostRecentIsOffered == WholeBody(stream[gen]) => NoneBehind

(* "Copy the overflow data into the new one": what goes to the new buffer  *)
(* are bytes that were received.                                           *)
OverflowWasReceived == \A i \in Cells : i < received => buf[ping][i] # Junk
=============================================================================
