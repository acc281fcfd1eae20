--------------------------- MODULE MCJpegReceiver ---------------------------
(* JpegReceiver on small bodies: sequences of packaged images, some broken *)
(* and the last perhaps cut off.                                           *)
EXTENDS JpegReceiver, Sequences, SequencesExt

Img(n) == [len |-> n, magic |-> TRUE, footer |-> TRUE]
NoMagic(n) == [len |-> n, magic |-> FALSE, footer |-> TRUE]
NoFooter(n) == [len |-> n, magic |-> TRUE, footer |-> FALSE]

Packaged(f) == HeaderSize + f.len + FooterSize
Start(fs, k) == FoldLeft(LAMBDA sum, f : sum + Packaged(f), 0, SubSeq(fs, 1, k - 1))

(* The body made of the images fs, of which at most size bytes are sent.   *)
Body(fs, size) ==
  LET at(k) == Start(fs, k)
      good == {k \in DOMAIN fs : fs[k].magic}
  IN  [size |-> IF size < at(Len(fs) + 1) THEN size ELSE at(Len(fs) + 1),
       starts |-> {at(k) : k \in 1 .. (Len(fs) + 1)},
       magic |-> {at(k) : k \in good},
       length |-> [p \in {at(k) : k \in good} |->
                     fs[CHOOSE k \in good : at(k) = p].len],
       footer |-> {at(k) + HeaderSize + fs[k].len : k \in {j \in DOMAIN fs : fs[j].footer}}]

(* With HeaderSize 2, FooterSize 1, RecvSize 5 and BufferSize 10: Img(7)   *)
(* fills the buffer, Img(8) does not fit, and one call can hold the end of *)
(* an image and the whole of an Img(0).                                    *)
SomeStreams ==
  { Body(<<Img(7), Img(3), Img(1)>>, 40),
    Body(<<Img(2), Img(7), Img(3)>>, 40),
    Body(<<Img(3), Img(0), Img(1)>>, 40),
    Body(<<Img(1), NoFooter(2), Img(1)>>, 40),
    Body(<<Img(1), Img(8), Img(1)>>, 40),
    Body(<<Img(3), Img(1), NoMagic(1)>>, 40),
    Body(<<Img(2), Img(WordSize - 2)>>, 18),
    Body(<<NoMagic(2), Img(1)>>, 40) }

ShortStreams == { Body(<<Img(3), Img(0), Img(3)>>, 20) }

(* Whole images, none of them empty, one of them shorter than a call.      *)
BriefStreams == { Body(<<Img(3), Img(1), Img(3)>>, 20) }
=============================================================================
