------------------------- MODULE JpegReceiverProofs -------------------------
(***************************************************************************)
(* Proofs about JpegReceiver for every size of the buffers and of the      *)
(* receive calls with BufferSize >= 2 * RecvSize, every body, and every    *)
(* way the body is cut into calls.                                         *)
(***************************************************************************)
EXTENDS JpegReceiver, TLAPS

Bytes == [gen : Gens, pos : Nat] \cup {Zero, Junk}

(* The active buffer holds the end of what was taken, from position p on,  *)
(* where the DVR began an image, and nothing before the image on offer.    *)
ActiveAt(p) ==
  /\ p \in stream[gen].starts
  /\ p + received <= taken
  /\ received < BufferSize => p + received = taken
  /\ \A i \in Cells : i < received => buf[ping][i] = Byte(p + i)
  /\ Held => Latest[0].pos <= p

(* After an unsigned underflow the active buffer begins with a byte that   *)
(* was never received.                                                     *)
JunkHead == received > 0 /\ buf[ping][0] = Junk

ActiveInv == state = "ok" => JunkHead \/ \E p \in Nat : ActiveAt(p)

(* Only an overflow leaves a complete image in the active buffer, and an   *)
(* overflow is no longer than a call.                                      *)
SettledInv ==
  /\ state = "ok" /\ received > RecvSize /\ received >= HeaderSize
  /\ HasMagic(buf[ping]) /\ ~Wraps(buf[ping])
  => totalLength(buf[ping]) > received

RecvInv == TypeOK /\ ActiveInv /\ SettledInv /\ LatestIsAnImage

LEMMA ModSmall ==
  ASSUME NEW x \in Nat, x < WordSize
  PROVE  x % WordSize = x
BY SizeAssumption

LEMMA StreamType ==
  ASSUME TypeOK PROVE IsStream(stream[gen]) /\ gen \in Gens
BY StreamAssumption DEF TypeOK

LEMMA ByteType ==
  ASSUME TypeOK, NEW p \in Nat PROVE Byte(p) \in Bytes
BY DEF TypeOK, Byte, Bytes

(* A header in a buffer gives a length.                                    *)
LEMMA LengthType ==
  ASSUME TypeOK, NEW b \in [Cells -> Bytes], HasMagic(b)
  PROVE  jpegLength(b) \in 0 .. (WordSize - 1)
<1>1. b[0].gen \in Gens /\ b[0].pos \in stream[b[0].gen].magic
  BY DEF HasMagic, RunAt
<1>2. IsStream(stream[b[0].gen])
  BY <1>1, StreamAssumption DEF TypeOK
<1> QED BY <1>1, <1>2 DEF jpegLength, IsStream

LEMMA TotalLength ==
  ASSUME TypeOK, NEW b \in [Cells -> Bytes], HasMagic(b), ~Wraps(b)
  PROVE  /\ totalLength(b) = HeaderSize + jpegLength(b) + FooterSize
         /\ jpegLength(b) \in Nat
BY LengthType, ModSmall, SizeAssumption DEF Wraps, totalLength

LEMMA FilledType ==
  ASSUME TypeOK, NEW n \in 1 .. RecvSize
  PROVE  /\ Filled(n) \in [Cells -> Bytes]
         /\ Now(n) \in 0 .. BufferSize
         /\ amountToCopy(n) \in 0 .. n
         /\ received + n <= BufferSize => Now(n) = received + n
         /\ received + n > BufferSize => Now(n) = BufferSize
<1>1. /\ received \in 0 .. BufferSize /\ n \in Nat /\ taken \in Nat
      /\ BufferSize \in Nat
  BY SizeAssumption DEF TypeOK
<1>2. amountToCopy(n) \in 0 .. n
  BY <1>1 DEF amountToCopy, spaceRemaining
<1>3. \A i \in Cells : i >= received => taken + i - received \in Nat
  BY <1>1 DEF Cells
<1>4. Filled(n) \in [Cells -> Bytes]
  <2>1. \A i \in Cells : buf[ping][i] \in Bytes
    BY DEF TypeOK, Bytes
  <2>2. \A i \in Cells : i >= received => Byte(taken + i - received) \in Bytes
    BY <1>3, ByteType
  <2> QED BY <2>1, <2>2 DEF Filled
<1> QED BY <1>1, <1>2, <1>4 DEF Now, amountToCopy, spaceRemaining

(* The copy extends the run.                                               *)
LEMMA FilledFrom ==
  ASSUME TypeOK, NEW n \in 1 .. RecvSize, NEW p \in Nat, taken = p + received,
         \A i \in Cells : i < received => buf[ping][i] = Byte(p + i)
  PROVE  \A i \in Cells : i < Now(n) => Filled(n)[i] = Byte(p + i)
<1>1. received \in Nat /\ taken \in Nat
  BY DEF TypeOK
<1>2. amountToCopy(n) \in Nat
  BY FilledType
<1> SUFFICES ASSUME NEW i \in Cells, i < Now(n) PROVE Filled(n)[i] = Byte(p + i)
  OBVIOUS
<1>3. i \in Nat
  BY SizeAssumption DEF Cells
<1>4. CASE i < received
  BY <1>1, <1>3, <1>4 DEF Filled
<1>5. CASE i >= received
  <2>1. taken + i - received = p + i
    BY <1>1, <1>3
  <2> QED BY <1>1, <1>2, <1>3, <1>5, <2>1 DEF Filled, Now
<1> QED BY <1>1, <1>3, <1>4, <1>5

LEMMA FilledRun ==
  ASSUME TypeOK, NEW n \in 1 .. RecvSize, spaceRemaining # 0,
         NEW p \in Nat, ActiveAt(p)
  PROVE  \A i \in Cells : i < Now(n) => Filled(n)[i] = Byte(p + i)
<1>1. taken = p + received
  BY SizeAssumption DEF TypeOK, ActiveAt, spaceRemaining
<1> QED BY <1>1, FilledFrom DEF ActiveAt

(* A buffer that begins with a byte never received has no header.          *)
LEMMA JunkHasNoMagic ==
  ASSUME TypeOK, NEW n \in 1 .. RecvSize, JunkHead
  PROVE  Filled(n)[0] = Junk /\ ~HasMagic(Filled(n))
<1>1. 0 \in Cells /\ ~(0 >= received)
  BY SizeAssumption DEF Cells, JunkHead, TypeOK
<1>2. Filled(n)[0] = Junk
  BY <1>1 DEF Filled, JunkHead
<1>3. Junk.gen \notin Gens
  BY DEF Junk, Gens
<1> QED BY <1>2, <1>3 DEF HasMagic, RunAt

LEMMA HeldPosition ==
  ASSUME TypeOK, Held PROVE Latest[0].pos \in Nat
<1>1. 0 \in Cells
  BY SizeAssumption DEF Cells
<1>2. Latest[0].gen \in Gens
  BY DEF Held, HasMagic, RunAt
<1>3. Latest[0] \in Bytes
  BY <1>1 DEF Latest, TypeOK, Bytes
<1> QED BY <1>2, <1>3 DEF Bytes, Zero, Junk, Gens

(* The image that a call completes: where it began and what it is made of. *)
LEMMA CompletedImage ==
  ASSUME RecvInv, NEW n \in 1 .. RecvSize, state = "ok", spaceRemaining # 0,
         HeaderGood(n), Whole(n), ~Wraps(Filled(n))
  PROVE  \E p \in Nat :
           /\ ActiveAt(p)
           /\ Filled(n)[0] = Byte(p)
           /\ totalLength(Filled(n)) = HeaderSize + jpegLength(Filled(n)) + FooterSize
           /\ p + totalLength(Filled(n)) \in stream[gen].starts
           /\ \A i \in 0 .. (totalLength(Filled(n)) - 1) : Filled(n)[i] = Byte(p + i)
           /\ totalLength(Filled(n)) \in 1 .. Now(n)
<1>1. TypeOK /\ ~JunkHead
  BY JunkHasNoMagic DEF RecvInv, HeaderGood
<1>2. PICK p \in Nat : ActiveAt(p)
  BY <1>1 DEF RecvInv, ActiveInv
<1> DEFINE b == Filled(n)
<1>3. b \in [Cells -> Bytes] /\ Now(n) \in 0 .. BufferSize /\ HasMagic(b)
  BY <1>1, FilledType DEF HeaderGood
<1>4. totalLength(b) = HeaderSize + jpegLength(b) + FooterSize /\ jpegLength(b) \in Nat
  BY <1>1, <1>3, TotalLength
<1>5. totalLength(b) \in 1 .. Now(n)
  BY <1>3, <1>4, SizeAssumption DEF Whole
<1>6. \A i \in 0 .. (totalLength(b) - 1) : b[i] = Byte(p + i)
  BY <1>1, <1>2, <1>3, <1>5, FilledRun, SizeAssumption DEF Cells
<1>7. b[0] = Byte(p)
  BY <1>5, <1>6
<1>8. p \in stream[gen].magic /\ p \in stream[gen].starts
  BY <1>2, <1>3, <1>7 DEF HasMagic, Byte, ActiveAt
<1>9. jpegLength(b) = stream[gen].length[p]
  BY <1>7 DEF jpegLength, Byte
<1>10. p + HeaderSize + stream[gen].length[p] + FooterSize \in stream[gen].starts
  BY <1>1, <1>8, StreamType DEF IsStream
<1>11. p + totalLength(b) \in stream[gen].starts
  BY <1>4, <1>9, <1>10, SizeAssumption
<1> QED BY <1>2, <1>4, <1>5, <1>6, <1>7, <1>11

-----------------------------------------------------------------------------
(* A call that does not complete an image leaves the one on offer alone.   *)
LEMMA OfferKept ==
  ASSUME TypeOK, UNCHANGED <<gen, stream, ping>>, buf'[~ping] = buf[~ping]
  PROVE  Latest' = Latest /\ (Held' <=> Held) /\ (LatestIsAnImage => LatestIsAnImage')
<1>1. Latest' = Latest
  BY DEF Latest
<1>2. Held' <=> Held
  BY <1>1 DEF Held, HasMagic, HasFooter, RunAt, jpegLength
<1>3. LatestIsAnImage => LatestIsAnImage'
  BY <1>1, <1>2 DEF LatestIsAnImage, Byte, jpegLength
<1> QED BY <1>1, <1>2, <1>3

(* The same for a step that changes no buffer.                             *)
LEMMA BuffersKept ==
  ASSUME RecvInv, UNCHANGED <<gen, stream, ping, buf, received>>,
         taken' \in Nat, state' \in {"error", "nospace", "crashed"}
  PROVE  RecvInv'
<1>1. TypeOK'
  BY DEF RecvInv, TypeOK
<1>2. LatestIsAnImage'
  BY OfferKept DEF RecvInv
<1> QED BY <1>1, <1>2 DEF RecvInv, ActiveInv, SettledInv

LEMMA CopiedKeeps ==
  ASSUME RecvInv, NEW n \in 1 .. RecvSize, Copied(n),
         state' \in {"error", "crashed"} \/ RecvPartial(n)
  PROVE  RecvInv'
<1> USE DEF RecvInv
<1>1. /\ TypeOK /\ Filled(n) \in [Cells -> Bytes] /\ Now(n) \in 0 .. BufferSize
      /\ received \in 0 .. BufferSize /\ taken \in Nat /\ ping \in BOOLEAN
  BY FilledType DEF TypeOK
<1>2. /\ state = "ok" /\ spaceRemaining # 0 /\ taken' = taken + n
      /\ UNCHANGED <<gen, stream, ping>>
      /\ buf' = [buf EXCEPT ![ping] = Filled(n)] /\ received' = Now(n)
  BY DEF Copied, Called
<1>3. buf'[~ping] = buf[~ping] /\ buf'[ping] = Filled(n)
  BY <1>1, <1>2 DEF TypeOK
<1>4. TypeOK'
  <2>1. buf' \in [BOOLEAN -> [Cells -> Bytes]]
    BY <1>1, <1>2 DEF TypeOK, Bytes
  <2>2. state' \in {"ok", "error", "nospace", "crashed"}
    BY <1>2 DEF RecvPartial
  <2> QED BY <1>1, <1>2, <2>1, <2>2 DEF TypeOK, Bytes
<1>5. LatestIsAnImage' /\ (Held' <=> Held) /\ Latest' = Latest
  BY <1>1, <1>2, <1>3, OfferKept
<1>6. ActiveInv'
  <2>1. CASE JunkHead
    <3>1. JunkHead'
      <4>1. Filled(n)[0] = Junk
        BY <1>1, <2>1, JunkHasNoMagic
      <4>2. Now(n) > 0
        BY <1>1, <2>1, FilledType DEF JunkHead, Now
      <4>3. Junk' = Junk
        BY DEF Junk
      <4> QED BY <1>2, <1>3, <4>1, <4>2, <4>3 DEF JunkHead
    <3> QED BY <3>1 DEF ActiveInv
  <2>2. CASE ~JunkHead
    <3>1. PICK p \in Nat : ActiveAt(p)
      BY <1>2, <2>2 DEF ActiveInv
    <3>2. \A i \in Cells : i < Now(n) => Filled(n)[i] = Byte(p + i)
      BY <1>1, <1>2, <3>1, FilledRun
    <3>3. \A i \in Cells : i < received' => buf'[ping'][i] = Byte(p + i)'
      BY <1>2, <1>3, <3>2 DEF Byte
    <3>4. p + received = taken
      BY <1>1, <1>2, <3>1, SizeAssumption DEF ActiveAt, spaceRemaining
    <3>5. /\ p + received' <= taken'
          /\ received' < BufferSize => p + received' = taken'
      BY <1>1, <1>2, <3>4, FilledType, SizeAssumption DEF Now
    <3>6. ActiveAt(p)'
      BY <1>2, <1>5, <3>1, <3>3, <3>5 DEF ActiveAt
    <3> QED BY <3>6 DEF ActiveInv
  <2> QED BY <2>1, <2>2
<1>7. SettledInv'
  <2>1. CASE state' \in {"error", "crashed"}
    BY <2>1 DEF SettledInv
  <2>2. CASE RecvPartial(n)
    <3>1. Now(n) < HeaderSize \/ ~(totalLength(Filled(n)) <= Now(n))
      BY <2>2 DEF RecvPartial, Whole
    <3>2. /\ HasMagic(buf[ping])' <=> HasMagic(Filled(n))
          /\ Wraps(buf[ping])' <=> Wraps(Filled(n))
          /\ totalLength(buf[ping])' = totalLength(Filled(n))
      BY <1>2, <1>3 DEF HasMagic, RunAt, Wraps, totalLength, jpegLength
    <3>3. CASE Now(n) < HeaderSize
      BY <1>1, <1>2, <3>3, SizeAssumption DEF SettledInv
    <3>4. CASE ~(totalLength(Filled(n)) <= Now(n)) /\ HasMagic(Filled(n)) /\ ~Wraps(Filled(n))
      <4>1. totalLength(Filled(n)) \in Nat
        BY <1>1, <3>4, TotalLength, SizeAssumption
      <4> QED BY <1>1, <1>2, <3>2, <3>4, <4>1 DEF SettledInv
    <3> QED BY <3>1, <3>2, <3>3, <3>4 DEF SettledInv
  <2> QED BY <2>1, <2>2
<1> QED BY <1>4, <1>5, <1>6, <1>7

(* What is left of a call after an image fits the other buffer with room   *)
(* to spare, also when the image was complete before the call.             *)
LEMMA OverflowIsShort ==
  ASSUME RecvInv, NEW n \in 1 .. RecvSize, RecvComplete(n)
  PROVE  overflow(n) \in 0 .. (BufferSize - 1) /\ received' = overflow(n)
<1> USE DEF RecvInv
<1> DEFINE b == Filled(n)
           t == totalLength(b)
<1>1. /\ TypeOK /\ b \in [Cells -> Bytes] /\ Now(n) \in 0 .. BufferSize
      /\ received \in 0 .. BufferSize /\ taken \in Nat /\ ping \in BOOLEAN
      /\ RecvSize \in Nat /\ BufferSize \in Nat /\ n \in Nat
  BY FilledType, SizeAssumption DEF TypeOK
<1>2. /\ state = "ok" /\ spaceRemaining # 0
      /\ HeaderGood(n) /\ Whole(n) /\ ~Wraps(b)
      /\ received' = overflow(n)
  BY DEF RecvComplete, Called
<1>3. /\ t = HeaderSize + jpegLength(b) + FooterSize
      /\ t \in 1 .. Now(n)
  BY <1>2, CompletedImage
<1>4. overflow(n) = n - (t - received) /\ t \in Nat
  BY <1>1, <1>3 DEF overflow, ForMessage
<1>8. HasMagic(b)
  BY <1>2 DEF HeaderGood
<1>9. overflow(n) \in 0 .. (BufferSize - 1)
  <2>1. overflow(n) \in Nat
    BY <1>1, <1>3, <1>4, FilledType DEF Now
  <2>2. CASE received <= RecvSize
    BY <1>1, <1>3, <1>4, <2>1, <2>2, SizeAssumption
  <2>3. CASE received > RecvSize /\ received < HeaderSize
    <3>1. jpegLength(b) \in Nat
      BY <1>1, <1>2, <1>8, TotalLength
    <3> QED BY <1>1, <1>3, <1>4, <2>1, <2>3, <3>1, SizeAssumption
  <2>4. CASE received > RecvSize /\ received >= HeaderSize
    <3>1. \A i \in 0 .. (HeaderSize - 1) : b[i] = buf[ping][i]
      BY <1>1, <2>4, SizeAssumption DEF Filled, Cells
    <3>2. b[0] = buf[ping][0] /\ HasMagic(buf[ping])
      BY <1>8, <3>1, SizeAssumption DEF HasMagic, RunAt
    <3>3. totalLength(buf[ping]) = t /\ ~Wraps(buf[ping])
      BY <1>2, <3>2 DEF totalLength, Wraps, jpegLength
    <3>4. t > received
      BY <1>2, <2>4, <3>2, <3>3 DEF SettledInv
    <3> QED BY <1>1, <1>4, <2>1, <3>4, SizeAssumption
  <2> QED BY <1>1, <2>2, <2>3, <2>4, SizeAssumption
<1> QED BY <1>2, <1>9

LEMMA CompleteKeeps ==
  ASSUME RecvInv, NEW n \in 1 .. RecvSize, RecvComplete(n)
  PROVE  /\ RecvInv' /\ Held' /\ Latest' = Filled(n)
         /\ Held => Latest'[0].pos >= Latest[0].pos
<1> USE DEF RecvInv
<1> DEFINE b == Filled(n)
           t == totalLength(b)
<1>1. /\ TypeOK /\ b \in [Cells -> Bytes] /\ Now(n) \in 0 .. BufferSize
      /\ received \in 0 .. BufferSize /\ taken \in Nat /\ ping \in BOOLEAN
      /\ RecvSize \in Nat /\ BufferSize \in Nat /\ n \in Nat
  BY FilledType, SizeAssumption DEF TypeOK
<1>2. /\ state = "ok" /\ spaceRemaining # 0 /\ taken' = taken + n
      /\ HeaderGood(n) /\ Whole(n) /\ ~Wraps(b) /\ HasFooter(b)
      /\ UNCHANGED <<gen, stream, state>> /\ ping' = ~ping
      /\ received' = overflow(n)
  BY DEF RecvComplete, Called, swapBuffers
<1>3. PICK p \in Nat :
        /\ ActiveAt(p) /\ b[0] = Byte(p)
        /\ t = HeaderSize + jpegLength(b) + FooterSize
        /\ p + t \in stream[gen].starts
        /\ \A i \in 0 .. (t - 1) : b[i] = Byte(p + i)
        /\ t \in 1 .. Now(n)
  BY <1>2, CompletedImage
<1>4. /\ p + received = taken /\ received < BufferSize
      /\ overflow(n) = n - (t - received)
      /\ ForMessage(n) = t - received
      /\ t \in Nat /\ ForMessage(n) \in Int
  BY <1>1, <1>2, <1>3 DEF ActiveAt, spaceRemaining, overflow, ForMessage
<1>5. buf'[ping] = b
  BY <1>1 DEF RecvComplete, TypeOK
<1>6. \A i \in Cells : i < overflow(n) => buf'[~ping][i] = Data(ForMessage(n) + i)
  BY <1>1 DEF RecvComplete, TypeOK
<1>7. Latest' = b
  BY <1>1, <1>2, <1>5 DEF Latest
<1>8. HasMagic(b) /\ HasFooter(b) /\ Held'
  BY <1>2, <1>7 DEF Held, HasMagic, HasFooter, RunAt, jpegLength, HeaderGood
<1>9. LatestIsAnImage'
  <2>1. /\ Latest'[0].pos = p /\ jpegLength(Latest)' = jpegLength(b)
        /\ p \in stream'[gen'].starts
    BY <1>2, <1>3, <1>7 DEF jpegLength, Byte, ActiveAt
  <2>2. t <= BufferSize /\ \A i \in 0 .. (t - 1) : Latest'[i] = Byte(p + i)'
    BY <1>1, <1>2, <1>3, <1>7 DEF Byte
  <2> QED BY <1>3, <2>1, <2>2 DEF LatestIsAnImage
<1>10. Held => Latest'[0].pos >= Latest[0].pos
  <2>1. Latest'[0].pos = p
    BY <1>3, <1>7 DEF Byte
  <2>2. Held => Latest[0].pos \in Nat
    BY <1>1, HeldPosition
  <2> QED BY <1>3, <2>1, <2>2 DEF ActiveAt
<1>11. overflow(n) \in 0 .. BufferSize
  BY <1>1, OverflowIsShort
<1>12. TypeOK'
  <2>1. \A i \in Cells : i < overflow(n) => Data(ForMessage(n) + i) \in Bytes
    <3> SUFFICES ASSUME NEW i \in Cells PROVE Data(ForMessage(n) + i) \in Bytes
      OBVIOUS
    <3>1. ForMessage(n) + i \in Int
      BY <1>4, SizeAssumption DEF Cells
    <3>2. CASE ForMessage(n) + i < 0
      BY <3>2 DEF Data, Bytes
    <3>3. CASE ~(ForMessage(n) + i < 0)
      <4>1. taken + (ForMessage(n) + i) \in Nat
        BY <1>1, <3>1, <3>3
      <4> QED BY <1>1, <3>3, <4>1, ByteType DEF Data
    <3> QED BY <3>2, <3>3
  <2>2. \A i \in Cells : buf[~ping][i] \in Bytes
    BY <1>1 DEF TypeOK, Bytes
  <2>3. buf' \in [BOOLEAN -> [Cells -> Bytes]]
    BY <1>1, <2>1, <2>2 DEF RecvComplete, TypeOK, Bytes
  <2> QED BY <1>1, <1>2, <1>11, <2>3 DEF TypeOK, Bytes
<1>13. PICK q \in Nat : q = p + t
  BY <1>4
<1>14. JunkHead' \/ (ForMessage(n) >= 0 /\ ActiveAt(q)')
  <2>1. CASE ForMessage(n) < 0
    <3>1. overflow(n) > 0 /\ 0 \in Cells
      BY <1>1, <1>4, <1>11, <2>1, SizeAssumption DEF Cells
    <3>2. buf'[~ping][0] = Junk
      BY <1>4, <1>6, <2>1, <3>1 DEF Data
    <3>3. Junk' = Junk
      BY DEF Junk
    <3> QED BY <1>2, <3>1, <3>2, <3>3 DEF JunkHead
  <2>2. CASE ForMessage(n) >= 0
    <3>1. \A i \in Cells : i < overflow(n) => buf'[~ping][i] = Byte(q + i)
      <4> SUFFICES ASSUME NEW i \in Cells, i < overflow(n)
                   PROVE  buf'[~ping][i] = Byte(q + i)
        OBVIOUS
      <4>1. i \in Nat /\ ~(ForMessage(n) + i < 0)
        BY <1>4, <2>2, SizeAssumption DEF Cells
      <4>2. taken + (ForMessage(n) + i) = q + i
        <5>1. q = taken + ForMessage(n)
          BY <1>1, <1>4, <1>13
        <5> QED BY <1>1, <1>4, <4>1, <5>1
      <4> QED BY <1>6, <4>1, <4>2 DEF Data
    <3>2. q + overflow(n) = taken + n
      <4>1. q = taken + ForMessage(n)
        BY <1>1, <1>4, <1>13
      <4>2. overflow(n) = n - ForMessage(n)
        BY DEF overflow
      <4> QED BY <1>1, <1>4, <4>1, <4>2
    <3>3. Latest'[0].pos <= q
      BY <1>3, <1>4, <1>7, <1>13 DEF Byte
    <3>4. \A i \in Cells : Byte(q + i)' = Byte(q + i)
      BY <1>2 DEF Byte
    <3>5. \A i \in Cells : i < received' => buf'[ping'][i] = Byte(q + i)'
      BY <1>2, <3>1, <3>4
    <3>6. q \in stream'[gen'].starts
      BY <1>2, <1>3, <1>13
    <3>7. q + received' <= taken' /\ q + received' = taken'
      BY <1>1, <1>2, <3>2
    <3> QED BY <2>2, <3>3, <3>5, <3>6, <3>7 DEF ActiveAt
  <2> QED BY <1>4, <2>1, <2>2
<1>15. ActiveInv'
  BY <1>14 DEF ActiveInv
<1>16. SettledInv'
  <2>1. CASE ForMessage(n) >= 0
    BY <1>1, <1>2, <1>4, <2>1 DEF SettledInv
  <2>2. CASE ~(ForMessage(n) >= 0)
    <3>1. buf'[ping'][0] = Junk
      BY <1>14, <2>2 DEF JunkHead, Junk
    <3>2. ~(buf'[ping'][0].gen \in Gens)
      BY <3>1 DEF Junk, Gens
    <3>3. ~HasMagic(buf[ping])'
      BY <3>2 DEF HasMagic, RunAt
    <3> QED BY <3>3 DEF SettledInv
  <2> QED BY <2>1, <2>2
<1> QED BY <1>7, <1>8, <1>9, <1>10, <1>12, <1>15, <1>16

-----------------------------------------------------------------------------
LEMMA RecvInvInit == Init => RecvInv
<1> SUFFICES ASSUME Init PROVE RecvInv
  OBVIOUS
<1>1. TypeOK
  BY SizeAssumption DEF Init, TypeOK, Gens
<1>2. ~Held
  <2>1. Latest[0] = Zero
    BY SizeAssumption DEF Init, Latest, Cells
  <2> QED BY <2>1 DEF Held, HasMagic, RunAt, Zero, Gens
<1>3. ActiveAt(0)
  <2>1. 0 \in stream[gen].starts
    BY <1>1, StreamType DEF IsStream
  <2> QED BY <1>2, <2>1 DEF Init, ActiveAt, Cells
<1>4. SettledInv
  BY SizeAssumption DEF Init, SettledInv
<1> QED BY <1>1, <1>2, <1>3, <1>4 DEF RecvInv, ActiveInv, LatestIsAnImage

LEMMA OpenKeeps == RecvInv /\ Open => RecvInv' /\ ~Held'
<1> SUFFICES ASSUME RecvInv, Open PROVE RecvInv' /\ ~Held'
  OBVIOUS
<1>1. TypeOK'
  <2>1. gen \in Gens /\ 1 - gen \in Gens
    BY DEF RecvInv, TypeOK, Gens
  <2> QED BY <2>1, SizeAssumption DEF RecvInv, Open, TypeOK
<1>2. ~Held'
  <2>1. Latest'[0] = Zero
    BY SizeAssumption DEF Open, Latest, Cells
  <2> QED BY <2>1 DEF Held, HasMagic, RunAt, Zero, Gens
<1>3. ActiveAt(0)'
  <2>1. 0 \in stream'[gen'].starts
    BY <1>1, StreamAssumption DEF IsStream, TypeOK
  <2> QED BY <1>2, <2>1 DEF Open, ActiveAt, Cells
<1>4. SettledInv'
  BY SizeAssumption DEF Open, SettledInv
<1> QED BY <1>1, <1>2, <1>3, <1>4 DEF RecvInv, ActiveInv, LatestIsAnImage

LEMMA RecvInvStep == RecvInv /\ [Next]_vars => RecvInv'
<1> SUFFICES ASSUME RecvInv, [Next]_vars PROVE RecvInv'
  OBVIOUS
<1>1. CASE Open
  BY <1>1, OpenKeeps
<1>2. ASSUME NEW n \in 1 .. RecvSize, Recv(n) PROVE RecvInv'
  <2>0. taken + n \in Nat
    BY SizeAssumption DEF RecvInv, TypeOK
  <2>1. CASE RecvNoSpace(n)
    BY <2>0, <2>1, BuffersKept DEF RecvNoSpace, Called
  <2>2. CASE RecvPartial(n)
    BY <2>2, CopiedKeeps DEF RecvPartial
  <2>3. CASE RecvBadHeader(n) \/ RecvBadFooter(n) \/ RecvWraps(n)
    BY <2>3, CopiedKeeps DEF RecvBadHeader, RecvBadFooter, RecvWraps
  <2>4. CASE RecvComplete(n)
    BY <2>4, CompleteKeeps
  <2>5. CASE Ignored(n)
    BY <2>0, <2>5, BuffersKept DEF Ignored
  <2> QED BY <1>2, <2>1, <2>2, <2>3, <2>4, <2>5 DEF Recv
<1>3. CASE Ended \/ UNCHANGED vars
  <2>1. UNCHANGED <<gen, stream, taken, ping, buf, received, state>>
    BY <1>3 DEF Ended, vars
  <2>2. TypeOK'
    BY <2>1 DEF RecvInv, TypeOK
  <2>3. Latest' = Latest /\ (Held' <=> Held) /\ LatestIsAnImage'
    BY <2>1, OfferKept DEF RecvInv
  <2>4. ActiveInv'
    <3>1. ASSUME NEW p \in Nat, ActiveAt(p) PROVE ActiveAt(p)'
      BY <2>1, <2>3, <3>1 DEF ActiveAt, Byte
    <3>2. JunkHead => JunkHead'
      BY <2>1 DEF JunkHead, Junk
    <3> QED BY <2>1, <3>1, <3>2 DEF RecvInv, ActiveInv
  <2>5. SettledInv'
    BY <2>1 DEF RecvInv, SettledInv, HasMagic, RunAt, Wraps, totalLength, jpegLength
  <2> QED BY <2>2, <2>3, <2>4, <2>5 DEF RecvInv
<1> QED BY <1>1, <1>2, <1>3 DEF Next

(* The invariant behind the results: the buffers hold what was received,   *)
(* from the beginning of an image on.                                      *)
THEOREM RecvCorrect == Spec => []RecvInv
BY RecvInvInit, RecvInvStep, PTL DEF Spec

(* Neither memcpy of rsva11001_connection_recv leaves its buffer, even     *)
(* when totalLength - oldSize underflows.                                  *)
THEOREM CopiesFit == Spec => []TypeOK
<1>1. RecvInv => TypeOK
  BY DEF RecvInv
<1> QED BY <1>1, RecvCorrect, PTL

(* Every image handed out is one whole image of this connection.           *)
THEOREM ImageIntegrity == Spec => []LatestIsAnImage
<1>1. RecvInv => LatestIsAnImage
  BY DEF RecvInv
<1> QED BY <1>1, RecvCorrect, PTL

-----------------------------------------------------------------------------
(* Data that is refused, or that does not complete an image, leaves the    *)
(* image on offer where it is.                                             *)
LEMMA OfferStays ==
  ASSUME RecvInv, NEW n \in 1 .. RecvSize, Recv(n), ~RecvComplete(n)
  PROVE  Latest' = Latest /\ (Held' <=> Held) /\ UNCHANGED <<gen, stream, ping>>
<1>1. TypeOK /\ ping \in BOOLEAN
  BY DEF RecvInv, TypeOK
<1>2. CASE RecvNoSpace(n) \/ Ignored(n)
  BY <1>1, <1>2, OfferKept DEF RecvNoSpace, Ignored, Called
<1>3. CASE Copied(n)
  <2>1. UNCHANGED <<gen, stream, ping>> /\ buf'[~ping] = buf[~ping]
    BY <1>1, <1>3 DEF Copied, Called, TypeOK
  <2> QED BY <1>1, <2>1, OfferKept
<1> QED BY <1>2, <1>3 DEF Recv, RecvPartial, RecvBadHeader, RecvBadFooter, RecvWraps

(* Once an image is on offer the connection always has one to hand out,    *)
(* and never an older one.                                                 *)
THEOREM OfferAdvances == Spec => ImagesAdvance
<1> DEFINE Adv == Held /\ gen' = gen => Held' /\ Latest'[0].pos >= Latest[0].pos
<1>1. RecvInv /\ [Next]_vars => [Adv]_vars
  <2> SUFFICES ASSUME RecvInv, Next, Held, gen' = gen
               PROVE  (Held' /\ Latest'[0].pos >= Latest[0].pos) \/ UNCHANGED vars
    OBVIOUS
  <2>1. CASE Open
    BY <2>1 DEF Open, RecvInv, TypeOK, Gens
  <2>2. ASSUME NEW n \in 1 .. RecvSize, Recv(n)
        PROVE  Held' /\ Latest'[0].pos >= Latest[0].pos
    <3>1. CASE RecvComplete(n)
      BY <3>1, CompleteKeeps
    <3>2. CASE ~RecvComplete(n)
      <4>1. Latest[0].pos \in Nat
        BY HeldPosition DEF RecvInv
      <4> QED BY <2>2, <3>2, <4>1, OfferStays
    <3> QED BY <3>1, <3>2
  <2>3. CASE Ended
    BY <2>3 DEF Ended
  <2> QED BY <2>1, <2>2, <2>3 DEF Next
<1> QED BY <1>1, RecvCorrect, PTL DEF Spec, ImagesAdvance

-----------------------------------------------------------------------------
(* Before the first image is on offer, the active buffer holds all that    *)
(* was taken.                                                              *)
NotYet ==
  /\ state = "ok" /\ taken = received /\ taken < FirstTotal(stream[gen])
  /\ \A i \in Cells : i < received => buf[ping][i] = Byte(i)

FirstInv == FirstImageFits(stream[gen]) => Held \/ NotYet

(* What is held is an image of this connection.                            *)
LEMMA HeldImage ==
  ASSUME RecvInv, Held
  PROVE  /\ Latest[0].gen = gen
         /\ Latest[0].pos \in stream[gen].starts \cap stream[gen].magic
         /\ jpegLength(Latest) = stream[gen].length[Latest[0].pos]
<1>1. TypeOK /\ HasMagic(Latest) /\ LatestIsAnImage
  BY DEF RecvInv, Held
<1>2. Latest \in [Cells -> Bytes]
  BY <1>1 DEF TypeOK, Latest, Bytes
<1>3. jpegLength(Latest) \in Nat
  BY <1>1, <1>2, LengthType, SizeAssumption
<1>4. PICK n \in Nat \ {0} : n = HeaderSize + jpegLength(Latest) + FooterSize
  BY <1>3, SizeAssumption
<1>5. Latest[0].pos \in Nat
  BY <1>1, HeldPosition
<1>6. /\ Latest[0].pos \in stream[gen].starts
      /\ \A i \in 0 .. (n - 1) : Latest[i] = Byte(Latest[0].pos + i)
  BY <1>1, <1>4 DEF LatestIsAnImage
<1>7. Latest[0].gen = gen
  <2>1. Latest[0] = Byte(Latest[0].pos + 0)
    BY <1>4, <1>6
  <2> QED BY <2>1 DEF Byte
<1> QED BY <1>1, <1>6, <1>7 DEF HasMagic, jpegLength

LEMMA FirstSizes ==
  ASSUME TypeOK, FirstImageFits(stream[gen])
  PROVE  /\ stream[gen].length[0] \in Nat
         /\ FirstTotal(stream[gen]) = HeaderSize + stream[gen].length[0] + FooterSize
         /\ FirstTotal(stream[gen]) \in Nat
         /\ FirstTotal(stream[gen]) > HeaderSize
         /\ FirstTotal(stream[gen]) < WordSize
BY StreamType, SizeAssumption DEF FirstImageFits, FirstTotal, IsStream

(* What a call finds in the buffer, when the run from p on is that of an   *)
(* image that fits.                                                        *)
LEMMA ImageInBuffer ==
  ASSUME TypeOK, NEW n \in 1 .. RecvSize, NEW p \in Nat,
         \A i \in Cells : i < Now(n) => Filled(n)[i] = Byte(p + i),
         p \in stream[gen].magic, p + HeaderSize + stream[gen].length[p] \in stream[gen].footer,
         Total(stream[gen], p) <= BufferSize, Now(n) >= HeaderSize
  PROVE  /\ HasMagic(Filled(n)) /\ ~Wraps(Filled(n))
         /\ totalLength(Filled(n)) = Total(stream[gen], p)
         /\ Filled(n)[0].pos = p
         /\ Whole(n) => HasFooter(Filled(n))
<1> DEFINE b == Filled(n)
           len == stream[gen].length[p]
           f == HeaderSize + len
<1>1. /\ gen \in Gens /\ HeaderSize \in Nat \ {0} /\ FooterSize \in Nat \ {0}
      /\ BufferSize \in Nat /\ BufferSize < WordSize /\ WordSize \in Nat
      /\ b \in [Cells -> Bytes] /\ Now(n) \in 0 .. BufferSize
  BY SizeAssumption, FilledType DEF TypeOK
<1>2. len \in Nat /\ f \in Nat /\ f + FooterSize <= BufferSize
  BY <1>1, StreamType DEF IsStream, Total
<1>3. \A i \in 0 .. (HeaderSize - 1) : i \in Cells /\ i < Now(n) /\ i \in Nat
  BY <1>1 DEF Cells
<1>4. \A i \in 0 .. (HeaderSize - 1) : b[i] = Byte(p + i)
  BY <1>3
<1>5. 0 \in 0 .. (HeaderSize - 1) /\ p + 0 = p
  BY <1>1
<1>6. b[0] = Byte(p) /\ b[0].gen = gen /\ b[0].pos = p
  BY <1>4, <1>5 DEF Byte
<1>7. \A k \in 0 .. (HeaderSize - 1) : b[0 + k] = [gen |-> b[0].gen, pos |-> b[0].pos + k]
  BY <1>3, <1>4, <1>6 DEF Byte
<1>8. HasMagic(b)
  BY <1>1, <1>6, <1>7 DEF HasMagic, RunAt
<1>9. jpegLength(b) = len
  BY <1>6 DEF jpegLength
<1>10. ~Wraps(b)
  BY <1>1, <1>2, <1>9 DEF Wraps
<1>11. totalLength(b) = Total(stream[gen], p)
  BY <1>1, <1>8, <1>9, <1>10, TotalLength DEF Total
<1>12. ASSUME Whole(n) PROVE HasFooter(b)
  <2>1. f + FooterSize <= Now(n)
    BY <1>11, <1>12 DEF Whole, Total
  <2>2. \A k \in 0 .. (FooterSize - 1) : f + k \in Cells /\ f + k < Now(n)
    <3> SUFFICES ASSUME NEW k \in 0 .. (FooterSize - 1)
                 PROVE  f + k \in Cells /\ f + k < Now(n)
      OBVIOUS
    <3>1. f + k \in Nat /\ f + k < Now(n)
      BY <1>1, <1>2, <2>1
    <3> QED BY <1>1, <3>1 DEF Cells
  <2>3. \A k \in 0 .. (FooterSize - 1) : b[f + k] = Byte(p + (f + k))
    BY <2>2
  <2>4. 0 \in 0 .. (FooterSize - 1) /\ f + 0 = f
    BY <1>1, <1>2
  <2>5. b[f].gen = gen /\ b[f].pos = p + f
    <3>1. b[f + 0] = Byte(p + (f + 0))
      BY <2>3, <2>4
    <3> QED BY <2>4, <3>1 DEF Byte
  <2>6. \A k \in 0 .. (FooterSize - 1) : p + (f + k) = (p + f) + k
    BY <1>2
  <2>7. RunAt(b, f, FooterSize)
    BY <1>1, <2>3, <2>5, <2>6 DEF RunAt, Byte
  <2>8. p + f \in stream[gen].footer
    BY <1>1, <1>2
  <2> QED BY <1>1, <1>9, <2>5, <2>7, <2>8 DEF HasFooter
<1> QED BY <1>6, <1>8, <1>10, <1>11, <1>12

(* What a call finds in the buffer before the first image is complete.     *)
LEMMA FirstCall ==
  ASSUME RecvInv, FirstImageFits(stream[gen]), NotYet, NEW n \in 1 .. RecvSize, Called(n)
  PROVE  /\ spaceRemaining # 0
         /\ \A i \in Cells : i < Now(n) => Filled(n)[i] = Byte(i)
         /\ Now(n) >= HeaderSize =>
              /\ HasMagic(Filled(n)) /\ ~Wraps(Filled(n))
              /\ totalLength(Filled(n)) = FirstTotal(stream[gen])
              /\ Whole(n) => HasFooter(Filled(n))
<1>1. /\ TypeOK /\ received \in 0 .. BufferSize /\ taken \in Nat /\ BufferSize \in Nat
      /\ HeaderSize \in Nat /\ FirstTotal(stream[gen]) \in Nat /\ stream[gen].length[0] \in Nat
      /\ FirstTotal(stream[gen]) <= BufferSize /\ taken < FirstTotal(stream[gen])
      /\ taken = 0 + received
  BY SizeAssumption, FirstSizes DEF RecvInv, TypeOK, FirstImageFits, NotYet
<1>2. spaceRemaining # 0
  BY <1>1 DEF spaceRemaining
<1>3. \A i \in Cells : i < received => buf[ping][i] = Byte(0 + i)
  BY SizeAssumption DEF NotYet, Cells
<1>4. \A i \in Cells : i < Now(n) => Filled(n)[i] = Byte(0 + i)
  BY <1>1, <1>3, FilledFrom
<1>5. \A i \in Cells : i < Now(n) => Filled(n)[i] = Byte(i)
  BY <1>4, SizeAssumption DEF Cells
<1>6. /\ 0 \in stream[gen].magic /\ 0 + HeaderSize + stream[gen].length[0] \in stream[gen].footer
      /\ Total(stream[gen], 0) = FirstTotal(stream[gen])
  BY <1>1 DEF FirstImageFits, Total, FirstTotal
<1> QED BY <1>1, <1>2, <1>4, <1>5, <1>6, ImageInBuffer

LEMMA FirstStep == RecvInv /\ FirstInv /\ [Next]_vars => FirstInv'
<1> SUFFICES ASSUME RecvInv, FirstInv, [Next]_vars, FirstImageFits(stream[gen])'
             PROVE  Held' \/ NotYet'
  BY DEF FirstInv
<1>1. CASE Open
  <2>1. TypeOK'
    BY <1>1, OpenKeeps DEF RecvInv
  <2>2. FirstTotal(stream[gen])' > 0
    BY <2>1, StreamAssumption, SizeAssumption
       DEF FirstImageFits, FirstTotal, IsStream, TypeOK
  <2> QED BY <1>1, <2>2 DEF Open, NotYet, Cells
<1>2. ASSUME NEW n \in 1 .. RecvSize, Recv(n) PROVE Held' \/ NotYet'
  <2>1. CASE RecvComplete(n)
    BY <2>1, CompleteKeeps
  <2>2. CASE ~RecvComplete(n) /\ Held
    BY <1>2, <2>2, OfferStays
  <2>3. CASE ~RecvComplete(n) /\ ~Held
    <3>1. UNCHANGED <<gen, stream, ping>>
      BY <1>2, <2>3, OfferStays
    <3>2. FirstImageFits(stream[gen]) /\ NotYet
      BY <2>3, <3>1 DEF FirstInv, FirstImageFits, FirstTotal
    <3>3. state = "ok" /\ Called(n)
      BY <1>2, <3>2 DEF NotYet, Recv, Ignored, RecvNoSpace, RecvPartial, RecvBadHeader,
         RecvBadFooter, RecvWraps, RecvComplete, Copied
    <3>4. /\ spaceRemaining # 0
          /\ \A i \in Cells : i < Now(n) => Filled(n)[i] = Byte(i)
          /\ Now(n) >= HeaderSize =>
               /\ HasMagic(Filled(n)) /\ ~Wraps(Filled(n))
               /\ totalLength(Filled(n)) = FirstTotal(stream[gen])
               /\ Whole(n) => HasFooter(Filled(n))
      BY <3>2, <3>3, FirstCall
    <3>5. TypeOK /\ Now(n) \in 0 .. BufferSize /\ HeaderSize \in Nat /\ BufferSize \in Nat
      BY FilledType, SizeAssumption DEF RecvInv
    <3>6. RecvPartial(n)
      BY <1>2, <2>3, <3>3, <3>4, <3>5 DEF Recv, RecvNoSpace, RecvBadHeader, RecvBadFooter,
         RecvWraps, RecvComplete, Ignored, HeaderGood
    <3>7. Now(n) < FirstTotal(stream[gen])
      BY <3>2, <3>4, <3>5, <3>6, FirstSizes DEF RecvPartial, Whole
    <3>8. FirstTotal(stream[gen]) <= BufferSize /\ taken = received /\ received \in Nat
      BY <3>2, <3>5 DEF FirstImageFits, NotYet, TypeOK
    <3>9. Now(n) = received + n
      BY <3>2, <3>5, <3>7, <3>8, FilledType, FirstSizes, SizeAssumption
    <3>10. /\ received' = Now(n) /\ taken' = taken + n /\ state' = "ok"
           /\ buf'[ping] = Filled(n)
      BY <3>3, <3>5, <3>6 DEF RecvPartial, Copied, Called, TypeOK
    <3>11. \A i \in Cells : Byte(i)' = Byte(i)
      BY <3>1 DEF Byte
    <3>12. FirstTotal(stream[gen])' = FirstTotal(stream[gen])
      BY <3>1 DEF FirstTotal
    <3> QED BY <3>1, <3>4, <3>7, <3>8, <3>9, <3>10, <3>11, <3>12 DEF NotYet
  <2> QED BY <2>1, <2>2, <2>3
<1>3. CASE Ended \/ UNCHANGED vars
  <2>1. UNCHANGED <<gen, stream, taken, ping, buf, received, state>>
    BY <1>3 DEF Ended, vars
  <2>2. FirstImageFits(stream[gen])
    BY <2>1 DEF FirstImageFits, FirstTotal
  <2>3. Held => Held'
    BY <2>1, OfferKept DEF RecvInv
  <2>4. NotYet => NotYet'
    BY <2>1 DEF NotYet, FirstTotal, Byte
  <2> QED BY <2>2, <2>3, <2>4 DEF FirstInv
<1> QED BY <1>1, <1>2, <1>3 DEF Next

(* However the body is cut into calls and whatever follows, from the last  *)
(* byte of a first image that fits the buffer on an image is on offer,     *)
(* unless the one that was completed last is an empty one of the DVR's.    *)
THEOREM FirstImage == Spec => []FirstImageIsOffered
<1>1. Init => FirstInv
  <2> SUFFICES ASSUME Init, FirstImageFits(stream[gen]) PROVE NotYet
    BY DEF FirstInv
  <2>1. TypeOK
    BY RecvInvInit DEF RecvInv
  <2>2. FirstTotal(stream[gen]) > 0
    BY <2>1, FirstSizes, SizeAssumption
  <2> QED BY <2>2 DEF Init, NotYet, Cells
<1>2. Spec => []FirstInv
  BY <1>1, FirstStep, RecvCorrect, PTL DEF Spec
<1>3. RecvInv /\ FirstInv => FirstImageIsOffered
  <2> SUFFICES ASSUME RecvInv, FirstInv, FirstImageFits(stream[gen]),
                      taken >= FirstTotal(stream[gen])
               PROVE  Offered \/ (Held /\ Latest[0].pos \in EmptyImages(stream[gen]))
    BY DEF FirstImageIsOffered
  <2>1. TypeOK /\ taken \in Nat
    BY DEF RecvInv, TypeOK
  <2>2. Held
    BY <2>1, FirstSizes DEF FirstInv, NotYet
  <2>3. CASE jpegLength(Latest) = 0
    BY <2>2, <2>3, HeldImage DEF EmptyImages
  <2> QED BY <2>2, <2>3 DEF Offered
<1> QED BY <1>2, <1>3, RecvCorrect, PTL

-----------------------------------------------------------------------------
(* The receiver behind the segments of CameraConnection.                   *)
LEMMA OfferSame ==
  ASSUME Latest' = Latest, Held' <=> Held, UNCHANGED <<gen, stream>>
  PROVE  getLatestImage' = getLatestImage
BY DEF getLatestImage, Offered, jpegLength

(* Every call of recv, whatever data it is given, does to what the         *)
(* connection can see of the receiver what Execute does with one segment,  *)
(* an image of length zero and the end of the process included.            *)
THEOREM ReceiverExecutesSegments == Spec => ExecutesSegments
<1> DEFINE Step ==
      \/ gen' # gen /\ BodySeen' = NoBody
      \/ gen' = gen /\ \E s \in Segments : BodySeen' = Execute(BodySeen, s)
<1>1. RecvInv /\ [Next]_vars => [Step]_vars
  <2> SUFFICES ASSUME RecvInv, Next PROVE Step \/ UNCHANGED vars
    OBVIOUS
  <2>1. CASE Open
    <3>1. ~Held'
      BY <2>1, OpenKeeps
    <3>2. gen' # gen
      BY <2>1 DEF Open, RecvInv, TypeOK, Gens
    <3>3. BodySeen' = NoBody
      BY <2>1, <3>1 DEF Open, BodySeen, NoBody, getLatestImage, Offered, Alive
    <3> QED BY <3>2, <3>3
  <2>2. ASSUME NEW n \in 1 .. RecvSize, Recv(n) PROVE Step
    <3>1. CASE RecvComplete(n)
      <4>1. gen' = gen /\ state = "ok" /\ state' = "ok"
        BY <3>1 DEF RecvComplete, Called
      <4>2. getLatestImage' \in {"none", "image", "big"}
        BY DEF getLatestImage
      <4>3. PICK s \in Segments :
              s \notin {"part", "junk", "fatal"} /\ getLatestImage' = OfferOf(s)
        BY <4>2 DEF Segments, OfferOf
      <4>4. BodySeen' = Execute(BodySeen, s)
        BY <4>1, <4>3 DEF BodySeen, Execute, Alive
      <4> QED BY <4>1, <4>4
    <3>2. CASE ~RecvComplete(n)
      <4>1. getLatestImage' = getLatestImage /\ gen' = gen
        BY <2>2, <3>2, OfferStays, OfferSame
      <4>2. CASE RecvPartial(n) \/ Ignored(n)
        <5>1. state' = state
          BY <4>2 DEF RecvPartial, Ignored
        <5>2. BodySeen' = Execute(BodySeen, "part")
          BY <4>1, <5>1 DEF BodySeen, Execute, Alive
        <5> QED BY <4>1, <5>2 DEF Segments
      <4>3. CASE RecvNoSpace(n) \/ RecvBadHeader(n) \/ RecvBadFooter(n) \/ RecvWraps(n)
        <5>1. state = "ok" /\ state' \in {"error", "crashed", "nospace"}
          BY <4>3 DEF RecvNoSpace, RecvBadHeader, RecvBadFooter, RecvWraps, Copied, Called
        <5>2. CASE state' = "error"
          <6>1. BodySeen' = Execute(BodySeen, "junk")
            BY <4>1, <5>1, <5>2 DEF BodySeen, Execute, Alive
          <6> QED BY <4>1, <6>1 DEF Segments
        <5>3. CASE state' \in {"crashed", "nospace"}
          <6>1. BodySeen' = Execute(BodySeen, "fatal")
            BY <4>1, <5>1, <5>3 DEF BodySeen, Execute, Alive
          <6> QED BY <4>1, <6>1 DEF Segments
        <5> QED BY <5>1, <5>2, <5>3
      <4> QED BY <2>2, <3>2, <4>2, <4>3 DEF Recv
    <3> QED BY <3>1, <3>2
  <2>3. CASE Ended
    BY <2>3 DEF Ended
  <2> QED BY <2>1, <2>2, <2>3 DEF Next
<1> QED BY <1>1, RecvCorrect, PTL DEF Spec, ExecutesSegments

-----------------------------------------------------------------------------
(* How the process may end.                                                *)

(* A full buffer holds the beginning of an image that is longer.           *)
FullInv ==
  state = "ok" /\ received = BufferSize =>
    HasMagic(buf[ping]) /\ HeaderSize + jpegLength(buf[ping]) + FooterSize > BufferSize

EndInv == FullInv /\ OnlyOversizedImagesEnd

(* Such a buffer, with what a call adds, begins where the DVR began it.    *)
LEMMA OversizedImage ==
  ASSUME RecvInv, state = "ok", NEW b, HasMagic(b), NEW p \in Nat, ActiveAt(p),
         b[0] = Byte(p), HeaderSize + jpegLength(b) + FooterSize > BufferSize
  PROVE  /\ p \in stream[gen].starts \cap stream[gen].magic
         /\ Total(stream[gen], p) > BufferSize
<1>1. b[0].gen = gen /\ b[0].pos = p
  BY DEF Byte
<1>2. p \in stream[gen].magic /\ jpegLength(b) = stream[gen].length[p]
  BY <1>1 DEF HasMagic, jpegLength
<1> QED BY <1>2 DEF ActiveAt, Total

LEMMA EndStep == RecvInv /\ EndInv /\ [Next]_vars => EndInv'
<1> SUFFICES ASSUME RecvInv, EndInv, [Next]_vars PROVE EndInv'
  OBVIOUS
<1>0. /\ TypeOK /\ received \in 0 .. BufferSize /\ taken \in Nat /\ ping \in BOOLEAN
      /\ BufferSize \in Nat /\ HeaderSize \in Nat \ {0} /\ FooterSize \in Nat \ {0}
      /\ HeaderSize <= BufferSize /\ RecvSize \in Nat \ {0} /\ BufferSize >= 2 * RecvSize
      /\ BufferSize < WordSize /\ WordSize \in Nat /\ 0 \in Cells
  BY SizeAssumption DEF RecvInv, TypeOK, Cells
<1>1. CASE Open
  BY <1>0, <1>1 DEF Open, EndInv, FullInv, OnlyOversizedImagesEnd, Alive
<1>2. ASSUME NEW n \in 1 .. RecvSize, Recv(n) PROVE EndInv'
  <2>1. CASE RecvNoSpace(n)
    <3>1. /\ state = "ok" /\ received = BufferSize /\ state' = "nospace" /\ taken' = taken + n
          /\ UNCHANGED <<gen, stream>>
      BY <1>0, <2>1 DEF RecvNoSpace, Called, spaceRemaining
    <3>2. HasMagic(buf[ping]) /\ HeaderSize + jpegLength(buf[ping]) + FooterSize > BufferSize
      BY <3>1 DEF EndInv, FullInv
    <3>3. ~JunkHead
      BY <3>2 DEF JunkHead, HasMagic, RunAt, Junk, Gens
    <3>4. PICK p \in Nat : ActiveAt(p)
      BY <3>1, <3>3 DEF RecvInv, ActiveInv
    <3>5. buf[ping][0] = Byte(p)
      BY <1>0, <3>1, <3>4 DEF ActiveAt
    <3>6. p \in stream[gen].starts \cap stream[gen].magic /\ Total(stream[gen], p) > BufferSize
      BY <3>1, <3>2, <3>4, <3>5, OversizedImage
    <3>7. p + HeaderSize <= taken'
      BY <1>0, <3>1, <3>4 DEF ActiveAt
    <3> QED BY <3>1, <3>6, <3>7 DEF EndInv, FullInv, OnlyOversizedImagesEnd, Total
  <2>2. CASE RecvPartial(n)
    <3>1. /\ state' = "ok" /\ received' = Now(n) /\ buf'[ping'] = Filled(n)
          /\ UNCHANGED <<gen, stream>>
      BY <1>0, <2>2 DEF RecvPartial, Copied, Called, TypeOK
    <3>2. ASSUME Now(n) = BufferSize
          PROVE  HasMagic(Filled(n)) /\ HeaderSize + jpegLength(Filled(n)) + FooterSize > BufferSize
      <4>1. HasMagic(Filled(n)) /\ ~(totalLength(Filled(n)) <= BufferSize)
        BY <1>0, <2>2, <3>2 DEF RecvPartial, HeaderGood, Whole
      <4>2. Filled(n) \in [Cells -> Bytes] /\ jpegLength(Filled(n)) \in Nat
        BY <1>0, <4>1, FilledType, LengthType
      <4>3. CASE Wraps(Filled(n))
        BY <1>0, <4>1, <4>2, <4>3 DEF Wraps
      <4>4. CASE ~Wraps(Filled(n))
        BY <1>0, <4>1, <4>2, <4>4, TotalLength
      <4> QED BY <4>3, <4>4
    <3>3. FullInv'
      BY <3>1, <3>2 DEF FullInv, HasMagic, RunAt, jpegLength
    <3> QED BY <3>1, <3>3 DEF EndInv, OnlyOversizedImagesEnd, Alive
  <2>3. CASE RecvBadHeader(n) \/ RecvBadFooter(n) \/ Ignored(n)
    <3>1. state' = "error"
      BY <2>3 DEF RecvBadHeader, RecvBadFooter, Ignored
    <3> QED BY <3>1 DEF EndInv, FullInv, OnlyOversizedImagesEnd, Alive
  <2>4. CASE RecvWraps(n)
    <3>1. /\ state = "ok" /\ state' \in {"error", "crashed"} /\ taken' = taken + n
          /\ spaceRemaining # 0 /\ UNCHANGED <<gen, stream>>
          /\ Now(n) >= HeaderSize /\ HasMagic(Filled(n)) /\ Wraps(Filled(n))
      BY <2>4 DEF RecvWraps, Copied, Called, HeaderGood
    <3>2. Filled(n) \in [Cells -> Bytes] /\ jpegLength(Filled(n)) \in Nat /\ Now(n) \in 0 .. BufferSize
          /\ amountToCopy(n) \in 0 .. n
      BY <1>0, <3>1, FilledType, LengthType
    <3>3. HeaderSize + jpegLength(Filled(n)) + FooterSize > BufferSize
      BY <1>0, <3>1, <3>2 DEF Wraps
    <3>4. ~JunkHead
      BY <1>0, <3>1, JunkHasNoMagic
    <3>5. PICK p \in Nat : ActiveAt(p)
      BY <3>1, <3>4 DEF RecvInv, ActiveInv
    <3>6. Filled(n)[0] = Byte(p)
      <4>1. Filled(n)[0] = Byte(p + 0)
        BY <1>0, <3>1, <3>2, <3>5, FilledRun
      <4> QED BY <4>1
    <3>7. p \in stream[gen].starts \cap stream[gen].magic /\ Total(stream[gen], p) > BufferSize
      BY <3>1, <3>3, <3>5, <3>6, OversizedImage
    <3>8. p + HeaderSize <= taken'
      BY <1>0, <3>1, <3>2, <3>5 DEF ActiveAt, Now
    <3> QED BY <3>1, <3>7, <3>8 DEF EndInv, FullInv, OnlyOversizedImagesEnd, Total
  <2>5. CASE RecvComplete(n)
    <3>1. received' \in 0 .. (BufferSize - 1)
      BY <2>5, OverflowIsShort
    <3>2. state' = "ok"
      BY <2>5 DEF RecvComplete, Called
    <3> QED BY <1>0, <3>1, <3>2 DEF EndInv, FullInv, OnlyOversizedImagesEnd, Alive
  <2> QED BY <1>2, <2>1, <2>2, <2>3, <2>4, <2>5 DEF Recv
<1>3. CASE Ended \/ UNCHANGED vars
  <2>1. UNCHANGED <<gen, stream, taken, ping, buf, received, state>>
    BY <1>3 DEF Ended, vars
  <2>2. FullInv'
    BY <2>1 DEF EndInv, FullInv, HasMagic, RunAt, jpegLength
  <2>3. OnlyOversizedImagesEnd'
    BY <2>1 DEF EndInv, OnlyOversizedImagesEnd, Total, Alive
  <2> QED BY <2>2, <2>3 DEF EndInv
<1> QED BY <1>1, <1>2, <1>3 DEF Next

(* Whatever the cut of the data, and even after an underflow, the adapter  *)
(* survives every body whose images fit the buffer.                        *)
THEOREM EndsAreOversized == Spec => []OnlyOversizedImagesEnd
<1>1. Init => EndInv
  BY SizeAssumption DEF Init, EndInv, FullInv, OnlyOversizedImagesEnd, Alive
<1>2. EndInv => OnlyOversizedImagesEnd
  BY DEF EndInv
<1> QED BY <1>1, <1>2, EndStep, RecvCorrect, PTL DEF Spec

-----------------------------------------------------------------------------
(* A body of whole images that are no shorter than a call.                 *)

(* The active buffer holds all that has come since p, where the image      *)
(* after the one on offer begins, and not yet the whole of it.             *)
SteadyAt(p) ==
  /\ p \in Nat /\ p \in stream[gen].starts
  /\ taken = p + received
  /\ \A i \in Cells : i < received => buf[ping][i] = Byte(p + i)
  /\ p < stream[gen].size => received < Total(stream[gen], p)

SteadyInv ==
  SteadyBody(stream[gen]) => state = "ok" /\ (Held => Offered) /\ SteadyAt(NextImage)

(* Such an image in the stream.                                            *)
LEMMA SteadyImage ==
  ASSUME TypeOK, SteadyBody(stream[gen]), NEW p \in Nat,
         p \in stream[gen].starts, p < stream[gen].size
  PROVE  /\ p \in stream[gen].magic
         /\ p + HeaderSize + stream[gen].length[p] \in stream[gen].footer
         /\ stream[gen].length[p] \in Nat \ {0}
         /\ Total(stream[gen], p) \in Nat
         /\ Total(stream[gen], p) <= BufferSize /\ Total(stream[gen], p) >= RecvSize
         /\ Total(stream[gen], p) > HeaderSize
         /\ p + Total(stream[gen], p) \in stream[gen].starts
<1>1. IsStream(stream[gen])
  BY StreamType
<1>2. /\ p \in stream[gen].magic /\ p + HeaderSize + stream[gen].length[p] \in stream[gen].footer
      /\ stream[gen].length[p] # 0
      /\ Total(stream[gen], p) >= RecvSize /\ Total(stream[gen], p) <= BufferSize
  BY DEF SteadyBody, WholeBody
<1>3. stream[gen].length[p] \in Nat
  BY <1>1, <1>2, SizeAssumption DEF IsStream
<1>4. p + HeaderSize + stream[gen].length[p] + FooterSize \in stream[gen].starts
  BY <1>1, <1>2 DEF IsStream
<1>5. p + Total(stream[gen], p) \in stream[gen].starts
  BY <1>3, <1>4, SizeAssumption DEF Total
<1> QED BY <1>2, <1>3, <1>5, SizeAssumption DEF Total

LEMMA SteadyStart ==
  ASSUME TypeOK, ~Held, taken = 0, received = 0, SteadyBody(stream[gen])
  PROVE  SteadyAt(NextImage)
<1>1. NextImage = 0 /\ 0 \in stream[gen].starts
  BY StreamType DEF NextImage, IsStream
<1>2. 0 < stream[gen].size => 0 < Total(stream[gen], 0)
  BY <1>1, SteadyImage, SizeAssumption
<1>3. \A i \in Cells : ~(i < 0)
  BY SizeAssumption DEF Cells
<1> QED BY <1>1, <1>2, <1>3 DEF SteadyAt

(* What a call does with such a body: it completes the image, or part of   *)
(* it is still to come.                                                    *)
LEMMA SteadyCall ==
  ASSUME RecvInv, SteadyBody(stream[gen]), state = "ok", NEW p \in Nat, SteadyAt(p),
         NEW n \in 1 .. RecvSize, Recv(n)
  PROVE  /\ p < stream[gen].size /\ taken' = taken + n
         /\ \A i \in Cells : i < Now(n) => Filled(n)[i] = Byte(p + i)
         /\ \/ RecvPartial(n) /\ Now(n) < Total(stream[gen], p)
            \/ /\ RecvComplete(n) /\ Filled(n)[0].pos = p
               /\ totalLength(Filled(n)) = Total(stream[gen], p)
<1>1. /\ TypeOK /\ received \in 0 .. BufferSize /\ taken \in Nat /\ BufferSize \in Nat
      /\ HeaderSize \in Nat /\ Now(n) \in 0 .. BufferSize /\ n \in Nat \ {0}
      /\ stream[gen].size \in Nat
  BY SizeAssumption, FilledType, StreamType DEF RecvInv, TypeOK, IsStream
<1>2. Called(n)
  BY DEF Recv, Ignored, RecvNoSpace, RecvPartial, RecvBadHeader, RecvBadFooter, RecvWraps,
     RecvComplete, Copied
<1>3. taken + n <= stream[gen].size /\ taken' = taken + n
  BY <1>2 DEF Called
<1>4. p < stream[gen].size
  BY <1>1, <1>3 DEF SteadyAt
<1>5. /\ p \in stream[gen].magic
      /\ p + HeaderSize + stream[gen].length[p] \in stream[gen].footer
      /\ Total(stream[gen], p) \in Nat /\ Total(stream[gen], p) <= BufferSize
      /\ Total(stream[gen], p) > HeaderSize
  BY <1>1, <1>4, SteadyImage DEF SteadyAt
<1>6. spaceRemaining # 0
  BY <1>1, <1>4, <1>5 DEF SteadyAt, spaceRemaining
<1>7. \A i \in Cells : i < Now(n) => Filled(n)[i] = Byte(p + i)
  BY <1>1, FilledFrom DEF SteadyAt
<1>8. Now(n) >= HeaderSize =>
        /\ HasMagic(Filled(n)) /\ ~Wraps(Filled(n))
        /\ totalLength(Filled(n)) = Total(stream[gen], p)
        /\ Filled(n)[0].pos = p
        /\ Whole(n) => HasFooter(Filled(n))
  BY <1>1, <1>5, <1>7, ImageInBuffer
<1>9. RecvPartial(n) \/ RecvComplete(n)
  BY <1>6, <1>8 DEF Recv, RecvNoSpace, RecvBadHeader, RecvBadFooter, RecvWraps, Ignored,
     HeaderGood
<1>10. CASE RecvPartial(n)
  <2>1. Now(n) < Total(stream[gen], p)
    BY <1>1, <1>5, <1>8, <1>10 DEF RecvPartial, HeaderGood, Whole
  <2> QED BY <1>3, <1>4, <1>7, <1>10, <2>1
<1>11. CASE RecvComplete(n)
  <2>1. Now(n) >= HeaderSize
    BY <1>11 DEF RecvComplete, HeaderGood
  <2> QED BY <1>3, <1>4, <1>7, <1>8, <1>11, <2>1
<1> QED BY <1>9, <1>10, <1>11

LEMMA SteadyStep == RecvInv /\ SteadyInv /\ [Next]_vars => SteadyInv'
<1> SUFFICES ASSUME RecvInv, SteadyInv, [Next]_vars, SteadyBody(stream[gen])'
             PROVE  state' = "ok" /\ (Held' => Offered') /\ SteadyAt(NextImage)'
  BY DEF SteadyInv
<1>0. RecvInv' /\ TypeOK'
  BY RecvInvStep DEF RecvInv
<1>1. CASE Open
  <2>1. ~Held' /\ taken' = 0 /\ received' = 0 /\ state' = "ok"
    BY <1>1, OpenKeeps DEF Open
  <2>2. NextImage' = 0 /\ 0 \in stream'[gen'].starts
    BY <1>0, <2>1, StreamAssumption DEF NextImage, IsStream, TypeOK
  <2>3. 0 < stream'[gen'].size => 0 < Total(stream'[gen'], 0)
    BY <1>0, <2>2, StreamAssumption, SizeAssumption DEF SteadyBody, WholeBody, Total, IsStream, TypeOK
  <2>4. \A i \in Cells : ~(i < 0)
    BY SizeAssumption DEF Cells
  <2> QED BY <2>1, <2>2, <2>3, <2>4 DEF SteadyAt, Total
<1>2. ASSUME NEW n \in 1 .. RecvSize, Recv(n)
      PROVE  state' = "ok" /\ (Held' => Offered') /\ SteadyAt(NextImage)'
  <2>0. UNCHANGED <<gen, stream>>
    BY <1>2 DEF Recv, Ignored, RecvNoSpace, RecvPartial, RecvBadHeader, RecvBadFooter,
       RecvWraps, RecvComplete, Copied, Called
  <2>1. SteadyBody(stream[gen]) /\ state = "ok" /\ (Held => Offered) /\ SteadyAt(NextImage)
    BY <2>0 DEF SteadyInv, SteadyBody, WholeBody, Total
  <2>2. PICK p \in Nat : p = NextImage /\ SteadyAt(p)
    BY <2>1 DEF SteadyAt
  <2>3. /\ p < stream[gen].size /\ taken' = taken + n
        /\ \A i \in Cells : i < Now(n) => Filled(n)[i] = Byte(p + i)
        /\ \/ RecvPartial(n) /\ Now(n) < Total(stream[gen], p)
           \/ /\ RecvComplete(n) /\ Filled(n)[0].pos = p
              /\ totalLength(Filled(n)) = Total(stream[gen], p)
    BY <1>2, <2>1, <2>2, SteadyCall
  <2>4. /\ TypeOK /\ received \in 0 .. BufferSize /\ taken \in Nat /\ BufferSize \in Nat
        /\ RecvSize \in Nat /\ n \in 1 .. RecvSize /\ Now(n) \in 0 .. BufferSize
        /\ received + n <= BufferSize => Now(n) = received + n
        /\ received + n > BufferSize => Now(n) = BufferSize
        /\ ping \in BOOLEAN /\ Cells \subseteq Nat
    BY SizeAssumption, FilledType DEF RecvInv, TypeOK, Cells
  <2>5. /\ Total(stream[gen], p) \in Nat /\ Total(stream[gen], p) <= BufferSize
        /\ p + Total(stream[gen], p) \in stream[gen].starts
    BY <2>1, <2>2, <2>3, <2>4, SteadyImage DEF SteadyAt
  <2>6. taken = p + received /\ received < Total(stream[gen], p) /\ p \in stream[gen].starts
    BY <2>2, <2>3 DEF SteadyAt
  <2>7. CASE RecvPartial(n) /\ Now(n) < Total(stream[gen], p)
    <3>1. ~RecvComplete(n)
      BY <2>4, <2>7 DEF RecvPartial, Copied, RecvComplete, swapBuffers
    <3>2. Latest' = Latest /\ (Held' <=> Held)
      BY <1>2, <3>1, OfferStays
    <3>3. NextImage' = p
      BY <2>0, <2>2, <3>2 DEF NextImage, Total
    <3>4. state' = "ok" /\ received' = Now(n) /\ buf'[ping'] = Filled(n)
      BY <2>1, <2>4, <2>7 DEF RecvPartial, Copied, TypeOK
    <3>5. taken' = p + received' /\ received' < Total(stream[gen], p)
      BY <2>3, <2>4, <2>5, <2>6, <2>7, <3>4
    <3>6. \A i \in Cells : i < received' => buf'[ping'][i] = Byte(p + i)'
      BY <2>0, <2>3, <3>4 DEF Byte
    <3>7. Held' => Offered'
      BY <2>0, <2>1, <3>2 DEF Offered, jpegLength
    <3> QED BY <2>0, <2>2, <2>6, <3>3, <3>4, <3>5, <3>6, <3>7 DEF SteadyAt, Total
  <2>8. CASE /\ RecvComplete(n) /\ Filled(n)[0].pos = p
             /\ totalLength(Filled(n)) = Total(stream[gen], p)
    <3>1. Held' /\ Latest' = Filled(n)
      BY <2>8, CompleteKeeps
    <3>2. PICK q \in Nat : q = p + Total(stream[gen], p)
      BY <2>5
    <3>3. NextImage' = q
      BY <2>0, <2>8, <3>1, <3>2 DEF NextImage, Total
    <3>4. state' = "ok" /\ ping' = ~ping /\ received' = overflow(n)
      BY <2>1, <2>8 DEF RecvComplete, swapBuffers
    <3>5. /\ ForMessage(n) = Total(stream[gen], p) - received
          /\ overflow(n) = n - (Total(stream[gen], p) - received)
      BY <2>8 DEF overflow, ForMessage
    <3>6. taken' = q + received' /\ received' < RecvSize /\ ForMessage(n) \in Nat
      <4>1. ForMessage(n) \in Nat /\ ForMessage(n) >= 1
        BY <2>4, <2>5, <2>6, <3>5
      <4>2. overflow(n) = n - ForMessage(n) /\ q = taken + ForMessage(n)
        BY <2>4, <2>5, <2>6, <3>2, <3>5
      <4> QED BY <2>3, <2>4, <3>4, <4>1, <4>2
    <3>7. \A i \in Cells : i < overflow(n) => buf'[~ping][i] = Data(ForMessage(n) + i)
      BY <2>4, <2>8 DEF RecvComplete, TypeOK
    <3>8. \A i \in Cells : i < received' => buf'[ping'][i] = Byte(q + i)'
      <4> SUFFICES ASSUME NEW i \in Cells, i < overflow(n)
                   PROVE  buf'[ping'][i] = Byte(q + i)'
        BY <3>4
      <4>1. i \in Nat
        BY <2>4
      <4>2. taken + (ForMessage(n) + i) = q + i /\ ~(ForMessage(n) + i < 0)
        <5>1. q = taken + ForMessage(n)
          BY <2>4, <2>5, <2>6, <3>2, <3>5
        <5> QED BY <2>4, <3>6, <4>1, <5>1
      <4> QED BY <2>0, <3>4, <3>7, <4>2 DEF Data, Byte
    <3>9. ASSUME q < stream[gen].size PROVE received' < Total(stream[gen], q)
      <4>1. Total(stream[gen], q) \in Nat /\ Total(stream[gen], q) >= RecvSize
        BY <2>1, <2>4, <2>5, <3>2, <3>9, SteadyImage
      <4>2. received' \in Nat
        BY <1>0, SizeAssumption DEF TypeOK
      <4> QED BY <2>4, <3>6, <4>1, <4>2
    <3>10. Offered'
      <4>1. Filled(n)[0] = Byte(p)
        <5>1. 0 \in Cells /\ 0 < Now(n)
          BY SMTT(20), <2>4, <2>8, SizeAssumption DEF RecvComplete, HeaderGood, Cells
        <5>2. Filled(n)[0] = Byte(p + 0)
          BY <2>3, <5>1
        <5> QED BY <5>2
      <4>2. stream[gen].length[p] # 0
        BY <2>1, <2>3, <2>4, <2>6, SteadyImage
      <4> QED BY <2>0, <3>1, <4>1, <4>2 DEF Offered, jpegLength, Byte
    <3> QED BY <2>0, <2>5, <3>1, <3>2, <3>3, <3>4, <3>6, <3>8, <3>9, <3>10 DEF SteadyAt, Total
  <2> QED BY <2>3, <2>7, <2>8
<1>3. CASE Ended \/ UNCHANGED vars
  <2>1. UNCHANGED <<gen, stream, taken, ping, buf, received, state>>
    BY <1>3 DEF Ended, vars
  <2>2. SteadyBody(stream[gen])
    BY <2>1 DEF SteadyBody, WholeBody, Total
  <2>3. NextImage' = NextImage /\ (Held' <=> Held) /\ Latest' = Latest
    BY <2>1, OfferKept DEF RecvInv, NextImage, Total
  <2>4. Held' => Offered'
    BY <2>1, <2>2, <2>3 DEF SteadyInv, Offered, jpegLength
  <2> QED BY <2>1, <2>2, <2>3, <2>4 DEF SteadyInv, SteadyAt, Total, Byte
<1> QED BY <1>1, <1>2, <1>3 DEF Next

(* However such a body is cut into calls, nothing of it is refused, what   *)
(* was completed is on offer, and it is the last image that has arrived.   *)
THEOREM NewestImage == Spec => []NewestIsOffered
<1>1. Init => SteadyInv
  <2> SUFFICES ASSUME Init, SteadyBody(stream[gen]) PROVE SteadyInv
    BY DEF SteadyInv
  <2>1. TypeOK
    BY RecvInvInit DEF RecvInv
  <2>2. ~Held
    <3>1. Latest[0] = Zero
      BY SizeAssumption DEF Init, Latest, Cells
    <3> QED BY <3>1 DEF Held, HasMagic, RunAt, Zero, Gens
  <2>3. taken = 0 /\ received = 0 /\ state = "ok"
    BY DEF Init
  <2> QED BY <2>1, <2>2, <2>3, SteadyStart DEF SteadyInv
<1>2. RecvInv /\ SteadyInv => NewestIsOffered
  <2> SUFFICES ASSUME RecvInv, SteadyBody(stream[gen]), state = "ok", SteadyAt(NextImage),
                      NextImage < stream[gen].size
               PROVE  taken < NextImage + Total(stream[gen], NextImage)
    BY DEF SteadyInv, NewestIsOffered, NoneBehind
  <2>1. NextImage \in Nat /\ received \in Nat /\ TypeOK
    BY SizeAssumption DEF SteadyAt, RecvInv, TypeOK
  <2>2. Total(stream[gen], NextImage) \in Nat
    BY <2>1, SteadyImage DEF SteadyAt
  <2> QED BY <2>1, <2>2 DEF SteadyAt
<1> QED BY <1>1, <1>2, SteadyStep, RecvCorrect, PTL DEF Spec
=============================================================================
