----------------------- MODULE CameraConnectionProofs -----------------------
(***************************************************************************)
(* Proofs about CameraConnection for every length of the request, every    *)
(* size of the send buffer and any amount of unread data.                  *)
(***************************************************************************)
EXTENDS CameraConnection, WellFoundedInduction, TLAPS

Bodies == [offer : {"none", "image", "big"}, state : {"ok", "error", "ended"}]

LEMMA ExecuteType ==
  ASSUME NEW b \in Bodies, NEW s \in Segments
  PROVE  Execute(b, s) \in Bodies
<1>1. CASE b.state # "ok" \/ s = "part"
  BY <1>1 DEF Execute
<1>2. CASE b.state = "ok" /\ s \in {"junk", "fatal"}
  BY <1>2 DEF Execute, Bodies
<1>3. CASE b.state = "ok" /\ s \in {"image", "big", "empty"}
  BY <1>3 DEF Execute, OfferOf, Bodies
<1> QED BY <1>1, <1>2, <1>3 DEF Segments

(* In particular no more of the request is sent than there is.             *)
THEOREM TypeCorrect == Spec => []TypeOK
<1>1. Init => TypeOK
  <2> SUFFICES ASSUME Init PROVE TypeOK
    OBVIOUS
  <2>1. /\ sockfd \in BOOLEAN /\ connected \in BOOLEAN /\ nospace \in BOOLEAN
        /\ fin \in BOOLEAN /\ edge \in BOOLEAN
    BY DEF Init
  <2>2. body \in Bodies
    BY DEF Init, NoBody, Bodies
  <2>3. /\ bytesWritten \in 0 .. outputLength /\ room \in 0 .. SendRoom
        /\ inbox \in Seq(Segments)
    BY RequestAssumption, KernelAssumption DEF Init
  <2> QED BY <2>1, <2>2, <2>3 DEF Init, TypeOK, Bodies
<1>2. TypeOK /\ [Next]_vars => TypeOK'
  <2> SUFFICES ASSUME TypeOK, [Next]_vars PROVE TypeOK'
    OBVIOUS
  <2> USE RequestAssumption, KernelAssumption DEF TypeOK
  <2>1. CASE Open
    <3>1. /\ sockfd' \in BOOLEAN /\ connected' \in BOOLEAN /\ nospace' \in BOOLEAN
          /\ fin' \in BOOLEAN /\ edge' \in BOOLEAN
      BY <2>1 DEF Open
    <3>2. body' \in Bodies
      BY <2>1 DEF Open, NoBody, Bodies
    <3>3. /\ bytesWritten' \in 0 .. outputLength /\ room' \in 0 .. SendRoom
          /\ inbox' \in Seq(Segments)
      BY <2>1 DEF Open
    <3> QED BY <2>1, <3>1, <3>2, <3>3 DEF Open, Bodies
  <2>2. CASE OpenFails \/ EpollWait
    BY <2>2 DEF OpenFails, EpollWait, connVars, sockVars
  <2>3. CASE StillConnecting \/ ConnectFailed \/ CheckedConnection
    BY <2>3 DEF StillConnecting, ConnectFailed, CheckedConnection, At
  <2>4. CASE Send
    BY <2>4 DEF Send, At, Unsent
  <2>5. CASE SendBlocks \/ SendFails \/ SendKills \/ AllSent
    <3>1. CASE SendBlocks \/ AllSent
      BY <2>5, <3>1 DEF SendBlocks, AllSent, At
    <3>2. CASE SendFails \/ SendKills
      BY <2>5, <3>2 DEF SendFails, SendKills, At
    <3> QED BY <2>5, <3>1, <3>2
  <2>6. CASE Recv \/ RecvKills
    <3>1. Head(inbox) \in Segments /\ Tail(inbox) \in Seq(Segments)
      BY <2>6 DEF Recv, RecvKills
    <3>2. body' \in Bodies
      BY <2>6, <3>1, ExecuteType DEF Recv, RecvKills, Bodies
    <3> QED BY SMTT(20), <2>6, <3>1, <3>2 DEF Recv, RecvKills, At, Bodies
  <2>7. CASE RecvEnd \/ RecvBlocks
    BY <2>7 DEF RecvEnd, RecvBlocks, At
  <2>8. CASE KeepWaiting \/ CloseFails
    BY <2>8 DEF KeepWaiting, CloseFails, connVars, sockVars
  <2>9. CASE Deliver \/ GiveUp
    <3>1. /\ pc' = "closed" /\ tcp' = "none"
          /\ outcome' \in {"image", "dropped"}
          /\ UNCHANGED <<connected, bytesWritten, body, room, nospace, inbox, fin>>
      BY <2>9 DEF Deliver, GiveUp, Close
    <3>2. sockfd' \in BOOLEAN /\ edge' \in BOOLEAN
      BY <2>9 DEF Deliver, GiveUp, Close
    <3> QED BY <3>1, <3>2
  <2>10. CASE Accepts \/ Closes \/ Fails \/ Wakes
    <3>1. CASE Accepts \/ Closes
      BY <3>1 DEF Accepts, Closes, Alive, connVars
    <3>2. CASE Fails
      BY <3>2 DEF Fails, Alive, connVars
    <3>3. CASE Wakes
      BY <3>3 DEF Wakes, Alive, connVars, sockVars
    <3> QED BY <2>10, <3>1, <3>2, <3>3
  <2>11. CASE Drains
    <3>1. room' \in 0 .. SendRoom /\ UNCHANGED <<pc, connVars, tcp, inbox, fin>>
      BY <2>11 DEF Drains, Alive
    <3>2. nospace' \in BOOLEAN /\ edge' \in BOOLEAN
      BY <2>11 DEF Drains
    <3> QED BY <3>1, <3>2 DEF connVars
  <2>12. ASSUME NEW s \in Segments, Sends(s) PROVE TypeOK'
    BY <2>12 DEF Sends, Alive, connVars
  <2>13. CASE Stopped \/ UNCHANGED vars
    BY <2>13 DEF Stopped, vars
  <2> QED
    BY <2>1, <2>2, <2>3, <2>4, <2>5, <2>6, <2>7, <2>8, <2>9, <2>10, <2>11,
       <2>12, <2>13 DEF Next, Thread, Outside
<1> QED BY <1>1, <1>2, PTL DEF Spec

-----------------------------------------------------------------------------
(* NoLostEdge is not inductive: what holds when the thread waits was made  *)
(* true, and is kept up against the DVR and the kernel, along the call of  *)
(* process that went before.                                               *)

(* Nothing arrives before the connection is established.                   *)
QuietBefore == tcp = "connecting" => inbox = << >> /\ ~fin

SendingConnected == pc \in {"send", "recv"} => connected

RequestHandedOver == pc = "recv" /\ ~edge => Unsent = 0 \/ nospace

NothingLeft ==
  pc \in {"result", "wait"} /\ ~edge =>
    /\ inbox = << >> /\ ~fin /\ tcp # "failed"
    /\ tcp = "established" => connected /\ (Unsent = 0 \/ nospace)

EdgeInv == QuietBefore /\ SendingConnected /\ RequestHandedOver /\ NothingLeft

LEMMA EdgeInvStep == TypeOK /\ EdgeInv /\ [Next]_vars => EdgeInv'
<1> SUFFICES ASSUME TypeOK, EdgeInv, [Next]_vars PROVE EdgeInv'
  OBVIOUS
<1> USE DEF EdgeInv, QuietBefore, SendingConnected, RequestHandedOver, NothingLeft, Unsent
<1>1. CASE Open \/ OpenFails \/ EpollWait
  BY <1>1 DEF Open, OpenFails, EpollWait, connVars, sockVars
<1>2. CASE StillConnecting \/ ConnectFailed \/ CheckedConnection
  BY <1>2 DEF StillConnecting, ConnectFailed, CheckedConnection, At
<1>3. CASE Send \/ SendBlocks \/ SendFails \/ SendKills \/ AllSent
  BY <1>3 DEF Send, SendBlocks, SendFails, SendKills, AllSent, At
<1>4. CASE Recv \/ RecvKills \/ RecvEnd
  BY <1>4 DEF Recv, RecvKills, RecvEnd, At
<1>5. CASE RecvBlocks
  BY <1>5 DEF RecvBlocks, At
<1>6. CASE KeepWaiting \/ CloseFails \/ Deliver \/ GiveUp
  BY <1>6 DEF KeepWaiting, CloseFails, Deliver, GiveUp, Close, connVars, sockVars
<1>7. CASE Accepts \/ Closes \/ Fails \/ Wakes
  BY <1>7 DEF Accepts, Closes, Fails, Wakes, Alive, connVars, sockVars
<1>8. CASE Drains
  BY <1>8 DEF Drains, Alive, connVars, TypeOK
<1>9. ASSUME NEW s \in Segments, Sends(s) PROVE EdgeInv'
  BY <1>9 DEF Sends, Alive, connVars
<1>10. CASE Stopped \/ UNCHANGED vars
  BY <1>10 DEF Stopped, vars
<1> QED
  BY <1>1, <1>2, <1>3, <1>4, <1>5, <1>6, <1>7, <1>8, <1>9, <1>10 DEF Next, Thread, Outside

(* The loops of process leave nothing behind that only a further edge      *)
(* could bring up, whatever the DVR does between their system calls.       *)
THEOREM EdgesSuffice == Spec => []NoLostEdge
<1>1. Init => EdgeInv
  BY DEF Init, EdgeInv, QuietBefore, SendingConnected, RequestHandedOver, NothingLeft
<1>2. Spec => []EdgeInv
  BY <1>1, EdgeInvStep, TypeCorrect, PTL DEF Spec
<1>3. EdgeInv => NoLostEdge
  BY DEF EdgeInv, NothingLeft, NoLostEdge
<1> QED BY <1>2, <1>3, PTL

-----------------------------------------------------------------------------
(* What the segments that are not read yet will make of the body: the      *)
(* equations by which ExecuteAll is the repetition of Execute.             *)

LEMMA MaxExists ==
  ASSUME NEW n \in Nat, NEW S, S \subseteq 1 .. n, S # {}
  PROVE  Max(S) \in S /\ \A y \in S : Max(S) >= y
<1> DEFINE T == {n - x : x \in S}
<1>0. \A x \in S : x \in Int /\ n - x \in Nat
  OBVIOUS
<1>1. T \subseteq Nat /\ T # {}
  BY <1>0
<1>2. PICK t \in T : \A u \in T : ~(<<u, t>> \in OpToRel(<, Nat))
  BY <1>1, WFMin, NatLessThanWellFounded
<1>3. \A u \in T : u >= t
  <2> SUFFICES ASSUME NEW u \in T, u < t PROVE FALSE
    BY <1>1
  <2>1. <<u, t>> \in OpToRel(<, Nat)
    BY <1>1 DEF OpToRel
  <2> QED BY <2>1, <1>2
<1>4. PICK m \in S : t = n - m
  OBVIOUS
<1>5. \A y \in S : m >= y
  <2> SUFFICES ASSUME NEW y \in S PROVE m >= y
    OBVIOUS
  <2>1. n - y >= n - m
    BY <1>3, <1>4
  <2>2. y \in Int /\ m \in Int
    BY <1>0
  <2> QED BY <2>1, <2>2
<1> QED BY <1>5 DEF Max

LEMMA ExecuteAllNothing ==
  ASSUME NEW b \in Bodies PROVE ExecuteAll(b, << >>) = b
<1>1. Heard(<< >>) = {} /\ Images(<< >>) = {}
  BY DEF Heard, Images
<1> QED BY <1>1 DEF ExecuteAll, Bodies

LEMMA ImagesAreBounded ==
  ASSUME NEW q \in Seq(Segments)
  PROVE  /\ Heard(q) \subseteq 1 .. Len(q) /\ Images(q) \subseteq 1 .. Len(q) /\ Len(q) \in Nat
         /\ Images(q) # {} => /\ Max(Images(q)) \in Images(q)
                              /\ \A i \in Images(q) : Max(Images(q)) >= i
<1>1. Heard(q) \subseteq 1 .. Len(q) /\ Images(q) \subseteq 1 .. Len(q) /\ Len(q) \in Nat
  BY DEF Heard, Images
<1> DEFINE n == Len(q)
           S == Images(q)
<1>2. n \in Nat /\ S \subseteq 1 .. n
  BY <1>1
<1> HIDE DEF n, S
<1>3. S # {} => Max(S) \in S /\ \A i \in S : Max(S) >= i
  BY <1>2, MaxExists
<1> QED BY <1>1, <1>3 DEF S

LEMMA ExecuteAllType ==
  ASSUME NEW b \in Bodies, NEW q \in Seq(Segments)
  PROVE  ExecuteAll(b, q) \in Bodies
<1>1. Images(q) # {} => OfferOf(q[Max(Images(q))]) \in {"none", "image", "big"}
  BY ImagesAreBounded DEF Images, OfferOf
<1> QED BY <1>1 DEF ExecuteAll, Bodies

LEMMA MaxIsIt ==
  ASSUME NEW S \in SUBSET Int, NEW m \in S, \A y \in S : m >= y
  PROVE  Max(S) = m
<1>1. Max(S) \in S /\ \A y \in S : Max(S) >= y
  BY Zenon DEF Max
<1>2. Max(S) >= m /\ m >= Max(S) /\ Max(S) \in Int /\ m \in Int
  BY <1>1
<1> QED BY <1>2

(* What is heard of a segment and those behind it.                         *)
LEMMA HeardHead ==
  ASSUME NEW q \in Seq(Segments), q # << >>
  PROVE  /\ 1 \in Heard(q)
         /\ Head(q) \in {"junk", "fatal"} => Heard(q) = {1}
         /\ Head(q) \notin {"junk", "fatal"} =>
              /\ \A i \in Heard(Tail(q)) : i + 1 \in Heard(q)
              /\ \A i \in Heard(q) : i # 1 => i - 1 \in Heard(Tail(q))
<1> DEFINE h == Head(q)
           t == Tail(q)
<1>1. /\ h \in Segments /\ t \in Seq(Segments) /\ q[1] = h
      /\ Len(q) \in Nat /\ Len(q) >= 1 /\ Len(t) = Len(q) - 1
      /\ \A i \in 1 .. Len(t) : t[i] = q[i + 1]
      /\ DOMAIN q = 1 .. Len(q) /\ DOMAIN t = 1 .. Len(t)
  OBVIOUS
<1> HIDE DEF h, t
<1>2. 1 \in Heard(q)
  BY <1>1 DEF Heard
<1>3. ASSUME h \in {"junk", "fatal"} PROVE Heard(q) = {1}
  <2> SUFFICES ASSUME NEW i \in Heard(q), i # 1 PROVE FALSE
    BY <1>2
  <2>1. 1 \in 1 .. (i - 1)
    BY <1>1 DEF Heard
  <2> QED BY <1>1, <1>3, <2>1 DEF Heard
<1>4. ASSUME h \notin {"junk", "fatal"}, NEW i \in Heard(t) PROVE i + 1 \in Heard(q)
  <2>1. i \in 1 .. Len(t) /\ \A j \in 1 .. (i - 1) : t[j] \notin {"junk", "fatal"}
    BY <1>1, <1>4 DEF Heard
  <2>2. ASSUME NEW j \in 1 .. i PROVE q[j] \notin {"junk", "fatal"}
    <3>1. CASE j = 1
      BY <1>1, <1>4, <3>1
    <3>2. CASE j # 1
      <4>1. j - 1 \in 1 .. (i - 1) /\ j - 1 \in 1 .. Len(t)
        BY <1>1, <2>1, <3>2
      <4>2. q[j] = t[j - 1]
        BY <1>1, <4>1
      <4> QED BY <2>1, <4>1, <4>2
    <3> QED BY <3>1, <3>2
  <2> QED BY <1>1, <2>1, <2>2 DEF Heard
<1>5. ASSUME NEW i \in Heard(q), i # 1 PROVE i - 1 \in Heard(t)
  <2>1. i \in 1 .. Len(q) /\ \A j \in 1 .. (i - 1) : q[j] \notin {"junk", "fatal"}
    BY <1>1 DEF Heard
  <2>2. ASSUME NEW j \in 1 .. (i - 2) PROVE t[j] \notin {"junk", "fatal"}
    <3>1. j + 1 \in 1 .. (i - 1) /\ j \in 1 .. Len(t)
      BY <1>1, <2>1
    <3> QED BY <1>1, <2>1, <3>1
  <2>3. (i - 1) - 1 = i - 2 /\ i - 1 \in DOMAIN t
    BY <1>1, <1>5, <2>1
  <2> QED BY <2>2, <2>3 DEF Heard
<1> QED BY <1>2, <1>3, <1>4, <1>5 DEF h, t

LEMMA ExecuteAllHead ==
  ASSUME NEW b \in Bodies, NEW q \in Seq(Segments), q # << >>
  PROVE  ExecuteAll(Execute(b, Head(q)), Tail(q)) = ExecuteAll(b, q)
<1> DEFINE h == Head(q)
           t == Tail(q)
           c == Execute(b, h)
<1>1. /\ h \in Segments /\ t \in Seq(Segments) /\ q[1] = h
      /\ Len(q) \in Nat /\ Len(t) = Len(q) - 1
      /\ \A i \in 1 .. Len(t) : t[i] = q[i + 1]
  OBVIOUS
<1>2. /\ 1 \in Heard(q) /\ Heard(q) \subseteq 1 .. Len(q) /\ Heard(t) \subseteq 1 .. Len(t)
      /\ h \in {"junk", "fatal"} => Heard(q) = {1}
      /\ h \notin {"junk", "fatal"} =>
           /\ \A i \in Heard(t) : i + 1 \in Heard(q)
           /\ \A i \in Heard(q) : i # 1 => i - 1 \in Heard(t)
  BY <1>1, HeardHead, ImagesAreBounded
<1> HIDE DEF h, t
<1>3. CASE b.state # "ok"
  <2>1. c = b
    BY <1>3 DEF Execute
  <2> QED BY <1>3, <2>1 DEF ExecuteAll, h, t
<1>4. CASE b.state = "ok" /\ h \in {"junk", "fatal"}
  <2>1. c = [offer |-> b.offer, state |-> IF h = "junk" THEN "error" ELSE "ended"]
    BY <1>4 DEF Execute, Bodies
  <2>2. Images(q) = {}
    BY <1>1, <1>2, <1>4 DEF Images
  <2>3. ExecuteAll(b, q) = [offer |-> b.offer, state |-> IF h = "junk" THEN "error" ELSE "ended"]
    BY <1>1, <1>2, <1>4, <2>2 DEF ExecuteAll
  <2>4. ExecuteAll(c, t) = c
    BY <1>4, <2>1 DEF ExecuteAll
  <2> QED BY <2>1, <2>3, <2>4 DEF h, t
<1>5. CASE b.state = "ok" /\ h \notin {"junk", "fatal"}
  <2>1. c.state = "ok" /\ c.offer = IF h = "part" THEN b.offer ELSE OfferOf(h)
    BY <1>5, <1>1 DEF Execute, Bodies, Segments
  <2>2. ASSUME NEW e \in {"junk", "fatal"}
        PROVE  (\E i \in Heard(q) : q[i] = e) <=> (\E i \in Heard(t) : t[i] = e)
    <3>1. ASSUME NEW i \in Heard(q), q[i] = e PROVE \E k \in Heard(t) : t[k] = e
      <4>1. i # 1 /\ i \in 1 .. Len(q)
        BY <1>1, <1>2, <1>5, <3>1
      <4>2. i - 1 \in Heard(t) /\ t[i - 1] = q[i]
        BY <1>1, <1>2, <1>5, <4>1
      <4> QED BY <3>1, <4>2
    <3>2. ASSUME NEW i \in Heard(t), t[i] = e PROVE \E k \in Heard(q) : q[k] = e
      <4>1. i + 1 \in Heard(q) /\ q[i + 1] = t[i]
        BY <1>1, <1>2, <1>5
      <4> QED BY <3>2, <4>1
    <3> QED BY <3>1, <3>2
  <2>3. \A i \in Images(t) : i + 1 \in Images(q) /\ q[i + 1] = t[i]
    BY <1>1, <1>2, <1>5 DEF Images
  <2>4. ASSUME NEW i \in Images(q), i # 1 PROVE i - 1 \in Images(t)
    <3>1. i \in Heard(q) /\ i \in 1 .. Len(q) /\ q[i] \in {"image", "big", "empty"}
      BY <1>2 DEF Images
    <3>2. i - 1 \in Heard(t) /\ t[i - 1] = q[i]
      BY <1>1, <1>2, <1>5, <2>4, <3>1
    <3> QED BY <3>1, <3>2 DEF Images
  <2>5. 1 \in Images(q) <=> h \in {"image", "big", "empty"}
    BY <1>1, <1>2 DEF Images
  <2>6. (IF Images(t) = {} THEN c.offer ELSE OfferOf(t[Max(Images(t))]))
          = (IF Images(q) = {} THEN b.offer ELSE OfferOf(q[Max(Images(q))]))
    <3>1. CASE Images(t) # {}
      <4> DEFINE m == Max(Images(t))
      <4>1. m \in Images(t) /\ (\A i \in Images(t) : m >= i) /\ Images(t) \subseteq 1 .. Len(t)
            /\ Images(q) \subseteq 1 .. Len(q)
        BY <3>1, <1>1, ImagesAreBounded
      <4>2. m + 1 \in Images(q) /\ q[m + 1] = t[m] /\ Images(q) \in SUBSET Int
        BY <4>1, <2>3, <1>1
      <4>3. \A i \in Images(q) : m + 1 >= i
        BY <4>1, <4>2, <2>4
      <4>4. Max(Images(q)) = m + 1
        BY <4>2, <4>3, MaxIsIt
      <4> QED BY <3>1, <4>2, <4>4
    <3>2. CASE Images(t) = {} /\ h = "part"
      <4>1. Images(q) = {}
        BY <2>4, <2>5, <3>2
      <4> QED BY <2>1, <3>2, <4>1
    <3>3. CASE Images(t) = {} /\ h # "part"
      <4>1. Images(q) = {1}
        BY <2>4, <2>5, <3>3, <1>1, <1>5 DEF Segments
      <4>2. Max({1}) = 1
        BY DEF Max
      <4> QED BY <2>1, <3>3, <4>1, <4>2, <1>1
    <3> QED BY <3>1, <3>2, <3>3
  <2> QED BY <2>1, <2>2, <2>6, <1>5 DEF ExecuteAll, h, t
<1> QED BY <1>3, <1>4, <1>5

(* Of the segments that end the receiving, the first one is heard.         *)
LEMMA FirstEnderIsHeard ==
  ASSUME NEW q \in Seq(Segments), NEW e \in DOMAIN q, q[e] \in {"junk", "fatal"}
  PROVE  \E i \in Heard(q) : q[i] \in {"junk", "fatal"}
<1> DEFINE T == {i \in DOMAIN q : q[i] \in {"junk", "fatal"}}
<1>1. T \subseteq Nat /\ T # {} /\ DOMAIN q = 1 .. Len(q) /\ Len(q) \in Nat
  OBVIOUS
<1>2. PICK i \in T : \A u \in T : ~(<<u, i>> \in OpToRel(<, Nat))
  BY <1>1, WFMin, NatLessThanWellFounded
<1>3. ASSUME NEW j \in 1 .. (i - 1) PROVE q[j] \notin {"junk", "fatal"}
  <2>1. j \in DOMAIN q /\ <<j, i>> \in OpToRel(<, Nat)
    BY <1>1 DEF OpToRel
  <2> QED BY <1>2, <2>1
<1>4. i \in Heard(q)
  BY <1>3 DEF Heard
<1> QED BY <1>4

(* What is heard of a segment behind others.                               *)
LEMMA HeardAppend ==
  ASSUME NEW q \in Seq(Segments), NEW s \in Segments
  PROVE  Heard(Append(q, s)) =
           IF \E i \in Heard(q) : q[i] \in {"junk", "fatal"} THEN Heard(q)
           ELSE Heard(q) \cup {Len(q) + 1}
<1> DEFINE r == Append(q, s)
           n == Len(q)
<1>1. /\ n \in Nat /\ DOMAIN q = 1 .. n /\ DOMAIN r = 1 .. (n + 1)
      /\ r[n + 1] = s /\ \A i \in 1 .. n : r[i] = q[i]
  OBVIOUS
<1> HIDE DEF r, n
<1>2. ASSUME NEW i \in 1 .. n PROVE i \in Heard(r) <=> i \in Heard(q)
  <2>1. \A j \in 1 .. (i - 1) : r[j] = q[j]
    BY <1>1
  <2>2. i \in DOMAIN q /\ i \in DOMAIN r
    BY <1>1
  <2> QED BY <2>1, <2>2 DEF Heard
<1>3. n + 1 \in Heard(r) <=> \A j \in DOMAIN q : q[j] \notin {"junk", "fatal"}
  <2>1. (n + 1) - 1 = n /\ n + 1 \in DOMAIN r
    BY <1>1
  <2> QED BY <1>1, <2>1 DEF Heard
<1>4. Heard(r) \subseteq 1 .. (n + 1) /\ Heard(q) \subseteq 1 .. n
  BY <1>1 DEF Heard
<1>5. (\E j \in DOMAIN q : q[j] \in {"junk", "fatal"})
        <=> (\E i \in Heard(q) : q[i] \in {"junk", "fatal"})
  BY <1>1, <1>4, FirstEnderIsHeard
<1>6. \A i \in 1 .. (n + 1) : i \in 1 .. n \/ i = n + 1
  BY <1>1
<1>7. CASE \E i \in Heard(q) : q[i] \in {"junk", "fatal"}
  <2>1. Heard(r) = Heard(q)
    BY <1>2, <1>3, <1>4, <1>5, <1>6, <1>7
  <2> QED BY <1>7, <2>1 DEF r
<1>8. CASE ~\E i \in Heard(q) : q[i] \in {"junk", "fatal"}
  <2>1. n + 1 \in Heard(r)
    BY <1>3, <1>5, <1>8
  <2>2. Heard(r) = Heard(q) \cup {n + 1}
    BY <2>1, <1>2, <1>4, <1>6
  <2> QED BY <1>8, <2>2 DEF r, n
<1> QED BY <1>7, <1>8

LEMMA ExecuteAllAppend ==
  ASSUME NEW b \in Bodies, NEW q \in Seq(Segments), NEW s \in Segments
  PROVE  ExecuteAll(b, Append(q, s)) = Execute(ExecuteAll(b, q), s)
<1> DEFINE r == Append(q, s)
           n == Len(q)
           c == ExecuteAll(b, q)
           Ends == \E i \in Heard(q) : q[i] \in {"junk", "fatal"}
<1>1. /\ n \in Nat /\ r[n + 1] = s /\ \A i \in 1 .. n : r[i] = q[i]
      /\ Heard(q) \subseteq 1 .. n /\ Images(q) \subseteq 1 .. n
      /\ Images(q) # {} => Max(Images(q)) \in Images(q)
  BY ImagesAreBounded
<1>2. Heard(r) = IF Ends THEN Heard(q) ELSE Heard(q) \cup {n + 1}
  BY HeardAppend
<1>3. c \in Bodies
  BY ExecuteAllType
<1> HIDE DEF r, n
<1>4. CASE b.state # "ok"
  <2>1. c = b /\ ExecuteAll(b, r) = b
    BY <1>4 DEF ExecuteAll
  <2> QED BY <1>4, <2>1 DEF Execute, r
<1>5. CASE b.state = "ok" /\ Ends
  <2>1. Images(r) = Images(q)
    BY <1>1, <1>2, <1>5 DEF Images
  <2>2. ExecuteAll(b, r) = c
    BY <1>1, <1>2, <1>5, <2>1 DEF ExecuteAll
  <2>3. c.state # "ok"
    BY <1>5 DEF ExecuteAll
  <2> QED BY <2>2, <2>3 DEF Execute, r
<1>6. CASE b.state = "ok" /\ ~Ends
  <2>1. c = [offer |-> IF Images(q) = {} THEN b.offer ELSE OfferOf(q[Max(Images(q))]),
             state |-> "ok"]
    BY <1>6 DEF ExecuteAll
  <2>2. \A e \in {"junk", "fatal"} : (\E i \in Heard(r) : r[i] = e) <=> s = e
    BY <1>1, <1>2, <1>6
  <2>3. CASE s \in {"part", "junk", "fatal"}
    <3>1. Images(r) = Images(q)
      BY <1>1, <1>2, <1>6, <2>3 DEF Images
    <3>2. ExecuteAll(b, r) = [offer |-> c.offer,
                              state |-> IF s = "fatal" THEN "ended"
                                        ELSE IF s = "junk" THEN "error" ELSE "ok"]
      BY <1>1, <1>6, <2>1, <2>2, <3>1 DEF ExecuteAll
    <3>3. Execute(c, s) = [offer |-> c.offer,
                           state |-> IF s = "fatal" THEN "ended"
                                     ELSE IF s = "junk" THEN "error" ELSE "ok"]
      BY <2>1, <2>3 DEF Execute
    <3> QED BY <3>2, <3>3 DEF r
  <2>4. CASE s \in {"image", "big", "empty"}
    <3>1. n + 1 \in Images(r) /\ Images(r) \subseteq 1 .. (n + 1)
      BY <1>1, <1>2, <1>6, <2>4 DEF Images
    <3>2. Max(Images(r)) = n + 1
      <4>1. Images(r) \in SUBSET Int /\ \A y \in Images(r) : n + 1 >= y
        BY <3>1, <1>1
      <4> QED BY <3>1, <4>1, MaxIsIt
    <3>3. ExecuteAll(b, r) = [offer |-> OfferOf(s), state |-> "ok"]
      BY <1>1, <1>6, <2>2, <2>4, <3>1, <3>2 DEF ExecuteAll
    <3>4. Execute(c, s) = [offer |-> OfferOf(s), state |-> "ok"]
      BY <2>1, <2>4 DEF Execute
    <3> QED BY <3>3, <3>4 DEF r
  <2> QED BY <2>3, <2>4 DEF Segments
<1> QED BY <1>4, <1>5, <1>6

-----------------------------------------------------------------------------
(* CameraConnection implements CameraLink.  A call of process is many      *)
(* steps here and none there: the link must not change while the thread    *)
(* works it off, and what the thread finds must be what the link said.     *)

(* Nothing was read before the connection was found established.           *)
FreshBefore ==
  /\ tcp = "connecting" => ~connected
  /\ ~connected => body = NoBody

(* process fails only for an end or an error the link shows.               *)
ClosedForCause ==
  pc = "close" => tcp = "failed" \/ (tcp = "established" /\ fin /\ inbox = << >>)

(* The receiver lasts as long as the process.                              *)
ReceiverLasts == pc # "killed" => body.state # "ended"

SocketIsOpen ==
  /\ pc = "closed" => tcp = "none"
  /\ pc \notin {"closed", "stopped", "killed"} => tcp # "none"

LinkInv == FreshBefore /\ ClosedForCause /\ ReceiverLasts /\ SocketIsOpen

LEMMA LinkInvStep == TypeOK /\ EdgeInv /\ LinkInv /\ [Next]_vars => LinkInv'
<1> SUFFICES ASSUME TypeOK, EdgeInv, LinkInv, [Next]_vars PROVE LinkInv'
  OBVIOUS
<1> USE DEF LinkInv, FreshBefore, ClosedForCause, ReceiverLasts, SocketIsOpen, Over, NoBody
<1>1. CASE Open \/ OpenFails \/ EpollWait
  BY <1>1 DEF Open, OpenFails, EpollWait, connVars, sockVars
<1>2. CASE StillConnecting \/ ConnectFailed \/ CheckedConnection
  BY <1>2 DEF StillConnecting, ConnectFailed, CheckedConnection, At
<1>3. CASE Send \/ SendBlocks \/ SendFails \/ SendKills \/ AllSent
  BY <1>3 DEF Send, SendBlocks, SendFails, SendKills, AllSent, At
<1>4. CASE Recv \/ RecvKills \/ RecvBlocks
  BY <1>4 DEF Recv, RecvKills, RecvBlocks, At, EdgeInv, SendingConnected
<1>5. CASE RecvEnd
  BY <1>5 DEF RecvEnd, At, EdgeInv, SendingConnected, TypeOK
<1>6. CASE KeepWaiting \/ CloseFails \/ Deliver \/ GiveUp
  BY <1>6 DEF KeepWaiting, CloseFails, Deliver, GiveUp, Close, connVars, sockVars
<1>7. CASE Accepts \/ Closes \/ Fails \/ Wakes
  BY <1>7 DEF Accepts, Closes, Fails, Wakes, Alive, connVars, sockVars
<1>8. CASE Drains
  BY <1>8 DEF Drains, Alive, connVars
<1>9. ASSUME NEW s \in Segments, Sends(s) PROVE LinkInv'
  BY <1>9 DEF Sends, Alive, connVars
<1>10. CASE Stopped \/ UNCHANGED vars
  BY <1>10 DEF Stopped, vars
<1> QED
  BY <1>1, <1>2, <1>3, <1>4, <1>5, <1>6, <1>7, <1>8, <1>9, <1>10 DEF Next, Thread, Outside

(* The link of a state, without the conditions the CASE repeats.           *)
LinkCases ==
  /\ pc \in {"closed", "stopped", "killed"} => linkSeen = "none"
  /\ pc \notin {"closed", "stopped", "killed"} /\ Answered => linkSeen = body.offer
  /\ pc \notin {"closed", "stopped", "killed"} /\ ~Answered =>
       /\ tcp = "connecting" => linkSeen = "syn"
       /\ tcp = "failed" => linkSeen = "err"
       /\ tcp = "established" /\ fin /\ Pending.state # "ended" => linkSeen = "fin"
       /\ tcp = "established" /\ (~fin \/ Pending.state = "ended") => linkSeen = LinkOf(Pending)

LEMMA LinkCasesHold == TypeOK => LinkCases
BY DEF LinkCases, linkSeen, Gone, Over

(* The turn of a state.                                                    *)
TurnCases ==
  /\ pc \in {"closed", "stopped", "killed"} => turnSeen = pc
  /\ pc = "wait" => turnSeen = "waiting"
  /\ pc = "result" => turnSeen = IF Answered THEN "handling" ELSE "waiting"
  /\ pc \in {"process", "send", "recv", "close"} => turnSeen = "handling"
  /\ pc # "result" => ~Answered
  /\ pc = "result" => (Answered <=> body.offer # "none")
  /\ edgeSeen = (edge /\ pc \notin {"closed", "stopped", "killed"})

LEMMA TurnCasesHold == TypeOK => TurnCases
<1> SUFFICES ASSUME TypeOK PROVE TurnCases
  OBVIOUS
<1>1. /\ pc # "result" => ~Answered
      /\ pc = "result" => (Answered <=> body.offer # "none")
      /\ edgeSeen = (edge /\ pc \notin {"closed", "stopped", "killed"})
  BY DEF Answered, edgeSeen, Gone, Over
<1>2. CASE pc = "result"
  BY <1>1, <1>2 DEF turnSeen, TurnCases, Gone, Over
<1>3. CASE pc # "result"
  BY <1>1, <1>3 DEF turnSeen, TurnCases, TypeOK, Gone, Over
<1> QED BY <1>2, <1>3

(* What a connection in each situation looks like to the event loop.       *)
SeenInv == LinkCases /\ TurnCases

(* Between two system calls of process the link stays what it was: of what *)
(* it is made of only the place of the thread changes, or a segment moves  *)
(* from the kernel to the receiver.                                        *)
LEMMA CallKeepsLink ==
  ASSUME TypeOK, SeenInv, SeenInv', UNCHANGED <<outcome, tcp, fin, edge>>,
         Pending' = Pending, tcp # "none",
         pc \in {"process", "send", "recv"}, pc' \in {"process", "send", "recv", "close"}
  PROVE  UNCHANGED Link!linkVars
<1>1. linkSeen' = linkSeen
  <2>1. LinkOf(Pending)' = LinkOf(Pending)
    BY DEF LinkOf
  <2> QED BY <2>1 DEF SeenInv, LinkCases, TurnCases, TypeOK
<1>2. turnSeen' = turnSeen /\ edgeSeen' = edgeSeen
  BY DEF SeenInv, TurnCases
<1> QED BY <1>1, <1>2 DEF Link!linkVars

LEMMA LinkOfEmptyInbox ==
  ASSUME TypeOK, inbox = << >> PROVE Pending = body /\ LinkOf(Pending) = LinkOf(body)
<1>1. Pending = body
  BY ExecuteAllNothing DEF Pending, TypeOK, Bodies
<1> QED BY <1>1

(* A system call of the thread.                                            *)
LEMMA ThreadIsLinkStep ==
  ASSUME TypeOK, EdgeInv, LinkInv, SeenInv, SeenInv', Thread
  PROVE  [Link!LinkNext]_(Link!linkVars)
<1>1. CASE Open
  <2>1. Link!Connect
    BY <1>1 DEF Open, SeenInv, LinkCases, TurnCases, Link!Connect
  <2> QED BY <2>1 DEF Link!LinkNext
<1>2. CASE OpenFails
  <2>1. Link!Stop
    BY <1>2 DEF OpenFails, SeenInv, LinkCases, TurnCases, Link!Stop
  <2> QED BY <2>1 DEF Link!LinkNext
<1>3. CASE EpollWait
  <2>1. /\ turnSeen = "waiting" /\ edgeSeen /\ edgeSeen' = FALSE /\ turnSeen' = "handling"
        /\ outcome' = outcome
    BY <1>3 DEF EpollWait, SeenInv, TurnCases, connVars
  <2>2. Pending' = Pending
    BY <1>3 DEF EpollWait, Pending, connVars, sockVars
  <2>3. LinkOf(Pending)' = LinkOf(Pending)
    BY <2>2 DEF LinkOf
  <2>4. linkSeen' = linkSeen
    BY <1>3, <2>2, <2>3 DEF EpollWait, SeenInv, LinkCases, TurnCases, TypeOK, sockVars,
       LinkInv, SocketIsOpen
  <2>5. Link!TakeEvent
    BY <2>1, <2>4 DEF Link!TakeEvent
  <2> QED BY <2>5 DEF Link!LinkNext
<1>4. CASE StillConnecting
  <2>1. /\ pc = "process" /\ pc' = "result" /\ UNCHANGED <<body, tcp, edge, outcome>>
        /\ tcp = "connecting" /\ body.offer = "none"
    BY <1>4 DEF StillConnecting, At, LinkInv, FreshBefore, NoBody
  <2>2. Link!Idle
    BY <2>1 DEF SeenInv, LinkCases, TurnCases, Link!Idle
  <2> QED BY <2>2 DEF Link!LinkNext
<1>5. CASE ConnectFailed \/ CheckedConnection \/ Send \/ SendBlocks \/ SendFails \/ AllSent
  <2>1. /\ UNCHANGED <<outcome, tcp, fin, edge>>
        /\ UNCHANGED <<body, inbox>>
        /\ pc \in {"process", "send"} /\ pc' \in {"process", "send", "recv", "close"}
    BY <1>5 DEF ConnectFailed, CheckedConnection, Send, SendBlocks, SendFails, AllSent, At
  <2>2. Pending' = Pending
    BY <2>1 DEF Pending
  <2>3. tcp # "none"
    BY <2>1 DEF LinkInv, SocketIsOpen
  <2> QED BY <2>1, <2>2, <2>3, CallKeepsLink
<1>6. CASE Recv
  <2>1. /\ UNCHANGED <<outcome, tcp, fin, edge>> /\ pc = "recv" /\ pc' = "recv"
        /\ inbox # << >> /\ body' = Execute(body, Head(inbox)) /\ inbox' = Tail(inbox)
    BY <1>6 DEF Recv, At
  <2>2. Pending' = Pending
    BY <2>1, ExecuteAllHead DEF Pending, TypeOK, Bodies
  <2>3. tcp # "none"
    BY <2>1 DEF LinkInv, SocketIsOpen
  <2> QED BY <2>1, <2>2, <2>3, CallKeepsLink
<1>7. CASE RecvEnd
  <2>1. /\ UNCHANGED <<outcome, tcp, fin, edge>> /\ UNCHANGED <<body, inbox>>
        /\ pc = "recv" /\ pc' = "close"
    BY <1>7 DEF RecvEnd, At
  <2>2. Pending' = Pending
    BY <2>1 DEF Pending
  <2>3. tcp # "none"
    BY <2>1 DEF LinkInv, SocketIsOpen
  <2> QED BY <2>1, <2>2, <2>3, CallKeepsLink
<1>8. CASE RecvBlocks
  <2>1. /\ UNCHANGED <<outcome, tcp, fin, edge, body, inbox>> /\ inbox = << >>
        /\ pc = "recv" /\ pc' = "result" /\ ~fin /\ tcp = "established"
    BY <1>8 DEF RecvBlocks, At, EdgeInv, SendingConnected, LinkInv, FreshBefore, SocketIsOpen, TypeOK
  <2>2. /\ linkSeen = LinkOf(body) /\ turnSeen = "handling"
        /\ edgeSeen' = edgeSeen /\ body.state # "ended"
    BY <2>1, LinkOfEmptyInbox DEF SeenInv, LinkCases, TurnCases, LinkInv, ReceiverLasts
  <2>3. CASE body.offer # "none"
    <3>1. linkSeen' = body.offer /\ turnSeen' = "handling"
      BY <2>1, <2>3 DEF SeenInv, LinkCases, TurnCases
    <3> QED BY <2>1, <2>2, <2>3, <3>1 DEF LinkOf, Link!linkVars
  <2>4. CASE body.offer = "none"
    <3>1. Pending' = Pending
      BY <2>1 DEF Pending
    <3>2. LinkOf(Pending)' = LinkOf(Pending)
      BY <3>1 DEF LinkOf
    <3>3. linkSeen' = linkSeen /\ turnSeen' = "waiting"
      BY <2>1, <2>4, <3>2 DEF SeenInv, LinkCases, TurnCases
    <3>4. linkSeen \in {"up", "mute"}
      BY <2>2, <2>4 DEF LinkOf
    <3>5. Link!Idle
      BY <2>1, <2>2, <3>3, <3>4 DEF Link!Idle
    <3> QED BY <3>5 DEF Link!LinkNext
  <2> QED BY <2>3, <2>4
<1>9. CASE KeepWaiting
  <2>1. /\ UNCHANGED <<body, inbox, tcp, fin, edge, outcome>> /\ pc = "result" /\ pc' = "wait"
        /\ body.offer = "none" /\ tcp # "none"
    BY <1>9 DEF KeepWaiting, connVars, sockVars, LinkInv, SocketIsOpen
  <2>2. LinkOf(Pending)' = LinkOf(Pending) /\ Pending' = Pending
    BY <2>1 DEF LinkOf, Pending
  <2>3. linkSeen' = linkSeen /\ turnSeen' = turnSeen /\ edgeSeen' = edgeSeen
    BY <2>1, <2>2 DEF SeenInv, LinkCases, TurnCases, TypeOK
  <2> QED BY <2>1, <2>3 DEF Link!linkVars
<1>10. CASE Deliver
  <2>1. Link!Deliver
    BY <1>10 DEF Deliver, Close, SeenInv, LinkCases, TurnCases, Link!Deliver
  <2> QED BY <2>1 DEF Link!LinkNext
<1>11. CASE GiveUp
  <2>1. linkSeen \in {"big", "fin", "err"} /\ turnSeen = "handling"
    BY <1>11, LinkOfEmptyInbox
       DEF GiveUp, SeenInv, LinkCases, TurnCases, LinkInv, ClosedForCause, ReceiverLasts
  <2>2. Link!Drop
    BY <1>11, <2>1 DEF GiveUp, Close, SeenInv, LinkCases, TurnCases, Link!Drop
  <2> QED BY <2>2 DEF Link!LinkNext
<1>12. CASE CloseFails
  <2>1. linkSeen \in {"image", "big", "fin", "err"} /\ turnSeen = "handling"
    BY <1>12, LinkOfEmptyInbox
       DEF CloseFails, SeenInv, LinkCases, TurnCases, LinkInv, ClosedForCause, ReceiverLasts, TypeOK
  <2>2. Link!Stop
    BY <1>12, <2>1 DEF CloseFails, connVars, SeenInv, LinkCases, TurnCases, Link!Stop
  <2> QED BY <2>2 DEF Link!LinkNext
<1>13. CASE SendKills \/ RecvKills
  <2>1. UNCHANGED <<outcome, tcp, fin>> /\ pc \in {"send", "recv"} /\ pc' = "killed"
    BY <1>13 DEF SendKills, RecvKills, At
  <2>2. linkSeen \in {"err", "fatal"}
    <3>1. CASE SendKills
      BY <3>1 DEF SendKills, At, SeenInv, LinkCases, TurnCases
    <3>2. CASE RecvKills
      <4>1. Pending.state = "ended"
        <5>1. Pending = ExecuteAll(body', Tail(inbox)) /\ body'.state = "ended"
          BY <3>2, ExecuteAllHead DEF RecvKills, Pending, TypeOK, Bodies
        <5> QED BY <5>1 DEF ExecuteAll
      <4>2. tcp \in {"established", "failed"}
        BY <3>2, <2>1 DEF LinkInv, SocketIsOpen, FreshBefore, EdgeInv, SendingConnected, TypeOK,
           RecvKills, At
      <4> QED BY <2>1, <4>1, <4>2 DEF SeenInv, LinkCases, TurnCases, LinkOf
    <3> QED BY <1>13, <3>1, <3>2
  <2>3. Link!Kill
    BY <2>1, <2>2 DEF SeenInv, LinkCases, TurnCases, Link!Kill
  <2> QED BY <2>3 DEF Link!LinkNext
<1> QED
  BY <1>1, <1>2, <1>3, <1>4, <1>5, <1>6, <1>7, <1>8, <1>9, <1>10, <1>11, <1>12,
     <1>13 DEF Thread

(* What the DVR and the kernel do.                                         *)
LEMMA OutsideIsLinkStep ==
  ASSUME TypeOK, EdgeInv, LinkInv, SeenInv, SeenInv', Outside
  PROVE  [Link!LinkNext]_(Link!linkVars)
<1>1. /\ UNCHANGED <<pc, body, outcome>> /\ tcp # "none" /\ pc \notin {"closed", "stopped", "killed"}
      /\ Answered' = Answered
  BY DEF Outside, Accepts, Closes, Fails, Drains, Wakes, Sends, Alive, Over, connVars,
         LinkInv, SocketIsOpen, Answered
<1>2. turnSeen' = turnSeen /\ linkSeen # "none"
  BY <1>1 DEF SeenInv, LinkCases, TurnCases, TypeOK, LinkOf
<1>3. CASE Accepts
  <2>1. tcp = "connecting" /\ tcp' = "established" /\ edge' = TRUE /\ UNCHANGED <<inbox, fin>>
    BY <1>3 DEF Accepts
  <2>2. body = NoBody /\ inbox = << >> /\ ~fin
    BY <2>1 DEF LinkInv, FreshBefore, EdgeInv, QuietBefore
  <2>3. ~Answered /\ LinkOf(Pending) = "up"
    BY <2>2, LinkOfEmptyInbox DEF Answered, LinkOf, NoBody
  <2>4. LinkOf(Pending)' = "up"
    BY <1>1, <2>1, <2>3 DEF LinkOf, Pending
  <2>5. linkSeen = "syn" /\ linkSeen' = "up" /\ edgeSeen' = TRUE
    BY <1>1, <2>1, <2>2, <2>3, <2>4 DEF SeenInv, LinkCases, TurnCases
  <2>6. Link!Device
    BY <1>1, <1>2, <2>5 DEF Link!Device, Link!LinkStep
  <2> QED BY <2>6 DEF Link!LinkNext
<1>4. CASE Closes
  <2>1. tcp = "established" /\ UNCHANGED <<tcp, inbox>> /\ ~fin /\ fin' = TRUE /\ edge' = TRUE
    BY <1>4 DEF Closes
  <2>2. CASE Answered
    <3>1. linkSeen' = linkSeen /\ edgeSeen' = TRUE
      BY <1>1, <2>1, <2>2 DEF SeenInv, LinkCases, TurnCases
    <3>2. Link!Device
      BY <1>1, <1>2, <3>1 DEF Link!Device
    <3> QED BY <3>2 DEF Link!LinkNext
  <2>3. CASE ~Answered
    <3>1. Pending \in Bodies /\ Pending' = Pending
      BY <1>1, <2>1, ExecuteAllType DEF Pending, TypeOK, Bodies
    <3>2. linkSeen = LinkOf(Pending) /\ edgeSeen' = TRUE
      BY <1>1, <2>1, <2>3 DEF SeenInv, LinkCases, TurnCases
    <3>3. \/ linkSeen' = linkSeen
          \/ linkSeen' = "fin" /\ linkSeen \in {"up", "mute", "image", "big"}
      BY <1>1, <2>1, <2>3, <3>1, <3>2 DEF SeenInv, LinkCases, LinkOf, Bodies
    <3>4. Link!Device
      BY <1>1, <1>2, <3>2, <3>3 DEF Link!Device, Link!LinkStep
    <3> QED BY <3>4 DEF Link!LinkNext
  <2> QED BY <2>2, <2>3
<1>5. CASE Fails
  <2>1. tcp \in {"connecting", "established"} /\ tcp' = "failed" /\ edge' = TRUE
        /\ UNCHANGED <<inbox, fin>>
    BY <1>5 DEF Fails
  <2>2. CASE Answered
    <3>1. linkSeen' = linkSeen /\ edgeSeen' = TRUE
      BY <1>1, <2>1, <2>2 DEF SeenInv, LinkCases, TurnCases
    <3>2. Link!Device
      BY <1>1, <1>2, <3>1 DEF Link!Device
    <3> QED BY <3>2 DEF Link!LinkNext
  <2>3. CASE ~Answered
    <3>1. linkSeen' = "err" /\ edgeSeen' = TRUE /\ linkSeen \in {"syn", "fin", LinkOf(Pending)}
      BY <1>1, <2>1, <2>3 DEF SeenInv, LinkCases, TurnCases, TypeOK
    <3>2. Pending \in Bodies
      BY ExecuteAllType DEF Pending, TypeOK, Bodies
    <3>3. linkSeen \in {"syn", "up", "mute", "image", "big", "fatal", "fin"}
      BY <3>1, <3>2 DEF LinkOf, Bodies
    <3>4. Link!Device
      BY <1>1, <1>2, <3>1, <3>3 DEF Link!Device, Link!LinkStep
    <3> QED BY <3>4 DEF Link!LinkNext
  <2> QED BY <2>2, <2>3
<1>6. CASE Drains \/ Wakes
  <2>1. UNCHANGED <<tcp, inbox, fin>> /\ (edge' = TRUE \/ edge' = edge)
    BY <1>6 DEF Drains, Wakes, sockVars, TypeOK
  <2>2. LinkOf(Pending)' = LinkOf(Pending) /\ Pending' = Pending
    BY <1>1, <2>1 DEF LinkOf, Pending
  <2>3. linkSeen' = linkSeen
    BY <1>1, <2>1, <2>2 DEF SeenInv, LinkCases, TypeOK
  <2>4. CASE edge' = TRUE
    <3>1. edgeSeen' = TRUE
      BY <1>1, <2>4 DEF SeenInv, TurnCases
    <3>2. Link!Device
      BY <1>1, <1>2, <2>3, <3>1 DEF Link!Device
    <3> QED BY <3>2 DEF Link!LinkNext
  <2>5. CASE edge' = edge
    <3>1. edgeSeen' = edgeSeen
      BY <1>1, <2>5 DEF SeenInv, TurnCases
    <3> QED BY <1>1, <1>2, <2>3, <3>1 DEF Link!linkVars
  <2> QED BY <2>1, <2>4, <2>5
<1>7. ASSUME NEW s \in Segments, Sends(s) PROVE [Link!LinkNext]_(Link!linkVars)
  <2>1. /\ tcp = "established" /\ UNCHANGED <<tcp, fin>> /\ ~fin /\ edge' = TRUE
        /\ inbox' = Append(inbox, s)
    BY <1>7 DEF Sends
  <2>2. edgeSeen' = TRUE
    BY <1>1, <2>1 DEF SeenInv, TurnCases
  <2>3. CASE Answered
    <3>1. linkSeen' = linkSeen
      BY <1>1, <2>1, <2>3 DEF SeenInv, LinkCases
    <3>2. Link!Device
      BY <1>1, <1>2, <2>2, <3>1 DEF Link!Device
    <3> QED BY <3>2 DEF Link!LinkNext
  <2>4. CASE ~Answered
    <3>1. Pending' = Execute(Pending, s)
      BY <1>1, <2>1, ExecuteAllAppend DEF Pending, TypeOK, Bodies
    <3>2. LinkOf(Pending)' = LinkOf(Execute(Pending, s))
      BY <3>1 DEF LinkOf
    <3>3. linkSeen = LinkOf(Pending) /\ linkSeen' = LinkOf(Execute(Pending, s))
      BY <1>1, <2>1, <2>4, <3>2 DEF SeenInv, LinkCases
    <3>4. Pending \in Bodies
      BY ExecuteAllType DEF Pending, TypeOK, Bodies
    <3>5. \/ linkSeen' = linkSeen
          \/ linkSeen = "up" /\ linkSeen' = "mute"
          \/ linkSeen \in {"up", "image", "big"} /\ linkSeen' \in {"up", "image", "big", "fatal"}
      <4>1. CASE Pending.state # "ok" \/ s = "part"
        BY <3>3, <4>1 DEF Execute
      <4>2. CASE Pending.state = "ok" /\ s = "junk"
        BY <3>3, <3>4, <4>2 DEF LinkOf, Execute, Bodies
      <4>3. CASE Pending.state = "ok" /\ s = "fatal"
        BY <3>3, <3>4, <4>3 DEF LinkOf, Execute, Bodies
      <4>4. CASE Pending.state = "ok" /\ s \in {"image", "big", "empty"}
        BY <3>3, <3>4, <4>4 DEF LinkOf, Execute, OfferOf, Bodies
      <4> QED BY <4>1, <4>2, <4>3, <4>4 DEF Segments
    <3>6. Link!Device
      BY <1>1, <1>2, <2>2, <3>5 DEF Link!Device, Link!LinkStep
    <3> QED BY <3>6 DEF Link!LinkNext
  <2> QED BY <2>3, <2>4
<1> QED BY <1>3, <1>4, <1>5, <1>6, <1>7 DEF Outside

(* The event loop may rely on CameraLink: whatever the DVR and the kernel  *)
(* do between the system calls of process, the call as a whole finds what  *)
(* the link promised, no change of the link goes unannounced, and only a   *)
(* link that says so is given up.                                          *)
THEOREM ConnectionImplementsLink == Spec => ImplementsLink
<1>1. Init => EdgeInv /\ LinkInv
  BY DEF Init, EdgeInv, QuietBefore, SendingConnected, RequestHandedOver, NothingLeft,
         LinkInv, FreshBefore, ClosedForCause, ReceiverLasts, SocketIsOpen, NoBody
<1>2. Spec => [](TypeOK /\ EdgeInv /\ LinkInv /\ SeenInv)
  <2>1. TypeOK => SeenInv
    BY LinkCasesHold, TurnCasesHold DEF SeenInv
  <2> QED BY <1>1, <2>1, TypeCorrect, EdgeInvStep, LinkInvStep, PTL DEF Spec
<1>3. Init /\ SeenInv => Link!LinkInit
  BY DEF Init, SeenInv, LinkCases, TurnCases, Link!LinkInit
<1>4. TypeOK /\ EdgeInv /\ LinkInv /\ SeenInv /\ SeenInv' /\ [Next]_vars
        => [Link!LinkNext]_(Link!linkVars)
  <2> SUFFICES ASSUME TypeOK, EdgeInv, LinkInv, SeenInv, SeenInv', [Next]_vars
               PROVE  [Link!LinkNext]_(Link!linkVars)
    OBVIOUS
  <2>1. CASE Thread
    BY <2>1, ThreadIsLinkStep
  <2>2. CASE Outside
    BY <2>2, OutsideIsLinkStep
  <2>3. CASE Stopped \/ UNCHANGED vars
    BY <2>3 DEF Stopped, vars, Link!linkVars, linkSeen, edgeSeen, turnSeen, Answered,
       LinkOf, Pending, Gone, Over
  <2> QED BY <2>1, <2>2, <2>3 DEF Next
<1> QED BY <1>2, <1>3, <1>4, PTL DEF Spec, ImplementsLink, Link!LinkSpec
=============================================================================
