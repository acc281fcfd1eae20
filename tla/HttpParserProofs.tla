-------------------------- MODULE HttpParserProofs --------------------------
(***************************************************************************)
(* Proofs about HttpParser for every set of responses, every division of   *)
(* them into calls, every limit of the headers and every word size.        *)
(***************************************************************************)
EXTENDS HttpParser, SequenceTheorems, TLAPS

(* The invariant is in two parts.  The cursor is what moves in the data of *)
(* a call and what goes to on_body; the parser is what is kept of the      *)
(* message.                                                                *)

(* Between two calls nothing is marked; within one there is no error, and  *)
(* no more is left, or marked, than one call of recv brings.               *)
CallInv ==
  /\ pc = "idle" => pos = last /\ body_mark = 0 /\ ~again
  /\ pc = "run" => http_errno = "OK" /\ last - pos <= RecvSize
  /\ body_mark # 0 => pc = "run" /\ last - body_mark < RecvSize

Increasing(s) == \A i, j \in DOMAIN s : i < j => s[i] < s[j]

(* What on_body was given is in the order of the response, nothing of it   *)
(* twice, and before whatever is marked.                                   *)
InOrder ==
  /\ Increasing(body)
  /\ body_mark # 0 => \A i \in DOMAIN body : body[i] < body_mark

CursorType ==
  /\ response \in Responses
  /\ pos \in 0 .. last /\ last \in 0 .. Len(response.text)
  /\ pc \in {"idle", "run"} /\ again \in BOOLEAN
  /\ body_mark \in 0 .. pos /\ body \in Seq(1 .. pos)
  /\ http_errno \in Errors

CursorInv == CursorType /\ CallInv /\ InOrder

ChunkStates ==
  {"s_chunk_size_start", "s_chunk_size", "s_chunk_parameters",
   "s_chunk_size_almost_done", "s_chunk_data", "s_chunk_data_almost_done",
   "s_chunk_data_done"}

MarkStates ==
  {"s_body_identity", "s_body_identity_eof", "s_chunk_data", "s_chunk_data_almost_done"}

AllFlags == {"CHUNKED", "CONNECTION_KEEP_ALIVE", "CONNECTION_CLOSE", "TRAILING", "UPGRADE"}

ParserType ==
  /\ state \in HeaderStates \cup BodyStates
  /\ header_state \in HeaderMarks
  /\ flags \subseteq AllFlags
  /\ content_length \in 0 .. ULLONG_MAX
  /\ nread \in Nat /\ status_code \in Nat /\ version \in Nat

(* A chunk size is a number below ULLONG_MAX all along, its first symbol   *)
(* the first that is counted.                                              *)
ChunkInv ==
  /\ state = "s_chunk_size_start" /\ http_errno = "OK" => nread = 0 /\ ~again
  /\ state \in ChunkStates => "CHUNKED" \in flags
  /\ state \in {"s_chunk_size", "s_chunk_parameters", "s_chunk_size_almost_done"} =>
       content_length # ULLONG_MAX
  /\ state = "s_chunk_data_almost_done" => content_length = 0

LengthInv ==
  /\ state \in {"s_body_identity", "s_chunk_data"} => content_length \notin {0, ULLONG_MAX}
  /\ body_mark # 0 => state \in MarkStates

(* header_state is that of a name within one, and that of a value within   *)
(* one.                                                                    *)
HeaderInv ==
  /\ state = "s_header_field" =>
       header_state \notin {"h_transfer_encoding_chunked", "h_connection_keep_alive",
                            "h_connection_close"}
  /\ state = "s_header_value" =>
       header_state \notin {"h_connection", "h_transfer_encoding", "h_upgrade"}

ParserInv == ParserType /\ ChunkInv /\ LengthInv /\ HeaderInv

-----------------------------------------------------------------------------
(* The ways in which the cursor moves.                                     *)

(* One symbol is passed, or looked at once more.                           *)
Passes ==
  /\ Looking /\ pos' \in {pos, pos + 1} /\ again' \in BOOLEAN
  /\ UNCHANGED <<http_errno, response, last, pc, outVars>>

(* The call ends early.                                                    *)
Ends ==
  /\ Looking /\ Return
  /\ http_errno' \in Errors
  /\ UNCHANGED body

(* Symbols become part of what is marked.                                  *)
Takes ==
  /\ Looking /\ pos' \in (pos + 1) .. last
  /\ body_mark' = Mark /\ again' = FALSE
  /\ UNCHANGED <<http_errno, response, last, pc, body>>

(* What is marked is handed on, and the call goes on behind it or ends.    *)
Gives(to) ==
  /\ Looking /\ to >= Mark /\ to >= pos
  /\ HandOn(Mark, to)
  /\ \/ Refuses
     \/ /\ pos' \in to .. last /\ body_mark' = 0 /\ again' = FALSE
        /\ UNCHANGED <<http_errno, response, last, pc>>

Rests == UNCHANGED <<http_errno, response, pos, last, pc, again, outVars>>

CursorStep ==
  \/ \E n \in 1 .. RecvSize : Execute(n) \/ ExecuteIgnored(n)
  \/ EndOfData \/ Passes \/ Ends \/ Takes
  \/ \E to \in pos .. last : Gives(to)
  \/ Rests

LEMMA SymbolType ==
  ASSUME CursorType, Looking
  PROVE  /\ ch.k \in Kinds /\ ch.v \in Nat
         /\ ch.k = "digit" => ch.v <= 15
<1>1. response.text \in Seq(Symbols)
  BY ResponseAssumption DEF CursorType
<1>2. pos + 1 \in 1 .. Len(response.text)
  BY <1>1 DEF CursorType, Looking
<1>3. response.text[pos + 1] \in Symbols
  BY <1>1, <1>2
<1> QED BY <1>3 DEF Symbols, ch

LEMMA GoPasses ==
  ASSUME CursorType, Looking, UNCHANGED response, NEW s, Go(s) \/ GoAgain(s)
  PROVE  Passes
BY DEF Go, GoAgain, Passes, CursorType

LEMMA ErrorEnds ==
  ASSUME Looking, UNCHANGED response, NEW e \in Errors, GoError(e)
  PROVE  Ends
BY DEF GoError, Ends

LEMMA NewMessage == NEW_MESSAGE \in {"s_start_res", "s_dead"}
BY DEF NEW_MESSAGE

(* Every step of the parser moves the cursor in one of these ways.         *)
LEMMA StepMovesCursor ==
  ASSUME CursorInv, ParserInv, [Next]_vars
  PROVE  CursorStep
<1> USE DEF CursorStep
<1>0. CursorType
  BY DEF CursorInv
<1>1. ASSUME NEW n \in 1 .. RecvSize, Execute(n) \/ ExecuteIgnored(n) PROVE CursorStep
  BY <1>1
<1>2. CASE EndOfData
  BY <1>2
<1>3. CASE HeaderOverflow
  <2>1. Ends
    BY <1>3 DEF HeaderOverflow, Ends, Errors
  <2> QED BY <2>1
<1>4. CASE Step \/ Skip
  <2>1. PICK s : Looking /\ UNCHANGED response /\ Go(s)
    BY <1>4 DEF Step, Skip, At
  <2> QED BY <2>1, <1>0, GoPasses
<1>5. CASE Unexpected
  <2>1. PICK s \in DOMAIN Otherwise : Looking /\ UNCHANGED response /\ GoError(Otherwise[s])
    BY <1>5 DEF Unexpected, At
  <2>2. Otherwise[s] \in Errors
    BY DEF Otherwise, Errors
  <2> QED BY <2>1, <2>2, ErrorEnds
<1>6. CASE StartRes \/ StatusCode
  <2>1. Looking /\ UNCHANGED response
    BY <1>6 DEF StartRes, StatusCode, At
  <2>2. \/ \E s : Go(s)
        \/ \E e \in Errors : GoError(e)
    BY <1>6 DEF StartRes, StatusCode, Errors
  <2> QED BY <2>1, <2>2, <1>0, GoPasses, ErrorEnds
<1>7. CASE HeaderFieldStart \/ HeaderField \/ HeaderValueStart
  <2>1. Looking /\ UNCHANGED response
    BY <1>7 DEF HeaderFieldStart, HeaderField, HeaderValueStart, At
  <2>2. \/ \E s : Go(s) \/ GoAgain(s)
        \/ \E e \in Errors : GoError(e)
    BY <1>7 DEF HeaderFieldStart, HeaderField, HeaderValueStart, Errors
  <2> QED BY <2>1, <2>2, <1>0, GoPasses, ErrorEnds
<1>8. CASE HeaderValue \/ HeaderAlmostDone \/ HeaderValueLws
  <2>1. Looking /\ UNCHANGED response
    BY <1>8 DEF HeaderValue, HeaderAlmostDone, HeaderValueLws, At
  <2>2. \/ \E s : Go(s) \/ GoAgain(s)
        \/ \E e \in Errors : GoError(e)
    BY <1>8 DEF HeaderValue, HeaderAlmostDone, HeaderValueLws, Errors
  <2> QED BY <2>1, <2>2, <1>0, GoPasses, ErrorEnds
<1>9. CASE HeadersDone \/ TrailersDone \/ HeadersNotDone
  <2>1. Looking /\ UNCHANGED response
    BY <1>9 DEF HeadersDone, TrailersDone, HeadersNotDone, At
  <2>2. \/ \E s : Go(s)
        \/ \E e \in Errors : GoError(e)
    BY <1>9 DEF HeadersDone, TrailersDone, HeadersNotDone, Errors
  <2> QED BY <2>1, <2>2, <1>0, GoPasses, ErrorEnds
<1>10. CASE Upgraded
  <2>1. Ends
    BY <1>10, <1>0 DEF Upgraded, At, Ends, CursorType
  <2> QED BY <2>1
<1>11. CASE ChunkSizeStart \/ ChunkSize \/ ChunkSizeAlmostDone \/ ChunkDataDone
  <2>1. Looking /\ UNCHANGED response
    BY <1>11 DEF ChunkSizeStart, ChunkSize, ChunkSizeAlmostDone, ChunkDataDone, At
  <2>2. \/ \E s : Go(s)
        \/ \E e \in Errors : GoError(e)
    BY <1>11 DEF ChunkSizeStart, ChunkSize, ChunkSizeAlmostDone, ChunkDataDone, Errors
  <2> QED BY <2>1, <2>2, <1>0, GoPasses, ErrorEnds
<1>12. ASSUME Looking, content_length # 0
       PROVE  /\ to_read \in 1 .. (last - pos) /\ pos \in Nat /\ last \in Nat
              /\ to_read <= content_length
  BY <1>12, <1>0, SizeAssumption DEF CursorType, Looking, to_read, Smaller, ParserInv, ParserType, ULLONG_MAX
<1>13. CASE BodyIdentityPart \/ ChunkData
  <2>1. /\ Looking /\ content_length # 0 /\ UNCHANGED response
        /\ pos' = pos + to_read /\ body_mark' = Mark /\ again' = FALSE
        /\ UNCHANGED <<http_errno, last, pc, body>>
    BY <1>13 DEF BodyIdentityPart, ChunkData, At, ParserInv, LengthInv
  <2>2. Takes
    BY <2>1, <1>12 DEF Takes
  <2> QED BY <2>2
<1>14. CASE BodyIdentityEof
  <2>1. Takes
    BY <1>14, <1>0 DEF BodyIdentityEof, Takes, At, Looking, CursorType
  <2> QED BY <2>1
<1>15. CASE BodyIdentityEnd
  <2>1. /\ Looking /\ content_length # 0 /\ UNCHANGED response
        /\ HandOn(Mark, pos + to_read)
        /\ \/ Refuses
           \/ /\ pos' = pos + to_read /\ body_mark' = 0 /\ again' = FALSE
              /\ UNCHANGED <<http_errno, last, pc>>
    BY <1>15 DEF BodyIdentityEnd, At, ParserInv, LengthInv
  <2>2. pos + to_read \in pos .. last /\ pos + to_read >= Mark /\ pos + to_read >= pos
    BY <2>1, <1>12, <1>0 DEF Mark, CursorType
  <2>3. Gives(pos + to_read)
    BY <2>1, <2>2 DEF Gives
  <2> QED BY <2>2, <2>3
<1>16. CASE ChunkDataAlmostDone
  <2>1. Looking /\ UNCHANGED response
    BY <1>16 DEF ChunkDataAlmostDone, At
  <2>2. CASE \E s : Go(s)
    BY <2>1, <2>2, <1>0, GoPasses
  <2>3. CASE GoError("STRICT")
    <3>1. "STRICT" \in Errors
      BY DEF Errors
    <3> QED BY <2>1, <2>3, <3>1, ErrorEnds
  <2>4. CASE /\ body_mark # 0 /\ HandOn(body_mark, pos)
             /\ \/ Refuses
                \/ /\ pos' = pos + 1 /\ body_mark' = 0 /\ again' = FALSE
                   /\ UNCHANGED <<http_errno, last, pc>>
    <3>1. pos \in pos .. last /\ pos + 1 \in pos .. last /\ Mark = body_mark /\ pos >= Mark /\ pos >= pos
      BY <2>1, <2>4, <1>0 DEF Mark, CursorType, Looking
    <3>2. Gives(pos)
      BY <2>1, <2>4, <3>1 DEF Gives
    <3> QED BY <3>1, <3>2
  <2> QED BY <1>16, <2>2, <2>3, <2>4 DEF ChunkDataAlmostDone
<1>17. CASE Received \/ UNCHANGED vars
  <2>1. Rests
    BY <1>17 DEF Received, vars, Rests, outVars
  <2> QED BY <2>1
<1> QED
  BY <1>1, <1>2, <1>3, <1>4, <1>5, <1>6, <1>7, <1>8, <1>9, <1>10, <1>11, <1>13, <1>14,
     <1>15, <1>16, <1>17 DEF Next, StatusLine, Headers, Bodies

-----------------------------------------------------------------------------
(* Handing on.                                                             *)

LEMMA PositionsAre ==
  ASSUME NEW n \in Nat, NEW from \in 1 .. n, NEW to \in from .. n
  PROVE  /\ Positions(from, to) \in Seq(1 .. n)
         /\ Len(Positions(from, to)) = to - from + 1
         /\ \A i \in 1 .. (to - from + 1) : Positions(from, to)[i] = from + i - 1
<1> DEFINE P == Positions(from, to)
<1>1. to - from + 1 \in Nat
  OBVIOUS
<1>2. \A i \in 1 .. (to - from + 1) : from + i - 1 \in 1 .. n
  OBVIOUS
<1>3. P = [i \in 1 .. (to - from + 1) |-> from + i - 1]
  BY DEF Positions
<1>4. P \in [1 .. (to - from + 1) -> 1 .. n]
  BY <1>2, <1>3
<1>5. P \in Seq(1 .. n)
  BY <1>1, <1>4, SeqDef
<1>6. Len(P) = to - from + 1
  BY <1>1, <1>4, <1>5
<1>7. \A i \in 1 .. (to - from + 1) : P[i] = from + i - 1
  BY <1>3
<1> QED BY <1>5, <1>6, <1>7

(* What is handed on follows what was.                                     *)
LEMMA HandOnKeepsOrder ==
  ASSUME NEW m \in Nat, NEW n \in Nat, m <= n,
         NEW s \in Seq(1 .. m), Increasing(s),
         NEW from \in 1 .. n, NEW to \in from .. n,
         \A i \in DOMAIN s : s[i] < from
  PROVE  LET t == s \o Positions(from, to)
         IN  /\ t \in Seq(1 .. n) /\ Increasing(t)
             /\ Len(t) = Len(s) + (to - from + 1)
<1> DEFINE P == Positions(from, to)
           t == s \o P
<1>1. s \in Seq(1 .. n)
  BY SeqDef
<1>2. /\ P \in Seq(1 .. n) /\ Len(P) = to - from + 1
      /\ \A i \in 1 .. Len(P) : P[i] = from + i - 1
  BY PositionsAre
<1> HIDE DEF P
<1>3. /\ t \in Seq(1 .. n) /\ Len(t) = Len(s) + Len(P)
      /\ \A i \in 1 .. Len(s) + Len(P) :
           t[i] = IF i <= Len(s) THEN s[i] ELSE P[i - Len(s)]
  BY <1>1, <1>2, ConcatProperties
<1>4. Len(s) \in Nat /\ Len(P) \in Nat /\ DOMAIN s = 1 .. Len(s) /\ DOMAIN t = 1 .. Len(t)
  BY <1>1, <1>2, <1>3
<1> HIDE DEF t
<1>5. ASSUME NEW k \in 1 .. Len(s) + Len(P), ~(k <= Len(s))
      PROVE  k - Len(s) \in Nat \ {0} /\ t[k] = from + (k - Len(s)) - 1
  <2>1. k - Len(s) \in 1 .. Len(P)
    BY <1>4, <1>5
  <2>2. P[k - Len(s)] = from + (k - Len(s)) - 1
    BY <2>1, <1>2
  <2>3. t[k] = P[k - Len(s)]
    BY <1>3, <1>5
  <2> QED BY <2>1, <2>2, <2>3
<1>6. ASSUME NEW i \in DOMAIN t, NEW j \in DOMAIN t, i < j PROVE t[i] < t[j]
  <2>0. i \in 1 .. Len(s) + Len(P) /\ j \in 1 .. Len(s) + Len(P)
    BY <1>3, <1>4
  <2>1. CASE j <= Len(s)
    <3>1. t[i] = s[i] /\ t[j] = s[j] /\ i \in DOMAIN s /\ j \in DOMAIN s
      BY <2>0, <2>1, <1>3, <1>4, <1>6
    <3> QED BY <3>1, <1>6 DEF Increasing
  <2>2. CASE i <= Len(s) /\ ~(j <= Len(s))
    <3>1. t[i] = s[i] /\ i \in DOMAIN s /\ s[i] < from
      BY <2>0, <2>2, <1>3, <1>4
    <3>2. j - Len(s) \in Nat \ {0} /\ t[j] = from + (j - Len(s)) - 1
      BY <2>0, <2>2, <1>5
    <3>3. s[i] \in Int
      BY <3>1, <1>1
    <3> QED BY <3>1, <3>2, <3>3
  <2>3. CASE ~(i <= Len(s)) /\ ~(j <= Len(s))
    <3>1. i - Len(s) \in Nat \ {0} /\ t[i] = from + (i - Len(s)) - 1
      BY <2>0, <2>3, <1>5
    <3>2. j - Len(s) \in Nat \ {0} /\ t[j] = from + (j - Len(s)) - 1
      BY <2>0, <2>3, <1>5
    <3> QED BY SMTT(20), <3>1, <3>2, <1>6, <2>0, <1>4
  <2> QED BY <2>0, <2>1, <2>2, <2>3, <1>4, <1>6
<1> QED BY <1>2, <1>3, <1>6 DEF Increasing, P, t

(* The cursor's part of a step that hands nothing on.                      *)
LEMMA SameBody ==
  ASSUME CursorInv, body' = body, pos' \in Nat, pos' >= pos
  PROVE  body' \in Seq(1 .. pos')
<1>1. body \in Seq(1 .. pos) /\ pos \in Nat
  BY DEF CursorInv, CursorType
<1>2. \A i \in 1 .. Len(body) : body[i] \in 1 .. pos'
  BY <1>1
<1> QED BY <1>1, <1>2, SeqDef

(* What a piece is made of: more than nothing, and what one call brought.  *)
LEMMA PieceOf ==
  ASSUME CursorInv, pc = "run", NEW to \in pos .. last, to >= Mark, HandOn(Mark, to),
         NEW n \in to .. last
  PROVE  /\ body' \in Seq(1 .. n) /\ Increasing(body')
         /\ Len(body') = Len(body) + (to - Mark + 1)
         /\ Len(body') - Len(body) \in 1 .. RecvSize
<1>1. /\ pos \in Nat /\ last \in Nat /\ pos <= last /\ body \in Seq(1 .. pos)
      /\ body_mark \in 0 .. pos /\ Increasing(body)
      /\ last - pos <= RecvSize /\ (body_mark # 0 => last - body_mark < RecvSize)
      /\ body_mark # 0 => \A i \in DOMAIN body : body[i] < body_mark
      /\ response.text \in Seq(Symbols)
  BY ResponseAssumption DEF CursorInv, CursorType, CallInv, InOrder, Increasing
<1>2. /\ Mark \in 1 .. n /\ to - Mark + 1 \in 1 .. RecvSize
      /\ to \in Mark .. n /\ n \in Nat /\ pos <= n
  <2>1. CASE body_mark = 0
    BY <1>1, <2>1, SizeAssumption DEF Mark
  <2>2. CASE body_mark # 0
    BY <1>1, <2>2, SizeAssumption DEF Mark
  <2> QED BY <2>1, <2>2
<1>3. \A i \in DOMAIN body : body[i] < Mark
  <2>1. CASE body_mark = 0
    <3>1. \A i \in DOMAIN body : body[i] \in 1 .. pos
      BY <1>1
    <3> QED BY <1>1, <2>1, <3>1 DEF Mark
  <2>2. CASE body_mark # 0
    BY <1>1, <2>2 DEF Mark
  <2> QED BY <2>1, <2>2
<1> DEFINE from == Mark
<1>4. from \in 1 .. n /\ to \in from .. n /\ \A i \in DOMAIN body : body[i] < from
  BY <1>2, <1>3
<1>5. body' = body \o Positions(from, to)
  BY DEF HandOn
<1> HIDE DEF from
<1>6. /\ body' \in Seq(1 .. n) /\ Increasing(body')
      /\ Len(body') = Len(body) + (to - from + 1)
  BY <1>1, <1>2, <1>4, <1>5, HandOnKeepsOrder
<1>7. Len(body) \in Nat /\ to - from + 1 \in 1 .. RecvSize
  BY <1>1, <1>2 DEF from
<1> QED BY <1>6, <1>7 DEF from

LEMMA CursorInvStep ==
  ASSUME CursorInv, CursorStep
  PROVE  CursorInv'
<1>1. /\ pos \in Nat /\ last \in Nat /\ pos <= last /\ body_mark \in 0 .. pos
      /\ Len(response.text) \in Nat /\ last <= Len(response.text)
      /\ response \in Responses
      /\ pc \in {"idle", "run"} /\ again \in BOOLEAN /\ http_errno \in Errors
  BY ResponseAssumption DEF CursorInv, CursorType
<1>2. /\ pc = "idle" => pos = last /\ body_mark = 0 /\ ~again
      /\ pc = "run" => http_errno = "OK" /\ last - pos <= RecvSize
      /\ body_mark # 0 => pc = "run" /\ last - body_mark < RecvSize
      /\ Increasing(body)
      /\ body_mark # 0 => \A i \in DOMAIN body : body[i] < body_mark
  BY DEF CursorInv, CallInv, InOrder
<1>3. "OK" \in Errors /\ "CB_body" \in Errors
  BY DEF Errors
<1>4. ASSUME /\ response' = response
             /\ pos' \in 0 .. last' /\ last' \in 0 .. Len(response.text)
             /\ pc' \in {"idle", "run"} /\ again' \in BOOLEAN
             /\ body_mark' \in 0 .. pos' /\ body' \in Seq(1 .. pos')
             /\ http_errno' \in Errors,
             CallInv', InOrder'
      PROVE  CursorInv'
  BY <1>1, <1>4 DEF CursorInv, CursorType
<1>15. ASSUME pc = "run", NEW p \in pos .. last PROVE last - p <= RecvSize
  <2>1. last - pos <= RecvSize /\ RecvSize \in Nat
    BY <1>2, <1>15, SizeAssumption
  <2> QED BY <2>1, <1>1
<1>5. ASSUME NEW n \in 1 .. RecvSize, Execute(n) PROVE CursorInv'
  <2>1. /\ response' = response /\ last' = pos + n /\ pos' = pos /\ pc' = "run" /\ again' = again
        /\ body_mark' = body_mark /\ body' = body /\ http_errno' = http_errno
        /\ pc = "idle" /\ http_errno = "OK" /\ pos + n <= Len(response.text)
    BY <1>5 DEF Execute, More, outVars
  <2>2. body' \in Seq(1 .. pos')
    BY <2>1, <1>1, SameBody
  <2>3. CallInv'
    BY <2>1, <1>1, <1>2, SizeAssumption DEF CallInv
  <2>4. InOrder'
    BY <2>1, <1>2 DEF InOrder, Increasing
  <2> QED BY <2>1, <2>2, <2>3, <2>4, <1>1, <1>4
<1>6. ASSUME NEW n \in 1 .. RecvSize, ExecuteIgnored(n) PROVE CursorInv'
  <2>1. /\ response' = response /\ last' = pos + n /\ pos' = pos + n /\ pc' = "idle" /\ again' = again
        /\ body_mark' = body_mark /\ body' = body /\ http_errno' = http_errno
        /\ pc = "idle" /\ pos + n <= Len(response.text)
    BY <1>6 DEF ExecuteIgnored, More, outVars
  <2>2. body' \in Seq(1 .. pos')
    BY <2>1, <1>1, SameBody
  <2>3. CallInv'
    BY <2>1, <1>1, <1>2 DEF CallInv
  <2>4. InOrder'
    BY <2>1, <1>2 DEF InOrder, Increasing
  <2> QED BY <2>1, <2>2, <2>3, <2>4, <1>1, <1>4
<1>7. ASSUME Return, http_errno' \in Errors, body' \in Seq(1 .. last), Increasing(body')
      PROVE  CursorInv'
  <2>1. /\ response' = response /\ last' = last /\ pos' = last /\ pc' = "idle" /\ again' = FALSE
        /\ body_mark' = 0
    BY <1>7 DEF Return
  <2>2. CallInv'
    BY <2>1 DEF CallInv
  <2>3. InOrder'
    BY <2>1, <1>7 DEF InOrder, Increasing
  <2>4. body' \in Seq(1 .. pos') /\ pos' \in 0 .. last' /\ body_mark' \in 0 .. pos'
    BY <2>1, <1>1, <1>7
  <2>5. again' \in BOOLEAN
    BY <2>1
  <2> QED BY <2>1, <2>2, <2>3, <2>4, <2>5, <1>1, <1>4, <1>7
<1>8. body \in Seq(1 .. last)
  <2>1. body \in Seq(1 .. pos) /\ \A i \in 1 .. Len(body) : body[i] \in 1 .. last
    BY <1>1 DEF CursorInv, CursorType
  <2> QED BY <2>1, <1>1, SeqDef
<1>9. CASE EndOfData
  <2>1. pc = "run" /\ pos = last /\ Return
    BY <1>9 DEF EndOfData
  <2>2. CASE body_mark = 0
    <3>1. http_errno' = http_errno /\ body' = body
      BY <1>9, <2>2 DEF EndOfData
    <3> QED BY <2>1, <3>1, <1>1, <1>2, <1>7, <1>8
  <2>3. CASE body_mark # 0
    <3>1. /\ HandOn(Mark, last) /\ http_errno' \in Errors /\ last >= Mark /\ last \in pos .. last
      BY <1>9, <2>1, <2>3, <1>1, <1>3 DEF EndOfData, Mark
    <3>2. body' \in Seq(1 .. last) /\ Increasing(body')
      BY <2>1, <3>1, <1>1, PieceOf
    <3> QED BY <2>1, <3>1, <3>2, <1>7
  <2> QED BY <2>2, <2>3
<1>10. CASE Passes
  <2>1. /\ response' = response /\ last' = last /\ pos' \in {pos, pos + 1} /\ pos < last
        /\ pc = "run" /\ pc' = "run" /\ again' \in BOOLEAN
        /\ body_mark' = body_mark /\ body' = body /\ http_errno' = http_errno
    BY <1>10 DEF Passes, Looking, outVars
  <2>2. body' \in Seq(1 .. pos')
    BY <2>1, <1>1, SameBody
  <2>3. CallInv'
    <3>1. last - pos' <= RecvSize
      BY <2>1, <1>1, <1>15
    <3> QED BY <2>1, <3>1, <1>2 DEF CallInv
  <2>4. InOrder'
    BY <2>1, <1>2 DEF InOrder, Increasing
  <2>5. pos' \in 0 .. last' /\ body_mark' \in 0 .. pos'
    BY <2>1, <1>1
  <2> QED BY <2>1, <2>2, <2>3, <2>4, <2>5, <1>1, <1>4
<1>11. CASE Ends
  BY <1>11, <1>2, <1>7, <1>8 DEF Ends
<1>12. CASE Takes
  <2>1. /\ response' = response /\ last' = last /\ pos' \in (pos + 1) .. last /\ pos < last
        /\ pc = "run" /\ pc' = "run" /\ again' = FALSE
        /\ body_mark' = Mark /\ body' = body /\ http_errno' = http_errno
    BY <1>12 DEF Takes, Looking
  <2>2. body' \in Seq(1 .. pos')
    BY <2>1, <1>1, SameBody
  <2>3. Mark \in 1 .. pos' /\ last - Mark < RecvSize
    BY <2>1, <1>1, <1>2, SizeAssumption DEF Mark
  <2>4. CallInv'
    <3>1. last - pos' <= RecvSize
      BY <2>1, <1>1, <1>15
    <3> QED BY <2>1, <2>3, <3>1, <1>2 DEF CallInv
  <2>5. \A i \in DOMAIN body : body[i] < Mark
    <3>1. \A i \in DOMAIN body : body[i] \in 1 .. pos
      BY DEF CursorInv, CursorType
    <3> QED BY <3>1, <1>1, <1>2 DEF Mark
  <2>6. InOrder'
    BY <2>1, <2>5, <1>2 DEF InOrder, Increasing
  <2>7. pos' \in 0 .. last' /\ body_mark' \in 0 .. pos'
    BY <2>1, <2>3, <1>1
  <2>8. again' \in BOOLEAN
    BY <2>1
  <2> QED BY <2>1, <2>2, <2>4, <2>6, <2>7, <2>8, <1>1, <1>4
<1>13. ASSUME NEW to \in pos .. last, Gives(to) PROVE CursorInv'
  <2>1. pc = "run" /\ to >= Mark /\ HandOn(Mark, to)
    BY <1>13 DEF Gives, Looking
  <2>2. CASE Refuses
    <3>1. last \in to .. last
      BY <1>1
    <3>2. body' \in Seq(1 .. last) /\ Increasing(body')
      BY <2>1, <3>1, PieceOf
    <3> QED BY <2>2, <3>2, <1>3, <1>7 DEF Refuses
  <2>3. CASE /\ pos' \in to .. last /\ body_mark' = 0 /\ again' = FALSE
             /\ UNCHANGED <<http_errno, response, last, pc>>
    <3>1. body' \in Seq(1 .. pos') /\ Increasing(body')
      BY <2>1, <2>3, PieceOf
    <3>2. CallInv'
      <4>1. last - pos' <= RecvSize
        BY <2>1, <2>3, <1>1, <1>15
      <4> QED BY <2>1, <2>3, <4>1, <1>2 DEF CallInv
    <3>3. InOrder'
      BY <3>1, <2>3 DEF InOrder, Increasing
    <3>4. pos' \in 0 .. last' /\ body_mark' \in 0 .. pos'
      BY <2>3, <1>1
    <3>5. again' \in BOOLEAN
      BY <2>3
    <3> QED BY <2>1, <2>3, <3>1, <3>2, <3>3, <3>4, <3>5, <1>1, <1>4
  <2> QED BY <1>13, <2>2, <2>3 DEF Gives
<1>14. CASE Rests
  BY <1>14 DEF Rests, outVars, CursorInv, CursorType, CallInv, InOrder, Increasing
<1> QED
  BY <1>5, <1>6, <1>9, <1>10, <1>11, <1>12, <1>13, <1>14 DEF CursorStep

-----------------------------------------------------------------------------
(* The parser's part.                                                      *)

LEMMA MeaningType ==
  ASSUME NEW k
  PROVE  Meaning(k) \in {"h_content_length", "h_transfer_encoding_chunked",
                         "h_connection_keep_alive", "h_connection_close", "h_general"}
BY Zenon DEF Meaning

LEMMA FlagType ==
  Flag \subseteq {"CONNECTION_KEEP_ALIVE", "CONNECTION_CLOSE", "CHUNKED"}
BY Zenon DEF Flag

LEMMA DigitType ==
  ASSUME ParserType, ch.v \in Nat, NEW base \in Nat
  PROVE  Digit(base) \in 0 .. ULLONG_MAX
<1>1. content_length * base + ch.v \in Nat
  BY SizeAssumption DEF ParserType, ULLONG_MAX
<1> QED BY <1>1, SizeAssumption DEF Digit, ULLONG_MAX

LEMMA ParserInvStep ==
  ASSUME CursorInv, ParserInv, [Next]_vars
  PROVE  ParserInv'
<1>1. /\ Count \in Nat /\ ULLONG_MAX \in Nat /\ ULLONG_MAX > 15 /\ MaxHeader \in Nat /\ MaxHeader > 0
      /\ NEW_MESSAGE \in {"s_start_res", "s_dead"}
  BY SizeAssumption, NewMessage DEF ParserInv, ParserType, Count, ULLONG_MAX
<1>2. Looking => /\ pc = "run" /\ http_errno = "OK"
                 /\ ch.k \in Kinds /\ ch.v \in Nat /\ (ch.k = "digit" => ch.v <= 15)
                 /\ Digit(10) \in 0 .. ULLONG_MAX /\ Digit(16) \in 0 .. ULLONG_MAX
  BY SymbolType, DigitType DEF CursorInv, CallInv, Looking, ParserInv
<1>3. Looking /\ content_length # 0 => to_read \in 1 .. content_length /\ to_read <= last - pos
  BY SizeAssumption DEF CursorInv, CursorType, Looking, to_read, Smaller, ParserInv, ParserType, ULLONG_MAX
<1> USE DEF ParserInv, ParserType, AllFlags, ChunkInv, LengthInv, HeaderInv, ChunkStates, MarkStates,
             HeaderStates, BodyStates, HeaderMarks, At, Go, GoAgain, GoError, Return, headerVars, outVars
<1>4. ASSUME NEW n \in 1 .. RecvSize, Execute(n) \/ ExecuteIgnored(n) PROVE ParserInv'
  <2>1. UNCHANGED <<state, headerVars, nread, http_errno, again, body_mark>>
    BY <1>4 DEF Execute, ExecuteIgnored
  <2>2. ParserType'
    BY <2>1
  <2>3. ChunkInv'
    BY <2>1
  <2>4. LengthInv' /\ HeaderInv'
    BY <2>1
  <2> QED BY <2>2, <2>3, <2>4
<1>5. CASE EndOfData
  BY <1>5 DEF EndOfData
<1>6. CASE HeaderOverflow
  BY <1>6, <1>1, <1>2, <1>3, MeaningType, FlagType DEF HeaderOverflow, Counts, At
<1>7. CASE Step
  BY <1>7, <1>1, <1>2, <1>3, MeaningType, FlagType DEF Step, Transitions
<1>8. CASE Skip
  BY <1>8, <1>1, <1>2, <1>3, MeaningType, FlagType DEF Skip
<1>9. CASE Unexpected
  <2>1. PICK s \in DOMAIN Otherwise : At(s) /\ GoError(Otherwise[s])
                                        /\ nread' = Count /\ UNCHANGED headerVars
    BY <1>9 DEF Unexpected
  <2>2. state # "s_chunk_size_start" /\ body_mark' = 0
    BY <2>1 DEF Otherwise
  <2> QED BY <2>1, <2>2, <1>1
<1>10. CASE StartRes
  BY <1>10, <1>1, <1>2, <1>3, MeaningType, FlagType DEF StartRes
<1>11. CASE StatusCode
  BY <1>11, <1>1, <1>2, <1>3, MeaningType, FlagType DEF StatusCode
<1>12. CASE HeaderFieldStart
  BY <1>12, <1>1, <1>2, <1>3, MeaningType, FlagType DEF HeaderFieldStart, Names
<1>13. CASE HeaderField
  BY <1>13, <1>1, <1>2, <1>3, MeaningType, FlagType DEF HeaderField
<1>14. CASE HeaderValueStart
  <2>1. /\ flags' \subseteq AllFlags
        /\ flags \subseteq flags'
    BY <1>14 DEF HeaderValueStart
  <2>2. state = "s_header_value_start" /\ body_mark' = 0 /\ nread' \in Nat /\ UNCHANGED <<status_code, version>>
    BY <1>14, <1>1 DEF HeaderValueStart
  <2>3. content_length' \in 0 .. ULLONG_MAX
    BY <1>14, <1>1, <1>2 DEF HeaderValueStart, IsNum
  <2>4. /\ state' \in {"s_header_value_start", "s_header_almost_done", "s_header_field_start", "s_header_value"}
        /\ header_state' \in HeaderMarks
        /\ state' = "s_header_value" => header_state' \notin {"h_connection", "h_transfer_encoding", "h_upgrade"}
    BY <1>14, MeaningType DEF HeaderValueStart
  <2> QED BY <2>1, <2>2, <2>3, <2>4
<1>15. CASE HeaderValue
  BY <1>15, <1>1, <1>2, <1>3, MeaningType, FlagType DEF HeaderValue
<1>16. CASE HeaderAlmostDone
  BY <1>16, <1>1, <1>2, <1>3, MeaningType, FlagType DEF HeaderAlmostDone
<1>17. CASE HeaderValueLws
  BY <1>17, <1>1, <1>2, <1>3, MeaningType, FlagType DEF HeaderValueLws
<1>18. CASE HeadersDone
  BY <1>18, <1>1, <1>2, <1>3, MeaningType, FlagType DEF HeadersDone, Body
<1>19. CASE TrailersDone
  BY <1>19, <1>1, <1>2, <1>3, MeaningType, FlagType DEF TrailersDone
<1>20. CASE Upgraded
  BY <1>20, <1>1, <1>2, <1>3, MeaningType, FlagType DEF Upgraded
<1>21. CASE HeadersNotDone
  BY <1>21, <1>1, <1>2, <1>3, MeaningType, FlagType DEF HeadersNotDone
<1>22. CASE BodyIdentityPart
  BY <1>22, <1>1, <1>2, <1>3, MeaningType, FlagType DEF BodyIdentityPart
<1>23. CASE BodyIdentityEnd
  BY <1>23, <1>1, <1>2, <1>3, MeaningType, FlagType DEF BodyIdentityEnd, Refuses
<1>24. CASE BodyIdentityEof
  BY <1>24, <1>1, <1>2, <1>3, MeaningType, FlagType DEF BodyIdentityEof
<1>25. CASE ChunkSizeStart
  BY <1>25, <1>1, <1>2, <1>3, MeaningType, FlagType DEF ChunkSizeStart, IsHex
<1>26. CASE ChunkSize
  BY <1>26, <1>1, <1>2, <1>3, MeaningType, FlagType DEF ChunkSize, IsHex, Overflows
<1>27. CASE ChunkSizeAlmostDone
  <2>1. CASE ch.k = "LF"
    <3>1. /\ state = "s_chunk_size_almost_done" /\ nread' = 0 /\ UNCHANGED <<http_errno, outVars>>
          /\ UNCHANGED <<header_state, content_length, status_code, version>>
          /\ \/ content_length = 0 /\ state' = "s_header_field_start"
             \/ content_length # 0 /\ state' = "s_chunk_data"
      BY <1>27, <2>1 DEF ChunkSizeAlmostDone
    <3>2. /\ flags' \subseteq AllFlags
          /\ flags \subseteq flags'
      BY <1>27, <2>1 DEF ChunkSizeAlmostDone
    <3> QED BY <3>1, <3>2
  <2>2. CASE ch.k # "LF"
    BY <1>27, <2>2, <1>1 DEF ChunkSizeAlmostDone
  <2> QED BY <2>1, <2>2
<1>28. CASE ChunkData
  BY <1>28, <1>1, <1>2, <1>3, MeaningType, FlagType DEF ChunkData
<1>29. CASE ChunkDataAlmostDone
  BY <1>29, <1>1, <1>2, <1>3, MeaningType, FlagType DEF ChunkDataAlmostDone, Refuses
<1>30. CASE ChunkDataDone
  BY <1>30, <1>1, <1>2, <1>3, MeaningType, FlagType DEF ChunkDataDone
<1>31. CASE Received \/ UNCHANGED vars
  <2>1. UNCHANGED <<state, headerVars, nread, http_errno, again, body_mark>>
    BY <1>31 DEF Received, vars
  <2>2. ParserType'
    BY <2>1
  <2>3. ChunkInv'
    BY <2>1
  <2>4. LengthInv' /\ HeaderInv'
    BY <2>1
  <2> QED BY <2>2, <2>3, <2>4
<1> QED
  BY <1>4, <1>5, <1>6, <1>7, <1>8, <1>9, <1>10, <1>11, <1>12, <1>13,
     <1>14, <1>15, <1>16, <1>17, <1>18, <1>19, <1>20, <1>21, <1>22, <1>23,
     <1>24, <1>25, <1>26, <1>27, <1>28, <1>29, <1>30, <1>31
     DEF Next, StatusLine, Headers, Bodies

-----------------------------------------------------------------------------
(* Results.                                                                *)

LEMMA InvHolds == Spec => [](CursorInv /\ ParserInv)
<1>1. Init => CursorInv
  <2> SUFFICES ASSUME Init PROVE CursorInv
    OBVIOUS
  <2>1. /\ response \in Responses /\ pos = 0 /\ last = 0 /\ pc = "idle" /\ again = FALSE
        /\ body_mark = 0 /\ body = << >> /\ http_errno = "OK"
    BY DEF Init
  <2>2. 0 \in 0 .. Len(response.text)
    BY <2>1, ResponseAssumption
  <2>3. again \in BOOLEAN /\ ~again
    BY <2>1
  <2>4. CursorType
    BY <2>1, <2>2, <2>3 DEF CursorType, Errors
  <2>5. CallInv /\ InOrder
    BY <2>1, <2>3 DEF CallInv, InOrder, Increasing
  <2> QED BY <2>4, <2>5 DEF CursorInv
<1>2. Init => ParserInv
  <2> SUFFICES ASSUME Init PROVE ParserInv
    OBVIOUS
  <2>1. /\ state = "s_start_res" /\ header_state = "h_general" /\ flags = {}
        /\ content_length = 0 /\ nread = 0 /\ status_code = 0 /\ version = 0 /\ body_mark = 0
    BY DEF Init
  <2>2. ParserType
    BY <2>1, SizeAssumption DEF ParserType, AllFlags, HeaderStates, HeaderMarks, ULLONG_MAX
  <2> QED
    BY <2>1, <2>2 DEF ParserInv, ChunkInv, LengthInv, HeaderInv, ChunkStates, MarkStates
<1>3. CursorInv /\ ParserInv /\ [Next]_vars => (CursorInv /\ ParserInv)'
  BY StepMovesCursor, CursorInvStep, ParserInvStep
<1> QED BY <1>1, <1>2, <1>3, PTL DEF Spec

(* Type correctness: no call looks past the end of its data, a mark and    *)
(* what was handed on lie in the data that came, and content_length stays  *)
(* in its word, for every response and every way to cut it.                *)
THEOREM TypeCorrect == Spec => []TypeOK
<1>1. CursorInv /\ ParserInv => TypeOK
  BY DEF CursorInv, CursorType, ParserInv, ParserType, AllFlags, TypeOK
<1> QED BY <1>1, InvHolds, PTL

(* No assertion of http_parser_execute can fail, whatever the DVR sends    *)
(* and however it is cut into calls.                                       *)
THEOREM AssertionsNeverFail == Spec => []AssertionsHold
<1>1. CursorInv /\ ParserInv => AssertionsHold
  <2> SUFFICES ASSUME CursorInv, ParserInv PROVE AssertionsHold
    OBVIOUS
  <2>1. state = "s_chunk_size_start" /\ Looking => Count = 1
    <3> SUFFICES ASSUME state = "s_chunk_size_start", Looking PROVE Count = 1
      OBVIOUS
    <3>1. nread = 0 /\ ~again
      BY DEF CursorInv, CallInv, Looking, ParserInv, ChunkInv
    <3>2. Counts
      BY <3>1 DEF Counts, HeaderStates
    <3> QED BY <3>1, <3>2 DEF Count
  <2>2. pc = "run" => http_errno = "OK"
    BY DEF CursorInv, CallInv
  <2>3. body_mark # 0 => state \in MarkStates /\ ~header_field_mark /\ ~header_value_mark
    BY DEF ParserInv, LengthInv, MarkStates, header_field_mark, header_value_mark
  <2> QED
    BY <2>1, <2>2, <2>3
       DEF ParserInv, ChunkInv, LengthInv, HeaderInv, AssertionsHold, ChunkStates, MarkStates
<1> QED BY <1>1, InvHolds, PTL

(* No byte of the response goes to on_body twice, or before one that came  *)
(* earlier.                                                                *)
THEOREM BodyInOrder == Spec => []Increasing(body)
<1>1. CursorInv => Increasing(body)
  BY DEF CursorInv, InOrder
<1> QED BY <1>1, InvHolds, PTL

(* The parser implements BodyStream: its pieces are not empty, none is     *)
(* longer than what recv brought, and none follows an error.               *)
THEOREM ParserImplementsBodyStream == Spec => ImplementsBodyStream
<1>1. Init => Stream!BodyInit
  <2> SUFFICES ASSUME Init PROVE Stream!BodyInit
    OBVIOUS
  <2>1. Len(body) = 0
    BY DEF Init
  <2>2. (http_errno # "OK") = FALSE
    BY DEF Init
  <2> QED BY <2>1, <2>2 DEF Stream!BodyInit
<1>2. ASSUME CursorInv, CursorStep
      PROVE  [Stream!Piece \/ Stream!Fail]_(Stream!bodyVars)
  <2>0. /\ pc = "run" => http_errno = "OK"
        /\ pos \in Nat /\ last \in Nat /\ body_mark \in 0 .. pos
    BY <1>2, ResponseAssumption DEF CursorInv, CursorType, CallInv
  <2>1. ASSUME UNCHANGED <<body, http_errno>> PROVE UNCHANGED Stream!bodyVars
    BY <2>1 DEF Stream!bodyVars
  <2>2. ASSUME http_errno = "OK", body' = body PROVE Stream!Fail \/ UNCHANGED Stream!bodyVars
    <3>1. CASE http_errno' = "OK"
      BY <2>1, <2>2, <3>1
    <3>2. CASE http_errno' # "OK"
      BY <2>2, <3>2 DEF Stream!Fail
    <3> QED BY <3>1, <3>2
  <2>3. ASSUME http_errno = "OK", Len(body') - Len(body) \in 1 .. RecvSize PROVE Stream!Piece
    <3>1. ~(http_errno # "OK") /\ (http_errno' # "OK") \in BOOLEAN
      BY <2>3
    <3> QED BY <2>3, <3>1 DEF Stream!Piece
  <2>4. ASSUME NEW n \in 1 .. RecvSize, Execute(n) \/ ExecuteIgnored(n)
        PROVE  UNCHANGED <<body, http_errno>>
    BY <2>4 DEF Execute, ExecuteIgnored, outVars
  <2>5. CASE EndOfData
    <3>1. CASE body_mark = 0
      BY <2>1, <2>5, <3>1 DEF EndOfData
    <3>2. CASE body_mark # 0
      <4>1. pc = "run" /\ last \in pos .. last /\ last >= Mark /\ HandOn(Mark, last)
        BY <2>0, <2>5, <3>2 DEF EndOfData, Mark
      <4>2. Len(body') - Len(body) \in 1 .. RecvSize
        BY <1>2, <4>1, PieceOf
      <4> QED BY <2>0, <2>3, <4>1, <4>2
    <3> QED BY <3>1, <3>2
  <2>6. CASE Ends
    BY <2>0, <2>2, <2>6 DEF Ends, Looking
  <2>7. ASSUME NEW to \in pos .. last, Gives(to) PROVE Stream!Piece
    <3>1. pc = "run" /\ to >= Mark /\ HandOn(Mark, to) /\ last \in to .. last
      BY <2>0, <2>7 DEF Gives, Looking
    <3>2. Len(body') - Len(body) \in 1 .. RecvSize
      BY <1>2, <3>1, PieceOf
    <3> QED BY <2>0, <2>3, <3>1, <3>2
  <2>8. CASE Passes \/ Takes \/ Rests
    BY <2>1, <2>8 DEF Passes, Takes, Rests, outVars
  <2> QED BY <1>2, <2>1, <2>4, <2>5, <2>6, <2>7, <2>8 DEF CursorStep
<1>3. CursorInv /\ ParserInv /\ [Next]_vars => [Stream!Piece \/ Stream!Fail]_(Stream!bodyVars)
  BY <1>2, StepMovesCursor
<1> QED BY <1>1, <1>3, InvHolds, PTL DEF Spec, ImplementsBodyStream, Stream!BodySpec

-----------------------------------------------------------------------------
(* The account of the body.                                                *)

LEMMA NothingTaken ==
  ASSUME body \in Seq(Nat), body' = body, body_mark = 0, body_mark' = 0
  PROVE  Taken' - Taken = 0
<1>1. Taken = Len(body) /\ Taken' = Len(body) /\ Len(body) \in Nat
  BY DEF Taken
<1> QED BY <1>1

LEMMA AllTaken ==
  ASSUME body \in Seq(Nat), body' = body, body_mark' = Mark,
         pos \in Nat, pos' \in Nat, body_mark \in 0 .. pos, pos' >= Mark
  PROVE  Taken' - Taken = pos' - pos
<1>1. Len(body) \in Nat
  OBVIOUS
<1>2. CASE body_mark = 0
  <2>1. Taken = Len(body) /\ Taken' = Len(body) + (pos' - (pos + 1) + 1)
    BY <1>1, <1>2 DEF Taken, Mark
  <2> QED BY SMTT(20), <1>1, <2>1
<1>3. CASE body_mark # 0
  <2>1. Taken = Len(body) + (pos - body_mark + 1) /\ Taken' = Len(body) + (pos' - body_mark + 1)
    BY <1>1, <1>3 DEF Taken, Mark
  <2> QED BY SMTT(20), <1>1, <2>1
<1> QED BY <1>2, <1>3

LEMMA AllHandedOn ==
  ASSUME CursorInv, pc = "run", NEW to \in pos .. last, to >= Mark, HandOn(Mark, to),
         body_mark' = 0
  PROVE  Taken' - Taken = to - pos
<1>1. /\ pos \in Nat /\ last \in Nat /\ body \in Seq(1 .. pos) /\ body_mark \in 0 .. pos
  BY ResponseAssumption DEF CursorInv, CursorType
<1>2. Mark \in 1 .. to /\ to \in Nat
  BY <1>1 DEF Mark
<1>3. to \in to .. last
  BY <1>1
<1>4. Len(body') = Len(body) + (to - Mark + 1)
  BY <1>3, PieceOf
<1>5. Len(body) \in Nat
  BY <1>1
<1>6. Taken' = Len(body) + (to - Mark + 1)
  BY <1>4 DEF Taken
<1>7. CASE body_mark = 0
  <2>1. Taken = Len(body) /\ Mark = pos + 1
    BY <1>7, <1>5 DEF Taken, Mark
  <2> QED BY <2>1, <1>1, <1>2, <1>5, <1>6
<1>8. CASE body_mark # 0
  <2>1. Taken = Len(body) + (pos - body_mark + 1) /\ Mark = body_mark
    BY <1>8 DEF Taken, Mark
  <2> QED BY <2>1, <1>1, <1>2, <1>5, <1>6
<1> QED BY <1>7, <1>8

Account ==
  pc = "run" /\ http_errno' = "OK" =>
    Taken' - Taken =
      IF state \in {"s_body_identity", "s_chunk_data"} THEN content_length - content_length'
      ELSE IF state = "s_body_identity_eof" THEN pos' - pos ELSE 0

(* Every step keeps the account: what is taken off content_length is what  *)
(* on_body gets or is marked for it.                                       *)
LEMMA StepKeepsAccount ==
  ASSUME CursorInv, ParserInv, [Next]_vars
  PROVE  Account \/ UNCHANGED vars
<1> SUFFICES ASSUME pc = "run", http_errno' = "OK", ~UNCHANGED vars PROVE Account
  BY DEF Account
<1>1. /\ pos \in Nat /\ last \in Nat /\ pos <= last /\ body \in Seq(Nat) /\ body_mark \in 0 .. pos
      /\ body_mark # 0 => state \in MarkStates
      /\ content_length \in Nat
  <2>1. \A i \in 1 .. Len(body) : body[i] \in Nat
    BY ResponseAssumption DEF CursorInv, CursorType
  <2>2. body \in Seq(Nat)
    BY <2>1, SeqDef DEF CursorInv, CursorType
  <2> QED BY <2>2, ResponseAssumption, SizeAssumption
             DEF CursorInv, CursorType, ParserInv, LengthInv, ParserType, ULLONG_MAX
<1>2. ASSUME state \notin MarkStates, body' = body, body_mark' \in {0, body_mark} PROVE Account
  <2>1. body_mark = 0 /\ body_mark' = 0
    BY <1>1, <1>2
  <2>2. Taken' - Taken = 0
    BY <2>1, <1>1, <1>2, NothingTaken
  <2> QED BY <2>2, <1>2 DEF Account, MarkStates
<1>3. ASSUME NEW e \in Errors \ {"OK"}, GoError(e) PROVE FALSE
  BY <1>3 DEF GoError
<1>4. ASSUME state \notin MarkStates,
             \/ \E s : Go(s) \/ GoAgain(s)
             \/ \E e \in Errors \ {"OK"} : GoError(e)
      PROVE  Account
  <2>1. \E s : Go(s) \/ GoAgain(s)
    BY <1>3, <1>4
  <2>2. body' = body /\ body_mark' = body_mark
    BY <2>1 DEF Go, GoAgain, outVars
  <2> QED BY <2>2, <1>2, <1>4
<1>5. ASSUME NEW n \in 1 .. RecvSize, Execute(n) \/ ExecuteIgnored(n) PROVE FALSE
  BY <1>5 DEF Execute, ExecuteIgnored, More
<1>6. CASE EndOfData
  <2>1. pos = last /\ pos' = last /\ body_mark' = 0 /\ content_length' = content_length
    BY <1>6 DEF EndOfData, Return, headerVars
  <2>2. Taken' - Taken = 0
    <3>1. CASE body_mark = 0
      <4>1. body' = body
        BY <1>6, <3>1 DEF EndOfData
      <4> QED BY <2>1, <3>1, <4>1, <1>1, NothingTaken
    <3>2. CASE body_mark # 0
      <4>1. HandOn(Mark, last) /\ last >= Mark /\ last \in pos .. last
        BY <1>6, <3>2, <2>1, <1>1 DEF EndOfData, Mark
      <4>2. Taken' - Taken = last - pos
        BY <2>1, <4>1, AllHandedOn
      <4> QED BY <2>1, <4>2, <1>1
    <3> QED BY <3>1, <3>2
  <2> QED BY <2>1, <2>2, <1>1 DEF Account
<1>7. CASE HeaderOverflow
  BY <1>7 DEF HeaderOverflow
<1>8. CASE Step \/ Skip
  <2>1. state \notin MarkStates
    BY <1>8 DEF Step, Skip, At, Transitions, MarkStates
  <2>2. \E s : Go(s)
    BY <1>8 DEF Step, Skip
  <2> QED BY <2>1, <2>2, <1>4
<1>9. CASE Unexpected
  <2>1. PICK s \in DOMAIN Otherwise : GoError(Otherwise[s])
    BY <1>9 DEF Unexpected
  <2>2. Otherwise[s] \in Errors \ {"OK"}
    BY DEF Otherwise, Errors
  <2> QED BY <2>1, <2>2, <1>3
<1>10. CASE StartRes \/ StatusCode
  <2>1. state \notin MarkStates
    BY <1>10 DEF StartRes, StatusCode, At, MarkStates
  <2>2. (\E s : Go(s)) \/ \E e \in Errors \ {"OK"} : GoError(e)
    BY <1>10 DEF StartRes, StatusCode, Errors
  <2> QED BY <2>1, <2>2, <1>4
<1>11. CASE HeaderFieldStart \/ HeaderField \/ HeaderValueStart
  <2>1. state \notin MarkStates
    BY <1>11 DEF HeaderFieldStart, HeaderField, HeaderValueStart, At, MarkStates
  <2>2. (\E s : Go(s) \/ GoAgain(s)) \/ \E e \in Errors \ {"OK"} : GoError(e)
    BY <1>11 DEF HeaderFieldStart, HeaderField, HeaderValueStart, Errors
  <2> QED BY <2>1, <2>2, <1>4
<1>12. CASE HeaderValue \/ HeaderAlmostDone \/ HeaderValueLws
  <2>1. state \notin MarkStates
    BY <1>12 DEF HeaderValue, HeaderAlmostDone, HeaderValueLws, At, MarkStates
  <2>2. (\E s : Go(s) \/ GoAgain(s)) \/ \E e \in Errors \ {"OK"} : GoError(e)
    BY <1>12 DEF HeaderValue, HeaderAlmostDone, HeaderValueLws, Errors
  <2> QED BY <2>1, <2>2, <1>4
<1>13. CASE HeadersDone \/ TrailersDone \/ HeadersNotDone
  <2>1. state \notin MarkStates
    BY <1>13 DEF HeadersDone, TrailersDone, HeadersNotDone, At, MarkStates
  <2>2. (\E s : Go(s)) \/ \E e \in Errors \ {"OK"} : GoError(e)
    BY <1>13 DEF HeadersDone, TrailersDone, HeadersNotDone, Errors
  <2> QED BY <2>1, <2>2, <1>4
<1>14. CASE Upgraded
  <2>1. state \notin MarkStates /\ body' = body /\ body_mark' = 0
    BY <1>14 DEF Upgraded, At, Return, MarkStates
  <2> QED BY <2>1, <1>2
<1>15. CASE ChunkSizeStart \/ ChunkSize \/ ChunkSizeAlmostDone \/ ChunkDataDone
  <2>1. state \notin MarkStates
    BY <1>15 DEF ChunkSizeStart, ChunkSize, ChunkSizeAlmostDone, ChunkDataDone, At, MarkStates
  <2>2. (\E s : Go(s)) \/ \E e \in Errors \ {"OK"} : GoError(e)
    BY <1>15 DEF ChunkSizeStart, ChunkSize, ChunkSizeAlmostDone, ChunkDataDone, Errors
  <2> QED BY <2>1, <2>2, <1>4
<1>16. ASSUME Looking, content_length # 0
       PROVE  to_read \in 1 .. (last - pos) /\ to_read <= content_length
  BY <1>1, <1>16 DEF Looking, to_read, Smaller
<1>17. CASE BodyIdentityPart \/ ChunkData
  <2>1. /\ Looking /\ content_length # 0 /\ state \in {"s_body_identity", "s_chunk_data"}
        /\ pos' = pos + to_read /\ body_mark' = Mark /\ body' = body
        /\ content_length' = content_length - to_read
    BY <1>17 DEF BodyIdentityPart, ChunkData, At, ParserInv, LengthInv
  <2>2. pos' \in Nat /\ pos' >= Mark /\ pos' - pos = to_read /\ content_length - content_length' = to_read
    BY <2>1, <1>1, <1>16 DEF Mark
  <2>3. Taken' - Taken = pos' - pos
    BY <2>1, <2>2, <1>1, AllTaken
  <2> QED BY <2>1, <2>2, <2>3 DEF Account
<1>18. CASE BodyIdentityEof
  <2>1. /\ Looking /\ state = "s_body_identity_eof"
        /\ pos' = last /\ body_mark' = Mark /\ body' = body
    BY <1>18 DEF BodyIdentityEof, At
  <2>2. pos' \in Nat /\ pos' >= Mark
    BY <2>1, <1>1 DEF Mark, Looking
  <2>3. Taken' - Taken = pos' - pos
    BY <2>1, <2>2, <1>1, AllTaken
  <2> QED BY <2>1, <2>3 DEF Account
<1>19. CASE BodyIdentityEnd
  <2>1. /\ Looking /\ content_length # 0 /\ state = "s_body_identity"
        /\ content_length' = 0 /\ to_read = content_length
        /\ HandOn(Mark, pos + to_read) /\ body_mark' = 0
    BY <1>19 DEF BodyIdentityEnd, At, ParserInv, LengthInv, Refuses
  <2>2. pos + to_read \in pos .. last /\ pos + to_read >= Mark
    BY <2>1, <1>1, <1>16 DEF Mark
  <2>3. Taken' - Taken = (pos + to_read) - pos
    BY <2>1, <2>2, AllHandedOn
  <2> QED BY <2>1, <2>3, <1>1 DEF Account
<1>20. CASE ChunkDataAlmostDone
  <2>1. Looking /\ state = "s_chunk_data_almost_done"
    BY <1>20 DEF ChunkDataAlmostDone, At
  <2>2. "STRICT" \in Errors \ {"OK"}
    BY DEF Errors
  <2>3. CASE body_mark = 0 /\ Go("s_chunk_data_done")
    <3>1. body' = body /\ body_mark' = 0
      BY <2>3 DEF Go, outVars
    <3>2. Taken' - Taken = 0
      BY <2>3, <3>1, <1>1, NothingTaken
    <3> QED BY <2>1, <3>2 DEF Account
  <2>4. CASE body_mark # 0 /\ HandOn(body_mark, pos) /\ body_mark' = 0
    <3>1. pos \in pos .. last /\ pos >= Mark /\ HandOn(Mark, pos)
      BY <2>4, <1>1 DEF Mark
    <3>2. Taken' - Taken = pos - pos
      BY <2>4, <3>1, AllHandedOn
    <3> QED BY <2>1, <3>2, <1>1 DEF Account
  <2> QED BY <1>20, <2>2, <2>3, <2>4, <1>3 DEF ChunkDataAlmostDone, Refuses
<1>21. CASE Received
  BY <1>21 DEF Received
<1> QED
  BY <1>5, <1>6, <1>7, <1>8, <1>9, <1>10, <1>11, <1>12, <1>13, <1>14, <1>15, <1>17, <1>18,
     <1>19, <1>20, <1>21 DEF Next, StatusLine, Headers, Bodies

(* Of a body with a length, or of a chunk, exactly that many bytes come    *)
(* before the parser looks for what follows.                               *)
THEOREM LengthIsKept == Spec => LengthIsBodyLeft
<1>1. CursorInv /\ ParserInv /\ [Next]_vars => [Account]_vars
  BY StepKeepsAccount
<1>2. Spec => [][Account]_vars
  BY <1>1, InvHolds, PTL DEF Spec
<1> QED BY <1>2 DEF LengthIsBodyLeft, Account

-----------------------------------------------------------------------------
(* What on_body gets of the endless response of the DVR.                   *)

(* A line that is empty ends with symbol i.                                *)
BlankLine(t, i) ==
  /\ t[i].k = "LF"
  /\ \/ i > 1 /\ t[i - 1].k = "LF"
     \/ i > 2 /\ t[i - 1].k = "CR" /\ t[i - 2].k = "LF"

(* The endless response of the DVR: the first empty line ends the head,    *)
(* nothing in the head tells a length or an encoding, the status code is   *)
(* one of a response with a body, and all that follows is the body.        *)
EndlessFrom(r, h) ==
  /\ h \in 1 .. Len(r.text) /\ r.text[1].k = "HTTP"
  /\ BlankLine(r.text, h) /\ \A i \in 1 .. (h - 1) : ~BlankLine(r.text, i)
  /\ \A i \in 1 .. h :
       /\ r.text[i].k \notin {"ContentLength", "TransferEncoding", "Upgrade"}
       /\ r.text[i].k = "code" =>
            r.text[i].v \div 100 # 1 /\ r.text[i].v \notin {204, 304}
  /\ r.payload = Positions(h + 1, Len(r.text))

EndlessResponse(r) == \E h \in 1 .. Len(r.text) : EndlessFrom(r, h)

HeadStates ==
  {"s_start_res", "s_res_http_minor", "s_res_first_status_code",
   "s_res_status_code", "s_res_status", "s_res_line_almost_done",
   "s_header_field_start", "s_header_field", "s_header_value_start",
   "s_header_value", "s_header_value_lws", "s_header_almost_done",
   "s_headers_almost_done"}

(* What the head has told the parser so far.                               *)
HeadTold ==
  /\ {"CHUNKED", "TRAILING", "UPGRADE"} \cap flags = {}
  /\ header_state \in {"h_general", "h_connection", "h_connection_keep_alive",
                       "h_connection_close"}
  /\ state # "s_start_res" => content_length = ULLONG_MAX
  /\ status_code \div 100 # 1 /\ status_code \notin {204, 304}

(* The states in which a line begins, or an empty one ends, go with the    *)
(* line ends that were passed.                                             *)
LineInv ==
  LET K(i) == response.text[i].k
  IN  /\ state = "s_start_res" <=> pos = 0
      /\ pos > 0 /\ K(pos) = "LF" =>
           \/ state \in {"s_header_field_start", "s_header_value_lws"}
           \/ state = "s_headers_almost_done" /\ again
      /\ state \in {"s_header_field_start", "s_header_value_lws"} => K(pos) = "LF"
      /\ state = "s_headers_almost_done" =>
           IF again THEN K(pos) = "LF" ELSE pos > 1 /\ K(pos) = "CR" /\ K(pos - 1) = "LF"
      /\ pos > 1 /\ K(pos) = "CR" /\ K(pos - 1) = "LF" => state = "s_headers_almost_done"

InHead(h) ==
  /\ state \in HeadStates /\ pos < h /\ body_mark = 0 /\ body = << >>
  /\ again => Looking
  /\ HeadTold /\ LineInv

InBody(h) ==
  /\ state = "s_body_identity_eof" /\ pos >= h /\ ~again
  /\ body_mark # 0 => body_mark > h
  /\ body = Positions(h + 1, IF body_mark = 0 THEN pos ELSE body_mark - 1)

EndlessInv ==
  \A h \in 1 .. Len(response.text) : EndlessFrom(response, h) =>
    /\ \E m \in h .. Len(response.text) : body = Positions(h + 1, m)
    /\ http_errno = "OK" => InHead(h) \/ InBody(h)

(* Positions from a on, none included.                                     *)
LEMMA Run ==
  ASSUME NEW a \in Nat \ {0}, NEW c \in Nat, a <= c + 1
  PROVE  /\ Positions(a, c) \in Seq(Nat)
         /\ Len(Positions(a, c)) = c - a + 1
         /\ \A i \in 1 .. (c - a + 1) : Positions(a, c)[i] = a + i - 1
<1> DEFINE P == Positions(a, c)
           n == c - a + 1
<1>1. n \in Nat
  OBVIOUS
<1>2. P = [i \in 1 .. n |-> a + i - 1]
  BY DEF Positions
<1>3. \A i \in 1 .. n : a + i - 1 \in Nat
  BY <1>1
<1> HIDE DEF n
<1>4. P \in [1 .. n -> Nat]
  BY <1>2, <1>3
<1> HIDE DEF P
<1>5. P \in Seq(Nat)
  BY <1>1, <1>4, SeqDef
<1>6. Len(P) = n
  BY <1>1, <1>4, <1>5
<1>7. \A i \in 1 .. n : P[i] = a + i - 1
  BY <1>2
<1> QED BY <1>5, <1>6, <1>7 DEF P, n

LEMMA NoPositions == ASSUME NEW h \in Nat PROVE Positions(h + 1, h) = << >>
<1>1. h - (h + 1) + 1 = 0
  OBVIOUS
<1>2. Positions(h + 1, h) \in Seq(Nat) /\ Len(Positions(h + 1, h)) = 0
  BY <1>1, Run
<1> QED BY <1>2, EmptySeq

LEMMA JoinedPositions ==
  ASSUME NEW a \in Nat \ {0}, NEW b \in Nat, NEW c \in Nat, a <= b, b <= c
  PROVE  Positions(a, b - 1) \o Positions(b, c) = Positions(a, c)
<1> DEFINE P == Positions(a, b - 1)
           Q == Positions(b, c)
           R == Positions(a, c)
<1>0. b - 1 \in Nat /\ a <= (b - 1) + 1 /\ (b - 1) - a + 1 = b - a /\ b \in Nat \ {0}
  OBVIOUS
<1>1. P \in Seq(Nat) /\ Len(P) = b - a /\ \A i \in 1 .. (b - a) : P[i] = a + i - 1
  BY <1>0, Run
<1>2. Q \in Seq(Nat) /\ Len(Q) = c - b + 1 /\ \A i \in 1 .. (c - b + 1) : Q[i] = b + i - 1
  BY <1>0, Run
<1>3. R \in Seq(Nat) /\ Len(R) = c - a + 1 /\ \A i \in 1 .. (c - a + 1) : R[i] = a + i - 1
  BY Run
<1> HIDE DEF P, Q, R
<1>5. /\ P \o Q \in Seq(Nat) /\ Len(P \o Q) = Len(P) + Len(Q)
      /\ \A i \in 1 .. Len(P) + Len(Q) : (P \o Q)[i] = IF i <= Len(P) THEN P[i] ELSE Q[i - Len(P)]
  BY <1>1, <1>2, ConcatProperties
<1>6. Len(P \o Q) = Len(R)
  BY <1>1, <1>2, <1>3, <1>5
<1>7. ASSUME NEW i \in 1 .. Len(R) PROVE (P \o Q)[i] = R[i]
  <2>1. i \in 1 .. (c - a + 1) /\ i \in 1 .. Len(P) + Len(Q) /\ R[i] = a + i - 1
    BY <1>1, <1>2, <1>3
  <2>2. CASE i <= b - a
    <3>1. i \in 1 .. (b - a)
      BY <2>1, <2>2
    <3> QED BY <1>1, <1>5, <2>1, <2>2, <3>1
  <2>3. CASE ~(i <= b - a)
    <3>1. i - (b - a) \in 1 .. (c - b + 1) /\ b + (i - (b - a)) - 1 = a + i - 1
      BY <2>1, <2>3
    <3> QED BY <1>1, <1>2, <1>5, <2>1, <2>3, <3>1
  <2> QED BY <2>2, <2>3
<1> QED BY <1>3, <1>5, <1>6, <1>7, SeqEqual DEF P, Q, R

LEMMA BlankLineIs ==
  ASSUME NEW t, NEW i \in Nat
  PROVE  BlankLine(t, i + 1) <=>
           /\ t[i + 1].k = "LF"
           /\ \/ i > 0 /\ t[i].k = "LF"
              \/ i > 1 /\ t[i].k = "CR" /\ t[i - 1].k = "LF"
<1>1. (i + 1) - 1 = i /\ (i + 1) - 2 = i - 1 /\ (i + 1 > 1 <=> i > 0) /\ (i + 1 > 2 <=> i > 1)
  OBVIOUS
<1> QED BY <1>1, Zenon DEF BlankLine

(* What is known of the symbol that is looked at in the head.              *)
LEMMA HeadSymbol ==
  ASSUME CursorInv, NEW h \in Nat, EndlessFrom(response, h), InHead(h), Looking
  PROVE  /\ pos \in Nat /\ pos + 1 \in 1 .. h
         /\ ch.k \notin {"ContentLength", "TransferEncoding", "Upgrade"}
         /\ ch.k = "code" => ch.v \div 100 # 1 /\ ch.v \notin {204, 304}
         /\ pos = 0 => ch.k = "HTTP"
         /\ pos + 1 = h =>
              /\ ch.k = "LF"
              /\ state \in {"s_header_field_start", "s_header_value_lws", "s_headers_almost_done"}
         /\ state = "s_headers_almost_done" /\ ch.k = "LF" => pos + 1 = h
<1>1. pos \in Nat /\ pos + 1 \in 1 .. h
  BY ResponseAssumption DEF CursorInv, CursorType, InHead
<1>2. /\ ch.k \notin {"ContentLength", "TransferEncoding", "Upgrade"}
      /\ ch.k = "code" => ch.v \div 100 # 1 /\ ch.v \notin {204, 304}
      /\ pos = 0 => ch.k = "HTTP"
  BY <1>1 DEF EndlessFrom, ch
<1>3. ASSUME pos + 1 = h
      PROVE  /\ ch.k = "LF"
             /\ state \in {"s_header_field_start", "s_header_value_lws", "s_headers_almost_done"}
  <2>1. BlankLine(response.text, pos + 1)
    BY <1>3 DEF EndlessFrom
  <2>2. /\ response.text[pos + 1].k = "LF"
        /\ \/ pos > 0 /\ response.text[pos].k = "LF"
           \/ pos > 1 /\ response.text[pos].k = "CR" /\ response.text[pos - 1].k = "LF"
    BY <1>1, <2>1, BlankLineIs
  <2> QED BY <2>2 DEF ch, InHead, LineInv
<1>4. ASSUME state = "s_headers_almost_done", ch.k = "LF" PROVE pos + 1 = h
  <2>1. pos > 0
    BY <1>1, <1>4 DEF InHead, LineInv
  <2>2. \/ pos > 0 /\ response.text[pos].k = "LF"
        \/ pos > 1 /\ response.text[pos].k = "CR" /\ response.text[pos - 1].k = "LF"
    BY <1>4, <2>1 DEF InHead, LineInv
  <2>3. BlankLine(response.text, pos + 1)
    BY <1>1, <1>4, <2>2, BlankLineIs DEF ch
  <2> QED BY <1>1, <2>3 DEF EndlessFrom
<1> QED BY <1>1, <1>2, <1>3, <1>4

(* The state s goes with the symbol that is passed.                        *)
LineGoes(s) ==
  /\ s \in HeadStates \ {"s_start_res"}
  /\ ch.k = "LF" <=> s \in {"s_header_field_start", "s_header_value_lws"}
  /\ s = "s_headers_almost_done" <=> ch.k = "CR" /\ pos > 0 /\ response.text[pos].k = "LF"

LEMMA HeadGoes ==
  ASSUME CursorInv, NEW h \in Nat, EndlessFrom(response, h), InHead(h), Looking,
         UNCHANGED response, NEW s, Go(s), LineGoes(s), HeadTold', pos + 1 # h
  PROVE  InHead(h)'
<1>1. pos \in Nat /\ pos + 1 \in 1 .. h
  BY HeadSymbol
<1>2. /\ state' = s /\ pos' = pos + 1 /\ again' = FALSE /\ response' = response
      /\ body_mark' = body_mark /\ body' = body
  BY DEF Go, outVars
<1>3. pos' > 0 /\ pos' - 1 = pos /\ (pos' > 1 <=> pos > 0) /\ pos' < h
  BY <1>1, <1>2
<1>4. response'.text[pos'].k = ch.k /\ response'.text[pos' - 1].k = response.text[pos].k
  BY <1>2, <1>3 DEF ch
<1>5. LineInv'
  <2>1. state' = "s_start_res" <=> pos' = 0
    BY <1>1, <1>2 DEF LineGoes
  <2>2. response'.text[pos'].k = "LF" <=> state' \in {"s_header_field_start", "s_header_value_lws"}
    BY <1>2, <1>4 DEF LineGoes
  <2>3. state' = "s_headers_almost_done" <=>
          pos' > 1 /\ response'.text[pos'].k = "CR" /\ response'.text[pos' - 1].k = "LF"
    BY <1>2, <1>3, <1>4 DEF LineGoes
  <2> QED BY <1>2, <2>1, <2>2, <2>3 DEF LineInv
<1> QED BY <1>2, <1>3, <1>5 DEF InHead, LineGoes

(* The symbol is looked at once more, in the state s.                      *)
LEMMA HeadWaits ==
  ASSUME CursorInv, NEW h \in Nat, InHead(h), Looking, UNCHANGED response, NEW s, GoAgain(s),
         \/ s = "s_header_almost_done" /\ state = "s_header_value"
         \/ s = "s_header_field_start" /\ state = "s_header_value_lws"
         \/ s = "s_headers_almost_done" /\ state = "s_header_field_start",
         HeadTold'
  PROVE  InHead(h)'
<1>1. /\ state' = s /\ pos' = pos /\ again' = TRUE /\ response' = response /\ Looking'
      /\ body_mark' = body_mark /\ body' = body
  BY DEF GoAgain, outVars, Looking
<1>2. LineInv'
  BY <1>1 DEF InHead, LineInv
<1> QED BY <1>1, <1>2 DEF InHead, HeadStates

(* A symbol of the head: nothing is handed on, and unless the call fails   *)
(* the head goes on or the body begins behind the empty line.              *)
LEMMA HeadStep ==
  ASSUME CursorInv, ParserInv, NEW h \in Nat, EndlessFrom(response, h), InHead(h),
         http_errno = "OK", Next
  PROVE  body' = body /\ (http_errno' = "OK" => InHead(h)' \/ InBody(h)')
<1> DEFINE Goal == body' = body /\ (http_errno' = "OK" => InHead(h)' \/ InBody(h)')
<1>0. /\ state \in HeadStates /\ pos < h /\ body_mark = 0 /\ body = << >> /\ HeadTold /\ LineInv
      /\ (again => Looking) /\ pos \in Nat /\ last \in Nat
  BY ResponseAssumption DEF InHead, CursorInv, CursorType
<1>1. ASSUME NEW e \in Errors \ {"OK"}, GoError(e) PROVE Goal
  BY <1>1 DEF GoError
<1>2. ASSUME NEW n \in 1 .. RecvSize, Execute(n) \/ ExecuteIgnored(n) PROVE Goal
  <2>1. Execute(n)
    BY <1>2 DEF ExecuteIgnored
  <2>2. /\ UNCHANGED <<state, headerVars, http_errno, response, pos, again, body_mark, body>>
        /\ pc' = "run" /\ last' = pos + n /\ pc = "idle"
    BY <2>1 DEF Execute, More, outVars
  <2>3. HeadTold' /\ LineInv'
    BY <1>0, <2>2 DEF HeadTold, LineInv, headerVars
  <2>4. ~again
    BY <1>0, <2>2 DEF Looking
  <2> QED BY <1>0, <2>2, <2>3, <2>4 DEF InHead, Looking
<1>3. CASE EndOfData
  <2>1. /\ UNCHANGED <<state, headerVars, http_errno, response, body>>
        /\ pos = last /\ pos' = pos /\ body_mark' = 0 /\ again' = FALSE
    BY <1>0, <1>3 DEF EndOfData, Return
  <2>2. ~again
    BY <1>0, <2>1 DEF Looking
  <2>3. HeadTold'
    BY <1>0, <2>1 DEF HeadTold, headerVars
  <2>4. LineInv'
    BY <1>0, <2>1, <2>2 DEF LineInv
  <2> QED BY <1>0, <2>1, <2>3, <2>4 DEF InHead
<1>4. CASE HeaderOverflow
  BY <1>4 DEF HeaderOverflow
<1>5. ASSUME Looking, UNCHANGED response, NEW s, Go(s), LineGoes(s), HeadTold', pos + 1 # h
      PROVE  Goal
  <2>1. InHead(h)'
    BY <1>5, HeadGoes
  <2> QED BY <2>1, <1>5 DEF Go, outVars
<1>6. ASSUME Looking, UNCHANGED response, NEW s, GoAgain(s), HeadTold',
             \/ s = "s_header_almost_done" /\ state = "s_header_value"
             \/ s = "s_header_field_start" /\ state = "s_header_value_lws"
             \/ s = "s_headers_almost_done" /\ state = "s_header_field_start"
      PROVE  Goal
  <2>1. InHead(h)'
    BY <1>6, HeadWaits
  <2> QED BY <2>1, <1>6 DEF GoAgain, outVars
<1>7. ASSUME Looking
      PROVE  /\ ch.k \notin {"ContentLength", "TransferEncoding", "Upgrade"}
             /\ ch.k = "code" => ch.v \div 100 # 1 /\ ch.v \notin {204, 304}
             /\ pos = 0 => ch.k = "HTTP"
             /\ pos + 1 = h =>
                  /\ ch.k = "LF"
                  /\ state \in {"s_header_field_start", "s_header_value_lws", "s_headers_almost_done"}
             /\ state = "s_headers_almost_done" /\ ch.k = "LF" => pos + 1 = h
  BY <1>7, HeadSymbol
<1>8. (pos > 0 /\ response.text[pos].k = "LF") <=>
        \/ state \in {"s_header_field_start", "s_header_value_lws"}
        \/ state = "s_headers_almost_done" /\ again
  BY <1>0 DEF LineInv
<1>9. ASSUME UNCHANGED headerVars, state # "s_start_res", state' # "s_start_res" PROVE HeadTold'
  BY <1>0, <1>9 DEF HeadTold, headerVars
<1>10. CASE StartRes
  <2>1. Looking /\ state = "s_start_res" /\ response' = response
    BY <1>10 DEF StartRes, At
  <2>2. pos = 0 /\ ch.k = "HTTP"
    BY <1>0, <1>7, <2>1 DEF LineInv
  <2>3. /\ Go("s_res_http_minor") /\ flags' = {} /\ content_length' = ULLONG_MAX
        /\ UNCHANGED <<header_state, status_code>>
    BY <1>10, <2>2 DEF StartRes
  <2>4. HeadTold'
    BY <1>0, <2>3 DEF HeadTold
  <2>5. LineGoes("s_res_http_minor")
    BY <2>2 DEF LineGoes, HeadStates
  <2>6. pos + 1 # h
    BY <1>7, <2>1, <2>2
  <2> QED BY <1>5, <2>1, <2>3, <2>4, <2>5, <2>6
<1>11. CASE StatusCode
  <2>1. /\ Looking /\ state = "s_res_first_status_code" /\ response' = response
        /\ ch.k = "code" /\ status_code' = ch.v
        /\ UNCHANGED <<header_state, flags, content_length>>
        /\ Go("s_res_status_code") \/ GoError("INVALID_STATUS")
    BY <1>11 DEF StatusCode, At
  <2>2. CASE GoError("INVALID_STATUS")
    BY <1>1, <2>2 DEF Errors
  <2>3. CASE Go("s_res_status_code")
    <3>1. HeadTold'
      BY <1>0, <1>7, <2>1 DEF HeadTold
    <3>2. LineGoes("s_res_status_code") /\ pos + 1 # h
      BY <1>7, <2>1 DEF LineGoes, HeadStates
    <3> QED BY <1>5, <2>1, <2>3, <3>1, <3>2
  <2> QED BY <2>1, <2>2, <2>3
<1>12. CASE Step
  <2>1. PICK t \in Transitions :
          At(t[1]) /\ ch.k = t[2] /\ Go(t[3]) /\ UNCHANGED headerVars
    BY <1>12 DEF Step
  <2>2. Looking /\ state = t[1] /\ response' = response
    BY <2>1 DEF At
  <2>3. t[1] \in HeadStates \ {"s_start_res"} /\ t[3] \in HeadStates \ {"s_start_res"}
        /\ t[1] \notin {"s_header_field_start", "s_header_value_lws", "s_headers_almost_done"}
        /\ t[3] # "s_headers_almost_done"
        /\ (t[2] = "LF" <=> t[3] \in {"s_header_field_start", "s_header_value_lws"})
    BY <1>0, <2>2 DEF Transitions, HeadStates
  <2>4. LineGoes(t[3]) /\ pos + 1 # h
    BY <1>7, <1>8, <2>1, <2>2, <2>3 DEF LineGoes
  <2>5. HeadTold'
    BY <1>9, <2>1, <2>2, <2>3 DEF Go
  <2> QED BY <1>5, <2>1, <2>2, <2>4, <2>5
<1>13. CASE Skip
  <2>1. /\ Looking /\ state = "s_res_status" /\ response' = response
        /\ ~Expected(state, ch.k) /\ Go(state) /\ UNCHANGED headerVars
    BY <1>0, <1>13 DEF Skip, At, HeadStates
  <2>2. ch.k \notin {"LF", "CR"}
    BY <2>1 DEF Expected, Transitions
  <2>3. LineGoes(state) /\ pos + 1 # h
    BY <1>7, <2>1, <2>2 DEF LineGoes, HeadStates
  <2>4. HeadTold'
    BY <1>9, <2>1 DEF Go
  <2> QED BY <1>5, <2>1, <2>3, <2>4
<1>14. CASE Unexpected
  <2>1. PICK s \in DOMAIN Otherwise : GoError(Otherwise[s])
    BY <1>14 DEF Unexpected
  <2>2. Otherwise[s] \in Errors \ {"OK"}
    BY DEF Otherwise, Errors
  <2> QED BY <1>1, <2>1, <2>2
<1>15. "LF" \notin Tokens /\ "CR" \notin Tokens
  BY DEF Tokens, Names
<1>16. CASE HeaderFieldStart
  <2>1. /\ Looking /\ state = "s_header_field_start" /\ response' = response
        /\ UNCHANGED <<flags, content_length, status_code>>
    BY <1>16 DEF HeaderFieldStart, At
  <2>2. pos > 0 /\ response.text[pos].k = "LF"
    BY <1>8, <2>1
  <2>3. CASE ch.k = "CR" /\ Go("s_headers_almost_done") /\ UNCHANGED header_state
    <3>1. HeadTold'
      BY <1>0, <2>1, <2>3 DEF HeadTold, Go
    <3>2. LineGoes("s_headers_almost_done") /\ pos + 1 # h
      BY <1>7, <2>1, <2>2, <2>3 DEF LineGoes, HeadStates
    <3> QED BY <1>5, <2>1, <2>3, <3>1, <3>2
  <2>4. CASE GoAgain("s_headers_almost_done") /\ UNCHANGED header_state
    <3>1. HeadTold'
      BY <1>0, <2>1, <2>4 DEF HeadTold, GoAgain
    <3> QED BY <1>6, <2>1, <2>4, <3>1
  <2>5. CASE /\ ch.k \in Tokens /\ Go("s_header_field")
             /\ header_state' = IF ch.k \in DOMAIN Names THEN Names[ch.k] ELSE "h_general"
    <3>1. header_state' \in {"h_general", "h_connection"}
      BY <1>7, <2>1, <2>5 DEF Names
    <3>2. HeadTold'
      BY <1>0, <2>1, <2>5, <3>1 DEF HeadTold, Go
    <3>3. ch.k \notin {"LF", "CR"}
      BY <1>15, <2>5
    <3>4. LineGoes("s_header_field") /\ pos + 1 # h
      BY <1>7, <2>1, <3>3 DEF LineGoes, HeadStates
    <3> QED BY <1>5, <2>1, <2>5, <3>2, <3>4
  <2>6. CASE GoError("INVALID_HEADER_TOKEN")
    BY <1>1, <2>6 DEF Errors
  <2> QED BY <1>16, <2>3, <2>4, <2>5, <2>6 DEF HeaderFieldStart
<1>17. CASE HeaderField
  <2>1. /\ Looking /\ state = "s_header_field" /\ response' = response
        /\ ch.k \in Tokens /\ Go("s_header_field") /\ header_state' = "h_general"
        /\ UNCHANGED <<flags, content_length, status_code>>
    BY <1>17 DEF HeaderField, At
  <2>2. HeadTold'
    BY <1>0, <2>1 DEF HeadTold, Go
  <2>3. ch.k \notin {"LF", "CR"}
    BY <1>15, <2>1
  <2>4. LineGoes("s_header_field") /\ pos + 1 # h
    BY <1>7, <2>1, <2>3 DEF LineGoes, HeadStates
  <2> QED BY <1>5, <2>1, <2>2, <2>4
<1>18. CASE HeaderValueStart
  <2>1. /\ Looking /\ state = "s_header_value_start" /\ response' = response
        /\ status_code' = status_code /\ pos + 1 # h
        /\ ~(pos > 0 /\ response.text[pos].k = "LF")
    BY <1>7, <1>8, <1>18 DEF HeaderValueStart, At
  <2>2. /\ header_state # "h_content_length" /\ header_state # "h_upgrade"
        /\ Meaning(ch.k) \in {"h_general", "h_connection_keep_alive", "h_connection_close"}
    BY <1>0 DEF HeadTold, Meaning
  <2>3. \/ \E s : Go(s) /\ LineGoes(s)
        \/ GoError("INVALID_CONTENT_LENGTH")
    BY <1>18, <2>1 DEF HeaderValueStart, LineGoes, HeadStates
  <2>4. CASE GoError("INVALID_CONTENT_LENGTH")
    BY <1>1, <2>4 DEF Errors
  <2>5. ASSUME NEW s, Go(s), LineGoes(s) PROVE Goal
    <3>1. /\ flags' = flags /\ content_length' = content_length
          /\ header_state' \in {header_state, "h_general", Meaning(ch.k)}
      BY <1>18, <2>2, <2>5 DEF HeaderValueStart
    <3>2. HeadTold'
      BY <1>0, <2>1, <2>2, <3>1 DEF HeadTold
    <3> QED BY <1>5, <2>1, <2>5, <3>2
  <2> QED BY <2>3, <2>4, <2>5
<1>19. CASE HeaderValue
  <2>1. /\ Looking /\ state = "s_header_value" /\ response' = response
        /\ UNCHANGED <<flags, status_code>> /\ pos + 1 # h
        /\ ~(pos > 0 /\ response.text[pos].k = "LF")
    BY <1>7, <1>8, <1>19 DEF HeaderValue, At
  <2>2. header_state # "h_content_length"
    BY <1>0 DEF HeadTold
  <2>3. content_length' = content_length /\ header_state' \in {header_state, "h_general"}
    BY <1>19, <2>2 DEF HeaderValue
  <2>4. HeadTold'
    BY <1>0, <2>1, <2>3 DEF HeadTold
  <2>5. \/ \E s : Go(s) /\ LineGoes(s)
        \/ GoAgain("s_header_almost_done")
    BY <1>19, <2>1, <2>2 DEF HeaderValue, LineGoes, HeadStates
  <2> QED BY <1>5, <1>6, <2>1, <2>4, <2>5
<1>20. CASE HeaderAlmostDone
  <2>1. /\ Looking /\ state = "s_header_almost_done" /\ response' = response
        /\ UNCHANGED <<header_state, content_length, status_code>> /\ pos + 1 # h
    BY <1>7, <1>20 DEF HeaderAlmostDone, At
  <2>2. Flag \cap {"CHUNKED", "TRAILING", "UPGRADE"} = {}
    BY <1>0 DEF HeadTold, Flag
  <2>3. CASE ch.k = "LF"
    <3>1. Go("s_header_value_lws") /\ flags' = flags \cup Flag
      BY <1>20, <2>3 DEF HeaderAlmostDone
    <3>2. HeadTold'
      BY <1>0, <2>1, <2>2, <3>1 DEF HeadTold
    <3>3. LineGoes("s_header_value_lws")
      BY <2>3 DEF LineGoes, HeadStates
    <3> QED BY <1>5, <2>1, <3>1, <3>2, <3>3
  <2>4. CASE ch.k # "LF"
    BY <1>1, <1>20, <2>4 DEF HeaderAlmostDone, Errors
  <2> QED BY <2>3, <2>4
<1>21. CASE HeaderValueLws
  <2>1. /\ Looking /\ state = "s_header_value_lws" /\ response' = response
        /\ UNCHANGED headerVars
    BY <1>21 DEF HeaderValueLws, At
  <2>2. CASE ch.k = "SP"
    <3>1. Go("s_header_value_start")
      BY <1>21, <2>2 DEF HeaderValueLws
    <3>2. HeadTold'
      BY <1>9, <2>1, <3>1 DEF Go
    <3>3. LineGoes("s_header_value_start") /\ pos + 1 # h
      BY <1>7, <2>1, <2>2 DEF LineGoes, HeadStates
    <3> QED BY <1>5, <2>1, <3>1, <3>2, <3>3
  <2>3. CASE ch.k # "SP"
    <3>1. GoAgain("s_header_field_start")
      BY <1>21, <2>3 DEF HeaderValueLws
    <3>2. HeadTold'
      BY <1>9, <2>1, <3>1 DEF GoAgain
    <3> QED BY <1>6, <2>1, <3>1, <3>2
  <2> QED BY <2>2, <2>3
<1>22. CASE HeadersDone
  <2>1. /\ Looking /\ state = "s_headers_almost_done" /\ ch.k = "LF" /\ Go(Body)
        /\ response' = response
    BY <1>22 DEF HeadersDone, At
  <2>2. Body = "s_body_identity_eof"
    BY <1>0, <2>1, SizeAssumption DEF HeadTold, Body, NeedsEof, ULLONG_MAX
  <2>3. /\ state' = "s_body_identity_eof" /\ pos' = pos + 1 /\ again' = FALSE /\ pos + 1 = h
        /\ body' = << >> /\ body_mark' = 0 /\ body' = body
    BY <1>0, <1>7, <2>1, <2>2 DEF Go, outVars
  <2>4. body' = Positions(h + 1, pos')
    BY <2>3, NoPositions
  <2>5. InBody(h)'
    BY <2>3, <2>4 DEF InBody, Positions
  <2> QED BY <2>3, <2>5
<1>23. CASE TrailersDone \/ Upgraded
  BY <1>0, <1>23 DEF TrailersDone, Upgraded, HeadTold
<1>24. CASE HeadersNotDone
  BY <1>1, <1>24 DEF HeadersNotDone, Errors
<1>25. CASE Bodies
  BY <1>0, <1>25 DEF Bodies, BodyIdentityPart, BodyIdentityEnd, BodyIdentityEof, ChunkSizeStart,
     ChunkSize, ChunkSizeAlmostDone, ChunkData, ChunkDataAlmostDone, ChunkDataDone, At, HeadStates
<1>26. CASE Received
  <2>1. UNCHANGED <<state, headerVars, http_errno, response, pos, last, pc, again, body_mark, body>>
    BY <1>26 DEF Received, vars, headerVars
  <2>2. HeadTold' /\ LineInv'
    BY <1>0, <2>1 DEF HeadTold, LineInv, headerVars
  <2> QED BY <1>0, <2>1, <2>2 DEF InHead, Looking
<1> QED
  BY <1>2, <1>3, <1>4, <1>10, <1>11, <1>12, <1>13, <1>14, <1>16, <1>17, <1>18, <1>19, <1>20,
     <1>21, <1>22, <1>23, <1>24, <1>25, <1>26 DEF Next, StatusLine, Headers

(* A step in the body: it is handed on without a gap.                      *)
LEMMA BodyStep ==
  ASSUME CursorInv, ParserInv, NEW h \in Nat, EndlessFrom(response, h), InBody(h),
         http_errno = "OK", Next
  PROVE  /\ \E m \in h .. Len(response.text) : body' = Positions(h + 1, m)
         /\ http_errno' = "OK" => InBody(h)'
<1>0. /\ pos \in Nat /\ last \in Nat /\ pos <= last /\ last <= Len(response.text)
      /\ body_mark \in 0 .. pos /\ state = "s_body_identity_eof" /\ pos >= h /\ ~again
      /\ body_mark # 0 => body_mark > h
      /\ body = Positions(h + 1, IF body_mark = 0 THEN pos ELSE body_mark - 1)
      /\ Len(response.text) \in Nat
  BY ResponseAssumption DEF InBody, CursorInv, CursorType
<1>1. (IF body_mark = 0 THEN pos ELSE body_mark - 1) \in h .. Len(response.text)
  BY <1>0
<1>2. ASSUME NEW n \in 1 .. RecvSize, Execute(n) \/ ExecuteIgnored(n) PROVE
        UNCHANGED <<state, pos, again, body_mark, body>>
  BY <1>2 DEF Execute, ExecuteIgnored, outVars
<1>3. CASE UNCHANGED <<state, pos, again, body_mark, body>>
  BY <1>0, <1>1, <1>3 DEF InBody, Positions
<1>4. CASE EndOfData
  <2>1. pos = last /\ pos' = pos /\ body_mark' = 0 /\ again' = FALSE /\ state' = state
    BY <1>4 DEF EndOfData, Return
  <2>2. body' = Positions(h + 1, pos)
    <3>1. CASE body_mark = 0
      BY <1>0, <1>4, <3>1 DEF EndOfData
    <3>2. CASE body_mark # 0
      <4>1. body' = Positions(h + 1, body_mark - 1) \o Positions(body_mark, pos)
        BY <1>0, <1>4, <2>1, <3>2 DEF EndOfData, HandOn
      <4>2. h + 1 \in Nat \ {0} /\ body_mark \in Nat /\ h + 1 <= body_mark /\ body_mark <= pos
        BY <1>0, <3>2
      <4> QED BY <1>0, <4>1, <4>2, JoinedPositions
    <3> QED BY <3>1, <3>2
  <2>3. pos \in h .. Len(response.text)
    BY <1>0
  <2>4. InBody(h)'
    BY <1>0, <2>1, <2>2 DEF InBody, Positions
  <2> QED BY <2>2, <2>3, <2>4
<1>5. CASE BodyIdentityEof
  <2>1. /\ pos < last /\ pos' = last /\ body_mark' = Mark /\ again' = FALSE /\ state' = state
        /\ body' = body
    BY <1>5 DEF BodyIdentityEof, At, Looking
  <2>2. Mark # 0 /\ Mark > h /\ Mark - 1 = IF body_mark = 0 THEN pos ELSE body_mark - 1
    BY <1>0 DEF Mark
  <2>3. InBody(h)'
    BY <1>0, <2>1, <2>2 DEF InBody, Positions
  <2> QED BY <1>0, <1>1, <2>1, <2>3
<1>6. ASSUME NEW s, At(s), s # "s_body_identity_eof" PROVE FALSE
  BY <1>0, <1>6 DEF At
<1>7. ~HeaderOverflow
  BY <1>0 DEF HeaderOverflow, Counts, HeaderStates
<1>8. ~Step /\ ~Skip /\ ~Unexpected
  BY <1>6 DEF Step, Transitions, Skip, Unexpected, Otherwise
<1>9. ~StatusLine /\ ~Headers
  BY <1>6 DEF StatusLine, StartRes, StatusCode, Headers, HeaderFieldStart, HeaderField,
     HeaderValueStart, HeaderValue, HeaderAlmostDone, HeaderValueLws, HeadersDone,
     TrailersDone, Upgraded, HeadersNotDone
<1>10. Bodies => BodyIdentityEof
  BY <1>6 DEF Bodies, BodyIdentityPart, BodyIdentityEnd, ChunkSizeStart, ChunkSize,
     ChunkSizeAlmostDone, ChunkData, ChunkDataAlmostDone, ChunkDataDone
<1>11. Received => UNCHANGED <<state, pos, again, body_mark, body>>
  BY DEF Received, vars
<1> QED BY <1>2, <1>3, <1>4, <1>5, <1>7, <1>8, <1>9, <1>10, <1>11 DEF Next

LEMMA EndlessStep ==
  ASSUME CursorInv, ParserInv, EndlessInv, [Next]_vars
  PROVE  EndlessInv'
<1>1. response' = response
  <2>1. CursorStep
    BY StepMovesCursor
  <2> QED BY <2>1 DEF CursorStep, Execute, ExecuteIgnored, EndOfData, Return, Passes, Ends,
             Takes, Gives, Refuses, Rests
<1> SUFFICES ASSUME NEW h \in 1 .. Len(response.text), EndlessFrom(response, h)
             PROVE  /\ \E m \in h .. Len(response.text) : body' = Positions(h + 1, m)
                    /\ http_errno' = "OK" => InHead(h)' \/ InBody(h)'
  BY SMTT(20), <1>1 DEF EndlessInv, EndlessFrom, BlankLine, Positions
<1>2. PICK m \in h .. Len(response.text) : body = Positions(h + 1, m)
  BY DEF EndlessInv
<1>3. http_errno = "OK" => InHead(h) \/ InBody(h)
  BY DEF EndlessInv
<1>4. h \in Nat
  BY ResponseAssumption DEF CursorInv, CursorType
<1>5. CASE UNCHANGED vars
  <2>1. UNCHANGED <<state, header_state, flags, content_length, http_errno, status_code,
                    response, pos, last, pc, again, body_mark, body>>
    BY <1>5 DEF vars
  <2>2. InHead(h) => InHead(h)'
    BY <2>1 DEF InHead, HeadTold, LineInv, Looking
  <2>3. InBody(h) => InBody(h)'
    BY <2>1 DEF InBody, Positions
  <2> QED BY <1>2, <1>3, <2>1, <2>2, <2>3
<1>6. CASE Next /\ http_errno = "OK" /\ InHead(h)
  BY <1>2, <1>4, <1>6, HeadStep
<1>7. CASE Next /\ http_errno = "OK" /\ InBody(h)
  BY <1>4, <1>7, BodyStep
<1>8. CASE Next /\ http_errno # "OK"
  <2>1. pc # "run"
    BY <1>8 DEF CursorInv, CallInv
  <2>2. UNCHANGED <<body, http_errno>>
    <3>1. CursorStep
      BY StepMovesCursor
    <3> QED BY <1>8, <2>1, <3>1 DEF CursorStep, Execute, ExecuteIgnored, EndOfData, Passes,
               Ends, Takes, Gives, Looking, Rests, outVars
  <2> QED BY <1>2, <1>8, <2>2
<1> QED BY <1>3, <1>5, <1>6, <1>7, <1>8

LEMMA EndlessHolds == Spec => []EndlessInv
<1>1. Init => EndlessInv
  <2> SUFFICES ASSUME Init, NEW h \in 1 .. Len(response.text), EndlessFrom(response, h)
               PROVE  /\ \E m \in h .. Len(response.text) : body = Positions(h + 1, m)
                      /\ InHead(h)
    BY DEF EndlessInv
  <2>1. h \in Nat /\ h > 0 /\ h \in h .. Len(response.text)
    BY ResponseAssumption DEF Init
  <2>2. body = Positions(h + 1, h)
    BY <2>1, NoPositions DEF Init
  <2>3. HeadTold
    BY DEF Init, HeadTold
  <2>4. LineInv
    BY DEF Init, LineInv
  <2>5. InHead(h)
    BY <2>1, <2>3, <2>4 DEF Init, InHead, HeadStates
  <2> QED BY <2>1, <2>2, <2>5
<1>2. CursorInv /\ ParserInv /\ EndlessInv /\ [Next]_vars => EndlessInv'
  BY EndlessStep
<1> QED BY <1>1, <1>2, InvHolds, PTL DEF Spec

(* What on_body was given of an endless response, next to its body.        *)
LEMMA EndlessBody ==
  ASSUME CursorInv, EndlessInv, EndlessResponse(response)
  PROVE  \E h \in Nat, m \in Nat :
           /\ EndlessFrom(response, h) /\ h <= m /\ m <= Len(response.text)
           /\ body \in Seq(Nat) /\ Len(body) = m - h
           /\ \A i \in 1 .. (m - h) : body[i] = h + i
           /\ response.payload \in Seq(Nat) /\ Len(response.payload) = Len(response.text) - h
           /\ \A i \in 1 .. (Len(response.text) - h) : response.payload[i] = h + i
           /\ body = Positions(h + 1, m)
<1>1. PICK h \in 1 .. Len(response.text) : EndlessFrom(response, h)
  BY DEF EndlessResponse
<1>2. PICK m \in h .. Len(response.text) : body = Positions(h + 1, m)
  BY <1>1 DEF EndlessInv
<1>3. Len(response.text) \in Nat /\ h \in Nat /\ m \in Nat /\ h + 1 \in Nat \ {0}
  BY ResponseAssumption DEF CursorInv, CursorType
<1>4. response.payload = Positions(h + 1, Len(response.text))
  BY <1>1 DEF EndlessFrom
<1>5. \A c \in Nat : h <= c => /\ h + 1 <= c + 1 /\ c - (h + 1) + 1 = c - h
  BY <1>3
<1>6. ASSUME NEW c \in Nat, h <= c
      PROVE  /\ Positions(h + 1, c) \in Seq(Nat) /\ Len(Positions(h + 1, c)) = c - h
             /\ \A i \in 1 .. (c - h) : Positions(h + 1, c)[i] = h + i
  <2>1. /\ Positions(h + 1, c) \in Seq(Nat) /\ Len(Positions(h + 1, c)) = c - h
        /\ \A i \in 1 .. (c - h) : Positions(h + 1, c)[i] = (h + 1) + i - 1
    BY <1>3, <1>5, <1>6, Run
  <2>2. \A i \in 1 .. (c - h) : (h + 1) + i - 1 = h + i
    BY <1>3, <1>6
  <2> QED BY <2>1, <2>2
<1>7. h <= m /\ m <= Len(response.text) /\ h <= Len(response.text)
  BY <1>3
<1> QED BY <1>1, <1>2, <1>3, <1>4, <1>6, <1>7

(* Of the endless response that the DVR sends, on_body gets the body from  *)
(* its first byte on and no byte of the head, whatever headers it has and  *)
(* however it is cut into calls.                                           *)
THEOREM EndlessBodyIsPayload ==
  Spec => [](EndlessResponse(response) => BodyIsPayload)
<1>1. CursorInv /\ EndlessInv => (EndlessResponse(response) => BodyIsPayload)
  <2> SUFFICES ASSUME CursorInv, EndlessInv, EndlessResponse(response) PROVE BodyIsPayload
    OBVIOUS
  <2>1. PICK h \in Nat, m \in Nat :
          /\ h <= m /\ m <= Len(response.text)
          /\ body \in Seq(Nat) /\ Len(body) = m - h
          /\ \A i \in 1 .. (m - h) : body[i] = h + i
          /\ response.payload \in Seq(Nat) /\ Len(response.payload) = Len(response.text) - h
          /\ \A i \in 1 .. (Len(response.text) - h) : response.payload[i] = h + i
    BY EndlessBody
  <2>2. Len(response.text) \in Nat /\ m - h \in Nat /\ m - h <= Len(response.text) - h
    BY <2>1, ResponseAssumption DEF CursorInv, CursorType
  <2>3. \A i \in 1 .. (m - h) : body[i] = response.payload[i]
    <3> SUFFICES ASSUME NEW i \in 1 .. (m - h) PROVE body[i] = response.payload[i]
      OBVIOUS
    <3>1. i \in 1 .. (Len(response.text) - h)
      BY <2>1, <2>2
    <3>2. body[i] = h + i
      BY <2>1
    <3>3. response.payload[i] = h + i
      BY <2>1, <3>1
    <3> QED BY <3>2, <3>3
  <2>4. SubSeq(body, 1, m - h) = SubSeq(response.payload, 1, m - h)
    <3>1. /\ SubSeq(body, 1, m - h) = [i \in 1 .. (m - h) |-> body[i]]
          /\ SubSeq(response.payload, 1, m - h) = [i \in 1 .. (m - h) |-> response.payload[i]]
      BY <2>1, <2>2
    <3> QED BY <2>3, <3>1
  <2> QED BY <2>1, <2>2, <2>4 DEF BodyIsPayload, IsPrefix
<1> QED BY <1>1, EndlessHolds, InvHolds, PTL

(* Of such a response nothing that has come is held back between calls.    *)
THEOREM EndlessNothingIsHeldBack ==
  Spec => [](EndlessResponse(response) => NothingIsHeldBack)
<1>1. CursorInv /\ EndlessInv => (EndlessResponse(response) => NothingIsHeldBack)
  <2> SUFFICES ASSUME CursorInv, EndlessInv, EndlessResponse(response),
                      pc = "idle", http_errno = "OK",
                      NEW i \in DOMAIN response.payload, response.payload[i] <= pos
               PROVE  i <= Len(body)
    BY DEF NothingIsHeldBack
  <2>1. PICK h \in Nat, m \in Nat :
          /\ EndlessFrom(response, h) /\ h <= m /\ m <= Len(response.text)
          /\ Len(body) = m - h /\ body = Positions(h + 1, m)
          /\ response.payload \in Seq(Nat) /\ Len(response.payload) = Len(response.text) - h
          /\ \A j \in 1 .. (Len(response.text) - h) : response.payload[j] = h + j
    BY EndlessBody
  <2>2. i \in 1 .. (Len(response.text) - h) /\ h + i <= pos
    <3>1. DOMAIN response.payload = 1 .. (Len(response.text) - h)
      <4>1. DOMAIN response.payload = 1 .. Len(response.payload)
        BY <2>1
      <4> QED BY <2>1, <4>1
    <3>2. i \in 1 .. (Len(response.text) - h)
      BY <3>1
    <3>3. response.payload[i] = h + i
      BY <2>1, <3>2
    <3> QED BY <3>2, <3>3
  <2>3. pos \in Nat /\ body_mark = 0 /\ i \in Nat
    BY <2>2, ResponseAssumption DEF CursorInv, CursorType, CallInv
  <2>4. h \in 1 .. Len(response.text)
    BY <2>1 DEF EndlessFrom
  <2>5. ~InHead(h)
    BY <2>1, <2>2, <2>3 DEF InHead
  <2>6. InBody(h)
    BY <2>1, <2>4, <2>5 DEF EndlessInv
  <2>7. body = Positions(h + 1, pos) /\ pos >= h
    BY <2>3, <2>6 DEF InBody
  <2>8. Len(Positions(h + 1, pos)) = pos - (h + 1) + 1
    <3>1. h + 1 \in Nat \ {0} /\ h + 1 <= pos + 1
      BY <2>1, <2>3, <2>7
    <3> QED BY <2>3, <3>1, Run
  <2> QED BY <2>1, <2>2, <2>3, <2>7, <2>8
<1> QED BY <1>1, EndlessHolds, InvHolds, PTL
=============================================================================
