----------------------------- MODULE HttpParser -----------------------------
(***************************************************************************)
(* http_parser_execute (http_parser.c) as the adapter uses it: on the      *)
(* response of the DVR, in strict mode, with on_body as the only callback. *)
(* The data of the socket comes in calls that may be cut anywhere.         *)
(*                                                                         *)
(* The response is a sequence of symbols.  A symbol is a character, or a   *)
(* word of the status line or of a header whose characters the parser      *)
(* takes one by one without any effect before the last: where it is in     *)
(* such a word is kept in the parser (state, header_state, index), so a    *)
(* cut inside of it is like one before it.  "HTTP" (with the version) and  *)
(* "code" (the status code) are such words, and of a status line only.     *)
(***************************************************************************)
EXTENDS Integers, Sequences, SequencesExt

CONSTANTS
  Responses,  \* what the DVR may send: text, and the positions of its body
  RecvSize,   \* most symbols one call gets
  MaxHeader,  \* HTTP_MAX_HEADER_SIZE
  WordSize    \* 2^64, the range of content_length

ASSUME SizeAssumption ==
  /\ RecvSize \in Nat \ {0} /\ MaxHeader \in Nat \ {0}
  /\ WordSize \in Nat /\ WordSize > 16

ULLONG_MAX == WordSize - 1

(* Kinds of symbols that are tokens, with what a token means in a header.  *)
Names ==
  [Connection |-> "h_connection", ContentLength |-> "h_content_length",
   TransferEncoding |-> "h_transfer_encoding", Upgrade |-> "h_upgrade"]
Tokens == DOMAIN Names \cup {"word", "digit", "keep-alive", "close", "chunked"}

(* v is the value of a digit, of a status code, and of the version.        *)
Symbol(kind, value) == [k |-> kind, v |-> value]
Kinds == Tokens \cup {"HTTP", "code", "SP", "CR", "LF", "colon", "semicolon", "byte"}
Symbols == {c \in [k : Kinds, v : Nat] : c.k = "digit" => c.v <= 15}

ASSUME ResponseAssumption ==
  \A r \in Responses : r.text \in Seq(Symbols) /\ r.payload \in Seq(DOMAIN r.text)

(* The states in which nread counts (up to s_headers_done).                *)
HeaderStates ==
  {"s_dead", "s_start_res", "s_res_http_minor", "s_res_first_status_code",
   "s_res_status_code", "s_res_status", "s_res_line_almost_done",
   "s_header_field_start", "s_header_field", "s_header_value_start",
   "s_header_value", "s_header_value_lws", "s_header_almost_done",
   "s_chunk_size_start", "s_chunk_size", "s_chunk_parameters",
   "s_chunk_size_almost_done", "s_headers_almost_done"}
BodyStates ==
  {"s_chunk_data", "s_chunk_data_almost_done", "s_chunk_data_done",
   "s_body_identity", "s_body_identity_eof", "s_message_done"}

HeaderMarks ==
  {"h_general", "h_connection", "h_content_length", "h_transfer_encoding",
   "h_upgrade", "h_transfer_encoding_chunked", "h_connection_keep_alive",
   "h_connection_close"}

Errors ==
  {"OK", "CB_body", "HEADER_OVERFLOW", "CLOSED_CONNECTION", "STRICT",
   "INVALID_CONSTANT", "INVALID_VERSION", "INVALID_STATUS", "INVALID_HEADER_TOKEN",
   "INVALID_CONTENT_LENGTH", "INVALID_CHUNK_SIZE"}

VARIABLES
  state, header_state, flags, content_length, nread, http_errno,
  status_code, version,  \* of the parser; version is 10 * major + minor
  response,   \* what the DVR sends
  pos,        \* symbols of it that were looked at (or passed over)
  last,       \* where the data of the current call ends
  pc,         \* "idle" between calls, "run" within one
  again,      \* reexecute_byte: the symbol is looked at once more
  body_mark,  \* the first symbol of body not handed on, 0 for NULL
  body        \* positions of the symbols handed to on_body

headerVars == <<header_state, flags, content_length, status_code, version>>
outVars == <<body_mark, body>>
vars == <<state, header_state, flags, content_length, nread, http_errno,
          status_code, version, response, pos, last, pc, again, body_mark, body>>

(* http_parser_init with HTTP_RESPONSE.                                    *)
Init ==
  /\ state = "s_start_res" /\ header_state = "h_general" /\ flags = {}
  /\ content_length = 0 /\ nread = 0 /\ http_errno = "OK"
  /\ status_code = 0 /\ version = 0
  /\ response \in Responses
  /\ pos = 0 /\ last = 0 /\ pc = "idle" /\ again = FALSE
  /\ body_mark = 0 /\ body = << >>

-----------------------------------------------------------------------------
(* A call and its end.                                                     *)

More(n) == pc = "idle" /\ n \in 1 .. RecvSize /\ pos + n <= Len(response.text)

(* Mutant: an error of an earlier call does not matter.                    *)
ExecuteAnyway(n) ==
  /\ More(n)
  /\ pc' = "run" /\ last' = pos + n
  /\ UNCHANGED <<state, headerVars, nread, http_errno, response, pos, again, outVars>>

Execute(n) ==
  /\ More(n) /\ http_errno = "OK"
  /\ pc' = "run" /\ last' = pos + n
  /\ UNCHANGED <<state, headerVars, nread, http_errno, response, pos, again, outVars>>

(* "We're in an error state. Don't bother doing anything."                 *)
ExecuteIgnored(n) ==
  /\ More(n) /\ http_errno # "OK"
  /\ pos' = pos + n /\ last' = pos + n
  /\ UNCHANGED <<state, headerVars, nread, http_errno, response, pc, again, outVars>>

(* The caller does not look at how much was parsed: what a call leaves of  *)
(* its data is gone.                                                       *)
Return ==
  /\ pc' = "idle" /\ pos' = last /\ again' = FALSE /\ body_mark' = 0
  /\ UNCHANGED <<response, last>>

Positions(from, to) == [i \in 1 .. (to - from + 1) |-> from + i - 1]

(* on_body is called with the symbols from the mark up to the given one.   *)
HandOn(from, to) == body' = body \o Positions(from, to)

(* on_body returns 1: the error stays, and the call ends.                  *)
Refuses == http_errno' = "CB_body" /\ Return

(* Mutant: what is left when the data ends is not handed on.               *)
EndOfDataForgets ==
  /\ pc = "run" /\ pos = last
  /\ Return
  /\ UNCHANGED <<state, headerVars, nread, http_errno, body>>

(* The marks of a header name and of a value are set in these two states   *)
(* and no others: each is made on the way into its state, given up on the  *)
(* way out, and made again at the beginning of a call.                     *)
header_field_mark == pc = "run" /\ state = "s_header_field"
header_value_mark == pc = "run" /\ state = "s_header_value"

(* The end of the data; a mark that is still set is handed on.             *)
EndOfData ==
  /\ pc = "run" /\ pos = last
  /\ Return
  /\ IF body_mark = 0 THEN UNCHANGED <<http_errno, body>>
     ELSE HandOn(body_mark, last) /\ http_errno' \in {http_errno, "CB_body"}
  /\ UNCHANGED <<state, headerVars, nread>>

-----------------------------------------------------------------------------
(* One symbol.                                                             *)

ch == response.text[pos + 1]

Counts == ~again /\ state \in HeaderStates

Count == IF Counts THEN nread + 1 ELSE nread

Looking == pc = "run" /\ pos < last

(* The guards every state has in common.                                   *)
At(s) ==
  /\ Looking /\ state = s /\ Count <= MaxHeader
  /\ UNCHANGED <<response>>

HeaderOverflow ==
  /\ Looking /\ Counts /\ Count > MaxHeader
  /\ http_errno' = "HEADER_OVERFLOW"
  /\ nread' = Count
  /\ Return
  /\ UNCHANGED <<state, headerVars, body>>

Go(s) ==
  /\ state' = s /\ pos' = pos + 1 /\ again' = FALSE
  /\ UNCHANGED <<http_errno, last, pc, outVars>>

GoAgain(s) ==
  /\ state' = s /\ again' = TRUE
  /\ UNCHANGED <<http_errno, pos, last, pc, outVars>>

(* goto error: what is marked is not handed on.                            *)
GoError(e) ==
  /\ http_errno' = e
  /\ Return
  /\ UNCHANGED <<state, body>>

(* http_message_needs_eof, http_should_keep_alive and NEW_MESSAGE.         *)
NeedsEof ==
  /\ status_code \div 100 # 1 /\ status_code \notin {204, 304}
  /\ "CHUNKED" \notin flags /\ content_length = ULLONG_MAX

ShouldKeepAlive ==
  /\ IF version >= 10 /\ version % 10 > 0 THEN "CONNECTION_CLOSE" \notin flags
                                          ELSE "CONNECTION_KEEP_ALIVE" \in flags
  /\ ~NeedsEof

NEW_MESSAGE == IF ShouldKeepAlive THEN "s_start_res" ELSE "s_dead"

(* The first word of a response, up to the version.                        *)
StartRes ==
  /\ At("s_start_res") /\ nread' = Count
  /\ flags' = {} /\ content_length' = ULLONG_MAX
  /\ \/ ch.k = "HTTP" /\ version' = ch.v /\ Go("s_res_http_minor")
     \/ ch.k \in {"CR", "LF"} /\ Go("s_start_res") /\ UNCHANGED version
     \/ /\ ch.k \notin {"HTTP", "CR", "LF"} /\ GoError("INVALID_CONSTANT")
        /\ UNCHANGED version
  /\ UNCHANGED <<header_state, status_code>>

StatusCode ==
  /\ At("s_res_first_status_code") /\ nread' = Count
  /\ ch.k = "code"
  /\ status_code' = ch.v
  /\ IF ch.v > 999 THEN GoError("INVALID_STATUS") ELSE Go("s_res_status_code")
  /\ UNCHANGED <<header_state, flags, content_length, version>>

(* States that only look for what comes next: state, symbol, next state.   *)
Transitions ==
  { <<"s_res_http_minor", "SP", "s_res_first_status_code">>,
    <<"s_res_first_status_code", "SP", "s_res_first_status_code">>,
    <<"s_res_status_code", "SP", "s_res_status">>,
    <<"s_res_status_code", "CR", "s_res_line_almost_done">>,
    <<"s_res_status_code", "LF", "s_header_field_start">>,
    <<"s_res_status", "CR", "s_res_line_almost_done">>,
    <<"s_res_status", "LF", "s_header_field_start">>,
    <<"s_res_line_almost_done", "LF", "s_header_field_start">>,
    <<"s_header_field", "colon", "s_header_value_start">>,
    <<"s_header_field", "CR", "s_header_almost_done">>,
    <<"s_header_field", "LF", "s_header_field_start">>,
    <<"s_chunk_parameters", "CR", "s_chunk_size_almost_done">>,
    <<"s_dead", "CR", "s_dead">>,
    <<"s_dead", "LF", "s_dead">> }

(* What they make of every other symbol: an error, or nothing.             *)
Otherwise ==
  [s_res_http_minor |-> "INVALID_VERSION",
   s_res_first_status_code |-> "INVALID_STATUS",
   s_res_status_code |-> "INVALID_STATUS",
   s_res_line_almost_done |-> "STRICT",
   s_header_field |-> "INVALID_HEADER_TOKEN",
   s_dead |-> "CLOSED_CONNECTION"]

Expected(s, k) == \E t \in Transitions : t[1] = s /\ t[2] = k

Step ==
  \E t \in Transitions :
    /\ At(t[1]) /\ ch.k = t[2]
    /\ nread' = Count
    /\ Go(t[3])
    /\ UNCHANGED headerVars

Skip ==
  /\ At("s_res_status") \/ At("s_chunk_parameters")
  /\ ~Expected(state, ch.k)
  /\ nread' = Count
  /\ Go(state)
  /\ UNCHANGED headerVars

Unexpected ==
  \E s \in DOMAIN Otherwise :
    /\ At(s) /\ ~Expected(s, ch.k)
    /\ ~(s = "s_res_first_status_code" /\ ch.k = "code")
    /\ ~(s = "s_header_field" /\ ch.k \in Tokens)
    /\ nread' = Count
    /\ GoError(Otherwise[s])
    /\ UNCHANGED headerVars

-----------------------------------------------------------------------------
(* Headers.                                                                *)

HeaderFieldStart ==
  /\ At("s_header_field_start") /\ nread' = Count
  /\ \/ ch.k = "CR" /\ Go("s_headers_almost_done") /\ UNCHANGED header_state
     \/ ch.k = "LF" /\ GoAgain("s_headers_almost_done") /\ UNCHANGED header_state
     \/ /\ ch.k \in Tokens /\ Go("s_header_field")
        /\ header_state' = IF ch.k \in DOMAIN Names THEN Names[ch.k] ELSE "h_general"
     \/ /\ ch.k \notin Tokens \cup {"CR", "LF"} /\ GoError("INVALID_HEADER_TOKEN")
        /\ UNCHANGED header_state
  /\ UNCHANGED <<flags, content_length, status_code, version>>

(* A name that goes on is another name.                                    *)
HeaderField ==
  /\ At("s_header_field") /\ nread' = Count
  /\ ch.k \in Tokens /\ Go("s_header_field")
  /\ header_state' = "h_general"
  /\ UNCHANGED <<flags, content_length, status_code, version>>

(* What the first word of the value makes of header_state.                 *)
Meaning(k) ==
  CASE header_state = "h_content_length" -> "h_content_length"
    [] header_state = "h_transfer_encoding" /\ k = "chunked" -> "h_transfer_encoding_chunked"
    [] header_state = "h_connection" /\ k = "keep-alive" -> "h_connection_keep_alive"
    [] header_state = "h_connection" /\ k = "close" -> "h_connection_close"
    [] OTHER -> "h_general"

IsNum(c) == c.k = "digit" /\ c.v <= 9

HeaderValueStart ==
  /\ At("s_header_value_start") /\ nread' = Count
  /\ \/ ch.k = "SP" /\ Go("s_header_value_start")
        /\ UNCHANGED <<header_state, flags, content_length>>
     \/ ch.k = "CR" /\ Go("s_header_almost_done") /\ header_state' = "h_general"
        /\ UNCHANGED <<flags, content_length>>
     \/ ch.k = "LF" /\ Go("s_header_field_start")
        /\ UNCHANGED <<header_state, flags, content_length>>
     \/ /\ ch.k \notin {"SP", "CR", "LF"}
        /\ header_state = "h_content_length" => IsNum(ch)
        /\ Go("s_header_value")
        /\ header_state' = Meaning(ch.k)
        /\ flags' = IF header_state = "h_upgrade" THEN flags \cup {"UPGRADE"} ELSE flags
        /\ content_length' = IF header_state = "h_content_length" THEN ch.v
                             ELSE content_length
     \/ /\ ch.k \notin {"SP", "CR", "LF"}
        /\ header_state = "h_content_length" /\ ~IsNum(ch)
        /\ GoError("INVALID_CONTENT_LENGTH")
        /\ UNCHANGED <<header_state, flags, content_length>>
  /\ UNCHANGED <<status_code, version>>

(* One more digit of a number, in 64 bits.  A number that wraps around is  *)
(* noticed only when it becomes smaller.                                   *)
Digit(base) == (content_length * base + ch.v) % WordSize
Overflows(t) == t < content_length \/ t = ULLONG_MAX

HeaderValue ==
  /\ At("s_header_value") /\ nread' = Count
  /\ \/ ch.k = "CR" /\ Go("s_header_almost_done") /\ UNCHANGED <<header_state, content_length>>
     \/ ch.k = "LF" /\ GoAgain("s_header_almost_done")
        /\ UNCHANGED <<header_state, content_length>>
     \/ /\ ch.k \notin {"CR", "LF"} /\ header_state # "h_content_length"
        /\ Go("s_header_value")
        /\ header_state' = IF ch.k = "SP" THEN header_state ELSE "h_general"
        /\ UNCHANGED content_length
     \/ /\ header_state = "h_content_length" /\ ch.k = "SP"
        /\ Go("s_header_value") /\ UNCHANGED <<header_state, content_length>>
     \/ /\ header_state = "h_content_length" /\ IsNum(ch) /\ ~Overflows(Digit(10))
        /\ Go("s_header_value") /\ content_length' = Digit(10) /\ UNCHANGED header_state
     \/ /\ header_state = "h_content_length" /\ ch.k \notin {"SP", "CR", "LF"}
        /\ ~IsNum(ch) \/ Overflows(Digit(10))
        /\ GoError("INVALID_CONTENT_LENGTH") /\ UNCHANGED <<header_state, content_length>>
  /\ UNCHANGED <<flags, status_code, version>>

Flag ==
  CASE header_state = "h_connection_keep_alive" -> {"CONNECTION_KEEP_ALIVE"}
    [] header_state = "h_connection_close" -> {"CONNECTION_CLOSE"}
    [] header_state = "h_transfer_encoding_chunked" -> {"CHUNKED"}
    [] OTHER -> {}

HeaderAlmostDone ==
  /\ At("s_header_almost_done") /\ nread' = Count
  /\ IF ch.k = "LF" THEN Go("s_header_value_lws") /\ flags' = flags \cup Flag
                    ELSE GoError("STRICT") /\ UNCHANGED flags
  /\ UNCHANGED <<header_state, content_length, status_code, version>>

(* A line that starts with a space goes on with the value.                 *)
HeaderValueLws ==
  /\ At("s_header_value_lws") /\ nread' = Count
  /\ IF ch.k = "SP" THEN Go("s_header_value_start") ELSE GoAgain("s_header_field_start")
  /\ UNCHANGED headerVars

-----------------------------------------------------------------------------
(* The end of the headers: s_headers_almost_done and, with the same        *)
(* symbol, s_headers_done.                                                 *)

Body ==
  IF "CHUNKED" \in flags THEN "s_chunk_size_start"
  ELSE IF content_length = 0 THEN NEW_MESSAGE
  ELSE IF content_length # ULLONG_MAX THEN "s_body_identity"
  ELSE IF NeedsEof THEN "s_body_identity_eof" ELSE NEW_MESSAGE

(* Mutant: the count of the header goes on in the first chunk size.        *)
HeadersDoneKeepsCount ==
  /\ At("s_headers_almost_done")
  /\ ch.k = "LF" /\ {"TRAILING", "UPGRADE"} \cap flags = {}
  /\ Go(Body) /\ nread' = Count
  /\ UNCHANGED headerVars

HeadersDone ==
  /\ At("s_headers_almost_done")
  /\ ch.k = "LF" /\ {"TRAILING", "UPGRADE"} \cap flags = {}
  /\ Go(Body) /\ nread' = 0
  /\ UNCHANGED headerVars

(* The end of a chunked message; nread is not reset here.                  *)
TrailersDone ==
  /\ At("s_headers_almost_done")
  /\ ch.k = "LF" /\ "TRAILING" \in flags
  /\ Go(NEW_MESSAGE) /\ nread' = Count
  /\ UNCHANGED headerVars

(* "The rest of the connect is in a different protocol": the call ends,    *)
(* and what it had left is gone.                                           *)
Upgraded ==
  /\ At("s_headers_almost_done")
  /\ ch.k = "LF" /\ "UPGRADE" \in flags /\ "TRAILING" \notin flags
  /\ state' = NEW_MESSAGE /\ nread' = 0
  /\ Return
  /\ UNCHANGED <<headerVars, http_errno, body>>

HeadersNotDone ==
  /\ At("s_headers_almost_done") /\ nread' = Count
  /\ ch.k # "LF" /\ GoError("STRICT")
  /\ UNCHANGED headerVars

-----------------------------------------------------------------------------
(* Bodies.                                                                 *)

(* Mutant: MAX for MIN.                                                    *)
Larger(a, b) == IF a > b THEN a ELSE b

Smaller(a, b) == IF a < b THEN a ELSE b
to_read == Smaller(content_length, last - pos)

(* MARK: not if it is set.                                                 *)
Mark == IF body_mark = 0 THEN pos + 1 ELSE body_mark

(* Mutant: what has come is not taken off the length.                      *)
BodyIdentityPartForgets ==
  /\ At("s_body_identity") /\ nread' = Count
  /\ to_read < content_length
  /\ pos' = pos + to_read /\ body_mark' = Mark /\ again' = FALSE
  /\ UNCHANGED <<state, headerVars, http_errno, last, pc, body>>

(* Part of the body; the rest comes with a later call.                     *)
BodyIdentityPart ==
  /\ At("s_body_identity") /\ nread' = Count
  /\ to_read < content_length
  /\ content_length' = content_length - to_read
  /\ pos' = pos + to_read /\ body_mark' = Mark /\ again' = FALSE
  /\ UNCHANGED <<state, header_state, flags, status_code, version, http_errno, last, pc, body>>

(* The end of the body: handed on at once, and s_message_done with the     *)
(* same symbol.                                                            *)
BodyIdentityEnd ==
  /\ At("s_body_identity") /\ nread' = Count
  /\ to_read = content_length
  /\ content_length' = 0
  /\ HandOn(Mark, pos + to_read)
  /\ \/ Refuses /\ state' = "s_message_done"
     \/ /\ state' = NEW_MESSAGE
        /\ pos' = pos + to_read /\ body_mark' = 0 /\ again' = FALSE
        /\ UNCHANGED <<http_errno, last, pc>>
  /\ UNCHANGED <<header_state, flags, status_code, version>>

(* A body that lasts until the DVR closes.                                 *)
BodyIdentityEof ==
  /\ At("s_body_identity_eof") /\ nread' = Count
  /\ pos' = last /\ body_mark' = Mark /\ again' = FALSE
  /\ UNCHANGED <<state, headerVars, http_errno, last, pc, body>>

-----------------------------------------------------------------------------
(* Chunks.                                                                 *)

IsHex(c) == c.k = "digit"

ChunkSizeStart ==
  /\ At("s_chunk_size_start") /\ nread' = Count
  /\ IF IsHex(ch) THEN Go("s_chunk_size") /\ content_length' = ch.v
                  ELSE GoError("INVALID_CHUNK_SIZE") /\ UNCHANGED content_length
  /\ UNCHANGED <<header_state, flags, status_code, version>>

ChunkSize ==
  /\ At("s_chunk_size") /\ nread' = Count
  /\ \/ ch.k = "CR" /\ Go("s_chunk_size_almost_done") /\ UNCHANGED content_length
     \/ ch.k \in {"SP", "semicolon"} /\ Go("s_chunk_parameters") /\ UNCHANGED content_length
     \/ /\ IsHex(ch) /\ ~Overflows(Digit(16))
        /\ Go("s_chunk_size") /\ content_length' = Digit(16)
     \/ /\ IsHex(ch) /\ Overflows(Digit(16))
        /\ GoError("INVALID_CONTENT_LENGTH") /\ UNCHANGED content_length
     \/ /\ ~IsHex(ch) /\ ch.k \notin {"CR", "SP", "semicolon"}
        /\ GoError("INVALID_CHUNK_SIZE") /\ UNCHANGED content_length
  /\ UNCHANGED <<header_state, flags, status_code, version>>

(* A chunk of size 0 is the last, and trailers follow.                     *)
ChunkSizeAlmostDone ==
  /\ At("s_chunk_size_almost_done")
  /\ \/ /\ ch.k = "LF" /\ nread' = 0
        /\ IF content_length = 0
           THEN Go("s_header_field_start") /\ flags' = flags \cup {"TRAILING"}
           ELSE Go("s_chunk_data") /\ UNCHANGED flags
     \/ ch.k # "LF" /\ nread' = Count /\ GoError("STRICT") /\ UNCHANGED flags
  /\ UNCHANGED <<header_state, content_length, status_code, version>>

ChunkData ==
  /\ At("s_chunk_data") /\ nread' = Count
  /\ content_length' = content_length - to_read
  /\ state' = IF to_read = content_length THEN "s_chunk_data_almost_done" ELSE state
  /\ pos' = pos + to_read /\ body_mark' = Mark /\ again' = FALSE
  /\ UNCHANGED <<header_state, flags, status_code, version, http_errno, last, pc, body>>

(* Mutant: the data and the line end after it are handed on.               *)
ChunkDataAlmostDoneLate ==
  /\ At("s_chunk_data_almost_done") /\ nread' = Count
  /\ \/ /\ ch.k = "CR" /\ state' = "s_chunk_data_done"
        /\ pos' = pos + 1 /\ body_mark' = 0 /\ again' = FALSE
        /\ IF body_mark = 0 THEN UNCHANGED body ELSE HandOn(body_mark, pos + 1)
        /\ UNCHANGED <<http_errno, last, pc>>
     \/ ch.k # "CR" /\ GoError("STRICT")
  /\ UNCHANGED headerVars

(* The line end after the data of a chunk; what is marked is handed on.    *)
ChunkDataAlmostDone ==
  /\ At("s_chunk_data_almost_done") /\ nread' = Count
  /\ \/ ch.k = "CR" /\ body_mark = 0 /\ Go("s_chunk_data_done")
     \/ /\ ch.k = "CR" /\ body_mark # 0 /\ state' = "s_chunk_data_done"
        /\ HandOn(body_mark, pos)
        /\ \/ Refuses
           \/ /\ pos' = pos + 1 /\ body_mark' = 0 /\ again' = FALSE
              /\ UNCHANGED <<http_errno, last, pc>>
     \/ ch.k # "CR" /\ GoError("STRICT")
  /\ UNCHANGED headerVars

ChunkDataDone ==
  /\ At("s_chunk_data_done")
  /\ \/ ch.k = "LF" /\ Go("s_chunk_size_start") /\ nread' = 0
     \/ ch.k # "LF" /\ GoError("STRICT") /\ nread' = Count
  /\ UNCHANGED headerVars

-----------------------------------------------------------------------------
StatusLine == StartRes \/ StatusCode

Headers ==
  \/ HeaderFieldStart \/ HeaderField \/ HeaderValueStart \/ HeaderValue
  \/ HeaderAlmostDone \/ HeaderValueLws
  \/ HeadersDone \/ TrailersDone \/ Upgraded \/ HeadersNotDone

Bodies ==
  \/ BodyIdentityPart \/ BodyIdentityEnd \/ BodyIdentityEof
  \/ ChunkSizeStart \/ ChunkSize \/ ChunkSizeAlmostDone
  \/ ChunkData \/ ChunkDataAlmostDone \/ ChunkDataDone

(* Everything the DVR sent has been received.                              *)
Received ==
  /\ pc = "idle" /\ pos = Len(response.text)
  /\ UNCHANGED vars

Next ==
  \/ \E n \in 1 .. RecvSize : Execute(n) \/ ExecuteIgnored(n)
  \/ EndOfData \/ HeaderOverflow \/ Step \/ Skip \/ Unexpected
  \/ StatusLine \/ Headers \/ Bodies
  \/ Received

Spec == Init /\ [][Next]_vars

-----------------------------------------------------------------------------
(* Every variable stays in its type.                                       *)
TypeOK ==
  /\ state \in HeaderStates \cup BodyStates
  /\ header_state \in HeaderMarks
  /\ flags \subseteq {"CHUNKED", "CONNECTION_KEEP_ALIVE", "CONNECTION_CLOSE",
                      "TRAILING", "UPGRADE"}
  /\ content_length \in 0 .. ULLONG_MAX
  /\ nread \in Nat /\ status_code \in Nat /\ version \in Nat
  /\ http_errno \in Errors
  /\ response \in Responses
  /\ pos \in 0 .. last /\ last \in 0 .. Len(response.text)
  /\ pc \in {"idle", "run"} /\ again \in BOOLEAN
  /\ body_mark \in 0 .. pos /\ body \in Seq(1 .. pos)

(* The assertions of http_parser_execute: no callback after an error, on   *)
(* nread at a chunk size, on F_CHUNKED and content_length in the bodies,   *)
(* on the headers that cannot be where they are looked at ("Unknown        *)
(* header_state", "Shouldn't get here"), and at most one mark when the     *)
(* data ends.                                                              *)
AssertionsHold ==
  /\ pc = "run" => http_errno = "OK"
  /\ state = "s_chunk_size_start" /\ Looking => Count = 1
  /\ state \in {"s_chunk_size_start", "s_chunk_size", "s_chunk_parameters",
                "s_chunk_size_almost_done", "s_chunk_data",
                "s_chunk_data_almost_done", "s_chunk_data_done"} => "CHUNKED" \in flags
  /\ state \in {"s_body_identity", "s_chunk_data"} =>
       content_length \notin {0, ULLONG_MAX}
  /\ state = "s_chunk_data_almost_done" => content_length = 0
  /\ state = "s_header_field" =>
       header_state \notin {"h_transfer_encoding_chunked", "h_connection_keep_alive",
                            "h_connection_close"}
  /\ state = "s_header_value" =>
       header_state \notin {"h_connection", "h_transfer_encoding", "h_upgrade"}
  /\ body_mark # 0 =>
       /\ ~header_field_mark /\ ~header_value_mark
       /\ state \in {"s_body_identity", "s_body_identity_eof",
                     "s_chunk_data", "s_chunk_data_almost_done"}

(* However the response is cut into calls, what on_body gets is the body   *)
(* from its beginning: no byte of a header, of a chunk size or of a line   *)
(* end among it, none twice and none left out.                             *)
BodyIsPayload == IsPrefix(body, response.payload)

(* When a call ends without an error nothing of the body that has come is  *)
(* held back: an image is complete for the receiver as soon as it is       *)
(* complete on the socket (nothing would announce the rest, see            *)
(* CameraConnection).                                                      *)
NothingIsHeldBack ==
  pc = "idle" /\ http_errno = "OK" =>
    \A i \in DOMAIN response.payload :
      response.payload[i] <= pos => i <= Len(body)

(* Bytes of the body that on_body has or that are marked for it.           *)
Taken == Len(body) + (IF body_mark = 0 THEN 0 ELSE pos - body_mark + 1)

(* The length that a header or a chunk size announced is counted off byte  *)
(* by byte with what goes to on_body, over any number of calls, unless the *)
(* call fails: no byte is counted and not taken, none taken that is not    *)
(* counted, and none at all where no body is.                              *)
LengthIsBodyLeft ==
  [][pc = "run" /\ http_errno' = "OK" =>
       Taken' - Taken =
         IF state \in {"s_body_identity", "s_chunk_data"} THEN content_length - content_length'
         ELSE IF state = "s_body_identity_eof" THEN pos' - pos ELSE 0]_vars

(* What JpegReceiver takes for granted.                                    *)
Stream == INSTANCE BodyStream WITH
  MaxPiece <- RecvSize,
  handed <- Len(body),
  failed <- http_errno # "OK"

ImplementsBodyStream == Stream!BodySpec
=============================================================================
