---------------------------- MODULE MCHttpParser ----------------------------
(* HttpParser on small responses.  A response is put together from parts;  *)
(* the symbols of kind "byte" are its body, so that the body is known      *)
(* without the parser.                                                     *)
EXTENDS HttpParser

Plain(kind) == Symbol(kind, 0)
Words(kinds) == [i \in DOMAIN kinds |-> Plain(kinds[i])]
Digits(values) == [i \in DOMAIN values |-> Symbol("digit", values[i])]

CRLF == Words(<<"CR", "LF">>)
Bytes(n) == [i \in 1 .. n |-> Plain("byte")]

First(v, code) == <<Symbol("HTTP", v), Plain("SP"), Symbol("code", code)>> \o CRLF
Header(name, value) == Words(<<name, "colon">>) \o value \o CRLF

KeepAlive == Header("Connection", Words(<<"SP", "keep-alive">>))
KeepAliveNot == Header("Connection", Words(<<"SP", "keep-alive", "SP", "word">>))
CloseIt == Header("Connection", Words(<<"close">>))
Chunked == Header("TransferEncoding", Words(<<"chunked">>))
LengthIs(values) == Header("ContentLength", Digits(values))

(* A line that is folded, one that ends with LF only, a name that goes on. *)
Odd == Words(<<"word", "colon", "word", "LF", "SP", "word", "CR", "LF", "Connection", "word", "LF">>)

Chunk(n) == Digits(<<n>>) \o CRLF \o Bytes(n) \o CRLF
LastChunk == Digits(<<0>>) \o CRLF

Second == First(11, 200) \o LengthIs(<<1>>) \o CRLF \o Bytes(1)

Texts ==
  {First(v, code) \o h \o CRLF \o Bytes(3) :
     v \in {10, 11}, code \in {200, 204}, h \in {<< >>, KeepAlive, CloseIt, Odd}}
  \cup {First(v, 200) \o h \o LengthIs(<<3>>) \o CRLF \o Bytes(3) \o Second :
     v \in {10, 11}, h \in {<< >>, KeepAlive, CloseIt, KeepAliveNot}}
  \cup {First(11, 200) \o Chunked \o CRLF \o Chunk(2) \o Chunk(3) \o LastChunk \o t \o CRLF \o Second :
     t \in {<< >>, Header("word", Words(<<"word">>))}}
  \cup {
    (* sizes of two digits, parameters, a size that is none                *)
    First(11, 200) \o Chunked \o CRLF \o Digits(<<0, 1>>) \o Words(<<"semicolon", "word">>)
      \o CRLF \o Bytes(1) \o CRLF \o Words(<<"word">>),
    First(11, 200) \o Chunked \o CRLF \o Digits(<<15, 15>>) \o CRLF \o Bytes(2),
    First(11, 200) \o Chunked \o CRLF \o Digits(<<2, 1>>) \o CRLF \o Bytes(2),
    First(11, 200) \o Chunked \o CRLF \o Chunk(1) \o Digits(<<1>>) \o CRLF \o Bytes(2) \o CRLF,
    First(11, 200) \o Chunked \o CRLF \o Digits(<<1>>) \o Words(<<"CR", "word">>),
    First(11, 200) \o Chunked \o CRLF \o Digits(<<1>>) \o CRLF \o Bytes(1) \o Words(<<"CR", "word">>),
    First(11, 200) \o Chunked \o CRLF \o Digits(<<1>>) \o Words(<<"word">>),
    (* lengths: none, a word, 11, one that wraps around unnoticed (35 is   *)
    (* 3 modulo 32), one that is noticed                                   *)
    First(11, 200) \o LengthIs(<<0>>) \o CRLF \o CRLF \o Second,
    First(11, 200) \o Header("ContentLength", Words(<<"word">>)),
    First(11, 200) \o Header("ContentLength", Digits(<<1>>) \o Words(<<"SP">>) \o Digits(<<1>>))
      \o CRLF \o Bytes(11),
    First(11, 200) \o Header("ContentLength", Digits(<<1, 10>>)),
    First(11, 200) \o LengthIs(<<3, 5>>) \o CRLF \o Bytes(5),
    First(11, 200) \o LengthIs(<<3, 1>>) \o CRLF \o Bytes(5),
    (* another protocol, a header that is too long, and what is no response *)
    First(11, 200) \o Header("Upgrade", Words(<<"word">>)) \o CRLF \o Words(<<"word", "word">>),
    First(11, 200) \o Words([i \in 1 .. 20 |-> "word"]),
    First(11, 1000), Words(<<"word">>),
    <<Symbol("HTTP", 11), Plain("word")>>,
    <<Symbol("HTTP", 11), Plain("SP"), Plain("SP"), Plain("word")>>,
    <<Symbol("HTTP", 11), Plain("SP"), Symbol("code", 200), Plain("SP"), Plain("word"),
      Plain("CR"), Plain("word")>>,
    <<Symbol("HTTP", 11), Plain("SP"), Symbol("code", 200), Plain("word")>>,
    <<Symbol("HTTP", 11), Plain("SP"), Symbol("code", 200), Plain("LF"), Plain("LF"), Plain("byte")>>,
    First(11, 200) \o Words(<<"colon">>), First(11, 200) \o Words(<<"word", "SP">>),
    First(11, 200) \o Words(<<"word", "colon", "CR", "word">>),
    First(11, 200) \o Words(<<"word", "colon", "LF", "CR", "word">>) }

SomeResponses ==
  {[text |-> t,
    payload |-> SelectSeq([i \in DOMAIN t |-> i], LAMBDA i : t[i].k = "byte")] : t \in Texts}
=============================================================================
