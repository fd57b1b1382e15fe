--------------------------- MODULE HttpConnection ---------------------------
(***************************************************************************)
(* HttpConnection::recvResponse on a chunked body                          *)
(* (src/JKYi/http/http_connection.cc): the header of the response has been *)
(* parsed and some of the body came with it; the rest comes in the pieces  *)
(* the network makes of it.  A byte is <<kind, value>>.  The parser is     *)
(* modelled by what it does with the size line of a chunk; its automaton   *)
(* is in HttpResponseParser.                                               *)
(***************************************************************************)
EXTENDS Naturals, Sequences, SequencesExt, FiniteSetsExt

CONSTANTS Bodies,    \* what may be sent: sequences of the lengths of chunks
          Base,      \* of the digits in a size line
          BuffSize   \* buff_size

VARIABLES
  sent,               \* the lengths of the chunks that are sent
  net,                \* what read() has not returned yet
  data, len,          \* the buffer, and how much of it the code takes for unparsed
  begin,
  content_len, left,
  body,
  pc,                 \* the loops: "line", "parse", "chunk", "rest"; "done" or "null" at the end
  fresh,              \* the positions of data that hold unparsed bytes
  split, stale        \* a read cut a size line; bytes were used that were not unparsed
vars == <<sent, net, data, len, begin, content_len, left, body, pc, fresh, split, stale>>
-----------------------------------------------------------------------------
Digits[n \in Nat] == IF n < Base THEN <<<<"hex", n>>>>
                      ELSE Append(Digits[n \div Base], <<"hex", n % Base>>)
CRLF == <<<<"cr", 0>>, <<"lf", 0>>>>
Payload(i, n) == [j \in 1..n |-> <<"x", 10 * i + j>>]
Chunk(i, n) == Digits[n] \o CRLF \o Payload(i, n) \o CRLF
Content(lens) == FlattenSeq([i \in DOMAIN lens |-> Payload(i, lens[i])])
Stream(lens) == FlattenSeq([i \in DOMAIN lens |-> Chunk(i, lens[i])]) \o Chunk(0, 0)

\* bytes is written into buf behind the first `at' positions.
Put(buf, at, bytes) ==
    [i \in DOMAIN buf |-> IF i \in (at + 1)..(at + Len(bytes)) THEN bytes[i - at] ELSE buf[i]]

Init ==
    /\ sent \in Bodies
    /\ \E offset \in 0..Min({BuffSize, Len(Stream(sent))}) :
          /\ net = SubSeq(Stream(sent), offset + 1, Len(Stream(sent)))
          /\ data = Put([i \in 1..BuffSize |-> <<"junk", 0>>], 0, SubSeq(Stream(sent), 1, offset))
          /\ len = offset /\ fresh = 1..offset
    /\ begin = TRUE /\ content_len = 0 /\ left = 0 /\ body = <<>> /\ pc = "line"
    /\ split = FALSE /\ stale = FALSE

\* read(data + at, n) returns up to n bytes of what has come.
Read(at, n) ==
    \E k \in 1..Min({n, Len(net)}) :
       /\ data' = Put(data, at, SubSeq(net, 1, k))
       /\ net' = SubSeq(net, k + 1, Len(net))
       /\ len' = at + k
       /\ fresh' = fresh \cup (at + 1)..(at + k)

\* The first n bytes are used, and memmove brings what follows them up to len to the front.
Use(n) ==
    /\ data' = Put(data, 0, SubSeq(data, n + 1, len))
    /\ fresh' = {i - n : i \in {j \in fresh : j > n}}
    /\ stale' = (stale \/ ~((1..n) \subseteq fresh))
-----------------------------------------------------------------------------
(***************************************************************************)
(* The size line                                                           *)
(***************************************************************************)
NeedsRead == ~begin \/ len = 0
ReadLine ==
    /\ pc = "line" /\ NeedsRead /\ pc' = "parse"
    /\ Read(len, BuffSize - len)
    /\ UNCHANGED <<sent, begin, content_len, left, body, split, stale>>
HaveLine ==
    /\ pc = "line" /\ ~NeedsRead /\ pc' = "parse"
    /\ UNCHANGED <<sent, net, data, len, begin, content_len, left, body, fresh, split, stale>>

Value(s) == FoldLeft(LAMBDA value, digit : Base * value + digit[2], 0, s)
DigitsOf(s) == SubSeq(s, 1, Max({k \in 0..Len(s) : \A i \in 1..k : s[i][1] = "hex"}))
\* The grammar's CRLF is also a bare LF.
LineEnds == {CRLF, Tail(CRLF)}
\* How a parser that begins with s ends.  There are no chunk extensions: no byte is a ";".
Outcome(s) ==
    LET h == Len(DigitsOf(s))
        rest == SubSeq(s, h + 1, Len(s)) IN
    IF h > 0 /\ \E e \in LineEnds : IsPrefix(e, rest) THEN "finished"
    ELSE IF h > 0 /\ \E e \in LineEnds : IsPrefix(rest, e) THEN "more" ELSE "error"
SizeLine(s) == LET h == Len(DigitsOf(s)) IN h + (IF s[h + 1][1] = "lf" THEN 1 ELSE 2)

\* Every call of execute(data, len, true) begins with a new parser.
execute ==
    LET s == SubSeq(data, 1, len)
        n == IF Outcome(s) = "finished" THEN SizeLine(s) ELSE len IN
    /\ pc = "parse" /\ begin' = FALSE
    /\ \/ /\ Outcome(s) = "error" /\ pc' = "null"
          /\ UNCHANGED <<data, len, content_len, fresh, split, stale>>
       \/ /\ Outcome(s) = "more" /\ pc' = "line" /\ split' = TRUE
          /\ Use(n) /\ len' = len - n /\ UNCHANGED content_len
       \/ /\ Outcome(s) = "finished" /\ pc' = "chunk" /\ content_len' = Value(DigitsOf(s))
          /\ Use(n) /\ len' = len - n /\ UNCHANGED split
    /\ UNCHANGED <<sent, net, left, body>>
-----------------------------------------------------------------------------
(***************************************************************************)
(* The chunk and its CRLF                                                  *)
(***************************************************************************)
NextChunk ==
    /\ begin' = TRUE
    /\ pc' = IF content_len = 0 THEN "done" ELSE "line"     \* chunks_done

\* It is there as a whole; len keeps the two bytes of the CRLF.
WholeChunk ==
    /\ pc = "chunk" /\ content_len + 2 <= len
    /\ body' = body \o SubSeq(data, 1, content_len)
    /\ Use(content_len + 2)
    /\ len' = len - content_len
    /\ NextChunk
    /\ UNCHANGED <<sent, net, content_len, left, split>>

PartOfChunk ==
    /\ pc = "chunk" /\ content_len + 2 > len /\ pc' = "rest"
    /\ body' = body \o SubSeq(data, 1, len)
    /\ left' = content_len + 2 - len
    /\ stale' = (stale \/ fresh # 1..len)
    /\ UNCHANGED <<sent, net, data, len, begin, content_len, fresh, split>>

\* Mutant: the rest is read without looking how much it is.
ReadRestFull ==
    /\ pc = "rest" /\ left > 0
    /\ Read(0, BuffSize)
    /\ body' = body \o SubSeq(data', 1, len')
    /\ left' = IF left > len' THEN left - len' ELSE 0
    /\ UNCHANGED <<sent, begin, content_len, pc, split, stale>>
ReadRest ==
    /\ pc = "rest" /\ left > 0
    /\ Read(0, Min({BuffSize, left}))
    /\ body' = body \o SubSeq(data', 1, len')
    /\ left' = left - len'
    /\ UNCHANGED <<sent, begin, content_len, pc, split, stale>>
RestRead ==
    /\ pc = "rest" /\ left = 0
    /\ body' = SubSeq(body, 1, Len(body) - 2) /\ len' = 0 /\ fresh' = {}
    /\ NextChunk
    /\ UNCHANGED <<sent, net, data, content_len, left, split, stale>>

\* read() returns 0 or an error: the connection is closed and there is no response.
ReadFails ==
    /\ (pc = "line" /\ NeedsRead) \/ (pc = "rest" /\ left > 0)
    /\ pc' = "null"
    /\ UNCHANGED <<sent, net, data, len, begin, content_len, left, body, fresh, split, stale>>

Next ==
    \/ ReadLine \/ HaveLine \/ execute \/ WholeChunk \/ PartOfChunk \/ ReadRest \/ RestRead
    \/ ReadFails
Spec == Init /\ [][Next]_vars
-----------------------------------------------------------------------------
\* A response is returned with the body that was sent, wherever the network cut it
\* (http_connection.cc:95), unless a cut went through a size line, which a new parser then does
\* not know the start of (http_parser.cc:227), or len had made the code use old bytes again.
BodyIsContent == pc = "done" => body = Content(sent) \/ split \/ stale

\* len is the number of bytes in data that were read and not parsed (http_connection.cc:35, 65).
LenIsUnparsed == pc = "line" => fresh = 1..len
=============================================================================
