------------------------- MODULE HttpResponseParser -------------------------
(***************************************************************************)
(* HttpResponseParser of src/JKYi/http/http_parser.cc over the generated   *)
(* httpclient_parser_execute (ResponseTable): the head of one response, or *)
(* the header of one chunk, of any length and in reads of any length.      *)
(* Positions are sets of names, as in HttpRequestParser.  With chunk, each *)
(* read begins the parse afresh, so the reader gives up at the second.     *)
(***************************************************************************)
EXTENDS ResponseTable, SequencesExt

VARIABLES cs, mark, field_start, field_len,   \* members of struct httpclient_parser
          chunked, close,                     \* its flags of these names
          m_error,      \* the parser's m_error: 0 or 1001
          content_len,  \* what its content_len was set from: "none", "length" or "size"
          chunk,        \* the argument of execute: the header of a chunk is parsed
          got,          \* the last callback and the ranges it was given
          here,         \* the names of the next byte's position
          msg,          \* the reader: its region, and what it knows of the current header line
          said,         \* the special headers there were: "close", "chunked", "length"; not kept
                        \* after one with an empty value
          off,          \* the reader has given up: a second read with chunk
          tail,         \* the last bytes: "lf", "lfcr", "blank", "other"
          cut           \* the buffer of this call began inside the current element
vars == <<cs, mark, field_start, field_len, chunked, close, m_error, content_len, chunk,
          got, here, msg, said, off, tail, cut>>

FirstFinal == 120
\* httpclient_parser_is_finished and httpclient_parser_has_error
Finished == cs = FirstFinal
Failed == cs = 0 \/ m_error # 0
Running == ~Finished /\ ~Failed
-----------------------------------------------------------------------------
(***************************************************************************)
(* The reader of the head: status line, header lines, empty line; or of    *)
(* a chunk header.  It spells the three special names and their values.    *)
(***************************************************************************)
Names == [close   |-> <<"C", "O", "N", "N", "E", "C", "T", "I", "O", "N">>,
          chunked |-> <<"T", "R", "A", "N", "S", "F", "E", "R", "-", "E", "N", "C", "O", "D", "I", "N", "G">>,
          length  |-> <<"C", "O", "N", "T", "E", "N", "T", "-", "L", "E", "N", "G", "T", "H">>]
Values == [close |-> <<"C", "L", "O", "S", "E">>, chunked |-> <<"C", "H", "U", "N", "K", "E", "D">>]
\* The words of W that continue with c after k letters, and those of that length.
Continue(W, may, k, c) == {x \in may : k < Len(W[x]) /\ c \in Letter(W[x][k + 1])}
Spelt(W, may, k) == {x \in may : Len(W[x]) = k}

Eol == {"lf", "cr"}
\* may: the special names, later the special values, that the bytes so far begin; k their number;
\* hollow: whether the last header, or only an earlier one, is a special one with an empty value
Line0 == [region |-> "line", may |-> {"close", "chunked", "length"}, k |-> 0, hollow |-> "no"]
Msg(m, at, next) == [msg |-> m, at |-> at, next |-> next]
To_(m, region) == [m EXCEPT !.region = region]
NewLine(m) == [Line0 EXCEPT !.hollow = m.hollow]
AtEol(m, c, at) == IF c = "lf" THEN Msg(NewLine(m), at, {"name0"}) ELSE Msg(To_(m, "cr"), at, {})
Spell(m, c) ==
  LET words == m.may \cap DOMAIN Values
      more == Continue(Values, words, m.k, c) \cup (IF c = "0" THEN m.may \cap {"length"} ELSE {}) IN
  [m EXCEPT !.region = "value", !.may = more, !.k = IF more = {} \/ more = {"length"} THEN @ ELSE @ + 1]
Reader(m, c) ==
  LET g == m.region IN
  CASE g = "start" -> Msg(To_(m, IF c = "H" THEN "version" ELSE "size"), {}, {})
    [] g = "size" /\ c \in Eol \cup {";"} -> Msg(To_(m, "extension"), {"size1"}, {"name0"})
    [] g = "extension" /\ c = ";" -> Msg(m, {"name1", "value0", "value1"}, {"name0"})
    [] g = "extension" /\ c = "=" -> Msg(To_(m, "extvalue"), {"name1"}, {"value0"})
    [] g = "extension" /\ c \in Eol -> Msg(m, {"name1", "value0", "value1"}, {})
    [] g = "extvalue" /\ c \in Eol \cup {";"} -> Msg(To_(m, "extension"), {"value1"}, {"name0"})
    [] g = "version" /\ c = "sp" -> Msg(To_(m, "status"), {"version1"}, {"status0"})
    [] g = "status" /\ c = "sp" -> Msg(To_(m, "reason0"), {"status1"}, {"reason0"})
    [] g = "reason0" -> Msg(To_(m, "reason"), {}, {})
    [] g = "reason" /\ c \in Eol -> AtEol(m, c, {"reason1"})
    [] g = "cr" -> Msg(NewLine(m), {}, {"name0"})
    [] g \in {"line", "name"} /\ c = ":" ->
         Msg([region |-> "blank", may |-> Spelt(Names, m.may, m.k), k |-> 0,
              hollow |-> IF m.hollow = "no" THEN "no" ELSE "earlier"], {"name1"}, {})
    [] g \in {"line", "name"} /\ c \in Eol -> AtEol(m, c, {})
    [] g \in {"line", "name"} ->
         LET more == Continue(Names, m.may, m.k, c) IN
         Msg([m EXCEPT !.region = "name", !.may = more, !.k = IF more = {} THEN 0 ELSE @ + 1], {}, {})
    [] g = "blank" /\ c \notin Eol \cup RBlank -> Msg(Spell(m, c), {"value0"}, {})
    [] g = "blank" /\ c \in Eol ->
         AtEol([m EXCEPT !.hollow = IF m.may = {} THEN @ ELSE "last"], c, {"value0", "value1"})
    [] g = "value" /\ c \in Eol -> AtEol(m, c, {"value1"})
    [] g = "value" -> Msg(Spell(m, c), {}, {})
    [] OTHER -> Msg(m, {}, {})
\* The special header that a line says when its value ends.
SaidBy(m) == IF m.region # "value" THEN {}
             ELSE Spelt(Values, m.may \cap DOMAIN Values, m.k) \cup (m.may \cap {"length"})
NextTail(c) == CASE c = "lf" -> IF tail \in {"lf", "lfcr"} THEN "blank" ELSE "lf"
                 [] c = "cr" /\ tail = "lf" -> "lfcr"
                 [] OTHER -> "other"
-----------------------------------------------------------------------------
(***************************************************************************)
(* The embedded actions, with the callbacks of HttpResponseParser.         *)
(***************************************************************************)
Given(w, name, from, p) == [w EXCEPT !.got = [name |-> name, value |-> <<from, p>>, cut |-> cut]]
on_response_http_field(w, p) ==
  IF w.field_len = {"zero"} \/ Same(w.field_start, w.field_len) THEN w
  ELSE [w EXCEPT !.got = [name |-> "header", key |-> <<w.field_start, w.field_len>>, value |-> <<w.mark, p>>, cut |-> cut]]
\* on_response_version: strncmp with the length of the range; known: it is HTTP/1.0 or HTTP/1.1.
on_response_version(w, p, known) ==
  [Given(w, "version", w.mark, p) EXCEPT !.m_error = IF Same(w.mark, p) \/ (known /\ "version0" \in w.mark) THEN @ ELSE 1001]
Embedded(w, p, a, known) ==
  CASE a \in {"mark", "start_value"} -> [w EXCEPT !.mark = p]
    [] a = "start_field" -> [w EXCEPT !.field_start = p]
    [] a = "write_field" -> [w EXCEPT !.field_len = p]
    [] a = "write_value" -> on_response_http_field(w, p)
    [] a = "write_content_len" -> [w EXCEPT !.content_len = "length"]
    [] a = "write_connection_close" -> [w EXCEPT !.close = TRUE]
    [] a = "trans_chunked" -> [w EXCEPT !.chunked = TRUE]
    [] a = "chunk_size" -> [Given(w, "size", w.mark, p) EXCEPT !.chunked = TRUE, !.content_len = "size"]
    [] a = "reason_phrase" -> Given(w, "reason", w.mark, p)
    [] a = "status_code" -> Given(w, "status", w.mark, p)
    [] a = "http_version" -> on_response_version(w, p, known)
    [] a = "done" -> w
None == [name |-> "none"]
-----------------------------------------------------------------------------
Init ==
  /\ cs = 1 /\ here = {"buf", "version0", "size0"} /\ mark = here /\ field_start = here /\ field_len = {"zero"}
  /\ chunked = FALSE /\ close = FALSE /\ m_error = 0 /\ content_len = "none" /\ chunk \in BOOLEAN
  /\ got = None /\ msg = [Line0 EXCEPT !.region = "start"] /\ said = {} /\ off = FALSE
  /\ tail = "other" /\ cut = FALSE

\* Mutant: the mark of the last read is kept.
CallStale ==
  /\ Running
  /\ IF chunk THEN cs' = 1 /\ chunked' = FALSE /\ close' = FALSE /\ content_len' = "none"
              ELSE UNCHANGED <<cs, chunked, close, content_len>>
  /\ here' = here \cup {"buf"} /\ mark' = {"stale"} /\ field_start' = here' /\ field_len' = {"zero"}
  /\ cut' = (here \subseteq {"buf"}) /\ got' = None
  /\ off' = (off \/ (chunk /\ "size0" \notin here))
  /\ UNCHANGED <<m_error, chunk, msg, said, tail>>

\* execute for the next read: with chunk it calls httpclient_parser_init first.
Call ==
  /\ Running
  /\ IF chunk THEN cs' = 1 /\ chunked' = FALSE /\ close' = FALSE /\ content_len' = "none"
              ELSE UNCHANGED <<cs, chunked, close, content_len>>
  /\ here' = here \cup {"buf"} /\ mark' = here' /\ field_start' = here' /\ field_len' = {"zero"}
  /\ cut' = (here \subseteq {"buf"}) /\ got' = None
  /\ off' = (off \/ (chunk /\ "size0" \notin here))
  /\ UNCHANGED <<m_error, chunk, msg, said, tail>>

\* The generated code reads one byte that has a transition.
Byte(c, known) ==
  /\ Running /\ c \in DOMAIN ResponseDelta[cs]
  /\ known \/ "http_version" \in ToSet(ResponseDelta[cs][c][2])
  /\ \E rd \in {IF off THEN Msg(Line0, {}, {}) ELSE Reader(msg, c)} :
       LET g == ResponseDelta[cs][c]
           N == rd.at \cup {"now"}
           p == here \cup N
           w == FoldLeft(LAMBDA v, a : Embedded(v, p, a, known),
                         [mark |-> Forget(mark, N), field_start |-> Forget(field_start, N),
                          field_len |-> Forget(field_len, N), chunked |-> chunked, close |-> close,
                          m_error |-> m_error, content_len |-> content_len, got |-> None], g[2])
           F(q) == Forget(q, rd.next \cup {"now"}) IN
       /\ cs' = g[1]
       /\ mark' = F(w.mark) /\ field_start' = F(w.field_start) /\ field_len' = F(w.field_len)
       /\ chunked' = w.chunked /\ close' = w.close /\ m_error' = w.m_error
       /\ content_len' = w.content_len /\ got' = w.got
       /\ here' = rd.next /\ msg' = rd.msg
       /\ said' = IF off \/ rd.msg.hollow # "no" THEN {}
                  ELSE said \cup (IF c \in Eol THEN SaidBy(msg) ELSE {})
       /\ cut' = (cut /\ rd.next = {} /\ "value0" \notin rd.at)
  /\ tail' = NextTail(c)
  /\ UNCHANGED <<chunk, off>>

\* It reads one that has none: st0.
Reject ==
  /\ Running /\ RClasses \ DOMAIN ResponseDelta[cs] # {}
  /\ cs' = 0 /\ got' = None
  /\ UNCHANGED <<mark, field_start, field_len, chunked, close, m_error, content_len, chunk, here,
                 msg, said, off, tail, cut>>

Next == Call \/ Reject \/ \E c \in RClasses, known \in BOOLEAN : Byte(c, known)
Spec == Init /\ [][Next]_vars
-----------------------------------------------------------------------------
InHead == ~off /\ msg.region \notin {"start", "size", "extension", "extvalue"}

\* httpclient_parser_is_finished only at an empty line of a head.
EndsAtBlankLine == InHead /\ Finished => tail = "blank"

\* The empty line ends the head (is_finished, or an error) and execute does not wait for bytes after
\* it, unless the last header is Connection, Transfer-Encoding or Content-Length with an empty value:
\* the parser is then in state 121, 122 or 123, is_finished is false and it takes more header lines.
BlankLineEnds == InHead /\ tail = "blank" => ~Running \/ msg.hollow = "last"

Whole(r, e) == (e \o "1") \in r[2] /\ ((e \o "0") \in r[1] \/ (got.cut /\ "buf" \in r[1]))
\* on_response_version, _status, _reason and _chunk are given the element they are named for; after
\* a read that began inside the element, the part of it in the last buffer.
CallbacksGetElements ==
  ~off /\ got.name \in (IF InHead THEN {"version", "status", "reason"} ELSE {"size"}) /\ m_error = 0 => Whole(got.value, got.name)

\* on_response_http_field is given a name and the value that follows it on the same line, unless it
\* is a special header with an empty value there, which is given again with what the next line holds.
HeadersArePaired ==
  ~off /\ got.name = "header" /\ msg.hollow # "last" =>
    /\ Whole(got.value, "value")
    /\ "name1" \in got.key[2]
    /\ "name0" \in got.key[1] \/ "buf" \in got.key[1]

\* The flags from which HttpConnection::recvResponse decides how to read the body are those that
\* the header lines say, in whatever order, case and reads they come, if none of these headers has
\* an empty value: after such a line the parser takes its value from the lines that follow.
FlagsAreSaid ==
  InHead /\ Finished /\ msg.hollow = "no" =>
    /\ chunked <=> "chunked" \in said
    /\ close <=> "close" \in said
    /\ content_len = "length" <=> "length" \in said
=============================================================================
