------------------------- MODULE HttpRequestParser -------------------------
(***************************************************************************)
(* HttpRequestParser of src/JKYi/http/http_parser.cc over the generated    *)
(* http_parser_execute (RequestTable): one request of any length, that     *)
(* arrives in reads of any length.  HttpSession::recvRequest hands every   *)
(* read to execute, which consumes all of it unless the request ends or an *)
(* error is met, and memmove then drops what it consumed; so a call begins *)
(* with the byte that follows the last one of the call before.             *)
(*                                                                         *)
(* Positions are sets of names, as in Uri: a reader of the message names   *)
(* the places where its elements begin ("path0") and end ("path1"), "buf"  *)
(* is the first byte of the buffer of the current call and "now" the       *)
(* current byte.  A register of the parser holds an offset in the buffer   *)
(* of the current call; "stale" is an offset of an earlier one.            *)
(***************************************************************************)
EXTENDS RequestTable, SequencesExt

VARIABLES cs, mark, field_start, query_start,   \* members of struct http_parser
          field_len,    \* its field_len: {"zero"}, or the position field_start + field_len
          uri_relaxed,  \* its member of that name, which nothing ever sets
          m_error,      \* the parser's m_error: 0, 1000 or 1001; Thrown after an exception
          version,      \* the HttpRequest's m_version: "1.1" at first
          got,          \* the last callback: its name and the ranges it was given
          here,         \* the names of the next byte's position
          msg,          \* the reader: its region, the version and whether a name holds a line end
          tail,         \* the last bytes: "lf", "lfcr", "blank" (the second line end in a row), "other"
          cut           \* the buffer of this call began inside the current element
vars == <<cs, mark, field_start, query_start, field_len, uri_relaxed, m_error, version, got, here, msg, tail, cut>>

FirstFinal == 348
\* std::string has thrown std::length_error in a callback: execute is left and never called again.
Thrown == 2
Finished == cs >= FirstFinal
Failed == cs = 0 \/ m_error # 0
Running == ~Finished /\ ~Failed
-----------------------------------------------------------------------------
(***************************************************************************)
(* The reader: method SP target SP version CRLF *( name ":" value CRLF )   *)
(* CRLF, or an XML or JSON message.                                        *)
(***************************************************************************)
Eol == {"lf", "cr"}
Msg(region, at, next) == [region |-> region, at |-> at, next |-> next]
Reader(g, c) ==
  LET Target(region, chars) ==
        CASE c = "sp" -> Msg("version", {region \o "1"}, {"version0"})
          [] c = "#" /\ region # "fragment" -> Msg("fragment", {region \o "1"}, {"fragment0"})
          [] c = "?" /\ region = "path" -> Msg("query", {"path1"}, {"query0"})
          [] OTHER -> Msg(IF c \in chars THEN g ELSE region, {}, {}) IN
  CASE g = "start" -> Msg(CASE c = "<" -> "xml" [] c = "@" -> "json" [] OTHER -> "method", {"path0"}, {})
    [] g = "method" /\ c = "sp" -> Msg("target", {"method1"}, {"path0"})
    [] g = "target" /\ c \in Alpha -> Msg("scheme", {}, {})
    [] g = "scheme" /\ c = ":" -> Msg("path", {}, {"path0"})
    [] g \in {"target", "path"} -> Target("path", {})
    [] g = "scheme" -> Target("path", SchemeChar)
    [] g \in {"query", "fragment"} -> Target(g, {})
    [] g = "version" /\ c \in Eol -> Msg(IF c = "cr" THEN "cr" ELSE "line", {"version1"}, IF c = "cr" THEN {} ELSE {"name0"})
    [] g = "cr" -> Msg("line", {}, {"name0"})
    [] g \in {"line", "name"} /\ c = ":" -> Msg("blank", {"name1"}, {})
    [] g = "line" -> Msg("name", {}, {})
    [] g = "blank" /\ c \notin Eol \cup {"tab", "sp"} -> Msg("value", {"value0"}, {})
    [] g = "blank" /\ c \in Eol -> Msg(IF c = "cr" THEN "cr" ELSE "line", {"value0", "value1"}, IF c = "cr" THEN {} ELSE {"name0"})
    [] g = "value" /\ c \in Eol -> Msg(IF c = "cr" THEN "cr" ELSE "line", {"value1"}, IF c = "cr" THEN {} ELSE {"name0"})
    [] g = "xml" /\ c \in {"tab", "lf", "vt", "cr", "sp", "/", ">"} -> Msg("body", {"path1"}, {})
    [] g = "json" /\ c = "sp" -> Msg("body", {"path1"}, {})
    [] OTHER -> Msg(g, {}, {})
NextTail(c) == CASE c = "lf" -> IF tail \in {"lf", "lfcr"} THEN "blank" ELSE "lf"
                 [] c = "cr" /\ tail = "lf" -> "lfcr"
                 [] OTHER -> "other"
-----------------------------------------------------------------------------
(***************************************************************************)
(* The embedded actions and the callbacks that HttpRequestParser installs. *)
(* w has the members that they change; p is the current position.          *)
(***************************************************************************)
Given(w, name, from, p) == [w EXCEPT !.got = [name |-> name, value |-> <<from, p>>, cut |-> cut]]
\* on_request_method: CharsToHttpMethod looks for a method name that the bytes at the mark begin
\* with, whatever their number and wherever the mark is: PUTX is PUT, and UNLOCK that a read
\* ended after UN is LOCK.  fits: there is one; at the space after the method there is none.
on_request_method(w, p, fits) ==
  [Given(w, "method", w.mark, p) EXCEPT !.m_error = IF fits /\ ~Same(w.mark, p) THEN @ ELSE 1000]
\* on_request_query: LEN(query_start) is an unsigned difference, and a stale query_start may lie
\* behind p: std::string then throws.  fits: it does not.
on_request_query(w, p, fits) ==
  [Given(w, "query", w.query_start, p) EXCEPT !.m_error = IF "stale" \in w.query_start /\ ~fits THEN Thrown ELSE @]
\* on_request_version: strncmp with the length of the range.
on_request_version(w, p, wire) ==
  LET g == Given(w, "version", w.mark, p) IN
  CASE Same(w.mark, p) -> [g EXCEPT !.version = "1.0"]
    [] "version0" \in w.mark -> [g EXCEPT !.version = wire]
    [] OTHER -> [g EXCEPT !.m_error = 1001]
\* on_request_http_field: setHeader, unless the name is empty.
on_request_http_field(w, p) ==
  IF w.field_len = {"zero"} \/ Same(w.field_start, w.field_len) THEN w
  ELSE [w EXCEPT !.got = [name |-> "header", key |-> <<w.field_start, w.field_len>>, value |-> <<w.mark, p>>, cut |-> cut]]
Embedded(w, p, a, fits, wire) ==
  CASE a \in {"mark", "start_value"} -> [w EXCEPT !.mark = p]
    [] a = "start_field" -> [w EXCEPT !.field_start = p]
    [] a = "write_field" -> [w EXCEPT !.field_len = p]
    [] a = "start_query" -> [w EXCEPT !.query_start = p]
    [] a = "write_value" -> on_request_http_field(w, p)
    [] a = "request_method" -> on_request_method(w, p, fits)
    [] a = "request_path" -> Given(w, "path", w.mark, p)
    [] a = "fragment" -> Given(w, "fragment", w.mark, p)
    [] a = "query_string" -> on_request_query(w, p, fits)
    [] a = "http_version" -> on_request_version(w, p, wire)
    [] a \in {"request_uri", "xml", "json", "done"} -> w

None == [name |-> "none"]
-----------------------------------------------------------------------------
Init ==
  /\ cs = 1 /\ mark = {"buf", "method0", "path0"} /\ field_start = {"buf", "method0", "path0"}
  /\ query_start = {"stale"} /\ field_len = {"zero"} /\ uri_relaxed \in BOOLEAN
  /\ m_error = 0 /\ version = "1.1" /\ got = None
  /\ here = {"buf", "method0", "path0"} /\ msg = [region |-> "start", wire |-> "none", broken |-> FALSE]
  /\ tail = "other" /\ cut = FALSE

\* Mutant: the length of a name in the last read is kept.
CallKeepsLength ==
  /\ Running
  /\ mark' = here \cup {"buf"} /\ field_start' = here \cup {"buf"} /\ here' = here \cup {"buf"}
  /\ query_start' = {"stale"} /\ field_len' = IF field_len = {"zero"} THEN field_len ELSE {"stale"}
  /\ cut' = (here \subseteq {"buf"}) /\ got' = None
  /\ UNCHANGED <<cs, uri_relaxed, m_error, version, msg, tail>>

\* http_parser_execute begins with the next read: it resets what is an offset except query_start.
Call ==
  /\ Running
  /\ mark' = here \cup {"buf"} /\ field_start' = here \cup {"buf"} /\ here' = here \cup {"buf"}
  /\ query_start' = {"stale"} /\ field_len' = {"zero"}
  /\ cut' = (here \subseteq {"buf"}) /\ got' = None
  /\ UNCHANGED <<cs, uri_relaxed, m_error, version, msg, tail>>

\* The generated code reads one byte that has a transition; fits: see the two callbacks.
Byte(c, fits) ==
  LET g == RequestDelta[cs][c]
      rd == Reader(msg.region, c)
      N == rd.at \cup {"now"}
      p == here \cup N
      w == FoldLeft(LAMBDA v, a : Embedded(v, p, a, fits, msg.wire),
                    [mark |-> Forget(mark, N), field_start |-> Forget(field_start, N),
                     query_start |-> Forget(query_start, N), field_len |-> Forget(field_len, N),
                     m_error |-> m_error, version |-> version, got |-> None], g[2])
      F(q) == Forget(q, rd.next \cup {"now"}) IN
  /\ Running /\ c \in DOMAIN RequestDelta[cs]
  /\ fits \/ {"request_method", "query_string"} \cap ToSet(g[2]) # {}
  /\ cs' = g[1]
  /\ mark' = F(w.mark) /\ field_start' = F(w.field_start)
  /\ query_start' = F(w.query_start) /\ field_len' = F(w.field_len)
  /\ m_error' = w.m_error /\ version' = w.version
  /\ got' = w.got
  /\ here' = rd.next
  /\ msg' = [region |-> rd.region,
             wire |-> IF msg.region = "version" /\ c \in {"0", "1"} THEN "1." \o c ELSE msg.wire,
             broken |-> msg.broken \/ (msg.region = "name" /\ c \in Eol /\ NextTail(c) # "blank")]
  /\ tail' = NextTail(c)
  /\ cut' = (cut /\ rd.next = {} /\ {"value0", "path0"} \cap rd.at = {})
  /\ UNCHANGED uri_relaxed

\* The widened characters that the current value of uri_relaxed makes of { } and ^.
Input == IF uri_relaxed THEN (Classes \ {"{", "}", "^"}) \cup Relaxed ELSE Classes

\* It reads one that has none: st0.
Reject ==
  /\ Running /\ Input \ DOMAIN RequestDelta[cs] # {}
  /\ cs' = 0 /\ got' = None
  /\ UNCHANGED <<mark, field_start, query_start, field_len, uri_relaxed, m_error, version, here, msg,
                 tail, cut>>

Next == Call \/ Reject \/ \E c \in Input, fits \in BOOLEAN : Byte(c, fits)
Spec == Init /\ [][Next]_vars
-----------------------------------------------------------------------------
\* http_parser_is_finished of a request with header lines only at its first empty line.
EndsAtBlankLine == cs = 348 => tail = "blank"

\* The empty line ends the request, unless a header line without ":" came before it (the grammar
\* lets a name hold CR and LF): recvRequest does not wait for more bytes.
BlankLineEnds == tail = "blank" /\ Running => msg.broken \/ msg.region \in {"xml", "json", "body"}

Whole(r, e) == (e \o "1") \in r[2] /\ ((e \o "0") \in r[1] \/ (got.cut /\ "buf" \in r[1]))
\* on_request_method, _path, _fragment and _query are given the element they are named for; after a
\* read that began inside the element, the part of it in the last buffer, of which CharsToHttpMethod
\* may make another method.  Of the query it is then the bytes from the offset that query_start had
\* in an earlier buffer, if they are so many, and an exception if not: execute never resets it.
CallbacksGetElements ==
  /\ got.name \in {"method", "path", "fragment"} /\ m_error = 0 => Whole(got.value, got.name)
  /\ got.name = "query" => \/ Whole(got.value, "query") /\ "stale" \notin got.value[1]
                           \/ got.cut /\ "stale" \in got.value[1] /\ "query1" \in got.value[2]

\* on_request_version sets the version of the message, unless a read ended inside or right after it.
VersionIsTheMessages == got.name = "version" /\ m_error = 0 => version = msg.wire \/ got.cut

\* on_request_http_field is given a name and the value that follows it on the same line.
HeadersArePaired ==
  got.name = "header" => /\ Whole(got.value, "value")
                         /\ "name1" \in got.key[2]
                         /\ "name0" \in got.key[1] \/ "buf" \in got.key[1]
=============================================================================
