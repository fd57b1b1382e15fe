---------------------------- MODULE RequestTable ----------------------------
(***************************************************************************)
(* The automaton of http_parser_execute, the request parser generated in   *)
(* src/JKYi/http/http11_parser.rl.cc: its 349 states, as rows (see         *)
(* RagelRows).  A definition stNNN or AuNNN holds the rows of the states   *)
(* that the generated code lists from "case NNN" on.                       *)
(*                                                                         *)
(* The code has two copies of the authority of a URI: in the request line  *)
(* (states 34 to 172, b = 0) and in the "@route" of a JSON message (states *)
(* 209 to 347, b = 175).  end is the row of what may follow it there.      *)
(***************************************************************************)
EXTENDS RagelRows

\* The generated code widens { } and ^ when parser->uri_relaxed is set; "{r" is the widened "{".
Relaxed == {"{r", "}r", "^r"}
RUchar == Uchar \cup Relaxed
RPchar == RUchar \cup {"hi", ":", "@"}
RQchar == RPchar \cup {"/", "?"}
Bytes == Classes \cup Relaxed
\* HTTP_CTL is (0 - 31), which is {0}: a token may contain control characters.
Token == Alpha \cup Digit \cup {"ctl", "x2", "x3", "x4", "x5", "x6", "vt", "sub", "#", "%", "+", "-", ".", "^", "^r"}
Text == Bytes \ {"nul", "lf", "cr", "del"}

SpaceHash(a) == Do({"sp"}, a, 4) @@ Do({"#"}, a, 20)
PathEnd == SpaceHash(<<"request_path", "request_uri">>) @@ Do({"?"}, <<"request_path">>, 29)
Marked(row) == [c \in DOMAIN row |-> <<row[c][1], <<"mark">> \o row[c][2]>>]
-----------------------------------------------------------------------------
(***************************************************************************)
(* The request line.                                                       *)
(***************************************************************************)
st1 == (1 :> Marked(To(Upper \cup Digit, 2) @@ To({"<"}, 194) @@ To({"@"}, 198)))
       @@ (2 :> (Do({"sp"}, <<"request_method">>, 3) @@ To(Upper \cup Digit, 175)))
       @@ (3 :> Marked(To(Alpha, 173) @@ To(RUchar \cup {"@"}, 19) @@ To({"%"}, 24) @@ To({"/"}, 33) @@ PathEnd))
st4 == (4 :> Do({"H"}, <<"mark">>, 5)) @@ (5 :> To({"T"}, 6)) @@ (6 :> To({"T"}, 7)) @@ (7 :> To({"P"}, 8))
       @@ (8 :> To({"/"}, 9)) @@ (9 :> To({"1"}, 10)) @@ (10 :> To({"."}, 11)) @@ (11 :> To({"0", "1"}, 12))
       @@ (12 :> (Do({"lf"}, <<"http_version">>, 13) @@ Do({"cr"}, <<"http_version">>, 17)))
st19 == 19 :> (To(RUchar \cup {"@"}, 19) @@ To({"%"}, 24) @@ To({"/"}, 26) @@ PathEnd)
st20 == 20 :> Marked(To(RQchar, 21) @@ To({"%"}, 22) @@ Do({"sp"}, <<"fragment">>, 4))
st21 == (21 :> (To(RQchar, 21) @@ To({"%"}, 22) @@ Do({"sp"}, <<"fragment">>, 4))) @@ Pct(22, 21)
st24 == Pct(24, 19) @@ (26 :> (To(RPchar \cup {"/"}, 26) @@ To({"%"}, 27) @@ PathEnd)) @@ Pct(27, 26)
st29 == (29 :> (Do(RQchar, <<"start_query">>, 30) @@ Do({"%"}, <<"start_query">>, 31)
                @@ SpaceHash(<<"start_query", "query_string", "request_uri">>)))
        @@ (30 :> (To(RQchar, 30) @@ To({"%"}, 31) @@ SpaceHash(<<"query_string", "request_uri">>)))
        @@ Pct(31, 30)
st33 == 33 :> (To(RPchar, 26) @@ To({"%"}, 27) @@ To({"/"}, 34) @@ PathEnd)
st173 == (173 :> (To(SchemeChar, 173) @@ To(RUchar \cup {"@"}, 19) @@ To({"%"}, 24) @@ To({"/"}, 26)
                  @@ To({":"}, 174) @@ PathEnd))
         @@ (174 :> Marked(To(RPchar, 26) @@ To({"%"}, 27) @@ To({"/"}, 33) @@ PathEnd))
\* At most 20 characters of a method.
MethodChar(s) == Do({"sp"}, <<"request_method">>, 3) @@ To(Upper \cup Digit, s + 1)
st175 == [s \in 175..186 |-> MethodChar(s)]
st187 == [s \in 187..192 |-> MethodChar(s)] @@ (193 :> Do({"sp"}, <<"request_method">>, 3))
-----------------------------------------------------------------------------
(***************************************************************************)
(* The header lines.                                                       *)
(***************************************************************************)
LineEnd(a) == Do({"lf"}, a, 13) @@ Do({"cr"}, a, 17)
Name == To(Token \cup {"lf", "cr"}, 14) @@ Do({":"}, <<"write_field">>, 15)
st13 == (13 :> (Do(Token, <<"start_field">>, 14) @@ Do({"lf"}, <<"start_field", "done">>, 348)
                @@ Do({"cr"}, <<"start_field">>, 18)))
        @@ (14 :> Name)
        @@ (15 :> (Do({"tab", "sp"}, <<"start_value">>, 15) @@ Do(Text, <<"start_value">>, 16)
                   @@ LineEnd(<<"start_value", "write_value">>)))
        @@ (16 :> (To(Text, 16) @@ LineEnd(<<"write_value">>)))
\* Mutant: the LF of the empty line begins another header line.
st17Late == (17 :> To({"lf"}, 13)) @@ (348 :> Name) @@ (18 :> (To({"lf"}, 13) @@ Name))
st17 == (17 :> To({"lf"}, 13)) @@ (348 :> Name) @@ (18 :> (Do({"lf"}, <<"done">>, 348) @@ Name))
-----------------------------------------------------------------------------
(***************************************************************************)
(* "<name ...>" with a NUL at its end, and "@route {...}" with a NUL.      *)
(***************************************************************************)
XmlName == Alpha \cup Digit \cup {"-", "."}
st194 == (194 :> To(XmlName, 195))
         @@ (195 :> (To(XmlName, 195) @@ Do({"tab", "lf", "vt", "cr", "sp", "/", ">"}, <<"request_path">>, 196)))
         @@ (196 :> (To({">"}, 197) @@ To(Bytes, 196)))
         @@ (197 :> (To({">"}, 197) @@ Do({"nul"}, <<"xml", "done">>, 349) @@ To(Bytes, 196)))
         @@ (349 :> To({}, 0))
JsonEnd == Do({"sp"}, <<"request_path">>, 199)
Braces(c) == {c, IF c = "{" THEN "{r" ELSE "}r"}
st198 == (198 :> (To(RUchar \cup {"@"}, 202) @@ To({"%"}, 203) @@ To({"/"}, 208) @@ JsonEnd))
         @@ (199 :> Do(Braces("{"), <<"mark">>, 200))
         @@ (200 :> (To(Braces("}"), 201) @@ To(Bytes, 200)))
         @@ (201 :> (To(Braces("}"), 201) @@ Do({"nul"}, <<"json", "done">>, 349) @@ To(Bytes, 200)))
         @@ (202 :> (To(RUchar \cup {"@"}, 202) @@ To({"%"}, 203) @@ To({"/"}, 205) @@ JsonEnd))
st203 == Pct(203, 202) @@ (205 :> (To(RPchar \cup {"/"}, 205) @@ To({"%"}, 206) @@ JsonEnd)) @@ Pct(206, 205)
st208 == 208 :> (To(RPchar, 205) @@ To({"%"}, 206) @@ To({"/"}, 209) @@ JsonEnd)
-----------------------------------------------------------------------------
(***************************************************************************)
(* The authority.                                                          *)
(***************************************************************************)
Au34(b, end) ==
  LET row == To(RUchar, 35 + b) @@ To({"%"}, 36 + b) @@ To({":"}, 38 + b) @@ To({"@"}, 42 + b) @@ end IN
  (34 + b :> (To({"["}, 47 + b) @@ row)) @@ (35 + b :> row) @@ Pct(36 + b, 35 + b)
Au38(b, end) ==
  LET row == To(RUchar \cup {":"}, 39 + b) @@ To({"%"}, 40 + b) @@ To({"@"}, 42 + b) IN
  (38 + b :> (To(Digit, 38 + b) @@ row @@ end)) @@ (39 + b :> row) @@ Pct(40 + b, 39 + b)
Au42(b, end) ==
  LET row == To(RUchar, 43 + b) @@ To({"%"}, 44 + b) @@ To({":"}, 46 + b) @@ end IN
  (42 + b :> (To({"["}, 47 + b) @@ row)) @@ (43 + b :> row) @@ Pct(44 + b, 43 + b)
  @@ (46 + b :> (To(Digit, 46 + b) @@ end))

\* dec_octet: the grammar's "1"-"9" is the set {1}, "0"-"4" and "0"-"5" are {0}.
First(z, one, two) == To({"0", "3", "5", "6"}, z) @@ To({"1"}, one) @@ To({"2"}, two)
\* States d to d+4: after 1, 1x, 2, 20 and 25.
Octet(d, z, row) ==
  (d :> (To(Digit, d + 1) @@ row)) @@ (d + 1 :> (To(Digit, z) @@ row))
  @@ (d + 2 :> (To({"0"}, d + 3) @@ To({"5"}, d + 4) @@ row))
  @@ (d + 3 :> To(Digit, z)) @@ (d + 4 :> To({"0"}, z))
\* A group that is an h16 or an octet: h is the state after two hexadecimal digits.
GroupHead(z, d) == First(z, d, d + 3) @@ To({"A", "a"}, d + 6)
GroupHex(z, dot, row) == (z :> (To({"."}, dot) @@ To(Xdigit, z + 1) @@ row)) @@ H16(From(z), row)
GroupDec(d, h, dot, row) ==
  (d :> (To({"."}, dot) @@ To(Digit, d + 1) @@ To(Xdigit, h) @@ row))
  @@ (d + 1 :> (To({"."}, dot) @@ To(Digit, d + 2) @@ To(Xdigit, h + 1) @@ row))
  @@ (d + 2 :> (To({"."}, dot) @@ To(Xdigit, h + 2) @@ row))
  @@ (d + 3 :> (To({"."}, dot) @@ To({"0"}, d + 4) @@ To({"5"}, d + 5) @@ To(Xdigit, h) @@ row))
  @@ (d + 4 :> (To(Digit, d + 2) @@ To(Xdigit, h + 1) @@ row))
  @@ (d + 5 :> (To({"0"}, d + 2) @@ To(Xdigit, h + 1) @@ row))
  @@ (d + 6 :> (To(Xdigit, h) @@ row))
Colon(t) == To({":"}, t)
Close(b) == To({"]"}, 61 + b)
\* State s: an h16 or a second ":"; its digits in s+1 to s+4, then ":" and state n.
Group(s, second, n) == (s :> (To(Xdigit, s + 1) @@ Colon(second))) @@ H16(From(s + 1), Colon(n))

Au47(b) == (47 + b :> (To({"x6"}, 48 + b) @@ To(Xdigit, 91 + b) @@ Colon(167 + b) @@ To({"v"}, 169 + b)))
           @@ (48 + b :> To(Xdigit, 49 + b)) @@ H16(From(49 + b), Colon(53 + b))
           @@ (53 + b :> GroupHead(54 + b, 84 + b))
           @@ (54 + b :> (To({"."}, 55 + b) @@ To(Xdigit, 77 + b) @@ Colon(80 + b)))
           @@ (55 + b :> First(56 + b, 72 + b, 74 + b)) @@ (56 + b :> To({"."}, 57 + b))
Au57(b, end) == (57 + b :> First(58 + b, 67 + b, 69 + b)) @@ (58 + b :> To({"."}, 59 + b))
                @@ (59 + b :> First(60 + b, 62 + b, 64 + b)) @@ (60 + b :> Close(b))
                @@ (61 + b :> (Colon(46 + b) @@ end))
                @@ Octet(62 + b, 60 + b, Close(b)) @@ Octet(67 + b, 58 + b, To({"."}, 59 + b))
Au72(b) == Octet(72 + b, 56 + b, To({"."}, 57 + b))
           @@ [s \in 77 + b .. 78 + b |-> To(Xdigit, s + 1) @@ Colon(80 + b)] @@ (79 + b :> Colon(80 + b))
           @@ (80 + b :> To(Xdigit, 81 + b)) @@ H16(<<81 + b, 82 + b, 83 + b, 60 + b>>, Close(b))
Au84(b) == GroupDec(84 + b, 77 + b, 55 + b, Colon(80 + b))
Au91(b) == H16(From(91 + b), Colon(95 + b)) @@ Group(95 + b, 166 + b, 100 + b)
Au100(b) == Group(100 + b, 165 + b, 105 + b) @@ Group(105 + b, 164 + b, 110 + b)
Au110(b) == Group(110 + b, 163 + b, 115 + b) @@ Group(115 + b, 151 + b, 120 + b)
Au120(b) == Group(120 + b, 150 + b, 125 + b) @@ (125 + b :> (To(Xdigit, 121 + b) @@ Colon(126 + b)))
            @@ (126 + b :> (To({"x2", "x3"}, 48 + b) @@ GroupHead(127 + b, 143 + b) @@ Close(b)))
Au127(b) == GroupHex(127 + b, 55 + b, Colon(131 + b) @@ Close(b)) @@ (131 + b :> GroupHead(132 + b, 136 + b))
            @@ GroupHex(132 + b, 55 + b, Colon(80 + b) @@ Close(b))
Au136(b) == GroupDec(136 + b, 133 + b, 55 + b, Colon(80 + b) @@ Close(b))
Au143(b) == GroupDec(143 + b, 128 + b, 55 + b, Colon(131 + b) @@ Close(b))
Au150(b) == (150 + b :> (To({"x2", "x3"}, 48 + b) @@ GroupHead(127 + b, 143 + b)))
            @@ (151 + b :> (To({"x2", "x3"}, 48 + b) @@ GroupHead(152 + b, 156 + b)))
            @@ GroupHex(152 + b, 55 + b, Colon(131 + b))
Au156(b) == GroupDec(156 + b, 153 + b, 55 + b, Colon(131 + b))
Au163(b) == (163 + b :> (To({"x2", "x3"}, 48 + b) @@ To(Xdigit, 49 + b))) @@ (164 + b :> To({"x2", "x3"}, 48 + b))
            @@ (165 + b :> To({"x3"}, 48 + b)) @@ (166 + b :> To({"x4"}, 48 + b)) @@ (167 + b :> Colon(168 + b))
            @@ (168 + b :> (To({"x2", "x3", "x4", "x5"}, 48 + b) @@ GroupHead(127 + b, 143 + b) @@ Close(b)))
            @@ (169 + b :> To(Xdigit, 170 + b)) @@ (170 + b :> (To({"."}, 171 + b) @@ To(Xdigit, 170 + b)))
            @@ (171 + b :> To(RUchar \cup {":"}, 172 + b))
Au172(b) == 172 + b :> (To(RUchar \cup {":"}, 172 + b) @@ Close(b))

UriEnd == PathEnd @@ To({"/"}, 26)
RouteEnd == JsonEnd @@ To({"/"}, 205)
st209 == Au34(175, RouteEnd)
st213 == Au38(175, RouteEnd)
st217 == Au42(175, RouteEnd)
st222 == Au47(175)
st232 == Au57(175, RouteEnd)
st247 == Au72(175)
st259 == Au84(175)
st266 == Au91(175)
st275 == Au100(175)
st285 == Au110(175)
st295 == Au120(175)
st302 == Au127(175)
st311 == Au136(175)
st318 == Au143(175)
st325 == Au150(175)
st331 == Au156(175)
st338 == Au163(175)
st347 == Au172(175)

RequestDelta ==
  st1 @@ st4 @@ st13 @@ st17 @@ st19 @@ st20 @@ st21 @@ st24 @@ st29 @@ st33 @@ st173 @@ st175 @@ st187
  @@ st194 @@ st198 @@ st203 @@ st208
  @@ Au34(0, UriEnd) @@ Au38(0, UriEnd) @@ Au42(0, UriEnd) @@ Au47(0) @@ Au57(0, UriEnd) @@ Au72(0) @@ Au84(0)
  @@ Au91(0) @@ Au100(0) @@ Au110(0) @@ Au120(0) @@ Au127(0) @@ Au136(0) @@ Au143(0) @@ Au150(0) @@ Au156(0)
  @@ Au163(0) @@ Au172(0)
  @@ st209 @@ st213 @@ st217 @@ st222 @@ st232 @@ st247 @@ st259 @@ st266 @@ st275 @@ st285 @@ st295 @@ st302
  @@ st311 @@ st318 @@ st325 @@ st331 @@ st338 @@ st347
=============================================================================
