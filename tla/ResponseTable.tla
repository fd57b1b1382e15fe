---------------------------- MODULE ResponseTable ----------------------------
(***************************************************************************)
(* The automaton of httpclient_parser_execute, the response parser         *)
(* generated in src/JKYi/http/httpclient_parser.rl.cc: its 123 states, as  *)
(* rows (see RagelRows).  A definition rsNNN holds the rows of the states  *)
(* that the generated code lists from "case NNN" on.                       *)
(*                                                                         *)
(* It has its own classes of char values: the separators lf, cr, sp, ws    *)
(* (the other white space), - . / : ; =, "0" a digit, "A" to "U" a letter  *)
(* of the words the grammar knows, in either case except that T, t, H, h   *)
(* and P are apart ("HTTP" is case-sensitive), "tok" any other character   *)
(* of a token and "any" the rest.                                          *)
(***************************************************************************)
EXTENDS RagelRows

RHex == {"0", "A", "B", "C", "D", "E", "F"}
RToken == RHex \cup {"G", "H", "I", "K", "L", "N", "O", "P", "R", "S", "T", "U", "h", "t", "tok", "-", "."}
RBlank == {"ws", "sp"}
RText == RToken \cup RBlank \cup {"any", "/", ":", ";", "="}
RClasses == RText \cup {"lf", "cr"}

Letter(c) == CASE c = "T" -> {"T", "t"} [] c = "H" -> {"H", "h"} [] OTHER -> {c}
\* The states s, s+1, ... that read the letters of w, with row for any other character.
Read(s, w, row) == [q \in s .. s + Len(w) - 1 |-> To(Letter(w[q - s + 1]), q + 1) @@ row]

Field == To(RToken, 21) @@ Do({":"}, <<"write_field">>, 22)
Crlf(a, n, r) == Do({"lf"}, a, n) @@ Do({"cr"}, a, r)
Value == To(RText, 23) @@ Crlf(<<"write_value">>, 20, 24)
\* The first character of a header line, after the actions a; C leads to c.
Line(a, c) == Do({"C"}, a, c) @@ Do({"T", "t"}, a, 44) @@ Do(RToken, a, 21)
-----------------------------------------------------------------------------
(***************************************************************************)
(* A chunk header, and the status line.                                    *)
(***************************************************************************)
rs1 == (1 :> (Do(RHex, <<"mark">>, 2) @@ Do({"H"}, <<"mark">>, 8)))
       @@ (2 :> (To(RHex, 2) @@ Do({"lf"}, <<"chunk_size", "done">>, 120)
                 @@ Do({"cr"}, <<"chunk_size">>, 3) @@ Do({";"}, <<"chunk_size">>, 4)))
       @@ (120 :> To({}, 0))
Extension(a) == Do({"lf"}, a \o <<"done">>, 120) @@ Do({"cr"}, a, 3) @@ Do({";"}, a, 4)
rs3 == (3 :> Do({"lf"}, <<"done">>, 120)) @@ (4 :> Do(RToken, <<"start_field">>, 5))
       @@ (5 :> (To(RToken, 5) @@ Do({"="}, <<"write_field", "start_value">>, 6)
                 @@ Extension(<<"write_field", "start_value", "write_value">>)))
rs6 == (6 :> Do(RToken, <<"start_value">>, 7)) @@ (7 :> (To(RToken, 7) @@ Extension(<<"write_value">>)))
       @@ (8 :> To({"T"}, 9)) @@ (9 :> To({"T"}, 10)) @@ (10 :> To({"P"}, 11)) @@ (11 :> To({"/"}, 12))
       @@ (12 :> To({"0"}, 13)) @@ (13 :> (To({"0"}, 13) @@ To({"."}, 14))) @@ (14 :> To({"0"}, 15))
rs15 == (15 :> (To({"0"}, 15) @@ Do({"sp"}, <<"http_version">>, 16))) @@ (16 :> Do({"0"}, <<"mark">>, 17))
        @@ (17 :> (To({"0"}, 17) @@ Do({"sp"}, <<"status_code">>, 18)))
        @@ (18 :> Do(RClasses \ {"lf"}, <<"mark">>, 19))
        @@ (19 :> (To(RText, 19) @@ Crlf(<<"reason_phrase">>, 20, 24)))
-----------------------------------------------------------------------------
(***************************************************************************)
(* Header lines.                                                           *)
(***************************************************************************)
\* Mutant: the CR of the empty line is taken for the end of a header line.
rs20Late == (20 :> (Do({"lf"}, <<"done">>, 120) @@ To({"cr"}, 24) @@ Line(<<"start_field">>, 25))) @@ (21 :> Field)
rs20 == (20 :> (Do({"lf"}, <<"done">>, 120) @@ To({"cr"}, 3) @@ Line(<<"start_field">>, 25))) @@ (21 :> Field)
rs22 == (22 :> (Do(RBlank, <<"start_value">>, 22) @@ Do(RText, <<"start_value">>, 23)
                @@ Crlf(<<"start_value", "write_value">>, 20, 24)))
        @@ (23 :> Value) @@ (24 :> To({"lf"}, 20)) @@ Read(25, <<"O">>, Field)
(* Connection: close *)
rs26 == Read(26, <<"N">>, Field) @@ (27 :> (To({"N"}, 28) @@ To({"T", "t"}, 101) @@ Field))
        @@ Read(28, <<"E", "C">>, Field)
rs30 == Read(30, <<"T", "I", "O", "N">>, Field) @@ (34 :> (Do({":"}, <<"write_field">>, 35) @@ To(RToken, 21)))
\* State v after the name of a special header: blanks, then its special value or any other.
Special(v, n, r, first, walk) ==
  v :> (Do(RBlank, <<"start_value">>, v) @@ Do({first}, <<"start_value">>, walk)
        @@ Do(RText, <<"start_value">>, 23) @@ Crlf(<<"start_value", "write_value">>, n, r))
\* White space in front of a special value on the lines that follow (LWS).
Folded(s, f, first, a, t) == s :> (To(RBlank \cup {"lf", "cr"}, f) @@ Do({first}, a, t))
rs35 == Special(35, 36, 95, "C", 96)
        @@ (36 :> (To(RBlank, 37) @@ Do({"lf"}, <<"done">>, 122) @@ To({"cr"}, 89) @@ Line(<<"start_field">>, 90)))
        @@ Folded(37, 37, "C", <<>>, 38) @@ Read(38, <<"L", "O", "S">>, To({}, 0))
\* Mutant: "close" counts only on the last header line.
rs41Last == Read(41, <<"E">>, To({}, 0)) @@ (42 :> Crlf(<<>>, 43, 88))
            @@ (43 :> (Do({"lf"}, <<"write_connection_close", "done">>, 120) @@ Do({"cr"}, <<"write_connection_close">>, 3)
                       @@ Line(<<"start_field">>, 25)))
            @@ Read(44, <<"R">>, Field)
rs41 == Read(41, <<"E">>, To({}, 0)) @@ (42 :> Crlf(<<>>, 43, 88))
        @@ (43 :> (Do({"lf"}, <<"write_connection_close", "done">>, 120) @@ Do({"cr"}, <<"write_connection_close">>, 3)
                   @@ Line(<<"write_connection_close", "start_field">>, 25)))
        @@ Read(44, <<"R">>, Field)
(* Transfer-Encoding: chunked *)
rs45 == Read(45, <<"A", "N", "S", "F", "E">>, Field)
rs50 == Read(50, <<"R", "-", "E", "N", "C">>, Field)
rs55 == Read(55, <<"O", "D", "I", "N", "G">>, Field)
rs60 == (60 :> (Do({":"}, <<"write_field">>, 61) @@ To(RToken, 21))) @@ Special(61, 62, 80, "C", 81)
        @@ (62 :> (To(RBlank, 63) @@ Do({"lf"}, <<"done">>, 121) @@ To({"cr"}, 72)
                   @@ Do({"C"}, <<"start_value", "start_field">>, 73) @@ Line(<<"start_field">>, 73)))
Chunked == Do({"lf"}, <<"write_value", "trans_chunked">>, 20) @@ Do({"cr"}, <<"write_value">>, 71)
rs63 == Folded(63, 63, "C", <<"start_value">>, 64) @@ Read(64, <<"H", "U", "N", "K", "E", "D">>, To({}, 0))
        @@ (70 :> Chunked) @@ (71 :> Do({"lf"}, <<"trans_chunked">>, 20)) @@ Folded(121, 63, "C", <<"start_value">>, 64)
\* State s, after a "cr" in that white space: an "lf" does what end says.
FoldedCr(s, f, end, row) == s :> (To(RBlank \cup {"cr"}, f) @@ end @@ row)
rs72 == FoldedCr(72, 63, Do({"lf"}, <<"done">>, 121), Do({"C"}, <<"start_value">>, 64))
        @@ (73 :> (To({"H", "h"}, 74) @@ To({"O"}, 26) @@ Field)) @@ Read(74, <<"U", "N">>, Field)
rs76 == Read(76, <<"K", "E", "D">>, Field) @@ (79 :> (Chunked @@ Field))
rs80 == FoldedCr(80, 63, To({"lf"}, 62), Do({"C"}, <<"start_value">>, 64))
        @@ Read(81, <<"H", "U", "N", "K", "E", "D">>, Value) @@ (87 :> (Chunked @@ Value)) @@ (88 :> To({"lf"}, 43))
rs122 == Folded(122, 37, "C", <<>>, 38)
         @@ FoldedCr(89, 37, Do({"lf"}, <<"done">>, 122), To({"C"}, 38))
         @@ (90 :> (To({"L"}, 91) @@ To({"O"}, 26) @@ Field)) @@ Read(91, <<"O">>, Field)
rs92 == Read(92, <<"S", "E">>, Field) @@ (94 :> (Crlf(<<>>, 43, 88) @@ Field))
        @@ FoldedCr(95, 37, To({"lf"}, 36), To({"C"}, 38))
rs96 == Read(96, <<"L", "O", "S", "E">>, Value) @@ (100 :> (Crlf(<<"write_value">>, 43, 88) @@ Value))
        @@ Read(101, <<"E", "N">>, Field)
(* Content-Length: digits *)
rs103 == Read(103, <<"T", "-", "L", "E", "N">>, Field)
rs108 == Read(108, <<"G", "T", "H">>, Field) @@ (111 :> (Do({":"}, <<"write_field">>, 112) @@ To(RToken, 21)))
Length == Crlf(<<"write_content_len", "write_value">>, 20, 24)
rs112 == Special(112, 113, 118, "0", 119)
         @@ (113 :> (To(RBlank, 114) @@ Do({"lf"}, <<"done">>, 123) @@ To({"cr"}, 116)
                     @@ Do({"0"}, <<"start_value", "start_field">>, 117) @@ Line(<<"start_field">>, 25)))
         @@ Folded(114, 114, "0", <<"start_value">>, 115) @@ (115 :> (To({"0"}, 115) @@ Length))
         @@ Folded(123, 114, "0", <<"start_value">>, 115)
rs116 == FoldedCr(116, 114, Do({"lf"}, <<"done">>, 123), Do({"0"}, <<"start_value">>, 115))
         @@ (117 :> (To({"0"}, 117) @@ Length @@ Field))
         @@ FoldedCr(118, 114, To({"lf"}, 113), Do({"0"}, <<"start_value">>, 115))
         @@ (119 :> (To({"0"}, 119) @@ Length @@ Value))

ResponseDelta ==
  rs1 @@ rs3 @@ rs6 @@ rs15 @@ rs20 @@ rs22 @@ rs26 @@ rs30 @@ rs35 @@ rs41 @@ rs45 @@ rs50 @@ rs55 @@ rs60
  @@ rs63 @@ rs72 @@ rs76 @@ rs80 @@ rs122 @@ rs92 @@ rs96 @@ rs103 @@ rs108 @@ rs112 @@ rs116
=============================================================================
