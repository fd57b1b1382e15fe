------------------------------ MODULE UriTable ------------------------------
(***************************************************************************)
(* The automaton of Uri::Create, src/JKYi/uri.rl.cc: its 560 states, as    *)
(* rows (see RagelRows).  A definition stNNN holds the rows of the states  *)
(* that the generated code lists from "case NNN" on.                       *)
(*                                                                         *)
(* The code has two copies of the authority: one after "//" alone (states  *)
(* 9 to 228 and 459 to 507) and one after "scheme://" (states 229 to 450   *)
(* and 511 to 560), where the path is saved as well.  b is 0 in the first  *)
(* copy and 222 in the second wherever the two differ only by an offset    *)
(* of the state numbers, and ok is the state after the "]" of an address.  *)
(***************************************************************************)
EXTENDS RagelRows

Pchar == Uchar \cup {"hi", ":", "@"}

\* "?" leads to the query, "#" to the fragment.
QueryOrFragment(a) == Do({"?"}, a, 456) @@ Do({"#"}, a, 453)
\* The end of the authority, after the actions a: with a scheme the path is marked, and saved if empty.
EndRel(a) == Do({"/"}, a, 455) @@ QueryOrFragment(a)
EndAbs(a, m) == Do({"/"}, a \o m, 513) @@ QueryOrFragment(a \o m \o <<"save_path">>)

RelHost == EndRel(<<"save_host">>)
AbsHost == EndAbs(<<"save_host">>, <<"markh">>)
AtUser(t) == Do({"@"}, <<"save_userinfo">>, t)
\* What may follow a host: a port, the end and, while it may still be a userinfo, "@".
RelHost1 == Do({":"}, <<"save_host">>, 468) @@ RelHost @@ AtUser(469)
RelHost2 == Do({":"}, <<"save_host">>, 461) @@ RelHost
AbsHost1 == Do({":"}, <<"save_host">>, 521) @@ AbsHost @@ AtUser(522)
AbsHost2 == Do({":"}, <<"save_host">>, 514) @@ AbsHost

\* dec_octet.  State s, s+1, s+2: its first character ("2 [0-4] digit" in the grammar is char 2).
OctetHead(s, z, d) ==
  (s :> (To({"x2"}, s + 1) @@ To({"0"}, z) @@ To({"1"}, d) @@ To({"2"}, d + 2)
         @@ To({"3", "5", "6"}, d + 1)))
  @@ (s + 1 :> To({"0", "1", "2", "3"}, s + 2)) @@ (s + 2 :> To(Digit, z))
\* States d to d+3: after 1, 1x or 3..9, 2 and 25; z is the state of a complete octet.
OctetTail(d, z, row) ==
  (d :> (To(Digit, d + 1) @@ row)) @@ (d + 1 :> (To(Digit, z) @@ row))
  @@ (d + 2 :> (To({"5"}, d + 3) @@ To(Digit, z) @@ row))
  @@ (d + 3 :> (To(Digit \ {"6"}, z) @@ row))

\* The first character of a group that is an h16 or the first octet of an IPv4address.
MixedHead(h, d, l, v4) ==
  To({"x2"}, v4) @@ To({"0"}, h) @@ To({"1"}, d) @@ To({"2"}, d + 3)
  @@ To({"3", "5", "6"}, d + 6) @@ To({"A", "a"}, l)
\* States h to h+3: the group is an h16, except that after "0" it may be an octet.
MixedHex(h, dot, row) == (h :> (To({"."}, dot) @@ To(Xdigit, h + 1) @@ row)) @@ H16(From(h), row)
\* States d to d+6: after 1, 1x, 1xx, 2, xx, 25 and 3..9 both are possible.
MixedDec(d, h, dot, r) ==
  LET row == To({"."}, dot) @@ r IN
  (d :> (To(Digit, d + 1) @@ To(Xdigit, h + 1) @@ row))
  @@ (d + 1 :> (To(Digit, d + 2) @@ To(Xdigit, h + 2) @@ row))
  @@ (d + 2 :> (To(Xdigit, h + 3) @@ row))
  @@ (d + 3 :> (To({"5"}, d + 5) @@ To(Digit, d + 4) @@ To(Xdigit, h + 1) @@ row))
  @@ (d + 4 :> (To(Xdigit, h + 2) @@ row))
  @@ (d + 5 :> (To(Digit \ {"6"}, d + 2) @@ To(Xdigit, h + 2) @@ row))
  @@ (d + 6 :> (To(Digit, d + 4) @@ To(Xdigit, h + 1) @@ row))

\* A host that begins like an IPv4address; q are the states of the four complete octets'
\* separators, r the state of any other reg_name, pc its pct_encoded, row what may follow.
RegOctet(z, e, r, pc, row) ==
  z :> (To({"."}, e) @@ To(Uchar, r) @@ To({"%"}, pc) @@ row)
RegDot(e, x, z, d, r, pc, row) ==
  e :> (To({"x2"}, x) @@ To({"0"}, z) @@ To({"1"}, d) @@ To({"2"}, d + 2)
        @@ To({"3", "5", "6"}, d + 1) @@ To(Uchar, r) @@ To({"%"}, pc) @@ row)
RegTail(d, z, e, r, pc, row) ==
  OctetTail(d, z, To({"."}, e) @@ To(Uchar, r) @@ To({"%"}, pc) @@ row)
\* States k to k+4, with x the corresponding states of the copy that began with char 2.
Reg0(k, x, r, pc, row) ==
  RegOctet(k, k + 1, r, pc, row) @@ RegDot(k + 1, x, k + 2, k + 10, r, pc, row)
  @@ RegOctet(k + 2, k + 3, r, pc, row) @@ RegDot(k + 3, x + 4, k + 4, k + 6, r, pc, row)
  @@ RegOctet(k + 4, k + 5, r, pc, row)
\* States k+5 to k+9.
Reg5(k, x, r, pc, row) ==
  (k + 5 :> (To({"x2"}, x + 8) @@ To(Uchar, r) @@ To({"%"}, pc) @@ row))
  @@ RegTail(k + 6, k + 4, k + 5, r, pc, row)
-----------------------------------------------------------------------------
st451 == (451 :> (Do(Alpha, <<"marku">>, 508) @@ To(Pchar \ {":"}, 452) @@ To({"%"}, 3)
                  @@ To({"/"}, 458) @@ QueryOrFragment(<<>>)))
         @@ (452 :> (To(Pchar \ {":"}, 452) @@ To({"%"}, 3) @@ To({"/"}, 455) @@ QueryOrFragment(<<>>)))
\* Mutant: a fragment that begins with "%" is not marked.
st453Unmarked == 453 :> (Do(Pchar \cup {"/", "?"}, <<"marku">>, 454) @@ To({"%"}, 1))
st453 == 453 :> (Do(Pchar \cup {"/", "?"}, <<"marku">>, 454) @@ Do({"%"}, <<"marku">>, 1))
st454 == (454 :> (To(Pchar \cup {"/", "?"}, 454) @@ To({"%"}, 1))) @@ Pct(1, 454) @@ Pct(3, 452)
         @@ (455 :> (To(Pchar \cup {"/"}, 455) @@ To({"%"}, 5) @@ QueryOrFragment(<<>>)))
st5 == Pct(5, 455)
       @@ (456 :> (Do(Pchar \cup {"/", "?"}, <<"marku">>, 457) @@ Do({"%"}, <<"marku">>, 7)
                   @@ Do({"#"}, <<"marku", "save_query">>, 453)))
st457 == (457 :> (To(Pchar \cup {"/", "?"}, 457) @@ To({"%"}, 7) @@ Do({"#"}, <<"save_query">>, 453)))
         @@ Pct(7, 457)
         @@ (458 :> (To({"/"}, 459) @@ To(Pchar, 455) @@ To({"%"}, 5) @@ QueryOrFragment(<<>>)))
\* After "//": the first character of a userinfo or a host.
AuthorityHead(d, x, r, pc, ip, colon, row) ==
  LET M(S, t) == Do(S, <<"markh">>, t) IN
  M({"x2"}, x) @@ M({"0"}, d) @@ M({"1"}, d + 14) @@ M({"2"}, d + 16) @@ M({"3", "5", "6"}, d + 15)
  @@ M(Uchar, r) @@ M({"%"}, pc) @@ M({"["}, ip) @@ Do({":"}, <<"markh", "save_host">>, colon) @@ row
MarkedUser(t) == Do({"@"}, <<"markh", "save_userinfo">>, t)
MarkedHost == <<"markh", "save_host">>
st459 == 459 :> AuthorityHead(490, 9, 467, 31, 38, 468, EndRel(MarkedHost) @@ MarkedUser(469))
\* IPv4address whose first octet began with char 2: x is its first state.
DottedX(x, z, d) ==
  (x :> To({"0", "1", "2", "3"}, x + 1)) @@ (x + 1 :> To(Digit, x + 2)) @@ (x + 2 :> To({"."}, x + 3))
  @@ OctetHead(x + 3, x + 6, d + 4) @@ (x + 6 :> To({"."}, x + 7))
  @@ OctetHead(x + 7, x + 10, d) @@ (x + 10 :> To({"."}, x + 11))
st9 == DottedX(9, 460, 23) @@ OctetHead(20, 460, 463)
\* port = digit*
Port(s, a, b) == (s :> (Do(Digit, <<"markh">>, s + 1) @@ a)) @@ (s + 1 :> (To(Digit, s + 1) @@ b))
st460 == (460 :> RelHost2) @@ Port(461, EndRel(<<"markh", "save_port">>), EndRel(<<"save_port">>))
         @@ OctetTail(463, 460, RelHost2)
st23 == OctetTail(23, 19, To({"."}, 20)) @@ OctetTail(27, 15, To({"."}, 16))
RegName(r, pc, row) == (r :> (To(Uchar, r) @@ To({"%"}, pc) @@ row)) @@ Pct(pc, r)
st467 == RegName(467, 31, RelHost1)
\* After the ":" of what may be a port or the rest of a userinfo.
UserColon(s, u, pc, port, a, at) ==
  s :> (Do(Digit, <<"markh">>, port) @@ To(Uchar \cup {":"}, u) @@ To({"%"}, pc) @@ a @@ AtUser(at))
UserRest(u, pc, at) == (u :> (To(Uchar \cup {":"}, u) @@ To({"%"}, pc) @@ AtUser(at))) @@ Pct(pc, u)
st468 == UserColon(468, 33, 34, 489, EndRel(<<"markh", "save_port">>), 469) @@ UserRest(33, 34, 469)
st469 == (469 :> AuthorityHead(471, 9, 470, 36, 38, 461, EndRel(MarkedHost))) @@ RegName(470, 36, RelHost2)
st471 == Reg0(471, 13, 470, 36, RelHost2)
st476 == Reg5(471, 13, 470, 36, RelHost2)
st481 == RegTail(481, 473, 474, 470, 36, RelHost2)
st485 == RegTail(485, 471, 472, 470, 36, RelHost2)
-----------------------------------------------------------------------------
(***************************************************************************)
(* IP_literal, after "[".                                                  *)
(***************************************************************************)
Colon(t) == To({":"}, t)
Close(ok) == To({"]"}, ok)
\* State s: a group must begin, or with col the "::" is complete.
Group(s, t, row) == s :> (To(Xdigit, t) @@ row)
Ip38(b) == (38 + b :> (To(Xdigit, 39 + b) @@ Colon(146 + b) @@ To({"v"}, 225 + b)))
           @@ H16(From(39 + b), Colon(43 + b))
           @@ Group(43 + b, 44 + b, Colon(141 + b)) @@ H16(From(44 + b), Colon(48 + b))
Ip48(b) == Group(48 + b, 49 + b, Colon(136 + b)) @@ H16(From(49 + b), Colon(53 + b))
           @@ Group(53 + b, 54 + b, Colon(131 + b)) @@ H16(From(54 + b), Colon(58 + b))
Ip58(b) == Group(58 + b, 59 + b, Colon(126 + b)) @@ H16(From(59 + b), Colon(63 + b))
           @@ Group(63 + b, 64 + b, Colon(113 + b)) @@ H16(From(64 + b), Colon(68 + b))
Ip68(b) == (68 + b :> (MixedHead(96 + b, 104 + b, 112 + b, 69 + b) @@ Colon(111 + b)))
           @@ DottedX(69 + b, 83 + b, 88 + b)
Ip80(b, ok) == OctetHead(80 + b, 83 + b, 84 + b) @@ (83 + b :> Close(ok))
               @@ OctetTail(84 + b, 83 + b, Close(ok))
               @@ OctetTail(88 + b, 79 + b, To({"."}, 80 + b)) @@ OctetTail(92 + b, 75 + b, To({"."}, 76 + b))
Ip96(b, ok) == MixedHex(96 + b, 72 + b, Colon(100 + b)) @@ Group(100 + b, 101 + b, Colon(83 + b))
               @@ H16(<<101 + b, 102 + b, 103 + b, 83 + b>>, Close(ok))
Ip104(b) == MixedDec(104 + b, 96 + b, 72 + b, Colon(100 + b))
Ip111(b) == (111 + b :> To(Xdigit, 101 + b)) @@ Group(112 + b, 97 + b, Colon(100 + b))
            @@ (113 + b :> MixedHead(114 + b, 118 + b, 125 + b, 69 + b))
            @@ MixedHex(114 + b, 72 + b, Colon(111 + b))
Ip118(b) == MixedDec(118 + b, 114 + b, 72 + b, Colon(111 + b)) @@ Group(125 + b, 115 + b, Colon(111 + b))
Ip126(b) == (126 + b :> To(Xdigit, 127 + b)) @@ H16(From(127 + b), Colon(113 + b))
            @@ (131 + b :> To(Xdigit, 132 + b)) @@ H16(From(132 + b), Colon(126 + b))
Ip136(b) == (136 + b :> To(Xdigit, 137 + b)) @@ H16(From(137 + b), Colon(131 + b))
            @@ (141 + b :> To(Xdigit, 142 + b)) @@ H16(From(142 + b), Colon(136 + b))
\* After a leading "::": the groups that may follow, h the hexadecimal states of one and d the others.
Tail6(h, d, b) == MixedHead(h + b, d + b, d + 7 + b, 69 + b)
Then(t, b, ok) == Colon(t + b) @@ Close(ok)
Ip146(b, ok) == (146 + b :> Colon(147 + b)) @@ (147 + b :> (Tail6(148, 217, b) @@ Close(ok)))
                @@ MixedHex(148 + b, 72 + b, Then(152, b, ok)) @@ (152 + b :> Tail6(153, 209, b))
Ip153(b, ok) == MixedHex(153 + b, 72 + b, Then(157, b, ok)) @@ (157 + b :> Tail6(158, 201, b))
                @@ MixedHex(158 + b, 72 + b, Then(162, b, ok))
Ip162(b, ok) == (162 + b :> Tail6(163, 193, b)) @@ MixedHex(163 + b, 72 + b, Then(167, b, ok))
                @@ (167 + b :> Tail6(168, 185, b))
Ip168(b, ok) == MixedHex(168 + b, 72 + b, Then(172, b, ok)) @@ (172 + b :> Tail6(173, 177, b))
                @@ MixedHex(173 + b, 72 + b, Then(111, b, ok))
\* The states d to d+7 of a group after "::" whose first character is not 0.
IpDec(d, h, t, b, ok) == MixedDec(d + b, h + b, 72 + b, Then(t, b, ok))
                         @@ Group(d + 7 + b, h + 1 + b, Then(t, b, ok))
\* IPvFuture
Ip225(b, ok) == (225 + b :> To(Xdigit, 226 + b)) @@ (226 + b :> (To({"."}, 227 + b) @@ To(Xdigit, 226 + b)))
                @@ (227 + b :> To(Uchar \cup {":"}, 228 + b))
                @@ (228 + b :> (To(Uchar \cup {":"}, 228 + b) @@ Close(ok)))
st177 == IpDec(177, 173, 111, 0, 460)
st185 == IpDec(185, 168, 172, 0, 460)
st193 == IpDec(193, 163, 167, 0, 460)
st201 == IpDec(201, 158, 162, 0, 460)
st209 == IpDec(209, 153, 157, 0, 460)
st217 == IpDec(217, 148, 152, 0, 460)
-----------------------------------------------------------------------------
st489 == 489 :> (To(Digit, 489) @@ To(Uchar \cup {":"}, 33) @@ To({"%"}, 34)
                 @@ EndRel(<<"save_port">>) @@ AtUser(469))
st490 == Reg0(490, 13, 467, 31, RelHost1)
st495 == Reg5(490, 13, 467, 31, RelHost1)
st500 == RegTail(500, 492, 493, 467, 31, RelHost1)
st504 == RegTail(504, 490, 491, 467, 31, RelHost1)
\* The characters of a scheme, which may still be the first segment of a relative path.
st508 == (508 :> (To(SchemeChar, 508) @@ To(Pchar \ {":"}, 452) @@ To({"%"}, 3) @@ To({"/"}, 455)
                  @@ Do({":"}, <<"save_scheme">>, 509) @@ QueryOrFragment(<<>>)))
         @@ [s \in {509, 510} |-> To({"/"}, s + 1) @@ To(Pchar, 455) @@ To({"%"}, 5) @@ QueryOrFragment(<<>>)]
st511 == 511 :> AuthorityHead(543, 229, 520, 253, 260, 521, EndAbs(MarkedHost, <<>>) @@ MarkedUser(522))
st229 == DottedX(229, 512, 245) @@ OctetHead(240, 512, 516)
st512 == (512 :> AbsHost2)
         @@ (513 :> (To(Pchar \cup {"/"}, 513) @@ To({"%"}, 243) @@ QueryOrFragment(<<"save_path">>)))
         @@ Pct(243, 513)
st514 == Port(514, EndAbs(<<"markh", "save_port">>, <<>>), EndAbs(<<"save_port">>, <<"markh">>))
         @@ OctetTail(516, 512, AbsHost2)
st245 == OctetTail(245, 239, To({"."}, 240)) @@ OctetTail(249, 235, To({"."}, 236))
st520 == RegName(520, 253, AbsHost1)
st521 == UserColon(521, 255, 256, 542, EndAbs(<<"markh", "save_port">>, <<>>), 522)
         @@ UserRest(255, 256, 522)
st522 == (522 :> AuthorityHead(524, 229, 523, 258, 260, 514, EndAbs(MarkedHost, <<>>)))
         @@ RegName(523, 258, AbsHost2)
st524 == Reg0(524, 233, 523, 258, AbsHost2)
st529 == Reg5(524, 233, 523, 258, AbsHost2)
st534 == RegTail(534, 526, 527, 523, 258, AbsHost2)
st538 == RegTail(538, 524, 525, 523, 258, AbsHost2)
st260 == Ip38(222)
st270 == Ip48(222)
st280 == Ip58(222)
st290 == Ip68(222)
st302 == Ip80(222, 512)
st318 == Ip96(222, 512)
st326 == Ip104(222)
st333 == Ip111(222)
st340 == Ip118(222)
st348 == Ip126(222)
st358 == Ip136(222)
st368 == Ip146(222, 512)
st375 == Ip153(222, 512)
st384 == Ip162(222, 512)
st390 == Ip168(222, 512)
st399 == IpDec(177, 173, 111, 222, 512)
st407 == IpDec(185, 168, 172, 222, 512)
st415 == IpDec(193, 163, 167, 222, 512)
st423 == IpDec(201, 158, 162, 222, 512)
st431 == IpDec(209, 153, 157, 222, 512)
st439 == IpDec(217, 148, 152, 222, 512)
st447 == Ip225(222, 512)
st542 == 542 :> (To(Digit, 542) @@ To(Uchar \cup {":"}, 255) @@ To({"%"}, 256)
                 @@ EndAbs(<<"save_port">>, <<"markh">>) @@ AtUser(522))
st543 == Reg0(543, 233, 520, 253, AbsHost1)
st548 == Reg5(543, 233, 520, 253, AbsHost1)
st553 == RegTail(553, 545, 546, 520, 253, AbsHost1)
st557 == RegTail(557, 543, 544, 520, 253, AbsHost1)

UriDelta ==
  st451 @@ st453 @@ st454 @@ st5 @@ st457 @@ st459 @@ st9 @@ st460 @@ st23 @@ st467 @@ st468
  @@ st469 @@ st471 @@ st476 @@ st481 @@ st485 @@ Ip38(0) @@ Ip48(0) @@ Ip58(0) @@ Ip68(0)
  @@ Ip80(0, 460) @@ Ip96(0, 460) @@ Ip104(0) @@ Ip111(0) @@ Ip118(0) @@ Ip126(0) @@ Ip136(0)
  @@ Ip146(0, 460) @@ Ip153(0, 460) @@ Ip162(0, 460) @@ Ip168(0, 460) @@ st177 @@ st185 @@ st193
  @@ st201 @@ st209 @@ st217 @@ Ip225(0, 460) @@ st489 @@ st490 @@ st495 @@ st500 @@ st504 @@ st508
  @@ st511 @@ st229 @@ st512 @@ st514 @@ st245 @@ st520 @@ st521 @@ st522 @@ st524 @@ st529 @@ st534
  @@ st538 @@ st260 @@ st270 @@ st280 @@ st290 @@ st302 @@ st318 @@ st326 @@ st333 @@ st340 @@ st348
  @@ st358 @@ st368 @@ st375 @@ st384 @@ st390 @@ st399 @@ st407 @@ st415 @@ st423 @@ st431 @@ st439
  @@ st447 @@ st542 @@ st543 @@ st548 @@ st553 @@ st557
=============================================================================
