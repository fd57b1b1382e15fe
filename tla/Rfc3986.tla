------------------------------ MODULE Rfc3986 ------------------------------
(***************************************************************************)
(* What src/JKYi/uri.rl says it implements ("See RFC 3986"): a reader of   *)
(* URI references, written from appendix A of the RFC and not from the     *)
(* grammar of the code, that reads one character class at a time and names *)
(* the positions where the components begin and end.                       *)
(*                                                                         *)
(* Like the code ("support chinese") it allows bytes above 127 in a path,  *)
(* a query and a fragment.                                                 *)
(***************************************************************************)
EXTENDS RagelRows

PcharC == Uchar \cup {"hi", ":", "@"}

\* region  where the reader is; "bad": the string is no URI reference
\* pct     hexadecimal digits that a "%" still needs
\* au      inside an authority: what has been read of it
\* ip      inside an IPv6address: n groups are complete, dbl: a "::" was read, at: since the
\*         last ":", k digits of a group, oct the octets before this one, dec what the digits
\*         of this group are as a decimal octet
\* has     the components there are, "digit": a digit follows the first ":" of the authority,
\*         "exotic": an IPv6address has a "::" or a "."
Start == [region |-> "begin", pct |-> 0, au |-> "none",
          ip |-> [n |-> 0, dbl |-> FALSE, at |-> "none", k |-> 0, oct |-> 0, dec |-> "none"],
          has |-> {}]
Bad == [Start EXCEPT !.region = "bad"]

\* A step: the next reader, the positions that are at this character, and those that follow it.
Step(r, at, next) == [r |-> r, at |-> at, next |-> next]
Stay(r) == Step(r, {}, {})
Fail == Stay(Bad)
In(r, region) == [r EXCEPT !.region = region, !.has = @ \cup ({region} \cap {"query", "fragment"})]
-----------------------------------------------------------------------------
(***************************************************************************)
(* IP-literal                                                              *)
(***************************************************************************)
\* The decimal octets: which digits may follow d, and what they make of it.
Decimal(d, c) ==
  CASE c \notin Digit -> "no"
    [] d = "none" -> CASE c = "0" -> "full" [] c = "1" -> "1" [] c = "2" -> "2" [] OTHER -> "x"
    [] d = "1" -> "more"
    [] d = "2" -> CASE c = "5" -> "25" [] c = "6" -> "full" [] OTHER -> "more"
    [] d = "25" -> IF c = "6" THEN "no" ELSE "full"
    [] d \in {"x", "more"} -> "full"
    [] OTHER -> "no"
NewGroup == [k |-> 0, oct |-> 0, dec |-> "none"]
IpTo(r, f) == Stay([r EXCEPT !.ip = f @@ r.ip])
\* Groups that may be complete before the last one is read.
Room(ip) == IF ip.dbl THEN 6 ELSE 7
HexDigit(r, c) ==
  IF r.ip.k < 4 /\ r.ip.n <= Room(r.ip)
  THEN IpTo(r, [at |-> "group", k |-> r.ip.k + 1, dec |-> Decimal(r.ip.dec, c)]) ELSE Fail
EndOfIp(r) == Stay([r EXCEPT !.au = "literal", !.ip = Start.ip])
Complete(ip, n) == IF ip.dbl THEN n <= 7 ELSE n = 8
StepV6(r, c) ==
  LET ip == r.ip
      double == Stay([r EXCEPT !.has = @ \cup {"exotic"}, !.ip = [dbl |-> TRUE, at |-> "dbl"] @@ NewGroup @@ ip]) IN
  CASE ip.at = "open" /\ c = "v" -> IpTo(r, [at |-> "v"])
    [] ip.at = "open" /\ c = ":" -> IpTo(r, [at |-> "lead"])
    [] ip.at = "lead" /\ c = ":" -> double
    [] ip.at = "sep" /\ c = ":" /\ ~ip.dbl -> double
    [] ip.at \in {"open", "dbl", "sep"} /\ c \in Xdigit -> HexDigit(r, c)
    [] ip.at = "dbl" /\ c = "]" -> EndOfIp(r)
    [] ip.at = "group" /\ c \in Xdigit -> HexDigit(r, c)
    [] ip.at = "group" /\ c = ":" /\ ip.n < Room(ip) -> IpTo(r, [n |-> ip.n + 1, at |-> "sep"] @@ NewGroup)
    [] ip.at = "group" /\ c = "]" /\ Complete(ip, ip.n + 1) -> EndOfIp(r)
    [] ip.at = "group" /\ c = "." /\ ip.dec # "no" /\ Complete(ip, ip.n + 2) ->
         Stay([r EXCEPT !.has = @ \cup {"exotic"}, !.ip = [at |-> "dot", oct |-> 1, dec |-> "none"] @@ ip])
    [] ip.at \in {"dot", "octet"} /\ c \in Digit /\ Decimal(ip.dec, c) # "no" ->
         IpTo(r, [at |-> "octet", dec |-> Decimal(ip.dec, c)])
    [] ip.at = "octet" /\ c = "." /\ ip.oct < 3 -> IpTo(r, [at |-> "dot", oct |-> ip.oct + 1, dec |-> "none"])
    [] ip.at = "octet" /\ c = "]" /\ ip.oct = 3 -> EndOfIp(r)
    [] ip.at \in {"v", "version"} /\ c \in Xdigit -> IpTo(r, [at |-> "version"])
    [] ip.at = "version" /\ c = "." -> IpTo(r, [at |-> "future"])
    [] ip.at \in {"future", "futures"} /\ c \in Uchar \cup {":"} -> IpTo(r, [at |-> "futures"])
    [] ip.at = "futures" /\ c = "]" -> EndOfIp(r)
    [] OTHER -> Fail
-----------------------------------------------------------------------------
(***************************************************************************)
(* authority = [ userinfo "@" ] host [ ":" port ]                          *)
(* au: "new" and "name" before the first ":", "colon", "digits" (which may *)
(* be a port) and "user" (which may not) after it; "host0" and "host"      *)
(* after the "@"; "address" in an IP-literal, "literal" after it; "port0"  *)
(* and "port" after the ":" of a port.                                     *)
(***************************************************************************)
InPort(r) == r.au \in {"colon", "digits", "port0", "port"}
EmptyPort(r) == r.au \in {"colon", "port0"}
PortOf(r) == IF r.au \in {"digits", "port"} THEN {"port"} ELSE {}
\* The positions at the end of an authority.
AuthEnd(r) == (IF InPort(r) THEN {"port1"} ELSE {"host1"}) \cup {"path0"}
Au(r, au) == Stay([r EXCEPT !.au = au])
Leave(r, region) == [In(r, region) EXCEPT !.has = @ \cup PortOf(r), !.au = IF EmptyPort(r) THEN "noport" ELSE "none"]
StepAuth(r, c) ==
  LET au == r.au
      pct == [r EXCEPT !.pct = 2]
      ends == au \notin {"user", "address"} IN
  CASE au = "address" -> StepV6(r, c)
    [] c = "/" /\ ends -> Step(Leave(r, "path"), AuthEnd(r), {})
    [] c = "?" /\ ends -> Step(Leave(r, "query"), AuthEnd(r) \cup {"path1"}, {"query0"})
    [] c = "#" /\ ends -> Step(Leave(r, "fragment"), AuthEnd(r) \cup {"path1"}, {"fragment0"})
    [] c = "@" /\ au \in {"new", "name", "colon", "digits", "user"} ->
         Step([r EXCEPT !.au = "host0", !.has = @ \cup {"userinfo"}], {"userinfo1"}, {"host0"})
    [] c = "[" /\ au \in {"new", "host0"} -> Stay([r EXCEPT !.au = "address", !.ip.at = "open"])
    [] c = ":" /\ au \in {"new", "name"} -> Step([r EXCEPT !.au = "colon"], {"host1"}, {"port0"})
    [] c = ":" /\ au \in {"host0", "host", "literal"} -> Step([r EXCEPT !.au = "port0"], {"host1"}, {"port0"})
    [] c \in Digit /\ au \in {"colon", "digits"} -> Stay([r EXCEPT !.au = "digits", !.has = @ \cup {"digit"}])
    [] c \in Digit /\ au \in {"port0", "port"} -> Au(r, "port")
    [] c \in Uchar /\ au \in {"new", "name"} -> Au(r, "name")
    [] c = "%" /\ au \in {"new", "name"} -> Au(pct, "name")
    [] c \in Uchar /\ au \in {"host0", "host"} -> Au(r, "host")
    [] c = "%" /\ au \in {"host0", "host"} -> Au(pct, "host")
    [] c \in Uchar \cup {":"} /\ au \in {"colon", "digits", "user"} -> Au(r, "user")
    [] c = "%" /\ au \in {"colon", "digits", "user"} -> Au(pct, "user")
    [] OTHER -> Fail
-----------------------------------------------------------------------------
PathStep(r, c, region, chars) ==
  CASE c \in chars -> Stay(In(r, region))
    [] c = "%" -> Stay([In(r, region) EXCEPT !.pct = 2])
    [] c = "?" -> Step(In(r, "query"), {"path1"}, {"query0"})
    [] c = "#" -> Step(In(r, "fragment"), {"path1"}, {"fragment0"})
    [] OTHER -> Fail
StepRfc(r, c) ==
  LET g == r.region IN
  CASE g = "bad" -> Fail
    [] r.pct > 0 -> IF c \in Xdigit THEN Stay([r EXCEPT !.pct = @ - 1]) ELSE Fail
    [] g = "begin" /\ c \in Alpha -> Stay(In(r, "scheme"))
    [] g = "scheme" /\ c \in SchemeChar -> Stay(r)
    [] g = "scheme" /\ c = ":" -> Step([In(r, "hier") EXCEPT !.has = {"scheme"}], {"scheme1"}, {"path0"})
    [] g = "scheme" /\ c = "/" -> Stay(In(r, "path"))
    [] g \in {"begin", "hier"} /\ c = "/" -> Stay(In(r, "slash"))
    [] g = "slash" /\ c = "/" -> Step([In(r, "auth") EXCEPT !.au = "new", !.has = @ \cup {"host"}], {}, {"userinfo0", "host0"})
    [] g = "first" /\ c = "/" -> Stay(In(r, "path"))
    [] g \in {"begin", "scheme", "first"} -> PathStep(r, c, "first", PcharC \ {":"})
    [] g \in {"hier", "slash"} -> PathStep(r, c, "path", PcharC)
    [] g = "auth" -> StepAuth(r, c)
    [] g = "path" -> PathStep(r, c, "path", PcharC \cup {"/"})
    [] g \in {"query", "fragment"} /\ c \in PcharC \cup {"/", "?"} -> Stay(r)
    [] g \in {"query", "fragment"} /\ c = "%" -> Stay([r EXCEPT !.pct = 2])
    [] g = "query" /\ c = "#" -> Step(In(r, "fragment"), {"query1"}, {"fragment0"})
    [] OTHER -> Fail

\* The reader may stop here, and the positions of the end of the string.
Accepts(r) == r.region # "bad" /\ r.pct = 0 /\ r.au \notin {"user", "address"}
EndsAt(r) == CASE r.region = "auth" -> AuthEnd(r) \cup {"path1"}
               [] r.region = "query" -> {"query1"}
               [] r.region = "fragment" -> {"fragment1"}
               [] OTHER -> {"path1"}
=============================================================================
