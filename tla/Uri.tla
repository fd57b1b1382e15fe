-------------------------------- MODULE Uri --------------------------------
(***************************************************************************)
(* Uri::Create, src/JKYi/uri.rl.cc: the automaton of UriTable run over a   *)
(* string of any length, with the pointer mark and the fields that the     *)
(* embedded actions set from it, next to a reader of RFC 3986.             *)
(*                                                                         *)
(* A position in the string is the set of names that the reader last gave  *)
(* it ("host0": the host begins here), and "now" for the current one.      *)
(* So "std::string(mark, p - mark)" is a pair of such sets, and the states *)
(* are finitely many although the strings are not.                         *)
(***************************************************************************)
EXTENDS UriTable, Rfc3986, SequencesExt

VARIABLES cs,       \* the state of the automaton
          mark,     \* the local of that name: a position, or NULL
          uri,      \* the fields of the Uri that were set: name -> <<begin, end>>
          here,     \* the names of the current position p
          rfc,      \* the reader
          two,      \* a char 2 was read
          result    \* "run", or what Create did: "uri", "nullptr", "throw"
vars == <<cs, mark, uri, here, rfc, two, result>>

NULL == {"NULL"}
\* Mutant: an empty string is not accepted.
FirstFinalEmpty == 452
FirstFinal == 451

\* The embedded actions; w is [mark, uri, ok], ok = FALSE once std::string(NULL, n) has thrown.
Set(w, p, f, next) ==
  IF w.mark = NULL THEN [w EXCEPT !.ok = FALSE]
  ELSE [w EXCEPT !.uri = (f :> <<w.mark, p>>) @@ @, !.mark = next]
save_port(w, p) == [w EXCEPT !.mark = NULL, !.uri = IF p # w.mark THEN ("port" :> <<w.mark, p>>) @@ @ ELSE @]
save_userinfo(w, p) == IF w.mark = NULL THEN w ELSE Set(w, p, "userinfo", NULL)
\* Mutant: the mark is reset, as after the other fields, although a userinfo may end later.
save_hostResets(w, p) == IF w.mark = NULL THEN w ELSE Set(w, p, "host", NULL)
save_host(w, p) == IF w.mark = NULL THEN w ELSE Set(w, p, "host", w.mark)
Embedded(w, p, a) ==
  CASE ~w.ok -> w
    [] a \in {"marku", "markh"} -> [w EXCEPT !.mark = p]
    [] a = "save_scheme" -> Set(w, p, "scheme", NULL)
    [] a = "save_port" -> save_port(w, p)
    [] a = "save_userinfo" -> save_userinfo(w, p)
    [] a = "save_host" -> save_host(w, p)
    [] a = "save_path" -> Set(w, p, "path", NULL)
    [] a = "save_query" -> Set(w, p, "query", NULL)
    [] a = "save_fragment" -> Set(w, p, "fragment", NULL)

\* The actions of the final states, when p = pe: without and with a scheme.
EofRel(s) ==
  CASE s \in {462, 489} -> <<"save_port">>
    [] s \in {460} \cup 463..467 \cup 470..488 \cup 490..507 -> <<"save_host">>
    [] s = 457 -> <<"save_query">>
    [] s = 454 -> <<"save_fragment">>
    [] s = 456 -> <<"marku", "save_query">>
    [] s = 453 -> <<"marku", "save_fragment">>
    [] s \in {461, 468} -> <<"markh", "save_port">>
    [] s \in {459, 469} -> <<"markh", "save_host">>
    [] OTHER -> <<>>
EofAbs(s) ==
  CASE s = 513 -> <<"save_path">>
    [] s \in {514, 521} -> <<"markh", "save_port", "save_path">>
    [] s \in {511, 522} -> <<"markh", "save_host", "save_path">>
    [] s \in {515, 542} -> <<"save_port", "markh", "save_path">>
    [] s \in {512} \cup 516..520 \cup 523..541 \cup 543..560 -> <<"save_host", "markh", "save_path">>
    [] OTHER -> EofRel(s)

ForgetAll(f, N) == [x \in DOMAIN f |-> <<Forget(f[x][1], N), Forget(f[x][2], N)>>]
Run(acts, p, N) ==
  FoldLeft(LAMBDA w, a : Embedded(w, p, a),
           [mark |-> Forget(mark, N), uri |-> ForgetAll(uri, N), ok |-> TRUE], acts)

Init ==
  /\ cs = 451 /\ mark = NULL /\ uri = << >> /\ here = {"scheme0", "path0"}
  /\ rfc = Start /\ two = FALSE /\ result = "run"

\* One character: the goto of the generated code with its actions.
Read(c) ==
  LET st == StepRfc(rfc, c)
      g == Goto(UriDelta, cs, c)
      p == here \cup st.at \cup {"now"}
      w == Run(g[2], p, st.at) IN
  /\ result = "run"
  /\ cs' = g[1]
  /\ rfc' = st.r
  /\ two' = (two \/ c = "x2")
  /\ mark' = Forget(w.mark, st.next \cup {"now"}) /\ uri' = ForgetAll(w.uri, st.next \cup {"now"})
  /\ here' = st.next
  /\ result' = CASE ~w.ok -> "throw" [] g[1] = 0 -> "nullptr" [] OTHER -> "run"

Eof ==
  LET p == here \cup EndsAt(rfc) \cup {"now"}
      w == Run(EofAbs(cs), p, EndsAt(rfc)) IN
  /\ result = "run"
  /\ result' = CASE ~w.ok -> "throw" [] cs >= FirstFinal -> "uri" [] OTHER -> "nullptr"
  /\ mark' = w.mark /\ uri' = w.uri /\ here' = p
  /\ UNCHANGED <<cs, rfc, two>>

Next == Eof \/ \E c \in Classes : Read(c)
Spec == Init /\ [][Next]_vars
-----------------------------------------------------------------------------
Names == {"scheme", "userinfo", "host", "port", "path", "query", "fragment"}

\* Create returns a Uri only for a string that RFC 3986 allows, unless it holds a char 2.
OnlyUris == result = "uri" /\ ~two => Accepts(rfc)

\* Create rejects a string only if RFC 3986 does, or if an IPv6 address is abbreviated or dotted.
\* (Where the automaton stops inside the string, no continuation is allowed either.)
RejectsOnlyOthers ==
  result = "nullptr" => "exotic" \in rfc.has \/ (IF cs = 0 THEN rfc.region = "bad" ELSE ~Accepts(rfc))

\* An accepted string has its components in the fields: each runs from where the component begins
\* to where it ends.  A path is kept after an authority with a scheme only.  The userinfo is not
\* whole when a digit follows its first ":" (489 and 542 mark the digit, as if a port began).
Kept(has) == (has \cap Names) \cup (IF {"scheme", "host"} \subseteq has THEN {"path"} ELSE {})
FieldsAreComponents ==
  result = "uri" /\ ~two =>
    LET has == rfc.has \cup PortOf(rfc) IN
    /\ DOMAIN uri = Kept(has)
    /\ \A f \in DOMAIN uri : (f \o "1") \in uri[f][2]
    /\ \A f \in DOMAIN uri : (f \o "0") \in uri[f][1] \/ (f = "userinfo" /\ "digit" \in has)

\* Create throws (std::string from a null mark) only after an empty port.
ThrowsOnlyOnEmptyPort == result = "throw" /\ ~two => EmptyPort(rfc) \/ rfc.au = "noport"
=============================================================================
