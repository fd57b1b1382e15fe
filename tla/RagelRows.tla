----------------------------- MODULE RagelRows -----------------------------
(***************************************************************************)
(* Character classes and row builders shared by the automata that ragel    *)
(* generated for the URI parser (src/JKYi/uri.rl.cc) and for the HTTP      *)
(* request parser (src/JKYi/http/http11_parser.rl.cc).                     *)
(*                                                                         *)
(* A class is a set of char values that every state of both automata       *)
(* treats alike; the string that names it is one of its members, or says   *)
(* what they are:                                                          *)
(*   "hi" bytes above 127, "nul" 0, "x2".."x6" the control bytes 2 to 6,   *)
(*   "ctl" the other control bytes and ` and |, "vt" 11 and 12, "del" 127, *)
(*   "sub" ! $ & ' * _ ~, "par" ( ) , ; =, "quo" the double quote and \,   *)
(*   "3" 3 and 4, "6" 6 to 9, "A" and "a" the hexadecimal letters,         *)
(*   "G" and "g" the letters not named by themselves.                      *)
(*                                                                         *)
(* A row is a function from classes to <<state, actions>>: where "goto"    *)
(* leads and the embedded actions of the grammar that run on the way.  A   *)
(* class that is not in the row leads to st0, the error state.             *)
(***************************************************************************)
EXTENDS Naturals, Sequences, TLC

Digit == {"0", "1", "2", "3", "5", "6"}
Xdigit == Digit \cup {"A", "a"}
Upper == {"A", "G", "H", "P", "T"}
Alpha == Upper \cup {"a", "g", "v"}
SchemeChar == Alpha \cup Digit \cup {"+", "-", "."}
\* unreserved | sub_delims
Uchar == SchemeChar \cup {"sub", "par"}
Ctl == {"nul", "x2", "x3", "x4", "x5", "x6", "ctl", "tab", "lf", "vt", "cr", "sp", "del"}
Classes == Uchar \cup Ctl \cup {"hi", "quo", "#", "%", "/", ":", "<", ">", "?", "@",
                                "[", "]", "^", "{", "}"}

\* goto t on every class of S, after the actions a
Do(S, a, t) == [c \in S |-> <<t, a>>]
To(S, t) == Do(S, <<>>, t)

\* One transition of an automaton whose rows are delta.
Goto(delta, cs, c) == IF c \in DOMAIN delta[cs] THEN delta[cs][c] ELSE <<0, <<>>>>
-----------------------------------------------------------------------------
(***************************************************************************)
(* Blocks of states that the generated code repeats.                       *)
(***************************************************************************)
\* States s, s+1: the two hexadecimal digits of pct_encoded, then t.
Pct(s, t) == (s :> To(Xdigit, s + 1)) @@ (s + 1 :> To(Xdigit, t))

\* The states q[1..4] after 1 to 4 hexadecimal digits of an h16; row says what may follow it.
H16(q, row) == [s \in {q[i] : i \in 1..4} |->
                  IF s = q[4] THEN row
                  ELSE To(Xdigit, q[(CHOOSE i \in 1..3 : q[i] = s) + 1]) @@ row]
From(s) == <<s, s + 1, s + 2, s + 3>>
-----------------------------------------------------------------------------
(***************************************************************************)
(* Positions in the text that is parsed.  A position is the set of the     *)
(* names that a reader of the text last gave it, so a parser that keeps    *)
(* pointers into texts of any length has finitely many states.             *)
(***************************************************************************)
\* The names N were given anew: an earlier position has them no longer.
Forget(p, N) == p \ N
\* Every name is the name of one position.
Same(p, q) == p \cap q # {}
=============================================================================
