-------------------------- MODULE MCHttpConnection --------------------------
(***************************************************************************)
(* HttpConnection for TLC: a body of one to three short chunks, and the    *)
(* sizes written in binary, so that a size line may have two digits.       *)
(***************************************************************************)
EXTENDS HttpConnection
MCBodies == {<<1>>, <<2>>, <<1, 2>>, <<2, 1>>, <<1, 1, 1>>}
=============================================================================
