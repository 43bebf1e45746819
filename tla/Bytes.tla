-------------------------------- MODULE Bytes --------------------------------
(***************************************************************************)
(* Strings as sequences of bytes, and a loop over the bytes of one.  The   *)
(* body of a loop is a function, of what it has made so far and the next   *)
(* byte, so that a fact can be stated of every body.                       *)
(***************************************************************************)
EXTENDS Integers, Sequences

Byte == 0..255
Strings == Seq(Byte)

Loop(body, start, s) ==
  LET run[n \in 0..Len(s)] == IF n = 0 THEN start ELSE body[run[n - 1]][s[n]]
  IN run[Len(s)]

Concat(pieces) == Loop([s \in Strings |-> [piece \in Strings |-> s \o piece]], <<>>, pieces)
=============================================================================
