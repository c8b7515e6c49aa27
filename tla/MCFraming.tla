----------------------------- MODULE MCFraming -----------------------------
(* Values for TLC: bytes 0..2, so that a four byte payload needs both bytes*)
(* of the length prefix; one payload is empty, one looks like a prefix.    *)
EXTENDS Framing

MCPayloads == {<<>>, <<1>>, <<0, 2, 1, 0>>}
=============================================================================
