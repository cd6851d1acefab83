------------------------------ MODULE MCWsSession ------------------------------
(* Constant values for TLC: an empty payload and one of a single byte. *)
EXTENDS WsSession, Bitwise

MCBitXor(a, b) == a ^^ b

MCPayloads == {<<>>, <<7>>}

=============================================================================
