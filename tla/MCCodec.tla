------------------------------ MODULE MCCodec ------------------------------
(* Codec for TLC: strings of up to two characters, one of them the byte 0,  *)
(* and words that, read as a length, are short enough, or too long.         *)
EXTENDS Codec

MCTexts == {<<>>, <<0>>, <<65, 66>>}
MCWords == {<<0, 0, 0, 0>>, <<1, 0, 0, 0>>, <<0, 1, 0, 0>>}
MCTimes == {<<1, 2, 3, 4, 5, 6, 7, 8>>}
MCPlayers == {<<1, 9>>, <<2, 9>>}
=============================================================================
