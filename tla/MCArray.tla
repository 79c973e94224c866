------------------------------ MODULE MCArray ------------------------------
(* Small instances of Array for TLC. *)
EXTENDS Array


(* Byte arrays of length 3.  The inputs are shorter than, as long as and   *)
(* longer than the array; the positions reach the end and one past it; the *)
(* indices include a negative i32.                                         *)
MCInVals == {0, 1, 171}
MCIns == {<<>>, <<1>>, <<1, 171>>, <<171, 1, 1>>, <<1, 1, 171, 171>>}
MCStarts == {0, 1, 2, 3}
MCIdxs == {-1, 0, 2, 3}
(* Strings for from_hex: digits of both cases, a '+' sign, an odd length,  *)
(* one byte short, one byte long, and a character that is no digit.        *)
MCHexIns == {<<"0", "a", "0", "B", "f", "f">>, <<"+", "a", "0", "b", "0", "1">>,
             <<"0", "a", "0", "b", "0">>, <<"0", "a", "0", "b">>,
             <<"0", "a", "0", "b", "0", "1", "0", "2">>,
             <<"0", "g", "0", "0", "0", "0">>}

(* Byte arrays of length 8: two 4-byte blocks, one 8-byte block, and too   *)
(* few bytes for a 16-byte block.                                          *)
WInVals == {0, 1}
WIns == {<<>>, <<1>>}
WStarts == {0, 8}
WIdxs == {0}
WHexIns == {<<"0", "1", "0", "0", "0", "0", "0", "0", "0", "0", "0", "0", "0", "0", "0", "1">>}
=============================================================================
