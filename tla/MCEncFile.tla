----------------------------- MODULE MCEncFile -----------------------------
(***************************************************************************)
(* Files for EncFile: all short ones of a letter, another byte, a NUL and  *)
(* a byte 255; one in which the letters come together; and one with a NUL  *)
(* in it that is longer than what the streams have room for.               *)
(***************************************************************************)
EXTENDS EncFile

MCFiles ==
    BoundedSeq({1, 9, NUL, EOF}, 2)
        \cup {<<2, 9, 1>>, <<1, 2, 9, NUL, 1, 9, 2, 1>>}
=============================================================================
