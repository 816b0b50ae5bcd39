------------------------- MODULE MCCartridgeLoading -------------------------
(***************************************************************************)
(* Files of the sizes on both sides of each bound of the code and of three *)
(* of the sizes that a ROM may have, each with the size codes that fit it, *)
(* that fit another size, and that fit none.  Their header checksum is     *)
(* right or wrong.                                                         *)
(***************************************************************************)
EXTENDS CartridgeLoading

Sizes == {0, \h148, \h149, \h14F, \h150, \h7FFF, \h8000, \h8001, \h10000, \h7FFFFF, \h800000,
          \h800001}

SizeCodes == {0, 1, 8, 9, 255}

\* 25 zeros sum up to -25, and a size code c makes that -25 - c, so that the
\* checksum is right for d = 0.  A sum that takes a byte too few or too many
\* would find d = 1 or 255 right, and the size code 0 with d = 140 if that
\* byte is the checksum.
MCFiles ==
  {[size |-> n, bytes |-> [a \in {SizeCode, Checksum} |->
                             IF a = SizeCode THEN c ELSE (231 - c + d) % 256]] :
     n \in Sizes, c \in SizeCodes, d \in {0, 1, 140, 255}}
=============================================================================
