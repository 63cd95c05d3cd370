-------------------------- MODULE MCChassisLink ---------------------------
(***************************************************************************)
(* Bytes of three bits: the codes keep the low bits of the real ones, and  *)
(* the checksum is the real one, an exclusive or.  Of the motion frames    *)
(* one holds no code and one the charging header among its data; of the    *)
(* charging frames one holds no code and one the motion header, which also *)
(* makes its checksum look like a tail.                                    *)
(***************************************************************************)
EXTENDS ChassisLink, Bitwise

ThreeBits   == 0 .. 7
XorBits(x, y) == x ^^ y

CodeData    == {<<1, 0>>, <<4, 6>>, <<3, 5>>}
CodeCharge  == {<<2>>, <<3>>}
=============================================================================
