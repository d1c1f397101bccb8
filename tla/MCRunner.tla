------------------------------ MODULE MCRunner ------------------------------
(***************************************************************************)
(* Instances of Runner for TLC: two descendants, so that one can fork the  *)
(* other, stay in the group while it leaves, or outlive it.                *)
(***************************************************************************)
EXTENDS Runner

CONSTANTS k1, k2

TwoKin == {k1, k2}
OutputBytes == 1..MaxOutput
NoneOrThree == {0, 3}
OneByte == {1}
=============================================================================
