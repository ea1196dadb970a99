------------------------------ MODULE MCReaders ------------------------------
(***************************************************************************)
(* A queue of a few items and its readers for TLC.                         *)
(***************************************************************************)
EXTENDS Readers

TwoItems == {1, 2}
ThreeItems == {1, 2, 3}
=============================================================================
