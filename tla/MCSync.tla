------------------------------ MODULE MCSync ------------------------------
(***************************************************************************)
(* Instances of Sync for TLC.                                              *)
(***************************************************************************)
EXTENDS Sync

\* One reading makes every comparison of clocks a tie.
OneTime == {1}
===========================================================================
