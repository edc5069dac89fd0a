---------------------------- MODULE MCExchange ----------------------------
(***************************************************************************)
(* The exchange of two replicas for TLC: every pair of events with         *)
(* versions 1..3, two contents, two authors and two clock readings.        *)
(***************************************************************************)
EXTENDS Exchange

CONSTANTS f, x

MCTime == {1, 2}

MCVersion == 1..3

MCKey == <<f, [name |-> x, marks |-> <<>>]>>
===========================================================================
