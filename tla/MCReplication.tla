--------------------------- MODULE MCReplication ---------------------------
(***************************************************************************)
(* Instances of Replication for TLC.                                       *)
(***************************************************************************)
EXTENDS Replication, TLC

\* Two clock readings tell an earlier change from a later one.
MCTime == {1, 2}

\* One reading makes every comparison of clocks a tie.
OneTime == {1}

\* Changes of users with timeouts, lost connections and restarts.
TwoEdits == (0..2) \X {0}

ThreeEdits == (0..3) \X {0}

FourEdits == (0..4) \X {0}

ThreeEditsOneFault == (0..3) \X (0..1)

\* A second change and two faults do not come together.
TwoEditsOrTwoFaults == (0..1) \X (0..2) \cup TwoEdits

\* Nodes and contents are interchangeable.
Symmetry == Permutations(Node) \cup Permutations(Hash)
===========================================================================
