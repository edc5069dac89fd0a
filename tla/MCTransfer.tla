---------------------------- MODULE MCTransfer ----------------------------
(***************************************************************************)
(* Instances of Transfer for TLC.                                          *)
(***************************************************************************)
EXTENDS Transfer, TLC

CONSTANTS p, q, f, g, d, e, u, v

\* One file sent to one destination.
OneSend == {[peer |-> p, file |-> f, dest |-> d]}

\* Two peers send a file each to their destinations.
TwoPeers == {[peer |-> p, file |-> f, dest |-> d], [peer |-> q, file |-> g, dest |-> e]}

\* One peer sends two files over its connection.
OnePeer == {[peer |-> p, file |-> f, dest |-> d], [peer |-> p, file |-> g, dest |-> e]}

\* Two contents of two chunks: exchanging a chunk makes neither.
TwoContents == {<<u, v>>, <<v, u>>}

\* The same and a prefix of one of them.
ThreeContents == {<<u, v>>, <<v, u>>, <<u>>}

\* Contents of every length up to two chunks.
Lengths == {<<>>, <<u>>, <<u, v>>}

OneChunk == {<<u>>, <<v>>}

\* The two peers with all that is theirs, and the two chunks, are
\* interchangeable.
SwapPeers == p :> q @@ q :> p @@ f :> g @@ g :> f @@ d :> e @@ e :> d

SwapChunks == u :> v @@ v :> u

Symmetry == {SwapPeers, SwapChunks, SwapPeers @@ SwapChunks}
===========================================================================
