----------------------------- MODULE MCManager -----------------------------
(***************************************************************************)
(* Instances of Manager for TLC.  An address is named by its peer, its     *)
(* transport and a number.                                                 *)
(***************************************************************************)
EXTENDS Manager

MCOwner == [a \in Address |-> a[1]]

MCTransport == [a \in Address |-> a[2]]

\* Two local addresses and one of Tailscale.
Three == {<<"p", "Lan", 1>>, <<"p", "Lan", 2>>, <<"p", "Tailscale", 1>>}

Firsts == {a \in Address : a[3] = 1}

Seconds == {a \in Address : a[3] = 2}

\* The sort has one result: the local addresses, then the others, each group in
\* the order it had.
ASSUME SortIsStable ==
  \A n \in 0..4 : \A s \in [1..n -> Address] :
    sort_by_priority(s) =
      {SelectSeq(s, LAMBDA a : Transport[a] = "Lan") \o
         SelectSeq(s, LAMBDA a : Transport[a] # "Lan")}
===========================================================================
