--------------------------- MODULE MCConnection ---------------------------
(***************************************************************************)
(* Instances of Connection for TLC.  A task is named by its end, its kind  *)
(* and a number.                                                           *)
(***************************************************************************)
EXTENDS Connection

MCEnd == {"a", "b"}

MCEndOf == [c \in Caller |-> c[1]]

MCKind == [c \in Caller |-> c[2]]

\* One end transfers, the other holds a session.
Ordinary == {<<"a", "transfer", 1>>, <<"b", "manifest", 1>>}

\* More transfers of one end than the channels hold, and a session of the other.
Overload == {<<"a", "transfer", 1>>, <<"a", "transfer", 2>>, <<"a", "transfer", 3>>,
             <<"b", "manifest", 1>>}

\* One end pings the other twice.
PingsOfA == [e \in MCEnd |-> IF e = "a" THEN 2 ELSE 0]

NoPings == [e \in MCEnd |-> 0]

AllOne == [ch \in Inbound |-> 1]
===========================================================================
