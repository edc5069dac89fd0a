-------------------------- MODULE AtomicPlacement --------------------------
(***************************************************************************)
(* What file transfer promises: a destination is only ever given, in one   *)
(* step, the whole content that a sender announced for it.  Partial or     *)
(* mixed content is never placed.                                          *)
(***************************************************************************)
CONSTANTS
  Dest,      \* destinations: a folder and a relative path
  Content    \* file contents

VARIABLES
  announced, \* pairs <<destination, content>> that senders announced
  placed     \* pairs <<destination, content>> that were put in place

vars == <<announced, placed>>

Init == announced = {} /\ placed = {}

Announce(d, c) ==
  /\ announced' = announced \cup {<<d, c>>}
  /\ UNCHANGED placed

Place(d, c) ==
  /\ <<d, c>> \in announced
  /\ placed' = placed \cup {<<d, c>>}
  /\ UNCHANGED announced

Next == \E d \in Dest, c \in Content : Announce(d, c) \/ Place(d, c)

Spec == Init /\ [][Next]_vars
===========================================================================
