----------------------------- MODULE MCSegment ------------------------------
(* Three routers that start together; two that are joined by a third, of   *)
(* the lowest or of the highest rank; one that is joined by two, one after *)
(* the other; and two that need not wait for each other, of which one may  *)
(* die and come back.                                                      *)
EXTENDS Segment

MCId == [r \in Router |-> r]

Together   == [absent |-> {}, late |-> {}, early |-> {}, mortal |-> {}]
Joining(S) == [Together EXCEPT !.late = S]
Pair(m)    == [absent |-> {3}, late |-> {}, early |-> {1, 2}, mortal |-> {m}]

MCStart == {Together, Joining({1}), Joining({3}), Joining({1, 3}), Pair(1), Pair(2)}
=============================================================================
