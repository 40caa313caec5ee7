------------------------------ MODULE LsaStore ------------------------------
(***************************************************************************)
(* What a link state database promises about the LSAs of other routers,    *)
(* and what an acknowledgement promises: at most one instance of each, a   *)
(* complete one; only a newer instance takes its place; an instance is     *)
(* acknowledged when it has been stored.                                   *)
(*                                                                         *)
(* The code keeps it for router LSAs.  Of a network LSA any instance may   *)
(* replace any other (ospf.cpp:827).                                       *)
(***************************************************************************)
EXTENDS LsaHeader

CONSTANTS Key, Lsa, NoLsa

VARIABLES
    store,     \* the instance of each LSA
    ack        \* what the last step acknowledged

Init ==
    /\ store = [k \in Key |-> NoLsa]
    /\ ack = NoLsa

Receive(i) ==
    /\ store[i.key] # NoLsa => Newer(i, store[i.key])
    /\ store' = [store EXCEPT ![i.key] = i]
    /\ ack' \in {i, NoLsa}

Replace(i) ==
    /\ i.key.type = "network"
    /\ store[i.key] # NoLsa
    /\ store' = [store EXCEPT ![i.key] = i]
    /\ ack' = NoLsa

Quiet == store' = store /\ ack' = NoLsa

(* The process ends; the database was in its memory. *)
Crash == Init'

Next == Quiet \/ Crash \/ \E i \in Lsa : Receive(i) \/ Replace(i)

Spec == Init /\ [][Next]_<<store, ack>>
=============================================================================
