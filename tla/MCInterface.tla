---------------------------- MODULE MCInterface -----------------------------
(* Two peers, one with a lower and one with a higher router id than ours;  *)
(* with one priority besides 0 the ids decide.                             *)
EXTENDS Interface

MCId == [ip \in Peer \cup {MyIp} |-> ip]
=============================================================================
