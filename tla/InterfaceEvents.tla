-------------------------- MODULE InterfaceEvents ---------------------------
(***************************************************************************)
(* The Interface object on a broadcast link: what its events, the passes   *)
(* of call_election and the Hello handler do to its fields, as operators   *)
(* from an interface record to an interface record.  Who takes these steps *)
(* when is in Interface (one router, any peers) and Segment (the routers   *)
(* of a link).                                                             *)
(*                                                                         *)
(* A neighbour is what the election and the adjacency decision read of it; *)
(* module Neighbor has the rest.  "adj" is any state from ExStart up.  The *)
(* receive thread is "hung" once it waits for a retrans_sender that never  *)
(* ends (Neighbor!Hung).                                                   *)
(***************************************************************************)
EXTENDS Election

CONSTANTS
    Id,            \* router id by ip address
    MyPriority     \* router_priority

(* The record i has                                                        *)
(*   ip               ip_interface_address                                 *)
(*   state            InterfaceState                                       *)
(*   dr, bdr          ip addresses of the elected routers                  *)
(*   neighbors        the neighbours, in the order they were added         *)
(*   nbr              what is known of them, by ip address                 *)
(*   waiting_timeout  set by waiting_timer_thread                          *)
(*   waiting_timer    that thread                                          *)
(*   rpc              where the receive thread is                          *)
(*   cause            the interface event that called call_election        *)
(*   old              old_old_dr_ip and old_old_bdr_ip                     *)
(*   no_bdr           the next pass keeps the router out of the Backup scan *)
NoRoles == [dr |-> NoIp, bdr |-> NoIp]

NewNeighbor == [state |-> "down", pri |-> 0, dr |-> NoIp, bdr |-> NoIp]

NewInterface(ip, peers) ==
    [ip |-> ip, state |-> "DOWN", dr |-> NoIp, bdr |-> NoIp,
     neighbors |-> <<>>, nbr |-> [p \in peers |-> NewNeighbor],
     waiting_timeout |-> FALSE, waiting_timer |-> "none",
     rpc |-> "loop", cause |-> "none", old |-> NoRoles, no_bdr |-> FALSE]

Elected == {"DROTHER", "BACKUP", "DR"}
TwoWay  == {"2way", "adj"}

Idle(i) == i.rpc = "loop" /\ i.state # "DOWN"
-----------------------------------------------------------------------------
(* event_interface_up, on a broadcast link: main runs it before the        *)
(* receive thread exists.  Mutant: the branch of a point-to-point link.    *)
Up_PointToPoint(i) == [i EXCEPT !.state = "POINT2POINT"]
Up(i) == IF MyPriority # 0
         THEN [i EXCEPT !.state = "WAITING", !.waiting_timer = "sleep"]
         ELSE [i EXCEPT !.state = "DROTHER"]

(* waiting_timer_thread.  Mutant: the flag is not set. *)
Timeout_Silent(i) == [i EXCEPT !.waiting_timer = "ended"]
Timeout(i) == [i EXCEPT !.waiting_timer = "ended", !.waiting_timeout = TRUE]
-----------------------------------------------------------------------------
(* call_election *)

Self(i) == [ip |-> i.ip, id |-> Id[i.ip], pri |-> MyPriority,
            stands |-> MyPriority # 0, dr |-> i.dr, bdr |-> i.bdr]

(* The neighbours, in list order, and which of them stand for election.    *)
Eligible(i, p) == i.nbr[p].state \in TwoWay /\ i.nbr[p].pri # 0

Candidate(i, p) == [ip |-> p, id |-> Id[p], pri |-> i.nbr[p].pri,
                    stands |-> Eligible(i, p),
                    dr |-> i.nbr[p].dr, bdr |-> i.nbr[p].bdr]

Candidates(i) == [k \in DOMAIN i.neighbors |-> Candidate(i, i.neighbors[k])]

(* The interface event c calls call_election. *)
StartElection(i, c) ==
    [i EXCEPT !.rpc = "elect", !.cause = c, !.no_bdr = FALSE,
              !.old = [dr |-> i.dr, bdr |-> i.bdr]]

(* event_neighbor_change is rejected while WAITING. *)
NeighborChange(i) ==
    IF i.state \in Elected THEN StartElection(i, "change") ELSE i

(* The pass makes the router DR, or Backup.  Mutants: the first is missed, *)
(* or seen also when it was DR already.                                    *)
NewDr_Never(i, e) == FALSE
NewDr_Still(i, e) == e.dr.ip = i.ip
NewDr(i, e)  == e.dr.ip = i.ip /\ i.dr # i.ip
NewBdr(i, e) == e.bdr.ip = i.ip /\ i.bdr # i.ip

(* One pass; another follows if this one made the router DR or Backup.     *)
(* (dr->ip is read even when nobody was elected: line 228.)                *)
ElectionPass(i) ==
    LET e == Elect(Self(i), Candidates(i), i.no_bdr)
    IN  IF e.dr = Nobody
        THEN [i EXCEPT !.rpc = "crashed"]
        ELSE [i EXCEPT !.dr = e.dr.ip, !.bdr = e.bdr.ip,
                       !.no_bdr = NewDr(i, e) \/ (@ /\ ~NewBdr(i, e)),
                       !.rpc = IF NewDr(i, e) \/ NewBdr(i, e)
                               THEN "elect" ELSE "adj"]

(* The adjacency condition of event_2way_received and event_adj_ok. *)
Wanted(i, p) == {i.dr, i.bdr} \cap {i.ip, p} # {}

(* Mutant: only a change of the DR counts. *)
RolesChanged_DrOnly(i) == i.old.dr # i.dr
RolesChanged(i) == i.old # [dr |-> i.dr, bdr |-> i.bdr]

(* When dr or bdr changed, event_adj_ok on each neighbour in turn.  One    *)
(* that must give up its adjacency is the last: the thread hangs there.    *)
AdjOk(i) ==
    LET givesUp(k) == /\ i.nbr[i.neighbors[k]].state = "adj"
                      /\ ~Wanted(i, i.neighbors[k])
        reached == {k \in DOMAIN i.neighbors : \A j \in 1 .. k - 1 : ~givesUp(j)}
        joins   == {i.neighbors[k] : k \in {j \in reached : ~givesUp(j)}}
        hangs   == {i.neighbors[k] : k \in {j \in reached : givesUp(j)}}
        state(p) == IF p \in joins /\ i.nbr[p].state = "2way" /\ Wanted(i, p)
                    THEN "adj"
                    ELSE IF p \in hangs THEN "2way" ELSE i.nbr[p].state
    IN  IF ~RolesChanged(i)
        THEN [i EXCEPT !.rpc = "role"]
        ELSE [i EXCEPT
                 !.nbr = [p \in DOMAIN i.nbr |->
                             [i.nbr[p] EXCEPT !.state = state(p)]],
                 !.rpc = IF hangs # {} THEN "hung" ELSE "role"]

(* The interface event goes on: the new state, and event_backup_seen       *)
(* cancels the waiting timer.                                              *)
SetRole(i) ==
    LET stopped == i.cause = "backup" IN
    [i EXCEPT
        !.state = IF i.dr = i.ip THEN "DR"
                  ELSE IF i.bdr = i.ip THEN "BACKUP" ELSE "DROTHER",
        !.waiting_timer   = IF stopped THEN "joined" ELSE @,
        !.waiting_timeout = @ /\ ~stopped,
        !.rpc = "loop", !.cause = "none", !.no_bdr = FALSE, !.old = NoRoles]

(* What the receive thread does next in an election. *)
Electing == {"elect", "adj", "role"}
GoOn(i) == CASE i.rpc = "elect" -> ElectionPass(i)
             [] i.rpc = "adj"   -> AdjOk(i)
             [] i.rpc = "role"  -> SetRole(i)
-----------------------------------------------------------------------------
(* Timers and packets. *)

(* Line 229, when the thread comes round. *)
WaitExpired(i) == i.rpc = "loop" /\ i.state = "WAITING" /\ i.waiting_timeout
WaitTimer(i) == StartElection(i, "wait")

(* Lines 234-242: no Hello from p for router_dead_interval. *)
Inactivity(i, p) == NeighborChange([i EXCEPT !.nbr[p].state = "down"])

(* Lines 343-357: the interface events of a Hello that changed neighbour p *)
(* from was to is.  A change of priority is looked at first, and then that *)
(* of the DR: either hides a BackupSeen further down.                      *)
(* Mutants: a change of priority, or of the Backup, goes unnoticed; any    *)
(* other DR counts as a change.                                            *)
Known(was)          == was.state # "down"
PriChanged_Never(was, is) == FALSE
PriChanged(was, is) == Known(was) /\ was.pri # is.pri
DrChanged_Any(p, was, is) == Known(was) /\ was.dr # is.dr
DrChanged(p, was, is)  == Known(was) /\ (was.dr = p) # (is.dr = p)
BdrChanged_Never(p, was, is) == FALSE
BdrChanged(p, was, is) == Known(was) /\ (was.bdr = p) # (is.bdr = p)

BackupSeen(i, p, was, is) ==
    /\ i.state = "WAITING" /\ ~PriChanged(was, is)
    /\ \/ is.dr = p /\ is.bdr = NoIp
       \/ is.bdr = p /\ ~DrChanged(p, was, is)

NeighborChanged(p, was, is) ==
    PriChanged(was, is) \/ DrChanged(p, was, is) \/ BdrChanged(p, was, is)

(* Lines 301-325: p is in the list (find_neighbor, add_neighbor), in this  *)
(* state, and says m.                                                      *)
Heard(i, p, m, s) ==
    [i EXCEPT !.neighbors = IF p \in Range(@) THEN @ ELSE Append(@, p),
              !.nbr[p] = [state |-> s, pri |-> m.pri, dr |-> m.dr, bdr |-> m.bdr]]

(* Hello m of p does not list this router: no interface event, and         *)
(* event_1way_received hangs when there was two-way communication.         *)
Hello1Way(i, p, m) ==
    [Heard(i, p, m, "init") EXCEPT
        !.rpc = IF i.nbr[p].state \in TwoWay THEN "hung" ELSE @]

(* It does. *)
BothWays(i, p) == IF i.nbr[p].state \in TwoWay THEN i.nbr[p].state
                  ELSE IF Wanted(i, p) THEN "adj" ELSE "2way"

Hello2Way(i, p, m) ==
    LET j == Heard(i, p, m, BothWays(i, p)) IN
    IF BackupSeen(i, p, i.nbr[p], j.nbr[p]) THEN StartElection(j, "backup")
    ELSE IF NeighborChanged(p, i.nbr[p], j.nbr[p]) THEN NeighborChange(j) ELSE j

(* A DD packet from a neighbour in Init is event_2way_received too, but no *)
(* interface event is looked for.                                          *)
DDInInit(i, p) == [i EXCEPT !.nbr[p].state = BothWays(i, p)]
=============================================================================
