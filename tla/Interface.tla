----------------------------- MODULE Interface ------------------------------
(***************************************************************************)
(* The Interface of one router among peers that say anything: its state    *)
(* machine, the election of Designated and Backup Designated Router, the   *)
(* Hello handler that decides when to run it, and the waiting timer        *)
(* thread.                                                                 *)
(*                                                                         *)
(* call_election is one step per pass of its loop: the Hello sender reads  *)
(* dr and bdr between passes.                                              *)
(***************************************************************************)
EXTENDS InterfaceEvents

CONSTANTS
    Peer,          \* ip addresses of the other routers on the link
    MyIp,          \* ip_interface_address
    Priority       \* priorities a Hello may carry (uint8_t)

ASSUME InterfaceAssumption ==
    /\ Peer \subseteq Nat \ {NoIp} /\ MyIp \in Nat \ ({NoIp} \cup Peer)
    /\ Id \in [Peer \cup {MyIp} -> Nat \ {0}] /\ IsInjective(Id)
    /\ Priority \subseteq Nat /\ MyPriority \in Nat

VARIABLE i         \* the interface, with the thread that runs its events

Ip == Peer \cup {MyIp, NoIp}
NbrRecord == [state: {"down", "init", "2way", "adj"}, pri: Priority \cup {0},
              dr: Ip, bdr: Ip]

InterfaceRecord ==
    [ip: {MyIp}, state: {"DOWN", "WAITING", "DROTHER", "BACKUP", "DR"},
     dr: Ip, bdr: Ip, neighbors: Seq(Peer), nbr: [Peer -> NbrRecord],
     waiting_timeout: BOOLEAN,
     waiting_timer: {"none", "sleep", "ended", "joined"},
     rpc: {"loop", "elect", "adj", "role", "hung", "aborted", "crashed"},
     cause: {"none", "wait", "backup", "change"},
     old: [dr: Ip, bdr: Ip], no_bdr: BOOLEAN]

TypeOK == i \in InterfaceRecord

Init == i = NewInterface(MyIp, Peer)
-----------------------------------------------------------------------------
InterfaceUp == i.state = "DOWN" /\ i' = Up(i)

TimerFires ==
    /\ i.waiting_timer = "sleep" /\ i.rpc # "aborted"
    /\ i' = Timeout(i)

(* The passes of call_election, event_adj_ok, and the rest of the event.   *)
Resume == i.rpc \in Electing /\ i' = GoOn(i)

WaitOver == WaitExpired(i) /\ i' = WaitTimer(i)

InactivityTimer(p) ==
    Idle(i) /\ i.nbr[p].state # "down" /\ i' = Inactivity(i, p)

(* What a Hello from p may say: of its dr only whether it is p itself      *)
(* counts, of its bdr also whether there is one (MyIp: there is another).  *)
Hello(p) == [pri: Priority, dr: {NoIp, p}, bdr: {NoIp, p, MyIp}]

RecvHello1Way(p) == Idle(i) /\ \E m \in Hello(p) : i' = Hello1Way(i, p, m)
RecvHello2Way(p) == Idle(i) /\ \E m \in Hello(p) : i' = Hello2Way(i, p, m)

RecvDDInInit(p) ==
    Idle(i) /\ i.nbr[p].state = "init" /\ i' = DDInInit(i, p)

(* assert(neighbor != nullptr) in the LSR, LSU and LSAck handlers.         *)
RecvFromUnknown(p) ==
    Idle(i) /\ p \notin Range(i.neighbors) /\ i' = [i EXCEPT !.rpc = "aborted"]

(* A DD, LSR or LSU packet of p restarts its adjacency (Neighbor!Restart). *)
AdjacencyError(p) ==
    Idle(i) /\ i.nbr[p].state = "adj" /\ i' = [i EXCEPT !.rpc = "hung"]
-----------------------------------------------------------------------------
Next ==
    \/ InterfaceUp \/ TimerFires \/ Resume \/ WaitOver
    \/ \E p \in Peer :
          \/ InactivityTimer(p) \/ RecvHello1Way(p) \/ RecvHello2Way(p)
          \/ RecvDDInInit(p) \/ RecvFromUnknown(p) \/ AdjacencyError(p)

Spec == Init /\ [][Next]_i

(* main brings the interface up and the timer thread runs; the receive     *)
(* thread finishes what it began, and comes round for the waiting timer,   *)
(* which takes a frame on the link: recv() blocks.                         *)
Fairness ==
    WF_i(InterfaceUp) /\ WF_i(TimerFires) /\ WF_i(Resume) /\ WF_i(WaitOver)

FairSpec == Spec /\ Fairness
-----------------------------------------------------------------------------
(* What the election would now choose. *)
Again == LET e == Elect(Self(i), Candidates(i), FALSE)
         IN  [dr |-> e.dr.ip, bdr |-> e.bdr.ip]
Roles == [dr |-> i.dr, bdr |-> i.bdr]

(* The election would now choose other routers than the last one did. *)
Stale == i.state \in Elected /\ Again # Roles

(* The router gave up the DR role in the last election. *)
Resigned == i.old.dr = MyIp /\ i.dr # MyIp

(* With a priority of its own a router always finds a DR: the dereference  *)
(* at line 228 is safe in every pass, no_bdr or not.                       *)
AlwaysElectsDr == MyPriority # 0 => i.rpc # "crashed"

(* The second pass, which keeps the new DR out of the Backup scan, ends    *)
(* with the router in at most one role; and the state says which.          *)
OneRole ==
    i.rpc = "loop" /\ i.state \in Elected =>
        /\ MyIp \notin {i.dr} \cap {i.bdr}
        /\ i.state = "DR" <=> i.dr = MyIp
        /\ i.state = "BACKUP" <=> i.bdr = MyIp

(* Between events the elected routers are alive and willing: no Hello and  *)
(* no timeout takes the DR's eligibility away without a new election.      *)
ElectedAreEligible ==
    i.rpc = "loop" /\ i.state \in Elected =>
        \A p \in {i.dr, i.bdr} \ {MyIp, NoIp} : Eligible(i, p)

(* Adjacencies follow the election: between events exactly the neighbours  *)
(* that the DR and Backup roles call for are adjacent, although            *)
(* event_adj_ok runs only when dr or bdr changed.                          *)
AdjacentIffWanted ==
    i.rpc = "loop" =>
        \A p \in Peer : i.nbr[p].state \in TwoWay =>
                            (i.nbr[p].state = "adj" <=> Wanted(i, p))

(* call_election repeats until its result is stable, except that a router  *)
(* which ceased to be DR is not reconsidered for Backup.                   *)
ElectionIsStable ==
    i.rpc = "role" /\ MyPriority # 0 => Resigned \/ Again = Roles

(* The Hello handler notices everything that bears on the election, except *)
(* a neighbour that joins: its first declarations go unheard.              *)
OnlyJoinsGoUnnoticed ==
    [][ i.rpc = "loop" /\ i'.rpc = "loop" /\ ~Stale /\ Stale' =>
           \E p \in Peer : /\ i.nbr[p].state \notin TwoWay
                           /\ i'.nbr[p].state \in TwoWay ]_i

(* No pre-emption: while the DR is eligible and claims the role, only a    *)
(* router that claims it too can replace it.                               *)
DrIsNotPreempted ==
    [][ \A p \in Peer :
          i.dr = p /\ i'.dr # p /\ Eligible(i, p) /\ i.nbr[p].dr = p =>
             i'.dr # MyIp /\ i.nbr[i'.dr].dr = i'.dr ]_i

(* The loop of call_election makes at most two passes: only the first, the *)
(* one that finds the roles as the event left them, can call for another.  *)
AtMostTwoPasses ==
    [][ i.rpc = "elect" /\ i'.rpc = "elect" /\ Roles' # Roles =>
           Roles = i.old ]_i

(* The waiting state ends, by timer or by BackupSeen, and every election   *)
(* ends, unless the receive thread hangs or the process aborts.            *)
WaitingEnds ==
    /\ i.state = "WAITING" ~> i.state \in Elected \/ i.rpc \in {"hung", "aborted"}
    /\ i.rpc = "elect" ~> i.rpc \in {"loop", "hung"}
=============================================================================
