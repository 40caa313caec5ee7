------------------------------ MODULE Segment -------------------------------
(***************************************************************************)
(* The routers of one link, all running this code: their Hellos, their     *)
(* elections, and what they end up agreeing on.  Of the database exchange  *)
(* there is only the DD packet that takes a neighbour out of Init          *)
(* (Adjacency has the rest).                                               *)
(*                                                                         *)
(* A Hello is read and received in one step, which may fall between two    *)
(* passes of an election of its sender; lost ones are Hellos that never    *)
(* happen.  A behaviour goes no further than the first receive thread that *)
(* hangs.                                                                  *)
(***************************************************************************)
EXTENDS InterfaceEvents, FiniteSets

CONSTANTS
    Router,        \* ip addresses
    Start,         \* the ways the routers may start
    MaxElecting    \* bounds the elections that run at the same time

(* In a start,                                                             *)
(*   absent   routers are never switched on                                *)
(*   late     come up once the others have agreed on a DR                  *)
(*   early    may stop waiting before they have heard the others           *)
(*   mortal   may die and come back, once                                  *)
ASSUME SegmentAssumption ==
    /\ Router \subseteq Nat \ {NoIp} /\ IsFiniteSet(Router)
    /\ Id \in [Router -> Nat \ {0}] /\ IsInjective(Id)
    /\ MyPriority = 1 /\ MaxElecting \in Nat \ {0}
    /\ Start \subseteq [absent: SUBSET Router, late: SUBSET Router,
                        early: SUBSET Router, mortal: SUBSET Router]

VARIABLES
    rt,            \* the interface of each router
    dead,          \* the processes that have ended
    returned,      \* the routers that died and came back
    start          \* how they start

vars == <<rt, dead, returned, start>>

New(r) == NewInterface(r, Router \ {r})

Init ==
    /\ start \in Start
    /\ rt = [r \in Router |-> New(r)]
    /\ dead = start.absent /\ returned = {}

Alive == Router \ dead
Hung  == \E r \in Alive : rt[r].rpc = "hung"

Becomes(r, i) == rt' = [rt EXCEPT ![r] = i]
Step(r, i) ==
    /\ r \in Alive /\ ~Hung /\ Becomes(r, i)
    /\ rt'[r].rpc \in Electing =>
          Cardinality({q \in Alive \ {r} : rt[q].rpc \in Electing}) < MaxElecting
    /\ UNCHANGED <<dead, returned, start>>
-----------------------------------------------------------------------------
(* send_ospf_hello_packet_thread of p: rtr_pri is always 1, and the list   *)
(* has the neighbours that are not Down.  Mutant: those it hears both ways.*)
Hello(p) == [pri |-> 1, dr |-> rt[p].dr, bdr |-> rt[p].bdr]
Lists_TwoWay(p, r) == rt[p].nbr[r].state \in TwoWay
Lists(p, r) == rt[p].nbr[r].state # "down"

RecvHello(r, p) ==
    /\ p \in Alive /\ rt[p].state # "DOWN" /\ Idle(rt[r])
    /\ Step(r, IF Lists(p, r) THEN Hello2Way(rt[r], p, Hello(p))
               ELSE Hello1Way(rt[r], p, Hello(p)))

(* p has the empty DD sender of an adjacency with r. *)
RecvDD(r, p) ==
    /\ p \in Alive /\ rt[p].nbr[r].state = "adj"
    /\ Idle(rt[r]) /\ rt[r].nbr[p].state = "init"
    /\ Step(r, DDInInit(rt[r], p))

(* Only a dead router is silent for router_dead_interval.  Mutant: Hellos  *)
(* do not restart the timer.                                               *)
InactivityTimer_Soon(r, p) ==
    /\ Idle(rt[r]) /\ rt[r].nbr[p].state # "down"
    /\ Step(r, Inactivity(rt[r], p))
InactivityTimer(r, p) ==
    /\ Idle(rt[r]) /\ rt[r].nbr[p].state # "down" /\ p \in dead
    /\ Step(r, Inactivity(rt[r], p))

(* The routers that have had an election. *)
Voters == {r \in Alive : rt[r].state \in Elected}

UpToDate(r, p) ==
    /\ rt[r].nbr[p].state \in TwoWay
    /\ rt[r].nbr[p].dr = Hello(p).dr /\ rt[r].nbr[p].bdr = Hello(p).bdr

(* d is the DR of every router that is up, and they know of each other     *)
(* what they would say.                                                    *)
Agreed(d) ==
    /\ d \in Voters
    /\ \A r \in Voters :
          /\ rt[r].rpc = "loop" /\ rt[r].dr = d
          /\ \A p \in Voters \ {r} : UpToDate(r, p)
    /\ \A r \in Alive \ Voters : rt[r].state = "DOWN"

InterfaceUp(r) ==
    /\ rt[r].state = "DOWN"
    /\ r \in start.late => \E d \in Router : Agreed(d)
    /\ Step(r, Up(rt[r]))

(* Waiting lasts 40 s and a Hello comes every 10 s: by then the routers    *)
(* that came up with this one have been heard, and list it.                *)
TimerFires(r) ==
    /\ rt[r].waiting_timer = "sleep"
    /\ r \notin start.early =>
          \A p \in Alive \ (start.late \cup {r}) : rt[r].nbr[p].state \in TwoWay
    /\ Step(r, Timeout(rt[r]))

WaitOver(r) == WaitExpired(rt[r]) /\ Step(r, WaitTimer(rt[r]))

Resume(r) == rt[r].rpc \in Electing /\ Step(r, GoOn(rt[r]))

Die(r) ==
    /\ r \in start.mortal \ (dead \cup returned) /\ ~Hung
    /\ dead' = dead \cup {r} /\ UNCHANGED <<rt, returned, start>>

(* A new process: nothing is stored. *)
Return(r) ==
    /\ r \in dead \ start.absent /\ ~Hung
    /\ Becomes(r, New(r))
    /\ dead' = dead \ {r} /\ returned' = returned \cup {r} /\ UNCHANGED start
-----------------------------------------------------------------------------
Next ==
    \E r \in Router :
        \/ InterfaceUp(r) \/ TimerFires(r) \/ Resume(r) \/ WaitOver(r)
        \/ Die(r) \/ Return(r)
        \/ \E p \in Router \ {r} :
              InactivityTimer(r, p) \/ RecvHello(r, p) \/ RecvDD(r, p)

Spec == Init /\ [][Next]_vars

(* The threads run.  The Hello sender never ends, and a Hello that keeps   *)
(* being sent to a router that could handle it is handled.                 *)
Fairness ==
    \A r \in Router :
        /\ WF_vars(InterfaceUp(r) \/ TimerFires(r))
        /\ WF_vars(Resume(r) \/ WaitOver(r))
        /\ \A p \in Router \ {r} : WF_vars(RecvHello(r, p) \/ InactivityTimer(r, p))

FairSpec == Spec /\ Fairness
-----------------------------------------------------------------------------
(* What Interface keeps of the record: of a neighbour's dr and bdr,        *)
(* whether it is the neighbour itself, and of its bdr, whether there is    *)
(* one.                                                                    *)
Claims(r, p, n) == [n EXCEPT !.dr  = IF n.dr = p THEN p ELSE NoIp,
                             !.bdr = IF n.bdr \in {NoIp, p} THEN n.bdr ELSE r]
Abstract(r, j) ==
    [j EXCEPT !.nbr = [p \in Router \ {r} |-> Claims(r, p, j.nbr[p])]]
View(r) == Abstract(r, rt[r])

Local(r) == INSTANCE Interface
            WITH MyIp <- r, Peer <- Router \ {r}, Priority <- {1}, i <- View(r)

(* Refinement: every router among its peers is the router of module        *)
(* Interface among peers that say anything, until its process ends.  So    *)
(* what is kept there of a Hello is all that the election and the          *)
(* comparisons at ospf.cpp:343 look at, and what holds there holds here.   *)
RoutersAreInterfaces ==
    /\ \A r \in Router : Local(r)!Init
    /\ [][\A r \in Router :
             [Local(r)!Next \/ r \in returned' \ returned]_(View(r))]_vars

(* A router that joins a link whose routers have agreed does not make      *)
(* them elect another DR, whichever of them it hears first and whatever    *)
(* its rank (interface.cpp:192, no pre-emption).                           *)
JoinerKeepsDr ==
    \A j \in start.late :
        rt[j].state # "DOWN" /\ ~Hung =>
            \E d \in Router \ start.late :
               \A r \in Router \ (start.late \cup start.absent) : rt[r].dr = d

(* Unless a router is back, before or after its inactivity timers fired,   *)
(* no 1-way Hello ends an adjacency: a receive thread hangs only where it  *)
(* gives one up after an election, and between two routers it never does.  *)
HangsHaveCause ==
    [][ ~Hung /\ Hung' /\ returned = {} =>
           /\ Cardinality(Router \ start.absent) # 2
           /\ \E r \in Alive : /\ rt[r].rpc = "adj"
                              /\ \E p \in Router \ {r} :
                                    rt[r].nbr[p].state = "adj" /\ ~Wanted(rt[r], p) ]_vars

(* The routers do not elect for ever, each because of what another has     *)
(* just elected (ospf.cpp:343, interface.cpp:225).                         *)
ElectionsCease == <>[](Hung \/ \A r \in Alive : rt[r].rpc = "loop")

(* In the end all routers have the same DR, and if they started together   *)
(* the same Backup, with these exceptions: a receive thread hung; both     *)
(* routers of a pair became DR, each before it had heard the other; a      *)
(* router that joined heard the Backup first and elected it DR.  The last  *)
(* two are for good: joining is no change.                                 *)
Split  == Cardinality({r \in Voters : rt[r].state = "DR"}) > 1
Misled(r) ==
    rt[r].dr # NoIp /\ \E p \in Voters \ {r} : rt[r].dr = rt[p].bdr
EventuallyAgree ==
    <>[](\/ Hung
         \/ start.early # {} /\ Split
         \/ \E r \in start.late : Misled(r)
         \/ \E d \in Alive :
               /\ Agreed(d)
               /\ start.late \cup start.early = {} =>
                     \A r \in Voters : rt[r].bdr = rt[d].bdr)
=============================================================================
