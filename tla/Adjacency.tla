----------------------------- MODULE Adjacency ------------------------------
(***************************************************************************)
(* Two routers running this code on one link, from the first Hello to      *)
(* Full: each one's Neighbor for the other, its receive thread, its Hello  *)
(* sender and its empty DD sender, and the packets in flight, which the    *)
(* link delivers in order and may lose.  The databases do not change and   *)
(* no LSR or LSU is sent; nobody times out.  One router is implemented by  *)
(* the actions of Neighbor (RouterImplementsNeighbor).                     *)
(***************************************************************************)
EXTENDS Integers, Sequences, FiniteSets, Functions

CONSTANTS
    Router,        \* the two router ids
    Header,        \* LSA headers: [lsa, seq]
    NetworkLsa,    \* the LSAs of type LSA_NETWORK; all others LSA_ROUTER
    Database,      \* each router's LSDB: the headers in summary order
    OwnLsa,        \* the header of the router LSA that update_lsas generates
    Options, MyOptions, MaxHdrs,   \* as in NeighborEvents
    Byte,          \* dd_seq_num is two digits here, as it is four bytes
    Capacity,      \* bounds the packets in flight: the timers wait for room
    Lossy          \* the link loses packets

ASSUME AdjacencyAssumption ==
    /\ IsFiniteSet(Router) /\ Cardinality(Router) = 2
    /\ Router \subseteq Nat \ {0}
    /\ Database \in [Router -> Seq(Header)]
    /\ OwnLsa \in [Router -> Header]
    /\ MaxHdrs \in Nat \ {0}
    /\ Byte \in Nat \ {0} /\ Capacity \in Nat \ {0} /\ Lossy \in BOOLEAN

VARIABLES
    nbr,       \* each router's Neighbor object for the other
    adj,       \* its interface's dr and bdr are the two routers
    rpc,       \* where its receive thread is
    event,     \* the event that thread waits in
    sender,    \* its empty DD sender
    chan       \* the packets on their way to it

vars == <<nbr, adj, rpc, event, sender, chan>>

(* The neighbour operations, as the router with this id runs them. *)
N(self) == INSTANCE NeighborEvents WITH
    MyRouterId <- self, RouterId <- Router \cup {0},
    BadHeader <- {}, SeqMod <- Byte * Byte

Other(r) == CHOOSE q \in Router : q # r

MasterId == CHOOSE r \in Router : \A q \in Router : q <= r
SlaveId  == Other(MasterId)

Hello(b) == [type |-> "hello", two_way |-> b]
DD(p)    == [type |-> "dd", dd |-> p]

(* dd_seq_num of the empty DD packet is not put into network byte order    *)
(* (line 896), so the receiver's ntohl swaps it.                           *)
ByteSwap(s) == (s % Byte) * Byte + s \div Byte
EmptyDD(r) ==
    [seq |-> ByteSwap(nbr[r].dd_seq_num), i |-> TRUE, m |-> TRUE, ms |-> TRUE,
     options |-> MyOptions, hdrs |-> <<>>]

Init ==
    /\ nbr = [r \in Router |-> N(r)!NewNeighbor]
    /\ adj = [r \in Router |-> FALSE]
    /\ rpc = [r \in Router |-> "loop"]
    /\ event = [r \in Router |-> "none"]
    /\ sender = [r \in Router |-> "none"]
    /\ chan = [r \in Router |-> <<>>]
-----------------------------------------------------------------------------
(* Router r consumes the packet in front and sends the packets out. *)
Consume(r, out) ==
    chan' = [chan EXCEPT ![r] = Tail(@), ![Other(r)] = @ \o out]

(* A timer sends m: of the packets in flight, only these add to the number. *)
Send(r, m) ==
    /\ Len(chan[MasterId]) + Len(chan[SlaveId]) < Capacity
    /\ chan' = [chan EXCEPT ![Other(r)] = Append(@, m)]

Becomes(r, m) == nbr' = [nbr EXCEPT ![r] = m]

(* The event tears the adjacency down and waits for retrans_sender.        *)
(* Mutant: it does not wait.                                               *)
Lower_NoJoin(r, m, s, e) ==
    /\ Becomes(r, N(r)!TearDown(m, s))
    /\ UNCHANGED <<event, rpc>>
Lower(r, m, s, e) ==
    /\ Becomes(r, N(r)!TearDown(m, s))
    /\ event' = [event EXCEPT ![r] = e]
    /\ rpc' = [rpc EXCEPT ![r] = "join_retrans"]

(* send_ospf_hello_packet_thread lists every neighbour that is not Down. *)
SendHello(r) ==
    /\ Send(r, Hello(nbr[r].state # N(r)!S_DOWN))
    /\ UNCHANGED <<nbr, adj, rpc, event, sender>>

(* event_2way_received on m, which is in state Init. *)
TwoWayReceived(r, m) ==
    IF adj[r]
    THEN /\ Becomes(r, N(r)!StartSender(N(r)!EnterExstart(m)))
         /\ sender' = [sender EXCEPT ![r] = "check"]
    ELSE /\ Becomes(r, [m EXCEPT !.state = N(r)!S_2WAY])
         /\ UNCHANGED sender

RecvHello(r) ==
    LET m == N(r)!HelloReceived(nbr[r], Other(r)) IN
    /\ rpc[r] = "loop" /\ chan[r] # <<>> /\ Head(chan[r]).type = "hello"
    /\ \/ /\ Head(chan[r]).two_way
          /\ IF m.state = N(r)!S_INIT
             THEN TwoWayReceived(r, m)
             ELSE Becomes(r, m) /\ UNCHANGED sender
          /\ UNCHANGED <<rpc, event>>
       \/ /\ ~Head(chan[r]).two_way
          /\ IF m.state >= N(r)!S_2WAY
             THEN Lower(r, m, N(r)!S_INIT, "1way")
             ELSE Becomes(r, m) /\ UNCHANGED <<rpc, event>>
          /\ UNCHANGED sender
    /\ Consume(r, <<>>)
    /\ UNCHANGED adj

(* The election makes the two routers DR and Backup: event_adj_ok.  The    *)
(* sender is created in Finish, as in Neighbor.                            *)
Election(r) ==
    /\ rpc[r] = "loop" /\ ~adj[r]
    /\ adj' = [adj EXCEPT ![r] = TRUE]
    /\ IF nbr[r].state = N(r)!S_2WAY
       THEN /\ Becomes(r, N(r)!EnterExstart(nbr[r]))
            /\ rpc' = [rpc EXCEPT ![r] = "finish"]
            /\ event' = [event EXCEPT ![r] = "restart"]
       ELSE UNCHANGED <<nbr, rpc, event>>
    /\ UNCHANGED <<sender, chan>>

Finish(r) ==
    /\ rpc[r] = "finish"
    /\ Becomes(r, [nbr[r] EXCEPT !.empty_dd_sender_stop = FALSE])
    /\ sender' = [sender EXCEPT ![r] = "check"]
    /\ rpc' = [rpc EXCEPT ![r] = "loop"]
    /\ event' = [event EXCEPT ![r] = "none"]
    /\ UNCHANGED <<adj, chan>>
-----------------------------------------------------------------------------
(* DD packets. *)

(* Line 501: a header of a router LSA is requested when the database has   *)
(* no copy, or an older one.  Line 510 tests ls_age where it means ls_type *)
(* and the age is 0 on the wire: no network LSA is ever requested.         *)
Lacks(r, h) == \A g \in Range(Database[r]) : g.lsa = h.lsa => g.seq < h.seq
Requested(r, p) == {h \in Range(p.hdrs) : h.lsa \notin NetworkLsa /\ Lacks(r, h)}

Accept(r, m, p) ==
    LET k == N(r)!AcceptDD(m, p, Requested(r, p), {OwnLsa[r]}) IN
    /\ Becomes(r, k)
    /\ rpc' = [rpc EXCEPT ![r] = "loop"]
    /\ Consume(r, <<DD(k.last_send_dd)>>)
    /\ UNCHANGED event

(* A DD packet p is in front for router r, in one of these states. *)
HasDD(r, p, at, states) ==
    /\ rpc[r] = at /\ chan[r] # <<>> /\ Head(chan[r]) = DD(p)
    /\ nbr[r].state \in states

(* A master answers nothing in Loading or Full; a slave a duplicate only.  *)
Answer(r, p) ==
    IF N(r)!IsDuplicate(nbr[r], p) /\ nbr[r].is_master
    THEN <<DD(nbr[r].last_send_dd)>> ELSE <<>>

(* (Down cannot occur: a router answers only one it has heard.)            *)
RecvDDIgnored(r, p) ==
    /\ HasDD(r, p, "loop", {N(r)!S_2WAY, N(r)!S_LOADING, N(r)!S_FULL})
    /\ Becomes(r, N(r)!RecordReceived(nbr[r], p))
    /\ Consume(r, IF nbr[r].state = N(r)!S_2WAY THEN <<>> ELSE Answer(r, p))
    /\ UNCHANGED <<adj, rpc, event, sender>>

(* goto DD_BEGIN leaves the packet in front. *)
RecvDDInInit(r, p) ==
    /\ HasDD(r, p, "loop", {N(r)!S_INIT})
    /\ TwoWayReceived(r, N(r)!RecordReceived(nbr[r], p))
    /\ IF adj[r]
       THEN rpc' = [rpc EXCEPT ![r] = "dd"] /\ UNCHANGED chan
       ELSE UNCHANGED rpc /\ Consume(r, <<>>)
    /\ UNCHANGED <<adj, event>>

RecvDDInExstart(r, p) ==
    \E at \in {"loop", "dd"} :
        LET m == IF at = "dd" THEN nbr[r] ELSE N(r)!RecordReceived(nbr[r], p)
            master == N(r)!PeerIsMaster(m, p)
        IN  /\ HasDD(r, p, at, {N(r)!S_EXSTART})
            /\ IF master \/ N(r)!PeerIsSlave(m, p)
               THEN Accept(r, N(r)!NegotiationDone(
                                  [m EXCEPT !.is_master = master,
                                            !.dd_seq_num = p.seq],
                                  Database[r]), p)
               ELSE /\ Becomes(r, m) /\ Consume(r, <<>>)
                    /\ rpc' = [rpc EXCEPT ![r] = "loop"] /\ UNCHANGED event
            /\ UNCHANGED <<adj, sender>>

RecvDDInExchange(r, p) ==
    LET m == N(r)!RecordReceived(nbr[r], p) IN
    /\ HasDD(r, p, "loop", {N(r)!S_EXCHANGE})
    /\ \/ /\ N(r)!IsDuplicate(nbr[r], p)
          /\ Becomes(r, m) /\ Consume(r, Answer(r, p))
          /\ UNCHANGED <<rpc, event>>
       \/ /\ ~N(r)!IsDuplicate(nbr[r], p) /\ N(r)!Unexpected(m, p)
          /\ Lower(r, m, N(r)!S_EXSTART, "restart") /\ Consume(r, <<>>)
       \/ /\ ~N(r)!IsDuplicate(nbr[r], p) /\ ~N(r)!Unexpected(m, p)
          /\ Accept(r, m, p)
    /\ UNCHANGED <<adj, sender>>

RecvDD(r) ==
    /\ chan[r] # <<>> /\ Head(chan[r]).type = "dd"
    /\ LET p == Head(chan[r]).dd IN
       \/ RecvDDIgnored(r, p) \/ RecvDDInInit(r, p)
       \/ RecvDDInExstart(r, p) \/ RecvDDInExchange(r, p)
-----------------------------------------------------------------------------
(* send_empty_dd_packet_thread: the state is checked before the send. *)
SenderMoves(r, from, to) ==
    /\ sender[r] = from
    /\ sender' = [sender EXCEPT ![r] = to]
    /\ UNCHANGED <<adj, rpc, event>>

SenderCheck(r) ==
    /\ SenderMoves(r, "check",
                   IF nbr[r].state # N(r)!S_EXSTART \/ nbr[r].empty_dd_sender_stop
                   THEN "exit" ELSE "send")
    /\ UNCHANGED <<nbr, chan>>

SenderSend(r) ==
    SenderMoves(r, "send", "sleep") /\ Send(r, DD(EmptyDD(r))) /\ UNCHANGED nbr

SenderWakes(r) == SenderMoves(r, "sleep", "check") /\ UNCHANGED <<nbr, chan>>

SenderExits(r) ==
    /\ SenderMoves(r, "exit", "exited")
    /\ Becomes(r, [nbr[r] EXCEPT !.is_empty_dd_sender_running = FALSE])
    /\ UNCHANGED chan

EmptyDDSender(r) ==
    SenderCheck(r) \/ SenderSend(r) \/ SenderWakes(r) \/ SenderExits(r)

(* The link loses the packet in front, unless it was received already. *)
Lose(r) ==
    /\ Lossy /\ chan[r] # <<>> /\ rpc[r] # "dd"
    /\ chan' = [chan EXCEPT ![r] = Tail(@)]
    /\ UNCHANGED <<nbr, adj, rpc, event, sender>>

Receive(r) == RecvHello(r) \/ RecvDD(r) \/ Finish(r)

Next ==
    \E r \in Router :
        \/ SendHello(r) \/ Election(r) \/ Receive(r) \/ EmptyDDSender(r)
        \/ Lose(r)

Spec == Init /\ [][Next]_vars

(* The timers fire, the election comes about, and frames are handled. *)
Fairness ==
    \A r \in Router :
        /\ SF_vars(SendHello(r)) /\ WF_vars(Election(r)) /\ WF_vars(Receive(r))
        /\ WF_vars(SenderCheck(r) \/ SenderWakes(r) \/ SenderExits(r))
        /\ SF_vars(SenderSend(r))

FairSpec == Spec /\ Fairness
-----------------------------------------------------------------------------
(* Router r as the Neighbor of module Neighbor: one empty DD sender, no    *)
(* event that makes the retransmission thread end.                         *)
CONSTANTS DDPacket, NoPacket, NoThread, TheSender

(* Among the DD packets of Neighbor are those that the two routers send.   *)
ASSUME MappingAssumption ==
    \A s \in 0 .. Byte * Byte - 1, i, m, ms \in BOOLEAN, k \in 0 .. MaxHdrs :
        \A hdrs \in [1 .. k -> Header] :
            [seq |-> s, i |-> i, m |-> m, ms |-> ms,
             options |-> MyOptions, hdrs |-> hdrs] \in DDPacket

Nb(r) == INSTANCE Neighbor WITH
    MyRouterId <- r, RouterId <- Router \cup {0},
    BadHeader <- {}, SeqMod <- Byte * Byte,
    Senders <- {TheSender}, Databases <- {Database[r]},
    OwnHeader <- {OwnLsa[r]},
    n <- nbr[r], known <- nbr[r].state # N(r)!S_DOWN, adj <- adj[r],
    rpc <- rpc[r], event <- event[r],
    pkt <- IF rpc[r] = "dd" THEN Head(chan[r]).dd ELSE NoPacket,
    sender <- [i \in {TheSender} |-> sender[r]],
    handle <- IF sender[r] = "none" THEN NoThread ELSE TheSender,
    retrans <- IF nbr[r].state = N(r)!S_DOWN THEN "none" ELSE "check",
    peer_up <- TRUE

(* Each router is a Neighbor whose peer happens to run the same code.      *)
RouterImplementsNeighbor ==
    /\ Nb(MasterId)!Init /\ Nb(SlaveId)!Init
    /\ [][Nb(MasterId)!Next]_(Nb(MasterId)!vars)
    /\ [][Nb(SlaveId)!Next]_(Nb(SlaveId)!vars)
-----------------------------------------------------------------------------
Hung(r) == rpc[r] = "join_retrans"
Full(r) == nbr[r].state = N(r)!S_FULL

(* While both exchange, they agree who is master, and the master is at     *)
(* most one DD packet ahead of the slave: no packet of the exchange is     *)
(* ever taken for another one.                                             *)
InStep ==
    LET m == nbr[MasterId]
        s == nbr[SlaveId]
    IN  m.state >= N(MasterId)!S_EXCHANGE /\ s.state >= N(SlaveId)!S_EXCHANGE =>
            /\ s.is_master /\ ~m.is_master
            /\ \/ m.dd_seq_num = s.dd_seq_num
               \/ m.dd_seq_num = (s.dd_seq_num + 1) % (Byte * Byte)

(* Router r has recorded every LSA in fresh that the other one can give.   *)
KnowsStale(r, fresh) ==
    {h \in Range(Database[Other(r)]) : h \in fresh /\ Lacks(r, h)}
        \subseteq nbr[r].link_state_request_list

RouterLsaHeaders == {h \in Header : h.lsa \notin NetworkLsa}

(* event_exchange_done comes neither early nor for nothing: a Full router  *)
(* has read the other's whole database and the other one has read its own, *)
(* for LSAs of type router, although packets were lost and repeated.       *)
ExchangeIsComplete ==
    \A r \in Router : Full(r) =>
        /\ KnowsStale(r, RouterLsaHeaders)
        /\ Hung(Other(r)) \/ KnowsStale(Other(r), RouterLsaHeaders)

(* Only an empty DD packet can break the adjacency of two such routers: a  *)
(* thread that hangs has just received one in Exchange.                    *)
OnlyEmptyDDHangs ==
    \A r \in Router : Hung(r) =>
        event[r] = "restart" /\ nbr[r].last_recv_dd.i

(* With no loss, two routers that elect each other become Full, or one     *)
(* hangs.                                                                  *)
AdjacencyForms ==
    <>((\A r \in Router : Full(r)) \/ (\E r \in Router : Hung(r)))
-----------------------------------------------------------------------------
(* What neighbor.h says of the events, and the code does not do. *)

(* E_EXCHANGEDONE: each router knows the outdated parts of its database,   *)
(* whatever the type of the LSA.                                           *)
ExchangeKnowsAll == \A r \in Router : Full(r) => KnowsStale(r, Header)
=============================================================================
