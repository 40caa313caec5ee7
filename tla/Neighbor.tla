------------------------------ MODULE Neighbor ------------------------------
(***************************************************************************)
(* One Neighbor of an Interface, and the threads that share it:            *)
(*   - recv_ospf_packet_thread, the only thread that runs events (rpc);    *)
(*   - send_empty_dd_packet_thread, one per pthread_create (sender[i]);    *)
(*   - retrans_sender_thread (retrans).                                    *)
(* The peer may send anything at any time; what the rest of the router     *)
(* does to this neighbour (elections, LSAs from other neighbours) is free. *)
(*                                                                         *)
(* A handler of the receive thread is one step, except that it is cut at   *)
(* every pthread_join and at the goto DD_BEGIN: the other threads run      *)
(* there.  An LSU carries one LSA here; a longer one is several steps.     *)
(***************************************************************************)
EXTENDS NeighborEvents

CONSTANTS
    Senders,       \* thread ids of empty DD senders; bounds those alive at once
    NoThread,      \* pthread_t 0
    Databases,     \* header lists the LSDB may hold when summarised
    DDPacket,      \* DD packets the peer may send
    OwnHeader,     \* headers of the LSAs that update_lsas generates
    NoPacket

ASSUME ThreadAssumption ==
    /\ NoThread \notin Senders
    /\ Databases \subseteq Seq(Header) /\ DDPacket \subseteq OSPFDD
    /\ OwnHeader \subseteq Header
    /\ NoPacket \notin OSPFDD

VARIABLES
    n,         \* the Neighbor object
    known,     \* it is in Interface::neighbors
    adj,       \* the interface's dr or bdr is the router itself or this peer
    rpc,       \* where the receive thread is
    event,     \* the event whose joins it waits for
    pkt,       \* the DD packet that goto DD_BEGIN handles again
    sender,    \* the empty DD senders
    handle,    \* Neighbor::empty_dd_sender
    retrans,   \* retrans_sender
    peer_up    \* the peer still sends

vars == <<n, known, adj, rpc, event, pkt, sender, handle, retrans, peer_up>>
threads == <<sender, handle, retrans>>

RecvPc   == {"loop", "dd", "elect", "join_retrans", "join_sender", "finish",
             "stuck", "aborted"}
Event    == {"none", "1way", "adj_lost", "restart", "inactivity"}
SenderPc == {"none", "check", "send", "sleep", "exit", "exited"}

TypeOK ==
    /\ n \in NeighborRecord
    /\ known \in BOOLEAN /\ adj \in BOOLEAN /\ peer_up \in BOOLEAN
    /\ rpc \in RecvPc /\ event \in Event
    /\ pkt \in DDPacket \cup {NoPacket}
    /\ sender \in [Senders -> SenderPc]
    /\ handle \in Senders \cup {NoThread}
    /\ retrans \in {"none", "check", "sleep", "exited"}

Init ==
    /\ n = NewNeighbor
    /\ known = FALSE /\ adj = FALSE /\ peer_up = TRUE
    /\ rpc = "loop" /\ event = "none" /\ pkt = NoPacket
    /\ sender = [i \in Senders |-> "none"]
    /\ handle = NoThread
    /\ retrans = "none"
-----------------------------------------------------------------------------
Free == {i \in Senders : sender[i] \in {"none", "exited"}}

(* pthread_create(&empty_dd_sender, ...): the handle of an earlier sender  *)
(* is overwritten, whether that thread has ended or not.                   *)
Spawn ==
    \E i \in Free :
        /\ sender' = [sender EXCEPT ![i] = "check"]
        /\ handle' = i

(* event_2way_received on m, which is in state Init.                       *)
(* Mutant: it does not ask whether to become adjacent.                     *)
TwoWayReceived_Always(m) == n' = StartSender(EnterExstart(m)) /\ Spawn
TwoWayReceived(m) ==
    IF adj
    THEN n' = StartSender(EnterExstart(m)) /\ Spawn
    ELSE /\ n' = [m EXCEPT !.state = S_2WAY]
         /\ UNCHANGED <<sender, handle>>

(* An event lowers m to state s and waits for retrans_sender. *)
Lower(m, s, e) ==
    /\ n' = TearDown(m, s)
    /\ event' = e /\ rpc' = "join_retrans"

(* event_seq_number_mismatch and event_bad_ls_req are the same code. *)
Restart(m) ==
    IF m.state >= S_EXCHANGE
    THEN Lower(m, S_EXSTART, "restart")
    ELSE n' = m /\ UNCHANGED <<event, rpc>>
-----------------------------------------------------------------------------
(* Hello packets. *)

(* The Hello lists this router: 2-Way; then, maybe, an election. *)
RecvHello2Way ==
    \E id \in RouterId \ {0}, elect \in BOOLEAN :
        LET m == HelloReceived(n, id) IN
        /\ rpc = "loop" /\ peer_up
        /\ known' = TRUE
        /\ IF m.state = S_INIT
           THEN TwoWayReceived(m)
           ELSE n' = m /\ UNCHANGED <<sender, handle>>
        /\ retrans' = IF n.state = S_DOWN THEN "check" ELSE retrans
        /\ rpc' = IF elect THEN "elect" ELSE "loop"
        /\ UNCHANGED <<adj, event, pkt, peer_up>>

(* It does not: event_1way_received. *)
RecvHello1Way ==
    \E id \in RouterId \ {0} :
        LET m == HelloReceived(n, id) IN
        /\ rpc = "loop" /\ peer_up
        /\ known' = TRUE
        /\ IF m.state >= S_2WAY
           THEN Lower(m, S_INIT, "1way")
           ELSE n' = m /\ UNCHANGED <<event, rpc>>
        /\ retrans' = IF n.state = S_DOWN THEN "check" ELSE retrans
        /\ UNCHANGED <<adj, pkt, sender, handle, peer_up>>

(* call_election, for this Hello or inactivity (elect) or because of       *)
(* another neighbour or the wait timer (loop).  event_adj_ok follows when  *)
(* dr or bdr changed; unless adj changes with them it does nothing here.   *)
(* (Free # {}: Senders bounds the senders alive at once.)                  *)
Election ==
    \E wanted \in BOOLEAN :
        /\ rpc \in {"loop", "elect"}
        /\ adj' = wanted
        /\ \/ /\ n.state = S_2WAY /\ wanted /\ Free # {}
              /\ LET busy == n.is_empty_dd_sender_running IN
                 /\ n' = [EnterExstart(n) EXCEPT
                             !.empty_dd_sender_stop = @ \/ busy]
                 /\ rpc' = IF busy THEN "join_sender" ELSE "finish"
              /\ event' = "restart"
           \/ n.state >= S_EXSTART /\ ~wanted /\ Lower(n, S_2WAY, "adj_lost")
           \/ /\ ~(n.state = S_2WAY /\ wanted)
              /\ ~(n.state >= S_EXSTART /\ ~wanted)
              /\ rpc' = "loop"
              /\ UNCHANGED <<n, event>>
        /\ UNCHANGED <<known, pkt, threads, peer_up>>
-----------------------------------------------------------------------------
(* DD packets. *)

(* Down and 2-Way reject the packet, Loading and Full can only answer a    *)
(* duplicate; line 378 has recorded it all the same.                       *)
RecvDDIgnored ==
    \E p \in DDPacket :
        /\ rpc = "loop" /\ peer_up /\ known
        /\ n.state \in {S_DOWN, S_ATTEMPT, S_2WAY, S_LOADING, S_FULL}
        /\ n' = RecordReceived(n, p)
        /\ UNCHANGED <<known, adj, rpc, event, pkt, threads, peer_up>>

(* Init: the packet shows two-way communication, and when that leads to    *)
(* ExStart it is handled again, after the reset forgot it was received.    *)
RecvDDInInit ==
    \E p \in DDPacket :
        /\ rpc = "loop" /\ peer_up /\ n.state = S_INIT
        /\ TwoWayReceived(RecordReceived(n, p))
        /\ rpc' = IF adj THEN "dd" ELSE "loop"
        /\ pkt' = IF adj THEN p ELSE NoPacket
        /\ UNCHANGED <<known, adj, event, retrans, peer_up>>

(* A packet in sequence: its headers are checked, then it is accepted. *)
InSequence(m, p) ==
    IF WellTyped(p)
    THEN /\ \E want \in SUBSET Range(p.hdrs), own \in SUBSET OwnHeader :
                n' = AcceptDD(m, p, want, own)
         /\ rpc' = "loop" /\ UNCHANGED event
    ELSE Lower(IF m.is_master THEN [m EXCEPT !.dd_seq_num = p.seq] ELSE m,
               S_EXSTART, "restart")

(* ExStart: who is master is settled by the router ids. *)
Negotiate(m, p) ==
    IF PeerIsMaster(m, p) \/ PeerIsSlave(m, p)
    THEN \E db \in Databases :
            InSequence(NegotiationDone(
                [m EXCEPT !.is_master = PeerIsMaster(m, p),
                          !.dd_seq_num = p.seq], db), p)
    ELSE n' = m /\ rpc' = "loop" /\ UNCHANGED event

RecvDDInExstart ==
    \E p \in DDPacket :
        /\ rpc = "loop" /\ peer_up /\ n.state = S_EXSTART
        /\ Negotiate(RecordReceived(n, p), p)
        /\ UNCHANGED <<known, adj, pkt, threads, peer_up>>

(* goto DD_BEGIN *)
DDBegin ==
    /\ rpc = "dd"
    /\ Negotiate(n, pkt)
    /\ pkt' = NoPacket
    /\ UNCHANGED <<known, adj, threads, peer_up>>

RecvDDInExchange ==
    \E p \in DDPacket :
        LET m == RecordReceived(n, p) IN
        /\ rpc = "loop" /\ peer_up /\ n.state = S_EXCHANGE
        /\ \/ IsDuplicate(n, p) /\ n' = m /\ UNCHANGED <<rpc, event>>
           \/ ~IsDuplicate(n, p) /\ Unexpected(m, p) /\ Restart(m)
           \/ ~IsDuplicate(n, p) /\ ~Unexpected(m, p) /\ InSequence(m, p)
        /\ UNCHANGED <<known, adj, pkt, threads, peer_up>>
-----------------------------------------------------------------------------
(* LSR, LSU and LSAck packets, as far as they touch this neighbour. *)

(* assert(neighbor != nullptr) in all three handlers. *)
RecvFromUnknown ==
    /\ rpc = "loop" /\ peer_up /\ ~known
    /\ rpc' = "aborted"
    /\ UNCHANGED <<n, known, adj, event, pkt, threads, peer_up>>

(* An LSR for an LSA the database lacks. *)
RecvBadLsr ==
    /\ rpc = "loop" /\ peer_up /\ n.state >= S_EXCHANGE
    /\ Restart(n)
    /\ UNCHANGED <<known, adj, pkt, threads, peer_up>>

(* An LSU from any neighbour brings h, newer than the database copy.       *)
(* flooding_lsa serves a request only in Exchange (and Loading), unless    *)
(* the request was for a newer instance yet; lines 754-759 then drop h     *)
(* from the retransmission list, also where flooding_lsa just put it.      *)
RecvNewLsa ==
    \E h \in Header, served \in BOOLEAN :
        /\ rpc = "loop" /\ known
        /\ n' = [n EXCEPT
                    !.link_state_request_list =
                        IF served /\ n.state \in {S_EXCHANGE, S_LOADING}
                        THEN @ \ {h} ELSE @,
                    !.link_state_retransmission_list = @ \ {h}]
        /\ UNCHANGED <<known, adj, rpc, event, pkt, threads, peer_up>>

(* An LSU from the peer brings h, which the database holds already: an     *)
(* error if h was requested, else an implied acknowledgement.              *)
RecvOldLsa ==
    \E h \in Header :
        /\ rpc = "loop" /\ peer_up /\ known
        /\ IF h \in n.link_state_request_list
           THEN Restart(n)
           ELSE /\ n' = [n EXCEPT !.link_state_retransmission_list = @ \ {h}]
                /\ UNCHANGED <<rpc, event>>
        /\ UNCHANGED <<known, adj, pkt, threads, peer_up>>

RecvLsAck ==
    \E h \in Header :
        /\ rpc = "loop" /\ peer_up /\ n.state >= S_EXCHANGE
        /\ n' = [n EXCEPT !.link_state_retransmission_list = @ \ {h}]
        /\ UNCHANGED <<known, adj, rpc, event, pkt, threads, peer_up>>

(* Another neighbour became Full, so update_lsas queued own LSAs here too. *)
OwnLsas ==
    \E own \in SUBSET OwnHeader :
        /\ rpc = "loop" /\ n.state = S_FULL
        /\ n' = [n EXCEPT !.link_state_retransmission_list = @ \cup own]
        /\ UNCHANGED <<known, adj, rpc, event, pkt, threads, peer_up>>
-----------------------------------------------------------------------------
(* The rest of the receive thread. *)

(* Lines 234-242: no Hello for router_dead_interval seconds.               *)
(* Mutants: it lowers the neighbour to Init; it runs from 2-Way up only.   *)
InactivityTimer_ToInit ==
    /\ rpc = "loop" /\ n.state # S_DOWN
    /\ Lower(n, S_INIT, "inactivity")
    /\ UNCHANGED <<known, adj, pkt, threads, peer_up>>
InactivityTimer_TwoWayOnly ==
    /\ rpc = "loop" /\ n.state >= S_2WAY
    /\ Lower(n, S_DOWN, "inactivity")
    /\ UNCHANGED <<known, adj, pkt, threads, peer_up>>
InactivityTimer ==
    /\ rpc = "loop" /\ n.state # S_DOWN
    /\ Lower(n, S_DOWN, "inactivity")
    /\ UNCHANGED <<known, adj, pkt, threads, peer_up>>

(* event_1way_received and event_adj_ok wait for the empty DD sender       *)
(* without asking whether there is one.  Mutants: all events do; none do.  *)
WaitsForSender_Always == TRUE
WaitsForSender_Never  == FALSE
WaitsForSender ==
    event \in {"1way", "adj_lost"} \/ n.is_empty_dd_sender_running

(* pthread_join(retrans_sender) returns.  An event that has to wait for    *)
(* the empty DD sender too tells it to stop.                               *)
JoinRetrans ==
    /\ rpc = "join_retrans" /\ retrans = "exited"
    /\ retrans' = "none"
    /\ n' = [ClearLists(n) EXCEPT !.empty_dd_sender_stop = @ \/ WaitsForSender]
    /\ rpc' = IF WaitsForSender THEN "join_sender" ELSE "finish"
    /\ UNCHANGED <<known, adj, event, pkt, sender, handle, peer_up>>

(* pthread_join(empty_dd_sender) returns. *)
JoinSender ==
    /\ rpc = "join_sender" /\ handle # NoThread /\ sender[handle] = "exited"
    /\ sender' = [sender EXCEPT ![handle] = "none"]
    /\ rpc' = "finish"
    /\ UNCHANGED <<n, known, adj, event, pkt, handle, retrans, peer_up>>

(* What an event does after its joins. *)
Finish ==
    /\ rpc = "finish"
    /\ IF event = "restart"
       THEN n' = [n EXCEPT !.empty_dd_sender_stop = FALSE] /\ Spawn
       ELSE UNCHANGED <<n, sender, handle>>
    /\ rpc' = IF event = "inactivity" THEN "elect" ELSE "loop"
    /\ event' = "none"
    /\ UNCHANGED <<known, adj, pkt, retrans, peer_up>>

(* The receive thread, shared by all neighbours, blocks for good in an     *)
(* event of another one; an election may have changed dr and bdr before.   *)
OtherNeighborBlocks ==
    \E wanted \in BOOLEAN :
        /\ rpc \in {"loop", "elect"}
        /\ rpc' = "stuck"
        /\ adj' = wanted
        /\ UNCHANGED <<n, known, event, pkt, threads, peer_up>>

PeerDies ==
    /\ peer_up
    /\ peer_up' = FALSE
    /\ UNCHANGED <<n, known, adj, rpc, event, pkt, threads>>
-----------------------------------------------------------------------------
(* send_empty_dd_packet_thread *)
SenderMoves(i, from, to) ==
    /\ sender[i] = from
    /\ sender' = [sender EXCEPT ![i] = to]
    /\ UNCHANGED <<known, adj, rpc, event, pkt, handle, retrans, peer_up>>

SenderCheck(i) ==
    /\ SenderMoves(i, "check",
                   IF n.state # S_EXSTART \/ n.empty_dd_sender_stop
                   THEN "exit" ELSE "send")
    /\ UNCHANGED n

(* It sends an empty DD packet with whatever dd_seq_num there is by now. *)
SenderSend(i)  == SenderMoves(i, "send", "sleep") /\ UNCHANGED n
SenderWakes(i) == SenderMoves(i, "sleep", "check") /\ UNCHANGED n

SenderExits(i) ==
    /\ SenderMoves(i, "exit", "exited")
    /\ n' = [n EXCEPT !.is_empty_dd_sender_running = FALSE]

SenderThread(i) ==
    SenderCheck(i) \/ SenderSend(i) \/ SenderWakes(i) \/ SenderExits(i)

(* retrans_sender_thread looks at the state only between two sleeps.       *)
(* Mutant: it ends as soon as there is nothing to retransmit.              *)
RetransCheck_BelowExchange ==
    /\ retrans = "check"
    /\ retrans' = IF n.state < S_EXCHANGE THEN "exited" ELSE "sleep"
    /\ UNCHANGED <<n, known, adj, rpc, event, pkt, sender, handle, peer_up>>
RetransCheck ==
    /\ retrans = "check"
    /\ retrans' = IF n.state = S_DOWN THEN "exited" ELSE "sleep"
    /\ UNCHANGED <<n, known, adj, rpc, event, pkt, sender, handle, peer_up>>

RetransSend ==
    /\ retrans = "sleep"
    /\ retrans' = "check"
    /\ UNCHANGED <<n, known, adj, rpc, event, pkt, sender, handle, peer_up>>

RetransThread == RetransCheck \/ RetransSend
-----------------------------------------------------------------------------
(* The receive thread going on by itself, with no packet to wait for. *)
Resume ==
    \/ JoinRetrans \/ JoinSender \/ Finish \/ DDBegin
    \/ rpc = "elect" /\ Election

Next ==
    \/ RecvHello2Way \/ RecvHello1Way \/ Election
    \/ RecvDDIgnored \/ RecvDDInInit \/ RecvDDInExstart \/ DDBegin
    \/ RecvDDInExchange
    \/ RecvFromUnknown \/ RecvBadLsr \/ RecvNewLsa \/ RecvOldLsa
    \/ RecvLsAck \/ OwnLsas
    \/ InactivityTimer \/ JoinRetrans \/ JoinSender \/ Finish
    \/ OtherNeighborBlocks \/ PeerDies
    \/ \E i \in Senders : SenderThread(i)
    \/ RetransThread

Spec == Init /\ [][Next]_vars

(* The receive thread resumes, every other thread keeps running, and the   *)
(* frames of other hosts on the link keep the receive loop turning, so     *)
(* that a silent peer is noticed: recv() blocks, the check does not run    *)
(* without a frame.  Nothing makes packets of this peer arrive.            *)
Fairness ==
    /\ WF_vars(Resume)
    /\ \A i \in Senders : WF_vars(SenderThread(i))
    /\ WF_vars(RetransThread)
    /\ WF_vars(~peer_up /\ InactivityTimer)

FairSpec == Spec /\ Fairness
-----------------------------------------------------------------------------
(* The receive thread waits for a thread that ends only in state Down, in  *)
(* an event that leaves the neighbour above Down: it waits for ever.       *)
Hung == rpc = "join_retrans" /\ event # "inactivity"

(* retrans_sender runs exactly while the neighbour is not Down, and every  *)
(* pthread_join has a thread to join: retrans_sender and empty_dd_sender   *)
(* are never joined before they are created, nor twice.                    *)
JoinsHaveTargets ==
    /\ n.state # S_DOWN => retrans \in {"check", "sleep"}
    /\ n.state = S_DOWN /\ rpc # "join_retrans" => retrans = "none"
    /\ rpc = "join_retrans" => retrans # "none"
    /\ rpc = "join_sender" => handle # NoThread /\ sender[handle] # "none"

(* In ExStart somebody retransmits the empty DD packet: the last sender    *)
(* created has been told neither to stop nor by any state it saw.  Only a  *)
(* receive thread that hangs, or that is about to create it, has none.     *)
ExstartHasSender ==
    n.state = S_EXSTART /\ rpc \in {"loop", "dd", "elect", "stuck"} =>
        /\ ~n.empty_dd_sender_stop
        /\ handle # NoThread
        /\ sender[handle] \in {"check", "send", "sleep"}

(* The three lists belong to a database exchange: below Exchange they are  *)
(* empty again, whatever sequence of packets and timeouts led back there.  *)
ListsEmptyBelowExchange ==
    n.state < S_EXCHANGE /\ rpc # "join_retrans" =>
        /\ n.database_summary_list = <<>>
        /\ n.link_state_request_list = {}
        /\ n.link_state_retransmission_list = {}

(* The headers of the last DD packet are still the front of the summary    *)
(* list, so acknowledging them (lines 528-534) pops exactly those and      *)
(* never pops an empty list; a Full neighbour has acknowledged them all.   *)
(* In ExStart nothing is sent yet that the first packet could acknowledge. *)
PopsWhatItSent ==
    /\ n.state = S_EXSTART /\ rpc # "join_retrans" =>
          n.last_send_dd.hdrs = <<>>
    /\ n.state >= S_EXCHANGE =>
          n.last_send_dd.hdrs =
              Take(n.database_summary_list, Len(n.last_send_dd.hdrs))
    /\ n.state = S_FULL => n.database_summary_list = <<>>

(* Whenever the receive thread is back in its loop, an adjacency exists    *)
(* exactly where the interface's dr and bdr call for one.                  *)
AdjacentIffWanted ==
    rpc = "loop" =>
        /\ n.state >= S_EXSTART => adj
        /\ n.state = S_2WAY => ~adj

(* No DD sender is left to wait for in 2-Way, so event_adj_ok and its      *)
(* is_empty_dd_sender_running flag, which it never sets, cannot disagree.  *)
NoSenderIn2Way ==
    n.state = S_2WAY /\ rpc = "loop" => ~n.is_empty_dd_sender_running

(* A hung receive thread hangs for ever: nothing the other threads do      *)
(* releases it (events 1-Way, AdjOK, SeqNumberMismatch and BadLSReq).      *)
HangIsPermanent == [][Hung => Hung']_vars

(* The inactivity timer's joins, unlike those, always return.              *)
InactivityCompletes ==
    rpc # "loop" /\ event = "inactivity" ~> rpc = "elect" /\ n.state = S_DOWN

(* A peer that falls silent ends up Down, unless the receive thread hung   *)
(* in an event of this or of another neighbour.                            *)
SilentPeerDownOrHung ==
    ~peer_up ~> n.state = S_DOWN \/ Hung \/ rpc = "stuck"
-----------------------------------------------------------------------------
(* What neighbor.h says of the events, and the code does not do. *)

(* E_INACTTIMER: a neighbour no Hello comes from is forced to Down. *)
SilentPeerGoesDown ==
    [](rpc # "stuck") => (~peer_up ~> n.state = S_DOWN)
=============================================================================
