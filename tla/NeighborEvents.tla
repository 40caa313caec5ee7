--------------------------- MODULE NeighborEvents ---------------------------
(***************************************************************************)
(* The data side of the Neighbor object (neighbor.h) and of its event_*    *)
(* methods (neighbor.cpp): what each event does to the fields, as an       *)
(* operator from a neighbour record to a neighbour record.  The threads    *)
(* that run the events, and the joins on which an event waits, are in      *)
(* Neighbor (one neighbour, any peer) and Adjacency (two routers).         *)
(*                                                                         *)
(* Abstracted: an LSA header is a member of Header; a DD packet keeps the  *)
(* fields the handlers test; packet options are one of Options (the E and  *)
(* N/P bits that ospf.cpp:426 compares).                                   *)
(***************************************************************************)
EXTENDS Integers, Sequences, Functions

CONSTANTS
    Header,        \* LSA headers that may be listed in a DD packet
    BadHeader,     \* those of them whose ls_type is not in 1..5
    Options,       \* option fields a router may send
    MyOptions,     \* GlobalConfig::ospf_options
    RouterId,      \* router ids a Hello may carry, and 0
    MyRouterId,    \* GlobalConfig::router_id
    MaxHdrs,       \* headers that fit in one DD packet: (1024 - 8) \div 20
    SeqMod         \* DD sequence numbers are uint32_t: 2^32

ASSUME NeighborAssumption ==
    /\ BadHeader \subseteq Header
    /\ MyOptions \in Options
    /\ RouterId \subseteq Nat /\ 0 \in RouterId
    /\ MyRouterId \in Nat
    /\ MaxHdrs \in Nat \ {0}
    /\ SeqMod \in Nat \ {0}
-----------------------------------------------------------------------------
(* enum struct NeighborState: the code compares states with <, so they are *)
(* numbers here too.                                                       *)
S_DOWN     == 0
S_ATTEMPT  == 1
S_INIT     == 2
S_2WAY     == 3
S_EXSTART  == 4
S_EXCHANGE == 5
S_LOADING  == 6
S_FULL     == 7

NeighborState == S_DOWN .. S_FULL

SeqNum == 0 .. SeqMod - 1

(* ++dd_seq_num; mutant: on a wider integer. *)
NextSeq_NoWrap(s) == s + 1
NextSeq(s) == (s + 1) % SeqMod

(* What a handler reads of a DD packet. *)
OSPFDD == [seq: SeqNum, i: BOOLEAN, m: BOOLEAN, ms: BOOLEAN,
           options: Options, hdrs: Seq(Header)]

(* The four last_recv_dd_* fields, and their value after a reset. *)
LastRecv == [seq: SeqNum, i: BOOLEAN, m: BOOLEAN, ms: BOOLEAN]
NoRecv   == [seq |-> 0, i |-> FALSE, m |-> FALSE, ms |-> FALSE]

(* last_send_dd_data_len = 0: nothing sent, so nothing to acknowledge. *)
NoSend == [seq |-> 0, i |-> FALSE, m |-> FALSE, ms |-> FALSE,
           options |-> MyOptions, hdrs |-> <<>>]

NeighborRecord ==
    [state: NeighborState, id: RouterId, is_master: BOOLEAN, dd_seq_num: SeqNum,
     last_recv_dd: LastRecv, last_send_dd: OSPFDD, options: Options,
     database_summary_list: Seq(Header),
     link_state_request_list: SUBSET Header,
     link_state_retransmission_list: SUBSET Header,
     empty_dd_sender_stop: BOOLEAN, is_empty_dd_sender_running: BOOLEAN]

(* Neighbor::Neighbor; it leaves the last_recv_dd_* bits uninitialised, but *)
(* nothing depends on them before the reset on the way to ExStart.         *)
NewNeighbor ==
    [state |-> S_DOWN, id |-> 0, is_master |-> FALSE, dd_seq_num |-> 0,
     last_recv_dd |-> NoRecv, last_send_dd |-> NoSend, options |-> MyOptions,
     database_summary_list |-> <<>>,
     link_state_request_list |-> {},
     link_state_retransmission_list |-> {},
     empty_dd_sender_stop |-> FALSE, is_empty_dd_sender_running |-> FALSE]
-----------------------------------------------------------------------------
(* event_hello_received, and the id and options the Hello handler stores   *)
(* (a Hello with options other than MyOptions is dropped at line 292).     *)
HelloReceived(n, id) ==
    [n EXCEPT !.state = IF @ = S_DOWN THEN S_INIT ELSE @,
              !.id = id, !.options = MyOptions]

(* The reset that event_2way_received and event_adj_ok do on the way to    *)
(* ExStart; is_master = TRUE is only a placeholder until negotiation.      *)
(* Mutant: last_send_dd_data_len keeps its value.                          *)
EnterExstart_KeepsLastSend(n) ==
    [n EXCEPT !.last_recv_dd = NoRecv,
              !.dd_seq_num = 0, !.is_master = TRUE, !.state = S_EXSTART]
EnterExstart(n) ==
    [n EXCEPT !.last_recv_dd = NoRecv, !.last_send_dd = NoSend,
              !.dd_seq_num = 0, !.is_master = TRUE, !.state = S_EXSTART]

(* event_2way_received, just before it creates the empty DD sender.        *)
(* Mutant: the sender may find an old request to stop.                     *)
StartSender_KeepsStop(n) == [n EXCEPT !.is_empty_dd_sender_running = TRUE]
StartSender(n) ==
    [n EXCEPT !.empty_dd_sender_stop = FALSE,
              !.is_empty_dd_sender_running = TRUE]

(* How event_1way_received, event_adj_ok, event_seq_number_mismatch,       *)
(* event_bad_ls_req and event_inactivity_timer begin: the lower state is   *)
(* published, the retransmission list cleared, and then retrans_sender is  *)
(* joined.                                                                 *)
TearDown(n, s) ==
    [n EXCEPT !.state = s, !.link_state_retransmission_list = {}]

(* The rest of their clearing, reached only when that join returns.        *)
(* Mutant: the request list is forgotten.                                  *)
ClearLists_KeepsRequests(n) == [n EXCEPT !.database_summary_list = <<>>]
ClearLists(n) ==
    [n EXCEPT !.database_summary_list = <<>>, !.link_state_request_list = {}]

(* event_negotiation_done: summary is the LSDB's headers at this moment.   *)
NegotiationDone(n, summary) ==
    [n EXCEPT !.database_summary_list = summary, !.state = S_EXCHANGE]

(* event_exchange_done: its Loading branch is dead (if (true || ...)), so  *)
(* the neighbour is Full at once; update_lsas then queues own LSAs.        *)
ExchangeDone(n, own) ==
    [n EXCEPT !.state = S_FULL,
              !.link_state_retransmission_list = @ \cup own]
-----------------------------------------------------------------------------
(* The DD handler of recv_ospf_packet_thread. *)
IsDuplicate(n, p) ==
    n.last_recv_dd = [seq |-> p.seq, i |-> p.i, m |-> p.m, ms |-> p.ms]

(* Line 378 overwrites options before line 427 compares them, so that test *)
(* always compares the packet's options with themselves.                   *)
RecordReceived(n, p) ==
    [n EXCEPT !.last_recv_dd =
                  [seq |-> p.seq, i |-> p.i, m |-> p.m, ms |-> p.ms],
              !.options = p.options]

(* Lines 392-420.  Mutants: the ids are not compared; the slave is expected *)
(* to be one ahead.                                                        *)
PeerIsMaster_AnyId(n, p) == p.i /\ p.m /\ p.ms
PeerIsMaster(n, p) == p.i /\ p.m /\ p.ms /\ n.id > MyRouterId

PeerIsSlave_OneAhead(n, p) ==
    ~p.i /\ ~p.ms /\ p.seq = NextSeq(n.dd_seq_num) /\ n.id < MyRouterId
PeerIsSlave(n, p) ==
    ~p.i /\ ~p.ms /\ p.seq = n.dd_seq_num /\ n.id < MyRouterId

(* Mutant: a slave expects the number it has. *)
ExpectedSeq_Current(n) == n.dd_seq_num
ExpectedSeq(n) ==
    IF n.is_master THEN NextSeq(n.dd_seq_num) ELSE n.dd_seq_num

Unexpected(n, p) ==
    \/ p.options # n.options
    \/ p.i \/ p.ms # n.is_master
    \/ p.seq # ExpectedSeq(n)

(* The LSAs of DD packet p are all of a known type (first header loop). *)
WellTyped(p) == \A k \in 1 .. Len(p.hdrs) : p.hdrs[k] \notin BadHeader

(* The headers a DD packet carries: the list's front, as many as fit; and  *)
(* what is left when they are acknowledged.  Mutant: one more is popped.   *)
Take(s, k) == SubSeq(s, 1, IF Len(s) < k THEN Len(s) ELSE k)
Drop_OneMore(s, k) == SubSeq(s, k + 2, Len(s))
Drop(s, k) == SubSeq(s, k + 1, Len(s))

(* A DD packet in sequence is accepted (lines 470-567): want are the       *)
(* headers it puts on the request list; the headers of our last packet are *)
(* acknowledged and popped; the exchange may be done; a packet is sent.    *)
AcceptDD(n, p, want, own) ==
    LET seq     == IF n.is_master THEN p.seq ELSE NextSeq(n.dd_seq_num)
        summary == Drop(n.database_summary_list, Len(n.last_send_dd.hdrs))
        reply   == [seq |-> seq, i |-> FALSE, m |-> Len(summary) > MaxHdrs,
                    ms |-> ~n.is_master, options |-> MyOptions,
                    hdrs |-> Take(summary, MaxHdrs)]
        next    == [n EXCEPT !.dd_seq_num = seq,
                             !.link_state_request_list = @ \cup want,
                             !.database_summary_list = summary,
                             !.last_send_dd = reply]
    IN  IF ~p.m /\ summary = <<>> THEN ExchangeDone(next, own) ELSE next
=============================================================================
