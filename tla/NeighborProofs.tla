--------------------------- MODULE NeighborProofs ---------------------------
(***************************************************************************)
(* The safety properties of Neighbor, for any set of threads, packets,     *)
(* headers and databases.                                                  *)
(***************************************************************************)
EXTENDS Neighbor, SequenceTheorems, TLAPS
-----------------------------------------------------------------------------
(* What the steps need to know of each other, beyond the properties.       *)

(* Where the receive thread is tells which event it runs, and on what. *)
ControlInv ==
    /\ rpc = "join_retrans" =>
          /\ event = "inactivity" <=> n.state = S_DOWN
          /\ n.link_state_retransmission_list = {}
    /\ rpc = "join_sender" => event = "inactivity" /\ n.state = S_DOWN
    /\ rpc = "finish" =>
          \/ event = "inactivity" /\ n.state = S_DOWN
          \/ event = "restart" /\ n.state = S_EXSTART /\ adj
    /\ rpc = "dd" => pkt \in DDPacket /\ n.state = S_EXSTART /\ adj
    /\ rpc = "elect" =>
          /\ n.state >= S_EXSTART => adj
          /\ n.state = S_2WAY => ~adj

(* is_empty_dd_sender_running, when set, is about the last sender created; *)
(* below ExStart, and while restarting from 2-Way, it is not set.          *)
RunningInv ==
    /\ n.is_empty_dd_sender_running =>
          /\ handle \in Senders
          /\ sender[handle] \in {"check", "send", "sleep", "exit"}
    /\ n.state <= S_2WAY /\ rpc \notin {"join_retrans", "join_sender"} =>
          ~n.is_empty_dd_sender_running
    /\ rpc = "finish" => ~n.is_empty_dd_sender_running

IInv ==
    /\ TypeOK /\ ControlInv /\ RunningInv
    /\ JoinsHaveTargets /\ ExstartHasSender
    /\ ListsEmptyBelowExchange /\ PopsWhatItSent /\ AdjacentIffWanted
-----------------------------------------------------------------------------
(* Lemmas about the data: the lists and the event operators.               *)

(* The front of a list is a list, and taking it twice changes nothing.     *)
LEMMA TakeDrop ==
    ASSUME NEW S, NEW s \in Seq(S), NEW k \in Nat
    PROVE  /\ Take(s, k) \in Seq(S)
           /\ Len(Take(s, k)) = IF Len(s) < k THEN Len(s) ELSE k
           /\ Take(s, Len(Take(s, k))) = Take(s, k)
           /\ Drop(s, k) \in Seq(S)
           /\ s = <<>> => Take(s, k) = <<>>
<1> DEFINE e == IF Len(s) < k THEN Len(s) ELSE k
<1>1. Len(s) \in Nat /\ e \in Nat /\ \A i \in 1 .. Len(s) : s[i] \in S
  BY LenProperties, ElementOfSeq
<1>2. Take(s, k) = SubSeq(s, 1, e)
  BY DEF Take
<1>3. /\ SubSeq(s, 1, e) \in Seq(S)
      /\ Len(SubSeq(s, 1, e)) = IF 1 <= e THEN e - 1 + 1 ELSE 0
  <2>1. \A i \in 1 .. e : s[i] \in S
    BY <1>1
  <2> HIDE DEF e
  <2> QED BY <2>1, <1>1, SubSeqProperties
<1>4. Len(Take(s, k)) = e
  BY <1>1, <1>2, <1>3
<1>5. Take(s, e) = SubSeq(s, 1, e)
  BY <1>1 DEF Take
<1>6. Drop(s, k) \in Seq(S)
  <2>1. \A i \in k + 1 .. Len(s) : s[i] \in S
    BY <1>1
  <2>2. k + 1 \in Int /\ Len(s) \in Int
    BY <1>1
  <2>3. SubSeq(s, k + 1, Len(s)) \in Seq(S)
    BY <2>1, <2>2, SubSeqProperties
  <2> QED BY <2>3 DEF Drop
<1>7. ASSUME s = <<>> PROVE Take(s, k) = <<>>
  <2>1. Len(Take(s, k)) = 0
    BY <1>1, <1>4, <1>7, EmptySeq
  <2> QED BY <1>2, <1>3, <2>1, EmptySeq
<1> QED BY <1>2, <1>3, <1>4, <1>5, <1>6, <1>7

(* event_exchange_done changes the state and one list. *)
LEMMA ExchangeDoneFacts ==
    ASSUME NEW m \in NeighborRecord, NEW own \in SUBSET Header
    PROVE  LET r == ExchangeDone(m, own) IN
           /\ r \in NeighborRecord
           /\ r.state = S_FULL
           /\ r.last_send_dd = m.last_send_dd
           /\ r.database_summary_list = m.database_summary_list
           /\ r.is_empty_dd_sender_running = m.is_empty_dd_sender_running
<1>1. S_FULL \in NeighborState
  BY DEF NeighborState, S_FULL, S_DOWN
<1>2. m.link_state_retransmission_list \cup own \in SUBSET Header
  BY DEF NeighborRecord
<1>3. ExchangeDone(m, own) \in NeighborRecord
  BY <1>1, <1>2 DEF ExchangeDone, NeighborRecord
<1> QED BY <1>3 DEF ExchangeDone, NeighborRecord

(* An accepted DD packet leaves a well-typed neighbour in its state or in  *)
(* Full; what it sends is the front of what is left to send, and in Full   *)
(* nothing is left.                                                        *)
LEMMA AcceptDDFacts ==
    ASSUME NEW m \in NeighborRecord, NEW p \in OSPFDD,
           NEW want \in SUBSET Header, NEW own \in SUBSET Header,
           m.state = S_EXCHANGE
    PROVE  LET r == AcceptDD(m, p, want, own) IN
           /\ r \in NeighborRecord
           /\ r.state \in {S_EXCHANGE, S_FULL}
           /\ r.last_send_dd.hdrs =
                  Take(r.database_summary_list, Len(r.last_send_dd.hdrs))
           /\ r.state = S_FULL => r.database_summary_list = <<>>
           /\ r.is_empty_dd_sender_running = m.is_empty_dd_sender_running
<1> DEFINE seq == IF m.is_master THEN p.seq ELSE NextSeq(m.dd_seq_num)
           summary == Drop(m.database_summary_list, Len(m.last_send_dd.hdrs))
           hdrs == Take(summary, MaxHdrs)
           more == Len(summary) > MaxHdrs
           reply == [seq |-> seq, i |-> FALSE, m |-> more,
                     ms |-> ~m.is_master, options |-> MyOptions,
                     hdrs |-> hdrs]
           next == [m EXCEPT !.dd_seq_num = seq,
                             !.link_state_request_list = @ \cup want,
                             !.database_summary_list = summary,
                             !.last_send_dd = reply]
<1>1. seq \in SeqNum
  <2>1. m.dd_seq_num \in SeqNum /\ p.seq \in SeqNum
    BY DEF NeighborRecord, OSPFDD
  <2>2. NextSeq(m.dd_seq_num) \in 0 .. SeqMod - 1
    BY <2>1, NeighborAssumption DEF SeqNum, NextSeq
  <2> QED BY <2>1, <2>2 DEF SeqNum
<1>2. summary \in Seq(Header)
  <2>1. /\ m.database_summary_list \in Seq(Header)
        /\ m.last_send_dd.hdrs \in Seq(Header)
    BY DEF NeighborRecord, OSPFDD
  <2> QED BY <2>1, LenProperties, TakeDrop
<1>3. /\ hdrs \in Seq(Header) /\ hdrs = Take(summary, Len(hdrs))
      /\ summary = <<>> => hdrs = <<>>
  <2> HIDE DEF summary
  <2> QED BY <1>2, NeighborAssumption, TakeDrop
<1> HIDE DEF seq, summary, hdrs, more
<1>4. reply \in OSPFDD
  <2>1. more \in BOOLEAN
    BY DEF more
  <2> QED BY <1>1, <1>3, <2>1, NeighborAssumption DEF NeighborRecord, OSPFDD
<1>5. next \in NeighborRecord /\ next.state = S_EXCHANGE
  <2> HIDE DEF reply
  <2> QED BY <1>1, <1>2, <1>4 DEF NeighborRecord
<1>6. /\ next.last_send_dd.hdrs = hdrs
      /\ next.database_summary_list = summary
      /\ next.is_empty_dd_sender_running = m.is_empty_dd_sender_running
  BY DEF NeighborRecord
<1>7. AcceptDD(m, p, want, own) =
        IF ~p.m /\ summary = <<>> THEN ExchangeDone(next, own) ELSE next
  BY DEF AcceptDD, seq, summary, hdrs, more
<1> HIDE DEF next
<1>8. CASE ~p.m /\ summary = <<>>
  <2>1. /\ ExchangeDone(next, own) \in NeighborRecord
        /\ ExchangeDone(next, own).state = S_FULL
        /\ ExchangeDone(next, own).last_send_dd = next.last_send_dd
        /\ ExchangeDone(next, own).database_summary_list =
               next.database_summary_list
        /\ ExchangeDone(next, own).is_empty_dd_sender_running =
               next.is_empty_dd_sender_running
    BY <1>5, ExchangeDoneFacts
  <2> QED BY <1>3, <1>6, <1>7, <1>8, <2>1
<1>9. CASE ~(~p.m /\ summary = <<>>)
  BY <1>3, <1>5, <1>6, <1>7, <1>9 DEF S_EXCHANGE, S_FULL
<1> QED BY <1>8, <1>9

(* r and m agree on the fields the invariants are about, but for state. *)
Keeps(r, m) ==
    /\ r.last_send_dd = m.last_send_dd
    /\ r.database_summary_list = m.database_summary_list
    /\ r.link_state_request_list = m.link_state_request_list
    /\ r.link_state_retransmission_list = m.link_state_retransmission_list
    /\ r.empty_dd_sender_stop = m.empty_dd_sender_stop
    /\ r.is_empty_dd_sender_running = m.is_empty_dd_sender_running

(* The other event operators, on a well-typed neighbour. *)
LEMMA EventFacts ==
    ASSUME NEW m \in NeighborRecord
    PROVE  /\ \A id \in RouterId :
                 LET r == HelloReceived(m, id) IN
                 /\ r \in NeighborRecord
                 /\ r.state = IF m.state = S_DOWN THEN S_INIT ELSE m.state
                 /\ Keeps(r, m)
           /\ \A p \in OSPFDD :
                 LET r == RecordReceived(m, p) IN
                 /\ r \in NeighborRecord
                 /\ r.state = m.state /\ Keeps(r, m)
           /\ /\ EnterExstart(m) \in NeighborRecord
              /\ EnterExstart(m).state = S_EXSTART
              /\ EnterExstart(m).last_send_dd.hdrs = <<>>
           /\ \A s \in NeighborState : TearDown(m, s) \in NeighborRecord
           /\ ClearLists(m) \in NeighborRecord
           /\ \A db \in Seq(Header) :
                 NegotiationDone(m, db) \in NeighborRecord
<1>1. /\ S_INIT \in NeighborState /\ S_EXSTART \in NeighborState
      /\ S_EXCHANGE \in NeighborState
  BY DEF NeighborState, S_DOWN, S_INIT, S_EXSTART, S_EXCHANGE, S_FULL
<1>2. 0 \in SeqNum /\ NoRecv \in LastRecv /\ NoSend \in OSPFDD
      /\ NoSend.hdrs = <<>>
  <2>1. 0 \in SeqNum
    BY NeighborAssumption DEF SeqNum
  <2>2. <<>> \in Seq(Header)
    BY EmptySeq
  <2> QED
    BY <2>1, <2>2, NeighborAssumption DEF NoRecv, LastRecv, NoSend, OSPFDD
<1>3. ASSUME NEW id \in RouterId
      PROVE  LET r == HelloReceived(m, id) IN
             /\ r \in NeighborRecord
             /\ r.state = IF m.state = S_DOWN THEN S_INIT ELSE m.state
             /\ Keeps(r, m)
  BY <1>1, NeighborAssumption DEF HelloReceived, NeighborRecord, Keeps
<1>4. ASSUME NEW p \in OSPFDD
      PROVE  LET r == RecordReceived(m, p) IN
             /\ r \in NeighborRecord
             /\ r.state = m.state /\ Keeps(r, m)
  BY DEF RecordReceived, NeighborRecord, OSPFDD, LastRecv, Keeps
<1>5. /\ EnterExstart(m) \in NeighborRecord
      /\ EnterExstart(m).state = S_EXSTART
      /\ EnterExstart(m).last_send_dd.hdrs = <<>>
  <2>1. EnterExstart(m) \in NeighborRecord
    BY <1>1, <1>2 DEF EnterExstart, NeighborRecord
  <2> QED BY <1>2, <2>1 DEF EnterExstart, NeighborRecord
<1>6. ASSUME NEW s \in NeighborState PROVE TearDown(m, s) \in NeighborRecord
  BY DEF TearDown, NeighborRecord
<1>7. ClearLists(m) \in NeighborRecord
  BY EmptySeq DEF ClearLists, NeighborRecord
<1>8. ASSUME NEW db \in Seq(Header)
      PROVE  NegotiationDone(m, db) \in NeighborRecord
  BY <1>1 DEF NegotiationDone, NeighborRecord
<1> QED BY <1>3, <1>4, <1>5, <1>6, <1>7, <1>8
-----------------------------------------------------------------------------
(* Type correctness. *)

LEMMA InitType == Init => TypeOK
<1> SUFFICES ASSUME Init PROVE TypeOK
  OBVIOUS
<1>1. NewNeighbor \in NeighborRecord
  <2>1. 0 \in SeqNum /\ S_DOWN \in NeighborState
    BY NeighborAssumption DEF SeqNum, NeighborState, S_DOWN, S_FULL
  <2>2. NoRecv \in LastRecv /\ NoSend \in OSPFDD /\ <<>> \in Seq(Header)
    BY <2>1, EmptySeq, NeighborAssumption DEF NoRecv, LastRecv, NoSend, OSPFDD
  <2> QED
    BY <2>1, <2>2, NeighborAssumption DEF NewNeighbor, NeighborRecord
<1> QED BY <1>1 DEF Init, TypeOK, RecvPc, Event, SenderPc

(* The pieces that the handlers share. *)
LEMMA TwoWayFacts ==
    ASSUME TypeOK, NEW m \in NeighborRecord, TwoWayReceived(m)
    PROVE  /\ n' \in NeighborRecord
           /\ sender' \in [Senders -> SenderPc]
           /\ handle' \in Senders \cup {NoThread}
           /\ n'.database_summary_list = m.database_summary_list
           /\ n'.link_state_request_list = m.link_state_request_list
           /\ n'.link_state_retransmission_list =
                  m.link_state_retransmission_list
           /\ \/ /\ adj /\ n'.state = S_EXSTART
                 /\ n'.last_send_dd.hdrs = <<>>
                 /\ ~n'.empty_dd_sender_stop
                 /\ n'.is_empty_dd_sender_running
                 /\ handle' \in Senders /\ sender'[handle'] = "check"
              \/ /\ ~adj /\ n'.state = S_2WAY
                 /\ n'.is_empty_dd_sender_running =
                        m.is_empty_dd_sender_running
                 /\ UNCHANGED <<sender, handle>>
<1>1. CASE adj
  <2>1. EnterExstart(m) \in NeighborRecord
    BY EventFacts
  <2>2. n' = [EnterExstart(m) EXCEPT !.empty_dd_sender_stop = FALSE,
                                     !.is_empty_dd_sender_running = TRUE]
    BY <1>1 DEF TwoWayReceived, StartSender
  <2>3. n' \in NeighborRecord
    BY <2>1, <2>2 DEF NeighborRecord
  <2>4. PICK i \in Free : sender' = [sender EXCEPT ![i] = "check"] /\ handle' = i
    BY <1>1 DEF TwoWayReceived, Spawn
  <2>5. /\ handle' \in Senders /\ sender'[handle'] = "check"
        /\ sender' \in [Senders -> SenderPc]
    BY <2>4 DEF Free, TypeOK, SenderPc
  <2>6. /\ n'.state = S_EXSTART /\ n'.last_send_dd = NoSend
        /\ ~n'.empty_dd_sender_stop /\ n'.is_empty_dd_sender_running
        /\ n'.database_summary_list = m.database_summary_list
        /\ n'.link_state_request_list = m.link_state_request_list
        /\ n'.link_state_retransmission_list =
               m.link_state_retransmission_list
    BY <2>1, <2>2 DEF EnterExstart, NeighborRecord
  <2>7. NoSend.hdrs = <<>>
    BY DEF NoSend
  <2> QED BY <1>1, <2>3, <2>5, <2>6, <2>7
<1>2. CASE ~adj
  <2>1. S_2WAY \in NeighborState
    BY DEF NeighborState, S_DOWN, S_2WAY, S_FULL
  <2> QED BY <1>2, <2>1 DEF TwoWayReceived, NeighborRecord, TypeOK
<1> QED BY <1>1, <1>2

(* What lowering m to state s does, and so the two events that restart an  *)
(* exchange.                                                               *)
LEMMA LowerFacts ==
    ASSUME NEW m \in NeighborRecord, NEW s \in NeighborState, NEW e \in Event,
           Lower(m, s, e)
    PROVE  /\ n' \in NeighborRecord /\ n'.state = s
           /\ n'.link_state_retransmission_list = {}
           /\ n'.is_empty_dd_sender_running = m.is_empty_dd_sender_running
           /\ event' = e /\ rpc' = "join_retrans"
<1>1. n' \in NeighborRecord
  BY EventFacts DEF Lower
<1> QED BY <1>1 DEF Lower, TearDown, NeighborRecord

(* The two ways a DD packet that is not ignored can end: accepted, in      *)
(* Exchange or Full; or back in ExStart, waiting for retrans_sender.       *)
Accepted ==
    /\ rpc' = "loop" /\ event' = event
    /\ n'.state \in {S_EXCHANGE, S_FULL}
    /\ PopsWhatItSent'

Restarted ==
    /\ rpc' = "join_retrans" /\ event' = "restart"
    /\ n'.state = S_EXSTART
    /\ n'.link_state_retransmission_list = {}

LEMMA RestartFacts ==
    ASSUME NEW m \in NeighborRecord, m.state >= S_EXCHANGE, Restart(m)
    PROVE  /\ n' \in NeighborRecord /\ Restarted
           /\ n'.is_empty_dd_sender_running = m.is_empty_dd_sender_running
<1>1. S_EXSTART \in NeighborState /\ "restart" \in Event
  BY DEF NeighborState, S_DOWN, S_EXSTART, S_FULL, Event
<1>2. Lower(m, S_EXSTART, "restart")
  BY DEF Restart
<1> QED BY <1>1, <1>2, LowerFacts DEF Restarted

LEMMA InSequenceFacts ==
    ASSUME NEW m \in NeighborRecord, m.state = S_EXCHANGE,
           NEW p \in DDPacket, InSequence(m, p)
    PROVE  /\ n' \in NeighborRecord /\ (Accepted \/ Restarted)
           /\ n'.is_empty_dd_sender_running = m.is_empty_dd_sender_running
<1>1. p \in OSPFDD
  BY ThreadAssumption
<1>2. CASE WellTyped(p)
  <2>1. PICK want \in SUBSET Range(p.hdrs), own \in SUBSET OwnHeader :
            n' = AcceptDD(m, p, want, own)
    BY <1>2 DEF InSequence
  <2>2. want \in SUBSET Header /\ own \in SUBSET Header
    <3>1. p.hdrs \in Seq(Header)
      BY <1>1 DEF OSPFDD
    <3>2. Range(p.hdrs) \subseteq Header
      BY <3>1, ElementOfSeq, LenProperties DEF Range
    <3> QED BY <3>2, ThreadAssumption
  <2>3. /\ n' \in NeighborRecord
        /\ n'.state \in {S_EXCHANGE, S_FULL}
        /\ n'.last_send_dd.hdrs =
               Take(n'.database_summary_list, Len(n'.last_send_dd.hdrs))
        /\ n'.state = S_FULL => n'.database_summary_list = <<>>
        /\ n'.is_empty_dd_sender_running = m.is_empty_dd_sender_running
    BY <1>1, <2>1, <2>2, AcceptDDFacts
  <2>4. rpc' = "loop" /\ event' = event
    BY <1>2 DEF InSequence
  <2>5. PopsWhatItSent'
    BY <2>3 DEF PopsWhatItSent, S_EXSTART, S_EXCHANGE, S_FULL
  <2> QED BY <2>3, <2>4, <2>5 DEF Accepted
<1>3. CASE ~WellTyped(p)
  <2> DEFINE r == IF m.is_master THEN [m EXCEPT !.dd_seq_num = p.seq] ELSE m
  <2>1. Lower(r, S_EXSTART, "restart")
    BY <1>3 DEF InSequence
  <2>2. /\ r \in NeighborRecord
        /\ r.is_empty_dd_sender_running = m.is_empty_dd_sender_running
    BY <1>1 DEF NeighborRecord, OSPFDD
  <2>3. S_EXSTART \in NeighborState /\ "restart" \in Event
    BY DEF NeighborState, S_DOWN, S_EXSTART, S_FULL, Event
  <2> HIDE DEF r
  <2> QED BY <2>1, <2>2, <2>3, LowerFacts DEF Restarted
<1> QED BY <1>2, <1>3

LEMMA NegotiateFacts ==
    ASSUME NEW m \in NeighborRecord, NEW p \in DDPacket, Negotiate(m, p)
    PROVE  /\ n' \in NeighborRecord
           /\ \/ Accepted \/ Restarted
              \/ n' = m /\ rpc' = "loop" /\ event' = event
           /\ n'.is_empty_dd_sender_running = m.is_empty_dd_sender_running
<1>1. CASE PeerIsMaster(m, p) \/ PeerIsSlave(m, p)
  <2> DEFINE r == [m EXCEPT !.is_master = PeerIsMaster(m, p),
                            !.dd_seq_num = p.seq]
  <2>1. PICK db \in Databases : InSequence(NegotiationDone(r, db), p)
    BY <1>1 DEF Negotiate
  <2>2. PeerIsMaster(m, p) \in BOOLEAN /\ p.seq \in SeqNum
    BY ThreadAssumption DEF PeerIsMaster, OSPFDD
  <2>3. /\ r \in NeighborRecord
        /\ r.is_empty_dd_sender_running = m.is_empty_dd_sender_running
    BY <2>2 DEF NeighborRecord
  <2> HIDE DEF r
  <2>4. NegotiationDone(r, db) \in NeighborRecord
    BY <2>3, EventFacts, ThreadAssumption
  <2>5. /\ NegotiationDone(r, db).state = S_EXCHANGE
        /\ NegotiationDone(r, db).is_empty_dd_sender_running =
               r.is_empty_dd_sender_running
    BY <2>3 DEF NegotiationDone, NeighborRecord
  <2> QED BY <2>1, <2>3, <2>4, <2>5, InSequenceFacts
<1>2. CASE ~(PeerIsMaster(m, p) \/ PeerIsSlave(m, p))
  BY <1>2 DEF Negotiate
<1> QED BY <1>1, <1>2
-----------------------------------------------------------------------------
(* The inductive invariant. *)

LEMMA InitIInv == Init => IInv
<1> SUFFICES ASSUME Init PROVE IInv
  OBVIOUS
<1>1. TypeOK
  BY InitType
<1> QED
  BY <1>1 DEF Init, IInv, ControlInv, RunningInv,
     JoinsHaveTargets, ExstartHasSender, ListsEmptyBelowExchange,
     PopsWhatItSent, AdjacentIffWanted, NewNeighbor, NoSend, Hung,
     S_DOWN, S_INIT, S_2WAY, S_EXSTART, S_EXCHANGE, S_FULL

(* The states are distinct numbers in the order of the enum. *)
LEMMA Order ==
    /\ S_DOWN = 0 /\ S_ATTEMPT = 1 /\ S_INIT = 2 /\ S_2WAY = 3
    /\ S_EXSTART = 4 /\ S_EXCHANGE = 5 /\ S_LOADING = 6 /\ S_FULL = 7
    /\ NeighborState = 0 .. 7
BY DEF S_DOWN, S_ATTEMPT, S_INIT, S_2WAY, S_EXSTART, S_EXCHANGE, S_LOADING,
       S_FULL, NeighborState

(* An acknowledgement, explicit or implied, disturbs nothing. *)
LEMMA RetransmissionFacts ==
    ASSUME IInv, NEW h \in Header,
           n' = [n EXCEPT !.link_state_retransmission_list = @ \ {h}],
           UNCHANGED <<known, adj, rpc, event, pkt, sender, handle, retrans,
                       peer_up>>
    PROVE  IInv'
<1>1. n \in NeighborRecord
  BY DEF IInv, TypeOK
<1>2. /\ n' \in NeighborRecord /\ n'.state = n.state
      /\ n'.last_send_dd = n.last_send_dd
      /\ n'.database_summary_list = n.database_summary_list
      /\ n'.link_state_request_list = n.link_state_request_list
      /\ n'.link_state_retransmission_list \subseteq
             n.link_state_retransmission_list
      /\ n'.empty_dd_sender_stop = n.empty_dd_sender_stop
      /\ n'.is_empty_dd_sender_running = n.is_empty_dd_sender_running
  BY <1>1 DEF NeighborRecord
<1> QED BY <1>2 DEF IInv, ControlInv, RunningInv, JoinsHaveTargets,
        ExstartHasSender, ListsEmptyBelowExchange, PopsWhatItSent,
        AdjacentIffWanted, TypeOK

(* Every step preserves the inductive invariant. *)
LEMMA NextIInv == IInv /\ [Next]_vars => IInv'
<1> SUFFICES ASSUME IInv, [Next]_vars PROVE IInv'
  OBVIOUS
<1> USE Order
<1> USE DEF IInv, ControlInv, RunningInv, JoinsHaveTargets,
        ExstartHasSender, ListsEmptyBelowExchange, PopsWhatItSent,
        AdjacentIffWanted, TypeOK, threads, Keeps
<1>0. n \in NeighborRecord /\ n.state \in 0 .. 7
  BY DEF NeighborRecord
<1>1. CASE RecvHello2Way
  <2>0. PICK id \in RouterId \ {0}, elect \in BOOLEAN :
            RecvHello2Way!(id, elect)
    BY <1>1 DEF RecvHello2Way
  <2> DEFINE m == HelloReceived(n, id)
  <2>1. /\ rpc = "loop" /\ rpc' \in {"loop", "elect"} /\ known' = TRUE
        /\ IF m.state = S_INIT
           THEN TwoWayReceived(m)
           ELSE n' = m /\ UNCHANGED <<sender, handle>>
        /\ retrans' = IF n.state = S_DOWN THEN "check" ELSE retrans
        /\ UNCHANGED <<adj, event, pkt, peer_up>>
    BY <2>0
  <2>2. /\ m \in NeighborRecord
        /\ m.state = IF n.state = S_DOWN THEN S_INIT ELSE n.state
        /\ Keeps(m, n)
    BY <1>0, EventFacts
  <2> HIDE DEF m
  <2>3. CASE m.state = S_INIT
    <3>1. TwoWayReceived(m)
      BY <2>1, <2>3
    <3>2. /\ rpc = "loop" /\ rpc' \in {"loop", "elect"}
          /\ retrans' = IF n.state = S_DOWN THEN "check" ELSE retrans
          /\ UNCHANGED <<adj, event, pkt, peer_up>> /\ known'
      BY <2>1
    <3>3. TypeOK'
      BY <2>2, <3>1, <3>2, TwoWayFacts DEF RecvPc
    <3>4. n.state \in {S_DOWN, S_INIT} /\ ~m.is_empty_dd_sender_running
      BY <1>0, <2>2, <2>3, <3>2
    <3>5. CASE adj
      <4>1. /\ n'.state = S_EXSTART /\ n'.last_send_dd.hdrs = <<>>
            /\ n'.empty_dd_sender_stop = FALSE
            /\ handle' \in Senders /\ sender'[handle'] = "check"
        BY <2>2, <3>1, <3>5, TwoWayFacts
      <4>2. retrans' \in {"check", "sleep"}
        BY <1>0, <3>2, <3>4
      <4>3. (ControlInv /\ RunningInv)'
        BY <3>2, <3>5, <4>1
      <4>4. (JoinsHaveTargets /\ ExstartHasSender)'
        BY <3>2, <4>1, <4>2, ThreadAssumption
      <4>5. ListsEmptyBelowExchange'
        BY <1>0, <2>2, <3>1, <3>2, <3>4, TwoWayFacts
      <4> QED BY <3>2, <3>3, <3>5, <4>1, <4>3, <4>4, <4>5
    <3>6. CASE ~adj
      BY <1>0, <2>2, <3>1, <3>2, <3>3, <3>4, <3>6, TwoWayFacts
    <3> QED BY <3>5, <3>6
  <2>4. CASE m.state # S_INIT
    <3>1. /\ rpc = "loop" /\ rpc' \in {"loop", "elect"}
          /\ n' = m /\ n.state # S_DOWN /\ n.state = m.state
          /\ retrans' = retrans /\ known' = TRUE
          /\ UNCHANGED <<adj, event, pkt, peer_up, sender, handle>>
      BY <1>0, <2>1, <2>2, <2>4
    <3> QED BY <1>0, <2>2, <3>1 DEF RecvPc
  <2> QED BY <2>3, <2>4
<1>2. CASE RecvHello1Way
  <2>1. PICK id \in RouterId \ {0} : RecvHello1Way!(id)
    BY <1>2 DEF RecvHello1Way
  <2> DEFINE m == HelloReceived(n, id)
  <2>2. /\ m \in NeighborRecord
        /\ m.state = IF n.state = S_DOWN THEN S_INIT ELSE n.state
        /\ Keeps(m, n)
    BY <1>0, EventFacts
  <2> HIDE DEF m
  <2>3. CASE m.state >= S_2WAY
    <3>1. Lower(m, S_INIT, "1way")
      BY <2>1, <2>3 DEF m
    <3>2. "1way" \in Event /\ S_INIT \in NeighborState
      BY DEF Event
    <3>3. /\ rpc = "loop" /\ known' = TRUE /\ retrans' = retrans
          /\ UNCHANGED <<adj, pkt, sender, handle, peer_up>>
          /\ n.state >= S_2WAY
      BY <1>0, <2>1, <2>2, <2>3
    <3> QED BY <1>0, <2>2, <3>1, <3>2, <3>3, LowerFacts DEF RecvPc
  <2>4. CASE ~(m.state >= S_2WAY)
    <3>1. /\ rpc = "loop" /\ rpc' = "loop" /\ n' = m /\ known' = TRUE
          /\ n.state \in 0 .. 2 /\ m.state \in 1 .. 2
          /\ retrans' = IF n.state = S_DOWN THEN "check" ELSE retrans
          /\ UNCHANGED <<adj, event, pkt, peer_up, sender, handle>>
      BY <1>0, <2>1, <2>2, <2>4 DEF m
    <3> QED BY <1>0, <2>2, <3>1
  <2> QED BY <2>3, <2>4
<1>3. CASE Election
  <2>1. PICK wanted \in BOOLEAN : Election!(wanted)
    BY <1>3 DEF Election
  <2>2. CASE n.state = S_2WAY /\ wanted
    <3>1. /\ n' = [EnterExstart(n) EXCEPT
                      !.empty_dd_sender_stop =
                          @ \/ n.is_empty_dd_sender_running]
          /\ event' = "restart"
          /\ rpc' = IF n.is_empty_dd_sender_running
                    THEN "join_sender" ELSE "finish"
      BY <2>1, <2>2
    <3>2. ~n.is_empty_dd_sender_running /\ rpc' = "finish"
      BY <2>1, <2>2, <3>1
    <3>3. EnterExstart(n) \in NeighborRecord
      BY <1>0, EventFacts
    <3>4. n' \in NeighborRecord
      BY <3>1, <3>3 DEF NeighborRecord
    <3>5. /\ n'.state = S_EXSTART /\ n'.last_send_dd = NoSend
          /\ ~n'.is_empty_dd_sender_running
          /\ n'.database_summary_list = n.database_summary_list
          /\ n'.link_state_request_list = n.link_state_request_list
          /\ n'.link_state_retransmission_list =
                 n.link_state_retransmission_list
      BY <3>1, <3>2, <3>3 DEF EnterExstart, NeighborRecord
    <3>6. NoSend.hdrs = <<>>
      BY DEF NoSend
    <3> QED BY <1>0, <2>1, <2>2, <3>1, <3>2, <3>4, <3>5, <3>6 DEF RecvPc, Event
  <2>3. CASE n.state >= S_EXSTART /\ ~wanted
    <3>1. Lower(n, S_2WAY, "adj_lost")
      BY <1>0, <2>1, <2>3
    <3>2. "adj_lost" \in Event /\ S_2WAY \in NeighborState
      BY DEF Event
    <3> QED BY <1>0, <2>1, <2>3, <3>1, <3>2, LowerFacts DEF RecvPc
  <2>4. CASE /\ ~(n.state = S_2WAY /\ wanted)
             /\ ~(n.state >= S_EXSTART /\ ~wanted)
    BY <1>0, <2>1, <2>4 DEF RecvPc
  <2> QED BY <2>2, <2>3, <2>4
<1> DEFINE Recorded(p) == RecordReceived(n, p)
<1>a. \A p \in DDPacket :
        /\ Recorded(p) \in NeighborRecord
        /\ Recorded(p).state = n.state /\ Keeps(Recorded(p), n)
  BY <1>0, EventFacts, ThreadAssumption
<1> HIDE DEF Recorded
<1>4. CASE RecvDDIgnored
  <2>1. PICK p \in DDPacket : n' = Recorded(p)
    BY <1>4 DEF RecvDDIgnored, Recorded
  <2> QED BY <1>0, <1>4, <1>a, <2>1 DEF RecvDDIgnored
<1>5. CASE RecvDDInInit
  <2>1. PICK p \in DDPacket :
            /\ rpc = "loop" /\ n.state = S_INIT
            /\ TwoWayReceived(Recorded(p))
            /\ rpc' = IF adj THEN "dd" ELSE "loop"
            /\ pkt' = IF adj THEN p ELSE NoPacket
            /\ UNCHANGED <<known, adj, event, retrans, peer_up>>
    BY <1>5 DEF RecvDDInInit, Recorded
  <2>2. TypeOK'
    BY <1>a, <2>1, TwoWayFacts DEF RecvPc
  <2>3. CASE adj
    <3>1. /\ n'.state = S_EXSTART /\ n'.last_send_dd.hdrs = <<>>
          /\ n'.empty_dd_sender_stop = FALSE
          /\ handle' \in Senders /\ sender'[handle'] = "check"
      BY <1>a, <2>1, <2>3, TwoWayFacts
    <3>2. rpc' = "dd" /\ pkt' \in DDPacket
      BY <2>1, <2>3
    <3>3. (ControlInv /\ RunningInv)'
      BY <2>1, <2>3, <3>1, <3>2
    <3>4. (JoinsHaveTargets /\ ExstartHasSender)'
      BY <1>0, <2>1, <3>1, <3>2, ThreadAssumption
    <3>5. ListsEmptyBelowExchange'
      BY <1>0, <1>a, <2>1, TwoWayFacts
    <3> QED BY <2>2, <3>1, <3>2, <3>3, <3>4, <3>5
  <2>4. CASE ~adj
    BY <1>0, <1>a, <2>1, <2>2, <2>4, TwoWayFacts
  <2> QED BY <2>3, <2>4
<1>6. CASE RecvDDInExstart
  <2>1. PICK p \in DDPacket :
            /\ rpc = "loop" /\ n.state = S_EXSTART
            /\ Negotiate(Recorded(p), p)
            /\ UNCHANGED <<known, adj, pkt, threads, peer_up>>
    BY <1>6 DEF RecvDDInExstart, Recorded
  <2> QED BY <1>0, <1>a, <2>1, NegotiateFacts
          DEF Accepted, Restarted, RecvPc, Event
<1>7. CASE DDBegin
  BY <1>0, <1>7, NegotiateFacts DEF DDBegin, Accepted, Restarted, RecvPc, Event
<1>8. CASE RecvDDInExchange
  <2>1. PICK p \in DDPacket :
            /\ rpc = "loop" /\ n.state = S_EXCHANGE
            /\ \/ n' = Recorded(p) /\ UNCHANGED <<rpc, event>>
               \/ Restart(Recorded(p))
               \/ InSequence(Recorded(p), p)
            /\ UNCHANGED <<known, adj, pkt, threads, peer_up>>
    BY <1>8 DEF RecvDDInExchange, Recorded
  <2> QED BY <1>0, <1>a, <2>1, RestartFacts, InSequenceFacts
          DEF Accepted, Restarted, RecvPc, Event
<1>9. CASE RecvFromUnknown
  BY <1>9 DEF RecvFromUnknown, RecvPc
<1>10. CASE RecvBadLsr
  BY <1>0, <1>10, RestartFacts DEF RecvBadLsr, Restarted, RecvPc, Event
<1>11. CASE RecvNewLsa
  <2>1. PICK h \in Header, served \in BOOLEAN : RecvNewLsa!(h, served)
    BY <1>11 DEF RecvNewLsa
  <2>2. /\ n' \in NeighborRecord /\ n'.state = n.state
        /\ n'.last_send_dd = n.last_send_dd
        /\ n'.database_summary_list = n.database_summary_list
        /\ n'.link_state_request_list \subseteq n.link_state_request_list
        /\ n'.link_state_retransmission_list \subseteq
               n.link_state_retransmission_list
        /\ n'.empty_dd_sender_stop = n.empty_dd_sender_stop
        /\ n'.is_empty_dd_sender_running = n.is_empty_dd_sender_running
    BY <1>0, <2>1 DEF NeighborRecord
  <2> QED BY <1>0, <2>1, <2>2
<1>12. CASE RecvOldLsa
  <2>1. PICK h \in Header : RecvOldLsa!(h)
    BY <1>12 DEF RecvOldLsa
  <2>2. CASE h \in n.link_state_request_list
    <3>1. n.state >= S_EXCHANGE
      BY <1>0, <2>1, <2>2
    <3> QED BY <1>0, <2>1, <2>2, <3>1, RestartFacts
            DEF Restarted, RecvPc, Event
  <2>3. CASE h \notin n.link_state_request_list
    <3>1. n' = [n EXCEPT !.link_state_retransmission_list = @ \ {h}]
      BY <2>1, <2>3
    <3>2. UNCHANGED <<known, adj, rpc, event, pkt, sender, handle, retrans,
                      peer_up>>
      BY <2>1, <2>3
    <3> QED BY <3>1, <3>2, RetransmissionFacts
  <2> QED BY <2>2, <2>3
<1>13. CASE RecvLsAck
  <2>1. PICK h \in Header :
            n' = [n EXCEPT !.link_state_retransmission_list = @ \ {h}]
    BY <1>13 DEF RecvLsAck
  <2>2. UNCHANGED <<known, adj, rpc, event, pkt, sender, handle, retrans,
                    peer_up>>
    BY <1>13 DEF RecvLsAck
  <2> QED BY <2>1, <2>2, RetransmissionFacts
<1>14. CASE OwnLsas
  <2>1. PICK own \in SUBSET OwnHeader :
            n' = [n EXCEPT !.link_state_retransmission_list = @ \cup own]
    BY <1>14 DEF OwnLsas
  <2>2. /\ n.state = S_FULL /\ rpc = "loop"
        /\ UNCHANGED <<known, adj, rpc, event, pkt, sender, handle, retrans,
                       peer_up>>
    BY <1>14 DEF OwnLsas
  <2>3. own \in SUBSET Header
    BY <2>1, ThreadAssumption
  <2>4. /\ n' \in NeighborRecord /\ n'.state = n.state
        /\ n'.last_send_dd = n.last_send_dd
        /\ n'.database_summary_list = n.database_summary_list
        /\ n'.link_state_request_list = n.link_state_request_list
        /\ n'.empty_dd_sender_stop = n.empty_dd_sender_stop
        /\ n'.is_empty_dd_sender_running = n.is_empty_dd_sender_running
    BY <1>0, <2>1, <2>3 DEF NeighborRecord
  <2> QED BY <1>0, <2>2, <2>4
<1>15. CASE InactivityTimer
  <2>1. "inactivity" \in Event /\ S_DOWN \in NeighborState
    BY DEF Event
  <2> QED BY <1>0, <1>15, <2>1, LowerFacts DEF InactivityTimer, RecvPc
<1>16. CASE JoinRetrans
  <2>1. event = "inactivity" /\ n.state = S_DOWN
    BY <1>0, <1>16 DEF JoinRetrans
  <2>2. /\ n' = [ClearLists(n) EXCEPT !.empty_dd_sender_stop =
                    @ \/ n.is_empty_dd_sender_running]
        /\ rpc' = IF n.is_empty_dd_sender_running
                  THEN "join_sender" ELSE "finish"
    BY <1>16, <2>1 DEF JoinRetrans, WaitsForSender
  <2>3. ClearLists(n) \in NeighborRecord
    BY <1>0, EventFacts
  <2>4. n' \in NeighborRecord
    BY <2>2, <2>3 DEF NeighborRecord
  <2>5. /\ n'.state = n.state
        /\ n'.is_empty_dd_sender_running = n.is_empty_dd_sender_running
        /\ n'.database_summary_list = <<>>
        /\ n'.link_state_request_list = {}
        /\ n'.link_state_retransmission_list =
               n.link_state_retransmission_list
    BY <1>0, <2>2, <2>3 DEF ClearLists, NeighborRecord
  <2>6. /\ rpc = "join_retrans" /\ retrans' = "none"
        /\ UNCHANGED <<known, adj, event, pkt, sender, handle, peer_up>>
    BY <1>16 DEF JoinRetrans
  <2>7. n.link_state_retransmission_list = {}
    BY <2>6
  <2>8. TypeOK'
    BY <2>2, <2>4, <2>6 DEF RecvPc
  <2>9. (ControlInv /\ RunningInv)'
    BY <2>1, <2>2, <2>5, <2>6, <2>7
  <2>10. JoinsHaveTargets'
    <3>1. rpc' = "join_sender" =>
              handle # NoThread /\ sender[handle] # "none"
      BY <2>2, ThreadAssumption
    <3> QED BY <2>1, <2>2, <2>5, <2>6, <3>1
  <2> QED BY <2>1, <2>2, <2>5, <2>6, <2>7, <2>8, <2>9, <2>10
<1>17. CASE JoinSender
  BY <1>0, <1>17 DEF JoinSender, RecvPc, SenderPc
<1>18. CASE Finish
  <2>1. CASE event = "restart"
    <3>1. PICK i \in Free :
              sender' = [sender EXCEPT ![i] = "check"] /\ handle' = i
      BY <1>18, <2>1 DEF Finish, Spawn
    <3>2. n' = [n EXCEPT !.empty_dd_sender_stop = FALSE]
      BY <1>18, <2>1 DEF Finish
    <3>3. /\ n' \in NeighborRecord /\ ~n'.empty_dd_sender_stop
          /\ n'.state = n.state
      BY <1>0, <3>2 DEF NeighborRecord
    <3>4. /\ handle' \in Senders /\ sender'[handle'] = "check"
          /\ sender' \in [Senders -> SenderPc]
      BY <3>1 DEF Free, SenderPc
    <3>5. /\ rpc = "finish" /\ rpc' = "loop" /\ event' = "none"
          /\ UNCHANGED <<known, adj, pkt, retrans, peer_up>>
      BY <1>18, <2>1 DEF Finish
    <3>6. /\ n.state = S_EXSTART /\ adj /\ ~n.is_empty_dd_sender_running
          /\ n.last_send_dd.hdrs = <<>>
      BY <2>1, <3>5
    <3>7. /\ n'.last_send_dd = n.last_send_dd
          /\ n'.database_summary_list = n.database_summary_list
          /\ n'.link_state_request_list = n.link_state_request_list
          /\ n'.link_state_retransmission_list =
                 n.link_state_retransmission_list
          /\ n'.is_empty_dd_sender_running = n.is_empty_dd_sender_running
      BY <1>0, <3>2 DEF NeighborRecord
    <3>8. TypeOK'
      BY <3>3, <3>4, <3>5 DEF RecvPc, Event
    <3>9. (ControlInv /\ RunningInv)'
      BY <3>3, <3>5, <3>6, <3>7
    <3>10. (JoinsHaveTargets /\ ExstartHasSender)'
      <4>1. handle' # NoThread
        BY <3>4, ThreadAssumption
      <4> QED BY <3>3, <3>4, <3>5, <3>6, <4>1
    <3>11. (ListsEmptyBelowExchange /\ PopsWhatItSent /\ AdjacentIffWanted)'
      BY <3>3, <3>5, <3>6, <3>7
    <3> QED BY <3>8, <3>9, <3>10, <3>11
  <2>2. CASE event # "restart"
    BY <1>0, <1>18, <2>2 DEF Finish, RecvPc, Event
  <2> QED BY <2>1, <2>2
<1>19. CASE OtherNeighborBlocks
  BY <1>19 DEF OtherNeighborBlocks, RecvPc
<1>20. CASE PeerDies
  <2>1. UNCHANGED <<n, known, adj, rpc, event, pkt, threads>>
        /\ peer_up' \in BOOLEAN
    BY <1>20 DEF PeerDies
  <2> QED BY <2>1
<1>21. ASSUME NEW i \in Senders, SenderThread(i) PROVE IInv'
  <2>1. CASE SenderCheck(i)
    BY <1>0, <2>1 DEF SenderCheck, SenderMoves, SenderPc
  <2>2. CASE SenderSend(i)
    BY <1>0, <2>2 DEF SenderSend, SenderMoves, SenderPc
  <2>3. CASE SenderWakes(i)
    BY <1>0, <2>3 DEF SenderWakes, SenderMoves, SenderPc
  <2>4. CASE SenderExits(i)
    <3>1. /\ sender[i] = "exit"
          /\ sender' = [sender EXCEPT ![i] = "exited"]
          /\ n' = [n EXCEPT !.is_empty_dd_sender_running = FALSE]
          /\ UNCHANGED <<known, adj, rpc, event, pkt, handle, retrans, peer_up>>
      BY <2>4 DEF SenderExits, SenderMoves
    <3>2. /\ n' \in NeighborRecord /\ n'.state = n.state
          /\ n'.last_send_dd = n.last_send_dd
          /\ n'.database_summary_list = n.database_summary_list
          /\ n'.link_state_request_list = n.link_state_request_list
          /\ n'.link_state_retransmission_list =
                 n.link_state_retransmission_list
          /\ n'.empty_dd_sender_stop = n.empty_dd_sender_stop
          /\ ~n'.is_empty_dd_sender_running
      BY <1>0, <3>1 DEF NeighborRecord
    <3>3. TypeOK'
      BY <3>1, <3>2 DEF SenderPc
    <3>4. (RunningInv /\ ControlInv)'
      BY <1>0, <3>1, <3>2
    <3>5. ExstartHasSender' /\ JoinsHaveTargets'
      BY <1>0, <3>1, <3>2
    <3> QED BY <1>0, <3>1, <3>2, <3>3, <3>4, <3>5
  <2> QED BY <1>21, <2>1, <2>2, <2>3, <2>4 DEF SenderThread
<1>22. CASE RetransThread
  BY <1>22 DEF RetransThread, RetransCheck, RetransSend
<1>23. CASE UNCHANGED vars
  BY <1>23 DEF vars
<1> QED
  BY <1>1, <1>2, <1>3, <1>4, <1>5, <1>6, <1>7, <1>8, <1>9, <1>10, <1>11,
     <1>12, <1>13, <1>14, <1>15, <1>16, <1>17, <1>18, <1>19, <1>20, <1>21,
     <1>22, <1>23 DEF Next
-----------------------------------------------------------------------------
(* The theorems. *)

(* Every reachable state satisfies the inductive invariant. *)
THEOREM Invariance == Spec => []IInv
<1>1. Init => IInv
  BY InitIInv
<1>2. IInv /\ [Next]_vars => IInv'
  BY NextIInv
<1> QED BY <1>1, <1>2, PTL DEF Spec

(* Type correctness: every field stays in its range, the DD sequence       *)
(* number in 32 bits, the lists made of LSA headers.                       *)
THEOREM TypeCorrect == Spec => []TypeOK
<1>1. IInv => TypeOK
  BY DEF IInv
<1> QED BY <1>1, Invariance, PTL

(* No pthread_join of neighbor.cpp is called on a thread that was never    *)
(* created or was joined before.                                           *)
THEOREM JoinsSafe == Spec => []JoinsHaveTargets
<1>1. IInv => JoinsHaveTargets
  BY DEF IInv
<1> QED BY <1>1, Invariance, PTL

(* An ExStart neighbour always has a running empty DD sender. *)
THEOREM ExstartRetransmits == Spec => []ExstartHasSender
<1>1. IInv => ExstartHasSender
  BY DEF IInv
<1> QED BY <1>1, Invariance, PTL

(* The database exchange's lists never outlive the exchange. *)
THEOREM ListsCleared == Spec => []ListsEmptyBelowExchange
<1>1. IInv => ListsEmptyBelowExchange
  BY DEF IInv
<1> QED BY <1>1, Invariance, PTL

(* The pop_front loop of the DD handler removes exactly the headers that   *)
(* were sent: it never meets an empty list, and Full means all were sent.  *)
THEOREM PopsSafe == Spec => []PopsWhatItSent
<1>1. IInv => PopsWhatItSent
  BY DEF IInv
<1> QED BY <1>1, Invariance, PTL

(* Between two packets, adjacencies match the elected dr and bdr. *)
THEOREM AdjacencyCorrect == Spec => []AdjacentIffWanted
<1>1. IInv => AdjacentIffWanted
  BY DEF IInv
<1> QED BY <1>1, Invariance, PTL

(* event_adj_ok never finds a sender to wait for. *)
THEOREM NoSenderToAwait == Spec => []NoSenderIn2Way
<1>1. IInv => NoSenderIn2Way
  BY Order DEF IInv, RunningInv, NoSenderIn2Way
<1> QED BY <1>1, Invariance, PTL

(* Whatever the other threads, the peer and the timers do, a receive       *)
(* thread that waits for retrans_sender above Down waits for ever: the     *)
(* thread it waits for exits only in Down, which only the receive thread   *)
(* could set.                                                              *)
THEOREM HangsForever == Spec => HangIsPermanent
<1>1. IInv /\ [Next]_vars => [Hung => Hung']_vars
  <2> SUFFICES ASSUME IInv, Next, Hung PROVE Hung'
    BY DEF vars, Hung
  <2>1. n.state # S_DOWN /\ retrans # "exited"
    BY DEF IInv, ControlInv, JoinsHaveTargets, Hung
  <2>2. rpc = "join_retrans" /\ event # "inactivity"
    BY DEF Hung
  <2>3. UNCHANGED <<rpc, event>>
    BY <2>1, <2>2 DEF Next, RecvHello2Way, RecvHello1Way, Election,
       RecvDDIgnored, RecvDDInInit, RecvDDInExstart, DDBegin,
       RecvDDInExchange, RecvFromUnknown, RecvBadLsr, RecvNewLsa, RecvOldLsa,
       RecvLsAck, OwnLsas, InactivityTimer, JoinRetrans, JoinSender, Finish,
       OtherNeighborBlocks, PeerDies, SenderThread, SenderCheck, SenderSend,
       SenderWakes, SenderExits, SenderMoves, RetransThread, RetransCheck,
       RetransSend
  <2> QED BY <2>2, <2>3 DEF Hung
<1> QED BY <1>1, Invariance, PTL DEF Spec, HangIsPermanent
=============================================================================
