------------------------------ MODULE Flooding ------------------------------
(***************************************************************************)
(* One router's LSAs: what the DD, LSR, LSU and LSAck handlers,            *)
(* flooding_lsa and update_lsas do to the database and to the request and  *)
(* retransmission lists of its neighbours, and what the retransmission     *)
(* threads read of them.  One interface: main.cpp has a loopback interface *)
(* as well, which has no neighbours.                                       *)
(*                                                                         *)
(* The receive thread runs every handler; the LSU handler is two steps,    *)
(* since flooding_lsa queues an LSA and sends it before it is installed,   *)
(* and the retransmission threads run in between.  All peers have been     *)
(* heard; module Neighbor has their states below Exchange, the threads'    *)
(* joins and why an adjacency that breaks hangs the receive thread.  An    *)
(* LSU carries one LSA here, and the headers of a DD packet are taken one  *)
(* at a time, its last step being ExchangeDone if it ends the exchange.    *)
(***************************************************************************)
EXTENDS Lsdb

CONSTANTS
    Peer,          \* the neighbours, by address
    MyIp, NoIp,    \* ip_interface_address, and no address
    Outcome,       \* <<dr, bdr>> that an election may have
    OwnRouter,     \* the keys of the LSAs the router originates
    OwnNetwork,
    InitialSeq,    \* INITIAL_SEQUENCE_NUMBER
    MaxOriginated, \* bounds the LSAs that update_lsas generates
    WireLsa,       \* LSAs that an LSU may bring, as ntoh leaves them
    DDHeader,      \* headers that the DD packets of a peer may bring
    NoLsa

Ip == Peer \cup {MyIp, NoIp}

ASSUME FloodingAssumption ==
    /\ MyIp \notin Peer /\ NoIp \notin Peer \cup {MyIp}
    /\ Outcome \subseteq (Peer \cup {MyIp}) \X (Ip \ {MyIp}) \cup Peer \X Ip
    /\ OwnRouter \in Key /\ OwnRouter.type = "router" /\ OwnRouter.adv = Me
    /\ OwnNetwork \in Key /\ OwnNetwork.type = "network" /\ OwnNetwork.adv = Me
    /\ InitialSeq \in 0 .. SeqMod - 1 /\ MaxOriginated \in Nat
    /\ WireLsa \subseteq {i \in Lsa : i.age = 0} /\ DDHeader \in [Peer -> SUBSET Lsa]
    /\ NoLsa \notin Lsa /\ AgeCap >= 1

VARIABLES
    lsdb,              \* the area's database
    nbr,               \* the neighbours
    dr, bdr,           \* of the interface: they give its state as well
    ls_sequence_cnt,
    rpc,               \* where the receive thread is
    cur,               \* the LSA that the LSU handler is about to install
    ack                \* what the last step acknowledged

roles == <<dr, bdr>>
vars  == <<lsdb, nbr, roles, ls_sequence_cnt, rpc, cur, ack>>

(* "below" is any state below Exchange, where both lists are empty         *)
(* (Neighbor!ListsEmptyBelowExchange).                                     *)
NbrRecord == [state: {"below", "EXCHANGE", "FULL"},
              request: SUBSET Lsa, retrans: SUBSET Lsa]
Below == [state |-> "below", request |-> {}, retrans |-> {}]

Received == [lsa: Lsa, to_ack: BOOLEAN]
Nothing  == [lsa |-> NoLsa, to_ack |-> FALSE]

TypeOK ==
    /\ lsdb \in Database
    /\ nbr \in [Peer -> NbrRecord]
    /\ dr \in Ip /\ bdr \in Ip
    /\ ls_sequence_cnt \in 0 .. SeqMod - 1
    /\ rpc \in {"loop", "install", "hung", "crashed"}
    /\ cur \in Received \cup {Nothing}
    /\ ack \in Lsa \cup {NoLsa}

Init ==
    /\ lsdb = EmptyDb
    /\ nbr = [p \in Peer |-> Below]
    /\ dr = NoIp /\ bdr = NoIp
    /\ ls_sequence_cnt = InitialSeq
    /\ rpc = "loop" /\ cur = Nothing /\ ack = NoLsa
-----------------------------------------------------------------------------
SetNbr(p, n) == nbr' = [nbr EXCEPT ![p] = n]

(* An event that lowers p's adjacency clears its lists and never returns.  *)
Hang(p) == SetNbr(p, Below) /\ rpc' = "hung"

(* call_election leaves some roles behind, and event_adj_ok gives up the   *)
(* first adjacency they do not call for.  ns are the neighbours before.    *)
Election(ns) ==
    \E e \in Outcome :
        LET lost == {p \in Peer : /\ ns[p].state # "below"
                                  /\ {e[1], e[2]} \cap {MyIp, p} = {}}
        IN  /\ dr' = e[1] /\ bdr' = e[2]
            /\ IF lost = {}
               THEN nbr' = ns /\ rpc' = "loop"
               ELSE /\ \E p \in lost : nbr' = [ns EXCEPT ![p] = Below]
                    /\ rpc' = "hung"

(* An interface event of a Hello or of the waiting timer. *)
RunElection ==
    /\ rpc = "loop" /\ Election(nbr)
    /\ ack' = NoLsa /\ UNCHANGED <<lsdb, ls_sequence_cnt, cur>>

(* event_inactivity_timer, and event_neighbor_change, which may run one.   *)
InactivityTimer(p) ==
    LET ns == [nbr EXCEPT ![p] = Below] IN
    /\ rpc = "loop"
    /\ Election(ns) \/ (nbr' = ns /\ UNCHANGED <<roles, rpc>>)
    /\ ack' = NoLsa /\ UNCHANGED <<lsdb, ls_sequence_cnt, cur>>

(* 1-Way, or a DD packet that is not in sequence.  (An event that hangs    *)
(* below Exchange changes nothing here.)                                   *)
AdjacencyError(p) ==
    /\ rpc = "loop" /\ nbr[p].state # "below" /\ Hang(p)
    /\ ack' = NoLsa /\ UNCHANGED <<lsdb, roles, ls_sequence_cnt, cur>>
-----------------------------------------------------------------------------
(* The database exchange. *)

NegotiationDone(p) ==
    /\ rpc = "loop" /\ nbr[p].state = "below" /\ {dr, bdr} \cap {MyIp, p} # {}
    /\ SetNbr(p, [nbr[p] EXCEPT !.state = "EXCHANGE"])
    /\ ack' = NoLsa /\ UNCHANGED <<lsdb, roles, ls_sequence_cnt, rpc, cur>>

(* Lines 491-524.  The second test asks ls_age for the type; LSA_NETWORK   *)
(* is 2.  A peer describes an LSA once.                                    *)
Wanted(h) == \A i \in Found(lsdb, h.key) : Cmp(h, i) < 0

RecvDDHeader(p) ==
    \E h \in DDHeader[p] :
        /\ rpc = "loop" /\ nbr[p].state = "EXCHANGE"
        /\ \A r \in nbr[p].request : r.key # h.key
        /\ h.key.type = "router" \/ h.age = 2
        /\ Wanted(h)
        /\ SetNbr(p, [nbr[p] EXCEPT !.request = @ \cup {h}])
        /\ ack' = NoLsa /\ UNCHANGED <<lsdb, roles, ls_sequence_cnt, rpc, cur>>

(* generate_router_lsa and generate_network_lsa, with a sequence number    *)
(* each; the checksum stays 0 in the database copy.  Mutant of NextSeq:    *)
(* the counter is wider than the field.                                    *)
Generated(k, seq) == [key |-> k, seq |-> seq, checksum |-> 0, age |-> 1]
NextSeq_Wide(s) == s + 1
NextSeq(s) == (s + 1) % SeqMod

(* What update_lsas may do to database d: the network LSA first, if the    *)
(* router is DR.                                                           *)
Generations(d) ==
    LET s == ls_sequence_cnt IN
    IF dr # MyIp
    THEN {[cnt |-> NextSeq(s), lsdb |-> r.lsdb, flooded |-> r.flooded] :
             r \in UNION {Originate(d, Generated(OwnRouter, s), c) :
                             c \in Unused(d)}}
    ELSE {[cnt |-> NextSeq(NextSeq(s)), lsdb |-> r[2].lsdb,
           flooded |-> r[1].flooded \cup r[2].flooded] :
             r \in UNION {{<<n, m>> : m \in UNION
                              {Originate(n.lsdb, Generated(OwnRouter, NextSeq(s)), c) :
                                  c \in Unused(n.lsdb)}} :
                   n \in UNION {Originate(d, Generated(OwnNetwork, s), c) :
                                   c \in Unused(d)}}}

(* event_exchange_done: Full at once, and update_lsas, which queues what   *)
(* it floods for every Full neighbour, this one included.                  *)
Originated == (ls_sequence_cnt - InitialSeq) % SeqMod

ExchangeDone(p) ==
    /\ rpc = "loop" /\ nbr[p].state = "EXCHANGE"
    /\ Originated < MaxOriginated
    /\ \E u \in Generations(lsdb) :
        /\ lsdb' = u.lsdb /\ ls_sequence_cnt' = u.cnt
        /\ nbr' = [q \in Peer |->
               IF q = p \/ nbr[q].state = "FULL"
               THEN [nbr[q] EXCEPT !.state = "FULL",
                                   !.retrans = @ \cup u.flooded]
               ELSE nbr[q]]
    /\ ack' = NoLsa /\ UNCHANGED <<roles, rpc, cur>>
-----------------------------------------------------------------------------
(* LSU packets. *)

(* flooding_lsa for neighbour p: in Exchange (or Loading) a request that i *)
(* answers is removed, and i is queued unless it was requested as it is,   *)
(* or from src, or the request is for a newer one.                         *)
(* Mutant: a request is not removed if the LSA comes from another peer.    *)
RequestsOf(n, k) == {h \in n.request : IsOf(h, k)}

Queues(p, i, src) ==
    LET asked == RequestsOf(nbr[p], i.key) IN
    /\ nbr[p].state = "EXCHANGE"
    /\ asked = {} \/ (p # src /\ \E h \in asked : Cmp(i, h) < 0)

Answered_FromSrc(p, i, src) ==
    IF nbr[p].state = "EXCHANGE" /\ p = src
    THEN {h \in RequestsOf(nbr[p], i.key) : Cmp(i, h) <= 0} ELSE {}
Answered(p, i, src) ==
    IF nbr[p].state = "EXCHANGE"
    THEN {h \in RequestsOf(nbr[p], i.key) : Cmp(i, h) <= 0} ELSE {}

(* It is sent on unless it came from the DR or Backup, or this is Backup. *)
FloodedBack(i, src) ==
    /\ \E p \in Peer : Queues(p, i, src)
    /\ src \notin {dr, bdr} /\ bdr # MyIp

(* Lines 769-779: whether it will be acknowledged once it is installed.    *)
ToAck(i, src) == ~FloodedBack(i, src) /\ (bdr = MyIp => src = dr)

(* Lines 705-752: there is no copy, or i is newer.  Mutant: or the same.   *)
IsNew_OrEqual(i) ==
    Found(lsdb, i.key) = {} \/ \E j \in Found(lsdb, i.key) : Cmp(i, j) <= 0
IsNew(i) ==
    Found(lsdb, i.key) = {} \/ \E j \in Found(lsdb, i.key) : Cmp(i, j) < 0

RecvNewLsa(p) ==
    /\ rpc = "loop"
    /\ \E i \in WireLsa :
        /\ IsNew(i) /\ Unused(lsdb) # {}      \* memory: see Chunk
        /\ nbr' = [q \in Peer |->
               [nbr[q] EXCEPT !.request = @ \ Answered(q, i, p),
                              !.retrans = IF Queues(q, i, p)
                                          THEN @ \cup {i} ELSE @]]
        /\ rpc' = "install"
        /\ cur' = [lsa |-> i, to_ack |-> ToAck(i, p)]
    /\ ack' = NoLsa /\ UNCHANGED <<lsdb, roles, ls_sequence_cnt>>

(* Lines 754-779: off every retransmission list, installed, acknowledged.  *)
(* Mutant: the lists keep it.                                              *)
Unqueue_Keep(n, k) == n
Unqueue(n, k) == [n EXCEPT !.retrans = {h \in @ : ~IsOf(h, k)}]

InstallLsa ==
    LET i == cur.lsa IN
    /\ rpc = "install"
    /\ nbr' = [q \in Peer |-> Unqueue(nbr[q], i.key)]
    /\ \E c \in Unused(lsdb) : lsdb' = Install(lsdb, i, c)
    /\ ack' = IF cur.to_ack THEN i ELSE NoLsa
    /\ rpc' = "loop" /\ cur' = Nothing
    /\ UNCHANGED <<roles, ls_sequence_cnt>>

(* Lines 788-838: the database copy is as new or newer.  A request for it  *)
(* is an error; the same instance is an implied acknowledgement; a network *)
(* LSA is installed all the same.                                          *)
RecvOldLsa(p) ==
    /\ rpc = "loop"
    /\ \E i \in WireLsa : \E j \in Found(lsdb, i.key) :
        /\ Cmp(i, j) >= 0
        /\ \/ /\ RequestsOf(nbr[p], i.key) # {}
              /\ Hang(p) /\ UNCHANGED lsdb
           \/ /\ RequestsOf(nbr[p], i.key) = {}
              /\ SetNbr(p, IF Cmp(i, j) = 0 THEN Unqueue(nbr[p], i.key)
                           ELSE nbr[p])
              /\ IF i.key.type = "network"
                 THEN \E c \in Unused(lsdb) : lsdb' = Install(lsdb, i, c)
                 ELSE UNCHANGED lsdb
              /\ UNCHANGED rpc
    /\ ack' = NoLsa /\ UNCHANGED <<roles, ls_sequence_cnt, cur>>

(* Lines 851-874: the first entry with this key, whatever its sequence     *)
(* number.                                                                 *)
RecvLsAck(p) ==
    \E h \in nbr[p].retrans :
        /\ rpc = "loop" /\ nbr[p].state # "below"
        /\ SetNbr(p, [nbr[p] EXCEPT !.retrans = @ \ {h}])
        /\ ack' = NoLsa /\ UNCHANGED <<lsdb, roles, ls_sequence_cnt, rpc, cur>>

(* An LSR for an LSA the database lacks (event_bad_ls_req); for others it  *)
(* is answered, and nothing changes.                                       *)
RecvBadLsr(p) ==
    /\ rpc = "loop" /\ nbr[p].state # "below"
    /\ \E k \in Key : Found(lsdb, k) = {}
    /\ Hang(p)
    /\ ack' = NoLsa /\ UNCHANGED <<lsdb, roles, ls_sequence_cnt, cur>>
-----------------------------------------------------------------------------
(* The rest of the process. *)

Running == rpc \in {"loop", "install"}

(* All state was in the memory of the process. *)
Forgotten ==
    /\ lsdb' = EmptyDb
    /\ nbr' = [p \in Peer |-> Below]
    /\ dr' = NoIp /\ bdr' = NoIp
    /\ ls_sequence_cnt' = InitialSeq
    /\ cur' = Nothing /\ ack' = NoLsa

(* retrans_sender_thread walks the list of p and takes each LSA from the   *)
(* database; a null pointer is read when it is not there (983, 1008).      *)
Missing(p) == {h \in nbr[p].retrans : Found(lsdb, h.key) = {}}

RetransCrashes(p) ==
    /\ Running /\ Missing(p) # {}
    /\ rpc' = "crashed" /\ Forgotten

(* The operator starts it again, hung or crashed. *)
Restart ==
    /\ ~Running
    /\ rpc' = "loop" /\ Forgotten

(* The memory of a deleted LSA is written to. *)
HeapWrites ==
    \E c \in lsdb.freed :
        /\ Running /\ lsdb.mem[c] # Junk
        /\ lsdb' = Overwrite(lsdb, c)
        /\ ack' = NoLsa /\ UNCHANGED <<nbr, roles, ls_sequence_cnt, rpc, cur>>
-----------------------------------------------------------------------------
Next ==
    \/ RunElection \/ InstallLsa \/ HeapWrites \/ Restart
    \/ \E p \in Peer :
          \/ InactivityTimer(p) \/ AdjacencyError(p)
          \/ NegotiationDone(p) \/ RecvDDHeader(p) \/ ExchangeDone(p)
          \/ RecvNewLsa(p) \/ RecvOldLsa(p) \/ RecvLsAck(p) \/ RecvBadLsr(p)
          \/ RetransCrashes(p)

Spec == Init /\ [][Next]_vars
-----------------------------------------------------------------------------
(* What the database holds of LSA k. *)
Holding(k) == {c \in lsdb.list[k.type] :
                  lsdb.mem[c] # Junk /\ lsdb.mem[c].key = k}

Copy(db, cs) == IF cs = {} THEN NoLsa ELSE db.mem[CHOOSE c \in cs : TRUE]

Stored == [k \in Others |-> Copy(lsdb, Holding(k))]
Acked == IF ack # NoLsa /\ ack.key \in Others THEN ack ELSE NoLsa
Store == INSTANCE LsaStore
    WITH Key <- Others, Lsa <- {i \in WireLsa : i.key \in Others},
         store <- Stored, ack <- Acked

(* Of another router's LSA the database has one instance, complete, which  *)
(* only a newer one replaces (network LSAs aside), and nothing is          *)
(* acknowledged that is not installed: whatever update_lsas deletes under  *)
(* the database's feet, wherever malloc puts the next LSA, and although an *)
(* LSU is looked up and installed in two steps.                            *)
DatabaseImplementsStore == Store!Spec

(* Deleted memory is only ever seen in place of the router's own LSAs.     *)
DeletedAreOwn ==
    \A c \in lsdb.freed :
        lsdb.mem[c] = Junk \/ lsdb.mem[c].key \notin Others

OneCopy == \A k \in Others : \A c, d \in Matching(lsdb, k) : c = d

(* Back in its loop the router waits for acknowledgements of its own LSAs  *)
(* only: no LSA of another router, flooded to a neighbour in Exchange,     *)
(* is ever sent again.                                                     *)
QueuedAreOwn ==
    cur = Nothing =>
        \A p \in Peer : \A h \in nbr[p].retrans : h.key \notin Others

(* While p is in Exchange, what is requested of p is still newer than what *)
(* the database has, from whomever it came; and when an LSU brings it, it  *)
(* is new (line 735), so p is not blamed for its answer (line 796).  But   *)
(* at MAX_AGE it may be what the database has: the DD packet's age was     *)
(* compared, and that of the LSU is lost.                                  *)
RequestsAreOpen ==
    cur = Nothing =>
        \A p \in Peer : nbr[p].state = "EXCHANGE" =>
            \A h \in nbr[p].request : h.key \in Others =>
                Wanted(h) /\ (h.age # MAX_AGE => IsNew(Ntoh(h)))

(* An entry of a retransmission list stands for its LSA in the database,   *)
(* which is sent instead: of a router LSA that is never an older instance, *)
(* unless the sequence numbers have wrapped.  (Of a network LSA it may be: *)
(* OnlyNewerReplaces.)                                                     *)
ResendsAreCurrent ==
    cur = Nothing /\ Originated <= SeqMod - InitialSeq =>
        \A p \in Peer : \A h \in nbr[p].retrans : h.key.type = "router" =>
            \A i \in Found(lsdb, h.key) : Cmp(i, h) <= 0

(* ospf.cpp:705: an LSA is installed if the database has none or an older  *)
(* one.                                                                    *)
OnlyNewerReplaces ==
    [][\A k \in Others : \/ Stored[k] = NoLsa
                         \/ Stored'[k] \in {NoLsa, Stored[k]}
                         \/ Newer(Stored'[k], Stored[k])]_vars

(* ospf.cpp:910: what was flooded and not acknowledged is sent again.  So  *)
(* it is in the database whenever the receive thread is in its loop, even  *)
(* if not while an LSA is being installed.                                 *)
UnackedIsResent == cur = Nothing => \A p \in Peer : Missing(p) = {}
=============================================================================
