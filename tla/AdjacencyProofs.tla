-------------------------- MODULE AdjacencyProofs ---------------------------
(***************************************************************************)
(* The database exchange of two routers over a link that loses packets,    *)
(* for any databases, any width of the sequence numbers and any number of  *)
(* packets in flight; and that each router implements Neighbor.            *)
(***************************************************************************)
EXTENDS Adjacency, FiniteSetTheorems, SequenceTheorems, TLAPS

USE DEF N!S_DOWN, N!S_INIT, N!S_2WAY, N!S_EXSTART, N!S_EXCHANGE, N!S_LOADING,
        N!S_FULL

DOWN     == 0
INIT     == 2
TWOWAY   == 3
EXSTART  == 4
EXCHANGE == 5
FULL     == 7
USE DEF DOWN, INIT, TWOWAY, EXSTART, EXCHANGE, FULL
-----------------------------------------------------------------------------
(* Types. *)

Mod     == Byte * Byte
SeqNum  == 0 .. Mod - 1
Succ(s) == (s + 1) % Mod

Dd == [seq: SeqNum, i: BOOLEAN, m: BOOLEAN, ms: BOOLEAN, options: {MyOptions},
       hdrs: {hs \in Seq(Header) : Len(hs) <= MaxHdrs}]
Recorded == [seq: SeqNum, i: BOOLEAN, m: BOOLEAN, ms: BOOLEAN]
Nothing  == [seq |-> 0, i |-> FALSE, m |-> FALSE, ms |-> FALSE]
Unsent   == [seq |-> 0, i |-> FALSE, m |-> FALSE, ms |-> FALSE,
             options |-> MyOptions, hdrs |-> <<>>]

(* The packets of the exchange, and those of the empty DD senders.         *)
Part   == {[type |-> "dd", dd |-> d] : d \in {e \in Dd : ~e.i}}
Empty  == {[type |-> "dd", dd |-> d] :
              d \in {e \in Dd : e.i /\ e.m /\ e.ms /\ e.hdrs = <<>>}}
Hellos == {[type |-> "hello", two_way |-> b] : b \in BOOLEAN}
Packet == Hellos \cup Part \cup Empty

NbrRecord ==
    [state: {DOWN, INIT, TWOWAY, EXSTART, EXCHANGE, FULL}, id: Router \cup {0},
     is_master: BOOLEAN, dd_seq_num: SeqNum,
     last_recv_dd: Recorded, last_send_dd: Dd, options: {MyOptions},
     database_summary_list: Seq(Header),
     link_state_request_list: SUBSET Header,
     link_state_retransmission_list: SUBSET Header,
     empty_dd_sender_stop: BOOLEAN, is_empty_dd_sender_running: BOOLEAN]

TypeInv ==
    /\ nbr \in [Router -> NbrRecord]
    /\ adj \in [Router -> BOOLEAN]
    /\ rpc \in [Router -> {"loop", "dd", "finish", "join_retrans"}]
    /\ event \in [Router -> {"none", "restart", "1way"}]
    /\ sender \in [Router ->
                      {"none", "check", "send", "sleep", "exit", "exited"}]
    /\ chan \in [Router -> Seq(Packet)]
-----------------------------------------------------------------------------
(* Each router by itself. *)

(* Router r has accepted a DD packet of the other one. *)
Began(r) == nbr[r].state >= EXCHANGE \/ Hung(r)

(* Where the receive thread is, and what that says of its neighbour.  A    *)
(* thread that hangs has just received an empty DD packet in Exchange.     *)
Control(r) ==
    /\ rpc[r] \in {"loop", "dd"} => event[r] = "none"
    /\ rpc[r] = "finish" =>
          event[r] = "restart" /\ nbr[r].state = EXSTART /\ sender[r] = "none"
    /\ rpc[r] = "dd" =>
          /\ nbr[r].state = EXSTART /\ nbr[r].last_recv_dd = Nothing
          /\ chan[r] # <<>> /\ Head(chan[r]) \in Empty
    /\ Hung(r) =>
          /\ event[r] = "restart"
          /\ nbr[r].state = EXSTART /\ nbr[r].last_recv_dd.i
    /\ nbr[r].state <= TWOWAY => rpc[r] = "loop" /\ sender[r] = "none"
    /\ sender[r] = "none" => ~nbr[r].is_empty_dd_sender_running
    /\ nbr[r].state # DOWN => nbr[r].id = Other(r)
    /\ nbr[r].state = EXSTART /\ ~Hung(r) =>
          nbr[r].dd_seq_num = 0 /\ nbr[r].last_send_dd = Unsent

ControlInv == \A r \in Router : Control(r)

(* What follows an element of X in c is in Y. *)
Follows(c, X, Y) ==
    \A j, k \in 1 .. Len(c) : j < k /\ c[j] \in X => c[k] \in Y

Elements(c) == {c[k] : k \in 1 .. Len(c)}

In(r) == Elements(chan[r])

(* The link keeps the order: who was heard to list this router goes on     *)
(* doing so.                                                               *)
Listing == Packet \ {[type |-> "hello", two_way |-> FALSE]}

Order(r, o) ==
    /\ Follows(chan[r], Listing, Listing)
    /\ nbr[o].state = DOWN => nbr[r].state <= INIT /\ In(r) \cap Listing = {}
    /\ nbr[r].state >= TWOWAY => In(r) \subseteq Listing
    /\ nbr[r].state = DOWN => In(r) \cap (Part \cup Empty) = {}
    /\ In(r) \cap (Part \cup Empty) # {} \/ Began(r) => nbr[o].state >= EXSTART

HelloInv == \A r \in Router : Order(r, Other(r))
-----------------------------------------------------------------------------
(* The two of them. *)

AsRecorded(p) == [seq |-> p.seq, i |-> p.i, m |-> p.m, ms |-> p.ms]

First(s) == SubSeq(s, 1, IF Len(s) < MaxHdrs THEN Len(s) ELSE MaxHdrs)
Rest(s, k) == SubSeq(s, k + 1, Len(s))

(* Router r waits for the other one to acknowledge what it sent last.      *)
Remaining(r) ==
    Rest(nbr[r].database_summary_list, Len(nbr[r].last_send_dd.hdrs))

SentInv ==
    \A r \in Router : Began(r) =>
        /\ nbr[r].is_master = (r = SlaveId)
        /\ nbr[r].last_send_dd =
              [seq |-> nbr[r].dd_seq_num, i |-> FALSE,
               m |-> Len(nbr[r].database_summary_list) > MaxHdrs,
               ms |-> ~nbr[r].is_master, options |-> MyOptions,
               hdrs |-> First(nbr[r].database_summary_list)]

(* Of the other one's database, router r needs no more than rest. *)
Knows(r, rest) ==
    \A h \in Range(Database[Other(r)]) :
        h.lsa \notin NetworkLsa /\ Lacks(r, h) =>
            h \in nbr[r].link_state_request_list \/ h \in Range(rest)

Sent(r) == DD(nbr[r].last_send_dd)

(* The slave begins, and its first packet may be sent more than once.      *)
BeforeInv ==
    ~Began(MasterId) =>
        /\ In(SlaveId) \cap Part = {}
        /\ \A q \in In(SlaveId) \cap Empty : q.dd.seq = 0
        /\ IF Began(SlaveId)
           THEN /\ nbr[SlaveId].dd_seq_num = 0
                /\ In(MasterId) \cap Part \subseteq {Sent(SlaveId)}
                /\ Knows(MasterId, nbr[SlaveId].database_summary_list)
           ELSE In(MasterId) \cap Part = {}

(* The packets that the master takes for repetitions. *)
Old == {q \in Part : AsRecorded(q.dd) = nbr[MasterId].last_recv_dd}

(* The slave has not received what the master sent last. *)
Ahead ==
    /\ nbr[MasterId].dd_seq_num = Succ(nbr[SlaveId].dd_seq_num)
    /\ In(SlaveId) \cap Part \subseteq {Sent(MasterId)}
    /\ Follows(chan[SlaveId], Part, Packet \ Part)
    /\ nbr[MasterId].state = EXCHANGE =>
          In(MasterId) \cap Part \subseteq Old /\ Sent(SlaveId) \in Old
    /\ Knows(MasterId, Remaining(SlaveId))
    /\ Knows(SlaveId, nbr[MasterId].database_summary_list)

(* The master has not received what the slave sent last. *)
Level ==
    /\ nbr[MasterId].dd_seq_num = nbr[SlaveId].dd_seq_num
    /\ In(SlaveId) \cap Part = {}
    /\ nbr[MasterId].state = EXCHANGE =>
          /\ In(MasterId) \cap Part \subseteq Old \cup {Sent(SlaveId)}
          /\ Follows(chan[MasterId], Part \ Old,
                     (Packet \ Part) \cup {Sent(SlaveId)})
    /\ Knows(MasterId, nbr[SlaveId].database_summary_list)
    /\ Knows(SlaveId, Remaining(MasterId))

DuringInv == Began(MasterId) => Began(SlaveId) /\ (Ahead \/ Level)

(* All is acknowledged, and all is known. *)
FullInv ==
    \A r \in Router : Full(r) =>
        /\ nbr[r].database_summary_list = <<>>
        /\ \A q \in Router : Knows(q, <<>>)

PhaseInv == SentInv /\ BeforeInv /\ DuringInv /\ FullInv

IInv == TypeInv /\ ControlInv /\ HelloInv /\ PhaseInv
-----------------------------------------------------------------------------
(* The two routers. *)

LEMMA TwoRouters ==
    /\ MasterId \in Router /\ SlaveId \in Router
    /\ Router = {MasterId, SlaveId} /\ SlaveId < MasterId
    /\ Other(MasterId) = SlaveId /\ Other(SlaveId) = MasterId
    /\ Router \subseteq Nat \ {0}
<1>1. PICK a : a \in Router /\ IsFiniteSet(Router \ {a}) /\ Cardinality(Router \ {a}) = 1
  <2>1. IsFiniteSet(Router) /\ Cardinality(Router) = 2
    BY AdjacencyAssumption
  <2>2. Router # {}
    BY <2>1, FS_EmptySet
  <2> QED BY <2>1, <2>2, FS_RemoveElement
<1>2. PICK b : Router \ {a} = {b}
  BY <1>1, FS_Singleton
<1>3. Router = {a, b} /\ a # b /\ a \in Nat \ {0} /\ b \in Nat \ {0}
  BY <1>1, <1>2, AdjacencyAssumption
<1>4. /\ MasterId \in Router /\ \A q \in Router : q <= MasterId
  <2>1. \E r \in Router : \A q \in Router : q <= r
    BY <1>3
  <2> QED BY <2>1 DEF MasterId
<1>5. /\ Other(a) = b /\ Other(b) = a
  BY <1>3 DEF Other
<1> QED BY <1>3, <1>4, <1>5 DEF SlaveId
-----------------------------------------------------------------------------
(* Sequences. *)

LEMMA SplitList ==
    ASSUME NEW s \in Seq(Header)
    PROVE  /\ First(s) \in Seq(Header) /\ Len(First(s)) <= MaxHdrs
           /\ \A k \in Nat : Rest(s, k) \in Seq(Header)
           /\ Rest(s, 0) = s
           /\ Len(s) <= MaxHdrs => Rest(s, Len(First(s))) = <<>>
           /\ Range(s) \subseteq Range(First(s)) \cup Range(Rest(s, Len(First(s))))
<1> DEFINE e == IF Len(s) < MaxHdrs THEN Len(s) ELSE MaxHdrs
<1>1. /\ Len(s) \in Nat /\ e \in Nat /\ e <= Len(s) /\ e <= MaxHdrs
      /\ \A i \in 1 .. Len(s) : s[i] \in Header
      /\ DOMAIN s = 1 .. Len(s)
  BY LenProperties, ElementOfSeq, AdjacencyAssumption
<1> HIDE DEF e
<1>2. /\ SubSeq(s, 1, e) \in Seq(Header) /\ Len(SubSeq(s, 1, e)) = e
      /\ \A i \in 1 .. e : SubSeq(s, 1, e)[i] = s[i]
  <2>1. /\ \A i \in 1 .. e : s[i] \in Header
    BY <1>1
  <2>2. /\ SubSeq(s, 1, e) \in Seq(Header)
        /\ Len(SubSeq(s, 1, e)) = IF 1 <= e THEN e - 1 + 1 ELSE 0
        /\ \A i \in 1 .. e - 1 + 1 : SubSeq(s, 1, e)[i] = s[1 + i - 1]
    BY <1>1, <2>1, SubSeqProperties
  <2> QED BY <1>1, <2>2
<1>3. First(s) = SubSeq(s, 1, e)
  BY DEF First, e
<1>4. ASSUME NEW k \in Nat
      PROVE  /\ Rest(s, k) \in Seq(Header)
             /\ Len(Rest(s, k)) = IF k <= Len(s) THEN Len(s) - k ELSE 0
             /\ \A i \in 1 .. Len(s) - k : Rest(s, k)[i] = s[k + i]
  <2>1. \A i \in k + 1 .. Len(s) : s[i] \in Header
    BY <1>1
  <2>2. k + 1 \in Int /\ Len(s) \in Int
    BY <1>1
  <2>3. /\ SubSeq(s, k + 1, Len(s)) \in Seq(Header)
        /\ Len(SubSeq(s, k + 1, Len(s))) =
              IF k + 1 <= Len(s) THEN Len(s) - (k + 1) + 1 ELSE 0
        /\ \A i \in 1 .. Len(s) - (k + 1) + 1 :
              SubSeq(s, k + 1, Len(s))[i] = s[k + 1 + i - 1]
    BY <2>1, <2>2, SubSeqProperties
  <2> QED BY <1>1, <2>3 DEF Rest
<1>5. Rest(s, 0) = s
  BY SubSeqFull DEF Rest
<1>6. Len(s) <= MaxHdrs => Rest(s, Len(First(s))) = <<>>
  <2> SUFFICES ASSUME Len(s) <= MaxHdrs PROVE Rest(s, Len(s)) = <<>>
    BY <1>1, <1>2, <1>3, AdjacencyAssumption DEF e
  <2> QED BY <1>1, SubSeqEmpty DEF Rest
<1>7. Range(s) \subseteq Range(First(s)) \cup Range(Rest(s, Len(First(s))))
  <2> SUFFICES ASSUME NEW j \in 1 .. Len(s)
               PROVE  s[j] \in Range(First(s)) \cup Range(Rest(s, e))
    <3>1. Range(s) = {s[j] : j \in 1 .. Len(s)} /\ Len(First(s)) = e
      BY <1>1, <1>2, <1>3 DEF Range
    <3> QED BY <3>1
  <2>1. CASE j <= e
    <3>1. j \in DOMAIN First(s) /\ First(s)[j] = s[j]
      BY <1>1, <1>2, <1>3, <2>1, LenProperties
    <3> QED BY <3>1 DEF Range
  <2>2. CASE j > e
    <3>1. /\ Rest(s, e) \in Seq(Header) /\ Len(Rest(s, e)) = Len(s) - e
          /\ \A i \in 1 .. Len(s) - e : Rest(s, e)[i] = s[e + i]
      BY <1>1, <1>4
    <3>2. j - e \in 1 .. Len(s) - e /\ e + (j - e) = j
      BY <1>1, <2>2
    <3>3. j - e \in DOMAIN Rest(s, e) /\ Rest(s, e)[j - e] = s[j]
      BY <3>1, <3>2, LenProperties
    <3> QED BY <3>3 DEF Range
  <2> QED BY <1>1, <2>1, <2>2
<1> QED BY <1>2, <1>1, <1>3, <1>4, <1>5, <1>6, <1>7

LEMMA Received ==
    ASSUME NEW S, NEW c \in Seq(S), c # <<>>
    PROVE  /\ Tail(c) \in Seq(S) /\ Head(c) \in S /\ Head(c) \in Elements(c)
           /\ Elements(c) = {Head(c)} \cup Elements(Tail(c))
           /\ \A X, Y : Follows(c, X, Y) =>
                 /\ Follows(Tail(c), X, Y)
                 /\ Head(c) \in X => Elements(Tail(c)) \subseteq Y
<1>1. /\ Head(c) \in S /\ Tail(c) \in Seq(S) /\ Len(Tail(c)) = Len(c) - 1
      /\ \A i \in 1 .. Len(Tail(c)) : Tail(c)[i] = c[i + 1]
  BY HeadTailProperties
<1>2. Len(c) \in Nat /\ Len(c) >= 1 /\ Head(c) = c[1]
  BY LenProperties, EmptySeq
<1> QED BY <1>1, <1>2 DEF Elements, Follows

LEMMA Queued ==
    ASSUME NEW S, NEW c \in Seq(S), NEW q \in S
    PROVE  /\ c \o <<q>> \in Seq(S) /\ c \o <<q>> = Append(c, q)
           /\ c \o <<>> = c
           /\ Elements(Append(c, q)) = Elements(c) \cup {q}
           /\ c # <<>> => Append(c, q) # <<>> /\ Head(Append(c, q)) = Head(c)
           /\ \A X, Y : Follows(c, X, Y) /\ (q \in Y \/ Elements(c) \cap X = {}) =>
                 Follows(Append(c, q), X, Y)
<1>1. c \o <<q>> = Append(c, q) /\ c \o <<>> = c
  BY AppendIsConcat, ConcatEmptySeq
<1>2. /\ Append(c, q) \in Seq(S) /\ Append(c, q) # <<>>
      /\ Len(Append(c, q)) = Len(c) + 1
      /\ \A i \in 1 .. Len(c) : Append(c, q)[i] = c[i]
      /\ Append(c, q)[Len(c) + 1] = q
  BY AppendProperties
<1>3. Len(c) \in Nat
  BY LenProperties
<1>4. Elements(Append(c, q)) = Elements(c) \cup {q}
  BY <1>2, <1>3 DEF Elements
<1>5. ASSUME NEW X, NEW Y, Follows(c, X, Y), q \in Y \/ Elements(c) \cap X = {}
      PROVE  Follows(Append(c, q), X, Y)
  BY <1>2, <1>3, <1>5 DEF Follows, Elements
<1>6. c # <<>> => Head(Append(c, q)) = Head(c)
  BY HeadTailAppend
<1> QED BY <1>1, <1>2, <1>4, <1>5, <1>6
-----------------------------------------------------------------------------
(* What an action of router r does to the link. *)

LEMMA ConsumeFacts ==
    ASSUME TypeInv, NEW r \in Router, chan[r] # <<>>,
           NEW out, out = <<>> \/ \E q \in Packet : out = <<q>>,
           Consume(r, out)
    PROVE  /\ chan' \in [Router -> Seq(Packet)]
           /\ chan'[r] = Tail(chan[r])
           /\ out = <<>> => chan'[Other(r)] = chan[Other(r)]
           /\ \A q : out = <<q>> => chan'[Other(r)] = Append(chan[Other(r)], q)
<1>1. /\ Other(r) \in Router /\ Other(r) # r
      /\ chan[r] \in Seq(Packet) /\ chan[Other(r)] \in Seq(Packet)
  BY TwoRouters DEF TypeInv
<1>2. Tail(chan[r]) \in Seq(Packet) /\ chan[Other(r)] \o out \in Seq(Packet)
  <2>1. Tail(chan[r]) \in Seq(Packet)
    BY <1>1, Received
  <2>2. chan[Other(r)] \o out \in Seq(Packet)
    <3> DEFINE c == chan[Other(r)]
    <3>1. c \in Seq(Packet)
      BY <1>1
    <3> HIDE DEF c
    <3>2. CASE out = <<>>
      <4>1. c \o <<>> = c
        BY <3>1, ConcatEmptySeq
      <4> QED BY <3>1, <3>2, <4>1 DEF c
    <3>3. ASSUME NEW q \in Packet, out = <<q>> PROVE c \o out \in Seq(Packet)
      <4>1. c \o <<q>> \in Seq(Packet)
        BY <3>1, Queued
      <4> QED BY <3>3, <4>1
    <3> QED BY <3>2, <3>3 DEF c
  <2> QED BY <2>1, <2>2
<1>3. /\ chan'[r] = Tail(chan[r]) /\ chan'[Other(r)] = chan[Other(r)] \o out
      /\ chan' \in [Router -> Seq(Packet)]
  BY <1>1, <1>2 DEF Consume, TypeInv
<1>4. out = <<>> => chan[Other(r)] \o out = chan[Other(r)]
  BY <1>1, ConcatEmptySeq
<1>5. ASSUME NEW q, out = <<q>>
      PROVE  chan[Other(r)] \o out = Append(chan[Other(r)], q)
  <2>1. PICK x \in Packet : out = <<x>>
    BY <1>5
  <2>2. x = q
    BY <1>5, <2>1
  <2> QED BY <1>1, <1>5, <2>1, <2>2, Queued
<1> QED BY <1>3, <1>4, <1>5

LEMMA SendFacts ==
    ASSUME TypeInv, NEW r \in Router, NEW q \in Packet, Send(r, q)
    PROVE  /\ chan' \in [Router -> Seq(Packet)]
           /\ chan'[r] = chan[r]
           /\ chan'[Other(r)] = Append(chan[Other(r)], q)
<1>1. /\ Other(r) \in Router /\ Other(r) # r /\ chan[Other(r)] \in Seq(Packet)
  BY TwoRouters DEF TypeInv
<1>2. Append(chan[Other(r)], q) \in Seq(Packet)
  BY <1>1, Queued
<1> QED BY <1>1, <1>2 DEF Send, TypeInv

(* The bytes of a number in the wrong order are a number, and 0 is 0.      *)
LEMMA Swapped ==
    /\ ByteSwap(0) = 0
    /\ \A s \in SeqNum : ByteSwap(s) \in SeqNum
<1>1. Byte \in Nat /\ Byte > 0
  BY AdjacencyAssumption
<1>2. 0 % Byte = 0 /\ 0 \div Byte = 0
  BY <1>1
<1>3. ASSUME NEW s \in SeqNum
      PROVE  ByteSwap(s) \in SeqNum
  <2> DEFINE q == s \div Byte
             t == s % Byte
  <2>1. /\ s \in Nat /\ s < Byte * Byte
    BY <1>1 DEF SeqNum, Mod
  <2>2. q \in Nat /\ t \in 0 .. Byte - 1 /\ s = Byte * q + t
    BY <1>1, <2>1
  <2> HIDE DEF q, t
  <2>3. q < Byte
    <3>1. Byte * q < Byte * Byte
      BY <1>1, <2>1, <2>2
    <3> QED BY <1>1, <2>2, <3>1
  <2>4. t * Byte <= (Byte - 1) * Byte /\ t * Byte \in Nat
    BY <1>1, <2>2
  <2>5. t * Byte + q \in SeqNum
    BY <1>1, <2>2, <2>3, <2>4 DEF SeqNum, Mod
  <2> QED BY <2>5 DEF ByteSwap, q, t
<1> QED BY <1>1, <1>2, <1>3 DEF ByteSwap

LEMMA ModFacts ==
    /\ Mod \in Nat \ {0} /\ 0 \in SeqNum
    /\ \A s \in SeqNum : Succ(s) \in SeqNum
<1>1. Byte \in Nat /\ Byte > 0
  BY AdjacencyAssumption
<1>2. Mod \in Nat /\ Mod > 0
  BY <1>1 DEF Mod
<1> HIDE DEF Mod
<1> QED BY <1>2 DEF SeqNum, Succ

(* Types of what is sent. *)
LEMMA PacketTypes ==
    /\ \A b \in BOOLEAN : Hello(b) \in Packet
    /\ Hello(TRUE) \in Listing /\ Hello(FALSE) \notin Listing
    /\ \A b : Hello(b) \notin Part \cup Empty
    /\ \A d \in Dd : ~d.i => DD(d) \in Part
    /\ \A d \in Dd : d.i /\ d.m /\ d.ms /\ d.hdrs = <<>> => DD(d) \in Empty
    /\ \A d : DD(d) \in Packet =>
          /\ d \in Dd /\ (d.i => DD(d) \in Empty) /\ (~d.i => DD(d) \in Part)
    /\ \A q \in Packet : q.type = "dd" <=> q \in Part \cup Empty
    /\ \A q \in Packet : q.type = "dd" => q = DD(q.dd)
    /\ \A q \in Packet : q.type = "hello" => q = Hello(q.two_way) /\ q.two_way \in BOOLEAN
    /\ Part \cup Empty \subseteq Listing /\ Listing \subseteq Packet
    /\ Part \cap Empty = {}
    /\ Unsent \in Dd /\ Nothing \in Recorded
<1>1. <<>> \in {hs \in Seq(Header) : Len(hs) <= MaxHdrs}
  BY EmptySeq, AdjacencyAssumption
<1>2. Unsent \in Dd /\ Nothing \in Recorded
  BY <1>1, ModFacts DEF Unsent, Nothing, Dd, Recorded
<1>3. /\ \A d : DD(d) \in Part <=> d \in Dd /\ ~d.i
      /\ \A d : DD(d) \in Empty <=> d \in Dd /\ d.i /\ d.m /\ d.ms /\ d.hdrs = <<>>
  <2>1. \A d, e : DD(d) = DD(e) => d = e
    BY DEF DD
  <2>2. /\ Part = {DD(d) : d \in {e \in Dd : ~e.i}}
        /\ Empty = {DD(d) : d \in {e \in Dd : e.i /\ e.m /\ e.ms /\ e.hdrs = <<>>}}
    BY DEF Part, Empty, DD
  <2> HIDE DEF DD
  <2> QED BY <2>1, <2>2
<1>4. \A d : DD(d).type = "dd" /\ DD(d).dd = d
  BY DEF DD
<1>5. \A b : Hello(b).type = "hello" /\ Hello(b).two_way = b
  BY DEF Hello
<1>6. /\ \A q \in Part \cup Empty : q.type = "dd" /\ q = DD(q.dd)
      /\ \A b \in BOOLEAN : Hello(b) \in Hellos
      /\ \A q \in Hellos : q.type = "hello" /\ q = Hello(q.two_way) /\ q.two_way \in BOOLEAN
  BY <1>4, <1>5 DEF Part, Empty, Hellos, DD, Hello
<1>7. Listing = Packet \ {Hello(FALSE)}
  BY DEF Listing, Hello
<1> HIDE DEF DD, Hello
<1>8. /\ \A b \in BOOLEAN : Hello(b) \in Packet
      /\ \A q \in Packet : q.type = "dd" <=> q \in Part \cup Empty
      /\ \A q \in Packet : q.type = "dd" => q = DD(q.dd)
      /\ \A q \in Packet : q.type = "hello" => q = Hello(q.two_way) /\ q.two_way \in BOOLEAN
      /\ \A d : DD(d) \in Packet => DD(d) \in Part \cup Empty
  BY <1>4, <1>6 DEF Packet
<1>9. Hello(TRUE) # Hello(FALSE) /\ \A b : Hello(b) \notin Part \cup Empty
  BY <1>4, <1>5, <1>6
<1>10. Part \cap Empty = {}
  BY <1>3, <1>6
<1>11. Part \cup Empty \subseteq Listing /\ Listing \subseteq Packet /\ Hello(TRUE) \in Listing
  BY <1>7, <1>8, <1>9 DEF Packet
<1> QED BY <1>2, <1>3, <1>7, <1>8, <1>9, <1>10, <1>11
-----------------------------------------------------------------------------
(* What the events do to a neighbour. *)

(* They leave alone what was sent and what is known. *)
SameLists(m, n) ==
    /\ m.is_master = n.is_master /\ m.dd_seq_num = n.dd_seq_num
    /\ m.last_send_dd = n.last_send_dd
    /\ m.database_summary_list = n.database_summary_list
    /\ m.link_state_request_list = n.link_state_request_list

LEMMA HelloReceivedFacts ==
    ASSUME NEW r \in Router, NEW n \in NbrRecord
    PROVE  LET m == N(r)!HelloReceived(n, Other(r)) IN
           /\ m \in NbrRecord /\ SameLists(m, n)
           /\ m.state = IF n.state = DOWN THEN INIT ELSE n.state
           /\ m.id = Other(r) /\ m.last_recv_dd = n.last_recv_dd
           /\ m.is_empty_dd_sender_running = n.is_empty_dd_sender_running
BY TwoRouters DEF N!HelloReceived, NbrRecord, SameLists

LEMMA ExstartFacts ==
    ASSUME NEW r \in Router, NEW n \in NbrRecord,
           NEW m \in {N(r)!EnterExstart(n), N(r)!StartSender(N(r)!EnterExstart(n))}
    PROVE  /\ m \in NbrRecord /\ m.state = EXSTART /\ m.id = n.id
           /\ m.dd_seq_num = 0
           /\ m.last_send_dd = Unsent /\ m.last_recv_dd = Nothing
           /\ m.link_state_request_list = n.link_state_request_list
           /\ m = N(r)!EnterExstart(n) =>
                 m.is_empty_dd_sender_running = n.is_empty_dd_sender_running
<1> DEFINE e == [n EXCEPT !.last_recv_dd = Nothing, !.last_send_dd = Unsent,
                          !.dd_seq_num = 0, !.is_master = TRUE, !.state = EXSTART]
<1>1. N(r)!EnterExstart(n) = e
  BY DEF N!EnterExstart, N!NoSend, N!NoRecv, Unsent, Nothing
<1>2. /\ e \in NbrRecord /\ e.state = EXSTART /\ e.id = n.id /\ e.dd_seq_num = 0
      /\ e.last_send_dd = Unsent /\ e.last_recv_dd = Nothing
      /\ e.link_state_request_list = n.link_state_request_list
      /\ e.is_empty_dd_sender_running = n.is_empty_dd_sender_running
  BY PacketTypes, ModFacts DEF NbrRecord
<1> HIDE DEF e
<1>3. LET f == N(r)!StartSender(e) IN
      /\ f \in NbrRecord /\ f.state = EXSTART /\ f.id = n.id /\ f.dd_seq_num = 0
      /\ f.last_send_dd = Unsent /\ f.last_recv_dd = Nothing
      /\ f.link_state_request_list = n.link_state_request_list
      /\ f.is_empty_dd_sender_running # e.is_empty_dd_sender_running => f # e
  BY <1>2 DEF N!StartSender, NbrRecord
<1> QED BY <1>1, <1>2, <1>3

LEMMA RecordReceivedFacts ==
    ASSUME NEW r \in Router, NEW n \in NbrRecord, NEW p \in Dd
    PROVE  LET m == N(r)!RecordReceived(n, p) IN
           /\ m \in NbrRecord /\ SameLists(m, n)
           /\ m.state = n.state /\ m.id = n.id
           /\ m.last_recv_dd = AsRecorded(p) /\ m.options = p.options
           /\ m.last_recv_dd.i = p.i
           /\ m.is_empty_dd_sender_running = n.is_empty_dd_sender_running
BY DEF N!RecordReceived, NbrRecord, SameLists, AsRecorded, Dd, Recorded

LEMMA TearDownFacts ==
    ASSUME NEW r \in Router, NEW n \in NbrRecord
    PROVE  LET m == N(r)!TearDown(n, EXSTART) IN
           /\ m \in NbrRecord /\ SameLists(m, n)
           /\ m.state = EXSTART /\ m.id = n.id /\ m.last_recv_dd = n.last_recv_dd
           /\ m.is_empty_dd_sender_running = n.is_empty_dd_sender_running
BY DEF N!TearDown, NbrRecord, SameLists

(* What a router sends with the acceptance of a packet. *)
Reply(k) ==
    [seq |-> k.dd_seq_num, i |-> FALSE,
     m |-> Len(k.database_summary_list) > MaxHdrs, ms |-> ~k.is_master,
     options |-> MyOptions, hdrs |-> First(k.database_summary_list)]

(* The packet that is accepted is answered with the next headers. *)
AcceptedAs(k, n, p, want) ==
    LET l == Rest(n.database_summary_list, Len(n.last_send_dd.hdrs)) IN
    /\ k \in NbrRecord
    /\ k.state = IF ~p.m /\ l = <<>> THEN FULL ELSE EXCHANGE
    /\ k.id = n.id /\ k.is_master = n.is_master
    /\ k.last_recv_dd = n.last_recv_dd
    /\ k.dd_seq_num = IF n.is_master THEN p.seq ELSE Succ(n.dd_seq_num)
    /\ k.database_summary_list = l
    /\ k.link_state_request_list = n.link_state_request_list \cup want
    /\ k.last_send_dd = Reply(k)
    /\ DD(k.last_send_dd) \in Part
    /\ k.is_empty_dd_sender_running = n.is_empty_dd_sender_running

LEMMA AcceptFacts ==
    ASSUME NEW r \in Router, NEW n \in NbrRecord, NEW p \in Dd,
           NEW want \in SUBSET Header, NEW own \in SUBSET Header,
           n.state = EXCHANGE
    PROVE  AcceptedAs(N(r)!AcceptDD(n, p, want, own), n, p, want)
<1> DEFINE k == N(r)!AcceptDD(n, p, want, own)
           l == Rest(n.database_summary_list, Len(n.last_send_dd.hdrs))
           seq == IF n.is_master THEN p.seq ELSE Succ(n.dd_seq_num)
           reply == [seq |-> seq, i |-> FALSE, m |-> Len(l) > MaxHdrs,
                     ms |-> ~n.is_master, options |-> MyOptions, hdrs |-> First(l)]
           next == [n EXCEPT !.dd_seq_num = seq,
                             !.link_state_request_list = @ \cup want,
                             !.database_summary_list = l, !.last_send_dd = reply]
<1>1. l \in Seq(Header)
  <2>1. /\ n.database_summary_list \in Seq(Header)
        /\ n.last_send_dd.hdrs \in Seq(Header)
    BY DEF NbrRecord, Dd
  <2>2. Len(n.last_send_dd.hdrs) \in Nat
    BY <2>1, LenProperties
  <2> QED BY <2>1, <2>2, SplitList
<1>2. seq \in SeqNum
  BY ModFacts DEF NbrRecord, Dd
<1>3. First(l) \in {hs \in Seq(Header) : Len(hs) <= MaxHdrs} /\ Len(l) \in Nat
  BY <1>1, SplitList, LenProperties
<1>4. k = IF ~p.m /\ l = <<>> THEN N(r)!ExchangeDone(next, own) ELSE next
  BY DEF N!AcceptDD, N!NextSeq, N!Drop, N!Take, Rest, First, Mod, Succ
<1> HIDE DEF l, seq, k
<1>5. reply \in Dd /\ ~reply.i
  <2>1. (Len(l) > MaxHdrs) \in BOOLEAN /\ (~n.is_master) \in BOOLEAN
    OBVIOUS
  <2> QED BY <1>2, <1>3, <2>1 DEF Dd
<1>6. /\ next \in NbrRecord /\ next.state = EXCHANGE /\ next.id = n.id
      /\ next.is_master = n.is_master
      /\ next.last_recv_dd = n.last_recv_dd /\ next.dd_seq_num = seq
      /\ next.database_summary_list = l
      /\ next.link_state_request_list = n.link_state_request_list \cup want
      /\ next.last_send_dd = reply
      /\ next.is_empty_dd_sender_running = n.is_empty_dd_sender_running
  <2> HIDE DEF reply
  <2> QED BY <1>1, <1>2, <1>5 DEF NbrRecord
<1> HIDE DEF next
<1>7. LET d == N(r)!ExchangeDone(next, own) IN
      /\ d \in NbrRecord /\ d.state = FULL /\ d.id = next.id
      /\ d.last_recv_dd = next.last_recv_dd /\ SameLists(d, next)
      /\ d.is_empty_dd_sender_running = next.is_empty_dd_sender_running
  BY <1>6 DEF N!ExchangeDone, NbrRecord, SameLists
<1>8. DD(reply) \in Part
  BY <1>5, PacketTypes
<1>9. /\ k \in NbrRecord /\ k.state = (IF ~p.m /\ l = <<>> THEN FULL ELSE EXCHANGE)
      /\ k.id = n.id /\ k.last_recv_dd = n.last_recv_dd /\ SameLists(k, next)
      /\ k.is_empty_dd_sender_running = n.is_empty_dd_sender_running
  BY <1>4, <1>6, <1>7 DEF SameLists
<1>10. /\ k.is_master = n.is_master /\ k.dd_seq_num = seq
       /\ k.database_summary_list = l
       /\ k.link_state_request_list = n.link_state_request_list \cup want
       /\ k.last_send_dd = reply
  BY <1>6, <1>9 DEF SameLists
<1>11. k.last_send_dd = Reply(k)
  BY <1>10 DEF Reply
<1> QED BY <1>8, <1>9, <1>10, <1>11 DEF AcceptedAs, seq, l, k
-----------------------------------------------------------------------------
(* Steps of router r.  The other router keeps its state and may be sent a  *)
(* packet.                                                                 *)
Says(r, q) ==
    /\ q \in Listing <=> nbr[r].state # DOWN
    /\ q \in Part \cup Empty => nbr[r].state >= EXSTART
    /\ q \in Empty => q.dd.seq = 0 \/ Began(r)

Frame(r) ==
    LET o == Other(r) IN
    /\ nbr'[o] = nbr[o] /\ adj'[o] = adj[o] /\ rpc'[o] = rpc[o]
    /\ event'[o] = event[o] /\ sender'[o] = sender[o]
    /\ chan'[o] # chan[o] =>
          \E q \in Packet : chan'[o] = Append(chan[o], q) /\ Says(r, q)
    /\ chan'[r] # chan[r] => chan[r] # <<>> /\ chan'[r] = Tail(chan[r])

(* Only a router that was listed gets to 2-Way, and only one that receives *)
(* a DD packet begins.                                                     *)
Rise(r) ==
    /\ nbr[r].state # DOWN => nbr'[r].state # DOWN
    /\ nbr[r].state >= EXSTART => nbr'[r].state >= EXSTART
    /\ nbr'[r].state >= TWOWAY /\ nbr[r].state < TWOWAY =>
          chan[r] # <<>> /\ Head(chan[r]) \in Listing

Begins(r) ==
    Began(r)' /\ ~Began(r) =>
        chan[r] # <<>> /\ Head(chan[r]) \in Part \cup Empty

Local(r) == TypeInv' /\ Frame(r) /\ Control(r)' /\ Rise(r)

LEMMA HelloStep ==
    ASSUME IInv, NEW r \in Router, Local(r), Begins(r)
    PROVE  HelloInv'
<1> DEFINE o == Other(r)
<1>1. /\ o \in Router /\ o # r /\ Other(o) = r /\ Router = {r, o}
  BY TwoRouters
<1> HIDE DEF o
<1>2. /\ chan[r] \in Seq(Packet) /\ chan[o] \in Seq(Packet)
      /\ nbr[r].state \in Nat /\ nbr[o].state \in Nat /\ nbr'[r].state \in Nat
  BY <1>1 DEF IInv, TypeInv, Local, NbrRecord
<1>3. /\ nbr'[o] = nbr[o]
      /\ chan'[o] # chan[o] =>
            \E q \in Packet : chan'[o] = Append(chan[o], q) /\ Says(r, q)
      /\ chan'[r] # chan[r] => chan[r] # <<>> /\ chan'[r] = Tail(chan[r])
      /\ Rise(r)
  BY DEF Local, Frame, o
<1>4. Order(r, o) /\ Order(o, r)
  BY <1>1 DEF IInv, HelloInv, o
<1>5. /\ In(r)' \subseteq In(r) /\ Follows(chan'[r], Listing, Listing)
      /\ chan[r] # <<>> /\ Head(chan[r]) \in Listing =>
            In(r) \subseteq Listing /\ In(r) \cap Listing # {}
  <2>1. ASSUME chan[r] # <<>>
        PROVE  /\ Elements(chan[r]) = {Head(chan[r])} \cup Elements(Tail(chan[r]))
               /\ Follows(Tail(chan[r]), Listing, Listing)
               /\ Head(chan[r]) \in Listing => Elements(Tail(chan[r])) \subseteq Listing
    BY <1>2, <1>4, <2>1, Received DEF Order
  <2> QED BY <1>3, <1>4, <2>1 DEF Order, In
<1>6. Order(r, o)'
  <2>1. Began(r)' => Began(r) \/ In(r) \cap (Part \cup Empty) # {}
    <3>1. chan[r] # <<>> => Head(chan[r]) \in In(r)
      BY <1>2, Received DEF In
    <3> QED BY <3>1 DEF Begins
  <2>2. In(r)' \cap (Part \cup Empty) # {} \/ Began(r)' => nbr'[o].state >= EXSTART
    BY <1>3, <1>4, <1>5, <2>1 DEF Order
  <2> QED BY <1>2, <1>3, <1>4, <1>5, <2>2 DEF Order, Rise
<1>7. Order(o, r)'
  <2>3. Began(o)' <=> Began(o)
    BY DEF Local, Frame, Began, Hung, o
  <2>1. CASE chan'[o] = chan[o]
    BY <1>2, <1>3, <1>4, <2>1, <2>3 DEF Order, In, Rise
  <2>2. CASE chan'[o] # chan[o]
    <3>1. PICK q \in Packet : chan'[o] = Append(chan[o], q) /\ Says(r, q)
      BY <1>3, <2>2
    <3>2. /\ Elements(chan'[o]) = Elements(chan[o]) \cup {q}
          /\ q \in Listing \/ Elements(chan[o]) \cap Listing = {} =>
                Follows(chan'[o], Listing, Listing)
      BY <1>2, <1>4, <3>1, Queued DEF Order
    <3>3. Follows(chan'[o], Listing, Listing)
      BY <1>2, <1>4, <3>1, <3>2 DEF Order, In, Says
    <3>4. nbr'[r].state = DOWN => nbr'[o].state <= INIT /\ In(o)' \cap Listing = {}
      BY <1>2, <1>3, <1>4, <3>1, <3>2 DEF Order, In, Says, Rise
    <3>5. nbr'[o].state >= TWOWAY => In(o)' \subseteq Listing
      BY <1>2, <1>3, <1>4, <3>1, <3>2 DEF Order, In, Says
    <3>6. nbr'[o].state = DOWN => In(o)' \cap (Part \cup Empty) = {}
      BY <1>2, <1>3, <1>4, <3>1, <3>2 DEF Order, In, Says
    <3>7. In(o)' \cap (Part \cup Empty) # {} \/ Began(o)' => nbr'[r].state >= EXSTART
      BY <1>2, <1>3, <1>4, <2>3, <3>1, <3>2 DEF Order, In, Says, Rise
    <3> QED BY <3>3, <3>4, <3>5, <3>6, <3>7 DEF Order
  <2> QED BY <2>1, <2>2
<1> QED BY <1>1, <1>6, <1>7, TwoRouters DEF HelloInv, o

LEMMA ControlStep ==
    ASSUME IInv, NEW r \in Router, Local(r)
    PROVE  ControlInv'
<1> DEFINE o == Other(r)
<1>1. /\ o \in Router /\ Router = {r, o}
  BY TwoRouters
<1>2. chan[o] # <<>> => chan'[o] # <<>> /\ Head(chan'[o]) = Head(chan[o])
  <2>1. chan[o] \in Seq(Packet)
    BY <1>1 DEF IInv, TypeInv
  <2>2. chan'[o] = chan[o] \/ \E q \in Packet : chan'[o] = Append(chan[o], q)
    BY DEF Local, Frame
  <2> HIDE DEF o
  <2> QED BY <2>1, <2>2, Queued
<1>3. Control(o)'
  <2>1. Control(o)
    BY <1>1 DEF IInv, ControlInv
  <2>2. /\ nbr'[o] = nbr[o] /\ rpc'[o] = rpc[o]
        /\ event'[o] = event[o] /\ sender'[o] = sender[o]
    BY DEF Local, Frame
  <2> HIDE DEF o
  <2> QED BY <1>2, <2>1, <2>2 DEF Control, Hung
<1> QED BY <1>1, <1>3 DEF ControlInv, Local
-----------------------------------------------------------------------------
(* Steps that leave the exchange where it is: router r accepts no packet,  *)
(* and may only say again what it said last, if it is the slave.           *)
Keeps(r) ==
    /\ Began(r)' <=> Began(r)
    /\ nbr'[r].state = FULL <=> nbr[r].state = FULL
    /\ Began(r) => SameLists(nbr'[r], nbr[r])
    /\ nbr'[r].link_state_request_list = nbr[r].link_state_request_list
    /\ r = MasterId /\ nbr'[r].state = EXCHANGE =>
          nbr[r].state = EXCHANGE /\ nbr'[r].last_recv_dd = nbr[r].last_recv_dd
    /\ \A q \in Part : chan'[Other(r)] = Append(chan[Other(r)], q) =>
          r = SlaveId /\ Began(r) /\ q = Sent(r)

LEMMA KnowsSame ==
    ASSUME NEW r \in Router, NEW l,
           nbr'[r].link_state_request_list = nbr[r].link_state_request_list
    PROVE  Knows(r, l)' <=> Knows(r, l)
BY DEF Knows, Lacks

LEMMA KeepStep ==
    ASSUME IInv, NEW r \in Router, Local(r), Keeps(r)
    PROVE  PhaseInv'
<1> DEFINE o == Other(r)
           M == MasterId
           S == SlaveId
           Repeat == IF Began(S) THEN {Sent(S)} ELSE {}
<1>1. /\ Router = {r, o} /\ o \in Router /\ M \in Router /\ S \in Router /\ M # S
      /\ Router = {M, S} /\ Other(M) = S /\ Other(S) = M
  BY TwoRouters
<1>2. /\ chan[M] \in Seq(Packet) /\ chan[S] \in Seq(Packet)
  BY <1>1 DEF IInv, TypeInv
<1>3. \A x \in Router :
          /\ Began(x)' <=> Began(x)
          /\ nbr'[x].state = FULL <=> nbr[x].state = FULL
          /\ Began(x) => SameLists(nbr'[x], nbr[x])
          /\ nbr'[x].link_state_request_list = nbr[x].link_state_request_list
          /\ x = M /\ nbr'[x].state = EXCHANGE =>
                nbr[x].state = EXCHANGE /\ nbr'[x].last_recv_dd = nbr[x].last_recv_dd
  <2>1. nbr'[o] = nbr[o] /\ rpc'[o] = rpc[o]
    BY DEF Local, Frame
  <2> HIDE DEF o
  <2> QED BY <1>1, <2>1 DEF Keeps, Began, Hung, SameLists
<1>4. \A x \in Router :
          \/ chan'[x] = chan[x]
          \/ chan[x] # <<>> /\ chan'[x] = Tail(chan[x])
          \/ \E q \in Packet :
                /\ chan'[x] = Append(chan[x], q)
                /\ q \in Part => x = M /\ q \in Repeat
                /\ q \in Empty => q.dd.seq = 0 \/ x = M \/ Began(M)
  <2>1. chan'[r] = chan[r] \/ (chan[r] # <<>> /\ chan'[r] = Tail(chan[r]))
    BY DEF Local, Frame
  <2>2. ASSUME chan'[o] # chan[o]
        PROVE  \E q \in Packet :
                  /\ chan'[o] = Append(chan[o], q)
                  /\ q \in Part => o = M /\ q \in Repeat
                  /\ q \in Empty => q.dd.seq = 0 \/ o = M \/ Began(M)
    <3>1. PICK q \in Packet : chan'[o] = Append(chan[o], q) /\ Says(r, q)
      BY <2>2 DEF Local, Frame
    <3>2. q \in Part => r = S /\ Began(r) /\ q = Sent(r)
      BY <3>1 DEF Keeps
    <3> QED BY <1>1, <3>1, <3>2 DEF Says
  <2> HIDE DEF o, Repeat
  <2> QED BY <1>1, <2>1, <2>2
<1> HIDE DEF o
<1>5. /\ In(S)' \cap Part \subseteq In(S) \cap Part
      /\ Follows(chan[S], Part, Packet \ Part) => Follows(chan'[S], Part, Packet \ Part)
      /\ \A q \in In(S)' \cap Empty : q \in In(S) \/ q.dd.seq = 0 \/ Began(M)
  <2>1. CASE chan'[S] = chan[S]
    BY <2>1 DEF In
  <2>2. CASE chan[S] # <<>> /\ chan'[S] = Tail(chan[S])
    BY <1>2, <2>2, Received DEF In
  <2>3. ASSUME NEW q \in Packet, chan'[S] = Append(chan[S], q),
               q \notin Part, q \in Empty => q.dd.seq = 0 \/ Began(M)
        PROVE  <1>5!1 /\ <1>5!2 /\ <1>5!3
    BY <1>2, <2>3, Queued DEF In
  <2> QED BY <1>1, <1>4, <2>1, <2>2, <2>3
<1>6. /\ In(M)' \cap Part \subseteq (In(M) \cap Part) \cup Repeat
      /\ \A X : Follows(chan[M], X, (Packet \ Part) \cup {Sent(S)}) =>
                Follows(chan'[M], X, (Packet \ Part) \cup {Sent(S)})
  <2>1. CASE chan'[M] = chan[M]
    BY <2>1 DEF In
  <2>2. CASE chan[M] # <<>> /\ chan'[M] = Tail(chan[M])
    BY <1>2, <2>2, Received DEF In
  <2>3. ASSUME NEW q \in Packet, chan'[M] = Append(chan[M], q),
               q \in Part => q \in Repeat
        PROVE  <1>6!1 /\ <1>6!2
    BY <1>2, <2>3, Queued DEF In
  <2> QED BY <1>1, <1>4, <2>1, <2>2, <2>3
<1>7. \A x \in Router : \A l : Knows(x, l)' <=> Knows(x, l)
  BY <1>3, KnowsSame
<1>8. \A x \in Router : Began(x) => Remaining(x)' = Remaining(x) /\ Sent(x)' = Sent(x)
  BY <1>3 DEF SameLists, Remaining, Sent
<1>9. nbr'[M].state = EXCHANGE => nbr[M].state = EXCHANGE /\ Old' = Old
  BY <1>1, <1>3 DEF Old
<1>10. SentInv'
  BY <1>3 DEF IInv, PhaseInv, SentInv, SameLists
<1>11. BeforeInv'
  BY <1>1, <1>3, <1>5, <1>6, <1>7, <1>8 DEF IInv, PhaseInv, BeforeInv, SameLists
<1>12. DuringInv'
  <2> SUFFICES ASSUME Began(M)' PROVE Began(S)' /\ (Ahead \/ Level)'
    BY DEF DuringInv
  <2>1. Began(M) /\ Began(S) /\ Began(S)' /\ (Ahead \/ Level)
    BY <1>1, <1>3 DEF IInv, PhaseInv, DuringInv
  <2>2. SameLists(nbr'[M], nbr[M]) /\ SameLists(nbr'[S], nbr[S])
    BY <1>1, <1>3, <2>1
  <2>3. CASE Ahead
    BY <1>1, <1>5, <1>6, <1>7, <1>8, <1>9, <2>1, <2>2, <2>3 DEF Ahead, SameLists
  <2>4. CASE Level
    BY <1>1, <1>5, <1>6, <1>7, <1>8, <1>9, <2>1, <2>2, <2>4 DEF Level, SameLists
  <2> QED BY <2>1, <2>3, <2>4
<1>13. FullInv'
  BY <1>3, <1>7 DEF IInv, PhaseInv, FullInv, Full, Began, SameLists
<1> QED BY <1>10, <1>11, <1>12, <1>13 DEF PhaseInv
-----------------------------------------------------------------------------
(* Hellos, the election and the empty DD sender. *)

LEMMA NothingSaid ==
    ASSUME TypeInv, NEW r \in Router,
           \/ chan'[Other(r)] = chan[Other(r)]
           \/ \E q \in Packet \ Part : chan'[Other(r)] = Append(chan[Other(r)], q)
    PROVE  \A p \in Part : chan'[Other(r)] # Append(chan[Other(r)], p)
<1>1. chan[Other(r)] \in Seq(Packet) /\ Part \subseteq Packet
  BY TwoRouters DEF TypeInv, Packet
<1>2. \A p \in Packet : Append(chan[Other(r)], p) # chan[Other(r)]
  <2>1. \A p \in Packet : Len(Append(chan[Other(r)], p)) = Len(chan[Other(r)]) + 1
    BY <1>1, AppendProperties
  <2>2. Len(chan[Other(r)]) \in Nat
    BY <1>1, LenProperties
  <2> QED BY <2>1, <2>2
<1>3. \A p, q \in Packet : Append(chan[Other(r)], p) = Append(chan[Other(r)], q) => p = q
  BY <1>1, AppendInjective
<1> QED BY <1>1, <1>2, <1>3

LEMMA ControlSame ==
    ASSUME IInv, NEW r \in Router, nbr'[r] = nbr[r], rpc'[r] = rpc[r],
           event'[r] = event[r], sender'[r] = sender[r],
           rpc[r] = "dd" => chan'[r] = chan[r]
    PROVE  Control(r)' /\ Rise(r)
<1>1. Control(r)
  BY DEF IInv, ControlInv
<1>2. nbr[r].state \in Nat
  <2>1. nbr[r] \in NbrRecord
    BY DEF IInv, TypeInv
  <2> QED BY <2>1 DEF NbrRecord
<1> QED BY <1>1, <1>2 DEF Control, Hung, Rise

LEMMA KeepsSame ==
    ASSUME IInv, NEW r \in Router, nbr'[r] = nbr[r], rpc'[r] = rpc[r],
           \/ chan'[Other(r)] = chan[Other(r)]
           \/ \E q \in Packet \ Part : chan'[Other(r)] = Append(chan[Other(r)], q)
    PROVE  Keeps(r)
BY NothingSaid DEF IInv, Keeps, Began, Hung, SameLists

LEMMA SendHelloQuiet ==
    ASSUME IInv, NEW r \in Router, SendHello(r)
    PROVE  Local(r) /\ Keeps(r)
<1> DEFINE q == Hello(nbr[r].state # DOWN)
<1>1. q \in Packet \ Part /\ q \notin Empty /\ (q \in Listing <=> nbr[r].state # DOWN)
  BY PacketTypes
<1>2. Send(r, q) /\ UNCHANGED <<nbr, adj, rpc, event, sender>>
  BY DEF SendHello
<1> HIDE DEF q
<1>3. /\ chan' \in [Router -> Seq(Packet)] /\ chan'[r] = chan[r]
      /\ chan'[Other(r)] = Append(chan[Other(r)], q)
  BY <1>1, <1>2, SendFacts DEF IInv
<1>4. Frame(r)
  BY <1>1, <1>2, <1>3 DEF Frame, Says
<1>5. TypeInv'
  BY <1>2, <1>3 DEF IInv, TypeInv
<1> QED BY <1>1, <1>2, <1>3, <1>4, <1>5, ControlSame, KeepsSame DEF Local

LEMMA LoseQuiet ==
    ASSUME IInv, NEW r \in Router, Lose(r)
    PROVE  Local(r) /\ Keeps(r)
<1>1. /\ chan[r] # <<>> /\ rpc[r] # "dd" /\ chan' = [chan EXCEPT ![r] = Tail(@)]
      /\ UNCHANGED <<nbr, adj, rpc, event, sender>>
  BY DEF Lose
<1>2. /\ chan' \in [Router -> Seq(Packet)] /\ chan'[r] = Tail(chan[r])
      /\ chan'[Other(r)] = chan[Other(r)]
  BY <1>1, Received, TwoRouters DEF IInv, TypeInv
<1>3. Frame(r)
  BY <1>1, <1>2 DEF Frame
<1>4. TypeInv'
  BY <1>1, <1>2 DEF IInv, TypeInv
<1> QED BY <1>1, <1>2, <1>3, <1>4, ControlSame, KeepsSame DEF Local

(* A late empty DD packet may have any number. *)
LEMMA SenderQuiet ==
    ASSUME IInv, NEW r \in Router, EmptyDDSender(r)
    PROVE  Local(r) /\ Keeps(r)
<1>1. PICK from \in {"check", "send", "sleep", "exit"},
           to \in {"check", "send", "sleep", "exit", "exited"} :
          SenderMoves(r, from, to)
  BY DEF EmptyDDSender, SenderCheck, SenderSend, SenderWakes, SenderExits
<1>2. /\ sender[r] # "none" /\ sender'[r] # "none"
      /\ sender'[Other(r)] = sender[Other(r)]
      /\ UNCHANGED <<adj, rpc, event>>
  BY <1>1, TwoRouters DEF SenderMoves, IInv, TypeInv
<1>3. nbr[r] \in NbrRecord /\ Control(r)
  BY DEF IInv, TypeInv, ControlInv
<1>4. nbr[r].state >= EXSTART
  BY <1>2, <1>3 DEF Control, NbrRecord
<1>5. /\ nbr' \in [Router -> NbrRecord] /\ nbr'[Other(r)] = nbr[Other(r)]
      /\ nbr'[r].state = nbr[r].state /\ SameLists(nbr'[r], nbr[r])
      /\ nbr'[r].id = nbr[r].id /\ nbr'[r].last_recv_dd = nbr[r].last_recv_dd
  <2> DEFINE m == [nbr[r] EXCEPT !.is_empty_dd_sender_running = FALSE]
  <2>1. /\ m \in NbrRecord /\ m.state = nbr[r].state /\ m.id = nbr[r].id
        /\ m.last_recv_dd = nbr[r].last_recv_dd /\ SameLists(m, nbr[r])
    BY <1>3 DEF NbrRecord, SameLists
  <2>2. nbr' = nbr \/ nbr' = [nbr EXCEPT ![r] = m]
    BY DEF EmptyDDSender, SenderCheck, SenderSend, SenderWakes, SenderExits, Becomes
  <2> HIDE DEF m
  <2> QED BY <2>1, <2>2, TwoRouters DEF IInv, TypeInv, SameLists
<1>6. /\ chan' \in [Router -> Seq(Packet)] /\ chan'[r] = chan[r]
      /\ \/ chan'[Other(r)] = chan[Other(r)]
         \/ \E q \in Packet \ Part :
               chan'[Other(r)] = Append(chan[Other(r)], q) /\ Says(r, q)
  <2>1. CASE SenderSend(r)
    <3> DEFINE d == EmptyDD(r)
               q == DD(d)
    <3>1. /\ d \in Dd /\ d.i /\ d.m /\ d.ms /\ d.hdrs = <<>>
          /\ d.seq = ByteSwap(nbr[r].dd_seq_num)
      <4>1. ByteSwap(nbr[r].dd_seq_num) \in SeqNum
        BY <1>3, Swapped DEF NbrRecord
      <4>2. <<>> \in {hs \in Seq(Header) : Len(hs) <= MaxHdrs}
        BY EmptySeq, AdjacencyAssumption
      <4> QED BY <4>1, <4>2 DEF EmptyDD, Dd
    <3>2. q \in Empty
      <4> HIDE DEF d
      <4> QED BY <3>1, PacketTypes
    <3>3. q.dd.seq = 0 \/ Began(r)
      <4>1. nbr[r].state = EXSTART \/ Began(r)
        BY <1>3, <1>4 DEF Began, NbrRecord
      <4>2. nbr[r].state = EXSTART /\ ~Began(r) => nbr[r].dd_seq_num = 0
        BY <1>3 DEF Control, Began
      <4>3. q.dd = d
        BY DEF DD
      <4> QED BY <3>1, <4>1, <4>2, <4>3, Swapped
    <3>4. q \in Packet \ Part /\ q \in Listing
      BY <3>2, PacketTypes
    <3>5. Says(r, q)
      BY <1>4, <3>3, <3>4, PacketTypes DEF Says
    <3>6. Send(r, q)
      BY <2>1 DEF SenderSend
    <3> HIDE DEF q, d
    <3> QED BY <3>4, <3>5, <3>6, SendFacts DEF IInv
  <2>2. CASE ~SenderSend(r)
    <3>1. chan' = chan
      BY <2>2 DEF EmptyDDSender, SenderCheck, SenderWakes, SenderExits
    <3> QED BY <3>1 DEF IInv, TypeInv
  <2> QED BY <2>1, <2>2
<1>7. TypeInv'
  BY <1>1, <1>2, <1>5, <1>6 DEF IInv, TypeInv, SenderMoves
<1>8. Frame(r)
  BY <1>2, <1>5, <1>6 DEF Frame
<1>9. Control(r)' /\ Rise(r)
  <2>1. nbr'[r].state \in Nat /\ rpc'[r] = rpc[r] /\ event'[r] = event[r]
    BY <1>2, <1>3, <1>5 DEF NbrRecord
  <2>2. nbr'[r].dd_seq_num = nbr[r].dd_seq_num /\ nbr'[r].last_send_dd = nbr[r].last_send_dd
    BY <1>5 DEF SameLists
  <2>3. nbr'[r].state >= EXSTART
    BY <1>4, <1>5
  <2> QED BY <1>2, <1>3, <1>4, <1>5, <1>6, <2>1, <2>2, <2>3 DEF Control, Rise, Hung
<1>10. Keeps(r)
  BY <1>2, <1>5, <1>6, NothingSaid DEF IInv, Keeps, Began, Hung, SameLists
<1> QED BY <1>7, <1>8, <1>9, <1>10 DEF Local

(* What is left of a step of r's receive thread once its effect is known.  *)
LEMMA Steps ==
    ASSUME IInv, NEW r \in Router, NEW m \in NbrRecord,
           nbr' = [nbr EXCEPT ![r] = m],
           UNCHANGED adj \/ adj' = [adj EXCEPT ![r] = TRUE],
           NEW at \in {"loop", "dd", "finish", "join_retrans"}, rpc' = [rpc EXCEPT ![r] = at],
           NEW e \in {"none", "restart"}, event' = [event EXCEPT ![r] = e],
           NEW s \in {"none", "check", "send", "sleep", "exit", "exited"},
           sender' = [sender EXCEPT ![r] = s],
           chan' \in [Router -> Seq(Packet)],
           chan'[r] = chan[r] \/ (chan[r] # <<>> /\ chan'[r] = Tail(chan[r])),
           \/ chan'[Other(r)] = chan[Other(r)]
           \/ \E q \in Packet :
                 chan'[Other(r)] = Append(chan[Other(r)], q) /\ Says(r, q)
    PROVE  TypeInv' /\ Frame(r)
<1>1. Other(r) \in Router /\ Other(r) # r
  BY TwoRouters
<1>2. TypeInv'
  BY DEF IInv, TypeInv
<1>3. Frame(r)
  BY <1>1 DEF IInv, TypeInv, Frame
<1> QED BY <1>2, <1>3

(* The neighbour is heard to list this router, and 2-Way may be skipped. *)
LEMMA TwoWayFacts ==
    ASSUME IInv, NEW r \in Router, NEW m \in NbrRecord, m.state = INIT,
           ~m.is_empty_dd_sender_running, sender[r] = "none",
           TwoWayReceived(r, m)
    PROVE  \E k \in NbrRecord, s \in {"none", "check"} :
              /\ nbr' = [nbr EXCEPT ![r] = k] /\ sender' = [sender EXCEPT ![r] = s]
              /\ k.state = (IF adj[r] THEN EXSTART ELSE TWOWAY) /\ k.id = m.id
              /\ k.link_state_request_list = m.link_state_request_list
              /\ adj[r] => /\ s = "check" /\ k.dd_seq_num = 0
                           /\ k.last_send_dd = Unsent /\ k.last_recv_dd = Nothing
              /\ ~adj[r] => s = "none" /\ ~k.is_empty_dd_sender_running
<1>1. CASE adj[r]
  <2> DEFINE k == N(r)!StartSender(N(r)!EnterExstart(m))
  <2>1. k \in NbrRecord /\ k.state = EXSTART /\ k.id = m.id
        /\ k.link_state_request_list = m.link_state_request_list
        /\ k.dd_seq_num = 0 /\ k.last_send_dd = Unsent /\ k.last_recv_dd = Nothing
    BY ExstartFacts
  <2>2. nbr' = [nbr EXCEPT ![r] = k] /\ sender' = [sender EXCEPT ![r] = "check"]
    BY <1>1 DEF TwoWayReceived, Becomes
  <2> HIDE DEF k
  <2> QED BY <1>1, <2>1, <2>2
<1>2. CASE ~adj[r]
  <2> DEFINE k == [m EXCEPT !.state = TWOWAY]
  <2>1. k \in NbrRecord /\ k.state = TWOWAY /\ k.id = m.id
        /\ k.link_state_request_list = m.link_state_request_list
        /\ ~k.is_empty_dd_sender_running
    BY DEF NbrRecord
  <2>2. nbr' = [nbr EXCEPT ![r] = k] /\ sender' = [sender EXCEPT ![r] = "none"]
    BY <1>2 DEF TwoWayReceived, Becomes, IInv, TypeInv
  <2> HIDE DEF k
  <2> QED BY <1>2, <2>1, <2>2
<1> QED BY <1>1, <1>2

(* No 1-Way Hello follows the Hello that listed this router. *)
LEMMA RecvHelloQuiet ==
    ASSUME IInv, NEW r \in Router, RecvHello(r)
    PROVE  Local(r) /\ Keeps(r)
<1> DEFINE n == nbr[r]
           m == N(r)!HelloReceived(n, Other(r))
           h == Head(chan[r])
<1>1. n \in NbrRecord /\ Control(r) /\ Order(r, Other(r)) /\ chan[r] \in Seq(Packet)
  BY DEF IInv, TypeInv, ControlInv, HelloInv
<1>2. /\ m \in NbrRecord /\ SameLists(m, n)
      /\ m.state = (IF n.state = DOWN THEN INIT ELSE n.state)
      /\ m.id = Other(r) /\ m.last_recv_dd = n.last_recv_dd
      /\ m.is_empty_dd_sender_running = n.is_empty_dd_sender_running
  BY <1>1, HelloReceivedFacts
<1>3. /\ rpc[r] = "loop" /\ event[r] = "none" /\ chan[r] # <<>>
      /\ h = Hello(h.two_way) /\ h.two_way \in BOOLEAN /\ h \in In(r)
  BY <1>1, PacketTypes, Received DEF RecvHello, Control, In
<1>4. n.state \in {DOWN, INIT, TWOWAY, EXSTART, EXCHANGE, FULL}
  BY <1>1 DEF NbrRecord
<1>5. UNCHANGED adj /\ Consume(r, <<>>)
  BY DEF RecvHello
<1>6. /\ chan' \in [Router -> Seq(Packet)] /\ chan'[r] = Tail(chan[r])
      /\ chan'[Other(r)] = chan[Other(r)]
  BY <1>3, <1>5, ConsumeFacts DEF IInv
<1>7. ~h.two_way => m.state < TWOWAY
  <2>1. ~h.two_way => h \notin Listing
    BY <1>3, PacketTypes
  <2> QED BY <1>1, <1>2, <1>3, <1>4, <2>1 DEF Order
<1>8. \/ /\ UNCHANGED <<rpc, event, sender>> /\ nbr' = [nbr EXCEPT ![r] = m]
         /\ (~h.two_way \/ m.state # INIT)
      \/ /\ h.two_way /\ m.state = INIT /\ TwoWayReceived(r, m)
         /\ UNCHANGED <<rpc, event>>
  <2>1. m.state \in Nat /\ (h.two_way \/ ~(m.state >= TWOWAY))
    BY <1>2, <1>4, <1>7
  <2>2. \/ /\ h.two_way
           /\ IF m.state = INIT
              THEN TwoWayReceived(r, m)
              ELSE Becomes(r, m) /\ UNCHANGED sender
           /\ UNCHANGED <<rpc, event>>
        \/ /\ ~h.two_way
           /\ ~(m.state >= TWOWAY) => Becomes(r, m) /\ UNCHANGED <<rpc, event>>
           /\ UNCHANGED sender
    BY DEF RecvHello
  <2> HIDE DEF m, h
  <2> QED BY <2>1, <2>2 DEF Becomes
<1> HIDE DEF h
<1>9. Control(r)
  BY <1>1
<1>10. CASE /\ UNCHANGED <<rpc, event, sender>> /\ nbr' = [nbr EXCEPT ![r] = m]
            /\ (~h.two_way \/ m.state # INIT)
  <2> HIDE DEF m, n
  <2>1. nbr'[r] = m
    BY <1>10 DEF IInv, TypeInv
  <2>2. TypeInv' /\ Frame(r)
    <3>1. /\ rpc' = [rpc EXCEPT ![r] = "loop"] /\ event' = [event EXCEPT ![r] = "none"]
          /\ sender' = [sender EXCEPT ![r] = sender[r]]
          /\ sender[r] \in {"none", "check", "send", "sleep", "exit", "exited"}
      BY <1>3, <1>10 DEF IInv, TypeInv
    <3> QED BY <1>2, <1>3, <1>5, <1>6, <1>10, <3>1, Steps
  <2>3. Control(r)'
    BY <1>2, <1>3, <1>4, <1>9, <1>10, <2>1 DEF Control, Hung, SameLists, n
  <2>4. Rise(r)
    BY <1>2, <1>4, <2>1 DEF Rise, n
  <2>5. Keeps(r)
    BY <1>2, <1>3, <1>4, <1>6, <1>10, <2>1, NothingSaid
       DEF Keeps, IInv, Began, Hung, SameLists, n
  <2> QED BY <2>2, <2>3, <2>4, <2>5 DEF Local
<1>11. CASE /\ h.two_way /\ m.state = INIT /\ TwoWayReceived(r, m)
            /\ UNCHANGED <<rpc, event>>
  <2>1. n.state <= INIT /\ sender[r] = "none" /\ ~n.is_empty_dd_sender_running
    BY <1>2, <1>4, <1>9, <1>11 DEF Control
  <2> HIDE DEF m
  <2>2. PICK k \in NbrRecord, s \in {"none", "check"} :
              /\ nbr' = [nbr EXCEPT ![r] = k] /\ sender' = [sender EXCEPT ![r] = s]
              /\ k.state = (IF adj[r] THEN EXSTART ELSE TWOWAY) /\ k.id = m.id
              /\ k.link_state_request_list = m.link_state_request_list
              /\ adj[r] => /\ s = "check" /\ k.dd_seq_num = 0
                           /\ k.last_send_dd = Unsent /\ k.last_recv_dd = Nothing
              /\ ~adj[r] => s = "none" /\ ~k.is_empty_dd_sender_running
    BY <1>2, <1>11, <2>1, TwoWayFacts
  <2>3. nbr'[r] = k /\ sender'[r] = s
    BY <2>2 DEF IInv, TypeInv
  <2>4. TypeInv' /\ Frame(r)
    <3>1. rpc' = [rpc EXCEPT ![r] = "loop"] /\ event' = [event EXCEPT ![r] = "none"]
      BY <1>3, <1>11 DEF IInv, TypeInv
    <3> QED BY <1>2, <1>3, <1>5, <1>6, <2>2, <3>1, Steps
  <2>5. Control(r)'
    BY <1>2, <1>3, <1>9, <1>11, <2>2, <2>3 DEF Control, Hung
  <2>6. Rise(r)
    <3>1. k.state # DOWN
      BY <2>2
    <3>2. h \in Listing
      <4>1. h.two_way = TRUE
        BY <1>3, <1>11
      <4>2. h = Hello(TRUE)
        BY <1>3, <4>1
      <4> QED BY <4>2, PacketTypes
    <3> QED BY <1>3, <1>4, <2>1, <2>3, <3>1, <3>2 DEF Rise, h
  <2>7. Keeps(r)
    BY <1>2, <1>3, <1>4, <1>6, <1>11, <2>1, <2>2, <2>3, NothingSaid
       DEF Keeps, IInv, Began, Hung, SameLists
  <2> QED BY <2>4, <2>5, <2>6, <2>7 DEF Local
<1> QED BY <1>8, <1>10, <1>11

LEMMA ElectionQuiet ==
    ASSUME IInv, NEW r \in Router, Election(r)
    PROVE  Local(r) /\ Keeps(r)
<1>1. nbr[r] \in NbrRecord /\ Control(r)
  BY DEF IInv, TypeInv, ControlInv
<1>2. /\ rpc[r] = "loop" /\ event[r] = "none" /\ UNCHANGED <<sender, chan>>
      /\ adj' = [adj EXCEPT ![r] = TRUE]
  BY <1>1 DEF Election, Control
<1>3. CASE nbr[r].state = TWOWAY
  <2> DEFINE m == N(r)!EnterExstart(nbr[r])
  <2>1. /\ m \in NbrRecord /\ m.state = EXSTART /\ m.id = nbr[r].id
        /\ m.dd_seq_num = 0 /\ m.last_send_dd = Unsent
        /\ m.link_state_request_list = nbr[r].link_state_request_list
        /\ m.is_empty_dd_sender_running = nbr[r].is_empty_dd_sender_running
    BY <1>1, ExstartFacts
  <2>2. /\ nbr' = [nbr EXCEPT ![r] = m] /\ rpc' = [rpc EXCEPT ![r] = "finish"]
        /\ event' = [event EXCEPT ![r] = "restart"]
    BY <1>3 DEF Election, Becomes
  <2> HIDE DEF m
  <2>3. nbr'[r] = m /\ rpc'[r] = "finish" /\ event'[r] = "restart"
    BY <2>2 DEF IInv, TypeInv
  <2>4. TypeInv' /\ Frame(r)
    <3>1. /\ sender' = [sender EXCEPT ![r] = sender[r]] /\ chan' \in [Router -> Seq(Packet)]
          /\ sender[r] \in {"none", "check", "send", "sleep", "exit", "exited"}
          /\ chan'[r] = chan[r] /\ chan'[Other(r)] = chan[Other(r)]
      BY <1>2 DEF IInv, TypeInv
    <3>2. m \in NbrRecord /\ adj' = [adj EXCEPT ![r] = TRUE]
      BY <1>2, <2>1
    <3> QED BY <2>2, <3>1, <3>2, Steps
  <2>5. Control(r)' /\ Rise(r)
    BY <1>1, <1>2, <1>3, <2>1, <2>3 DEF Control, Hung, Rise
  <2>6. Keeps(r)
    BY <1>2, <1>3, <2>1, <2>3, NothingSaid DEF Keeps, IInv, Began, Hung, SameLists
  <2> QED BY <2>4, <2>5, <2>6 DEF Local
<1>4. CASE nbr[r].state # TWOWAY
  <2>1. UNCHANGED <<nbr, rpc, event>>
    BY <1>4 DEF Election
  <2>2. TypeInv' /\ Frame(r)
    <3>1. TypeInv'
      BY <1>2, <2>1 DEF IInv, TypeInv
    <3>2. Other(r) \in Router /\ Other(r) # r
      BY TwoRouters
    <3>3. adj'[Other(r)] = adj[Other(r)]
      BY <1>2, <3>2 DEF IInv, TypeInv
    <3> QED BY <1>2, <2>1, <3>1, <3>3 DEF Frame
  <2> QED BY <1>2, <2>1, <2>2, ControlSame, KeepsSame DEF Local
<1> QED BY <1>3, <1>4

LEMMA FinishQuiet ==
    ASSUME IInv, NEW r \in Router, Finish(r)
    PROVE  Local(r) /\ Keeps(r)
<1> DEFINE m == [nbr[r] EXCEPT !.empty_dd_sender_stop = FALSE]
<1>1. nbr[r] \in NbrRecord /\ Control(r)
  BY DEF IInv, TypeInv, ControlInv
<1>2. /\ m \in NbrRecord /\ m.state = nbr[r].state /\ m.id = nbr[r].id
      /\ SameLists(m, nbr[r])
  BY <1>1 DEF NbrRecord, SameLists
<1>3. /\ rpc[r] = "finish" /\ nbr[r].state = EXSTART
      /\ UNCHANGED <<adj, chan>> /\ nbr' = [nbr EXCEPT ![r] = m]
      /\ sender' = [sender EXCEPT ![r] = "check"]
      /\ rpc' = [rpc EXCEPT ![r] = "loop"] /\ event' = [event EXCEPT ![r] = "none"]
  BY <1>1 DEF Finish, Becomes, Control
<1> HIDE DEF m
<1>4. nbr'[r] = m /\ rpc'[r] = "loop" /\ event'[r] = "none" /\ sender'[r] = "check"
  BY <1>3 DEF IInv, TypeInv
<1>5. TypeInv' /\ Frame(r)
  <2>1. /\ chan' \in [Router -> Seq(Packet)] /\ UNCHANGED adj
        /\ chan'[r] = chan[r] /\ chan'[Other(r)] = chan[Other(r)]
    BY <1>3 DEF IInv, TypeInv
  <2>2. /\ nbr' = [nbr EXCEPT ![r] = m] /\ sender' = [sender EXCEPT ![r] = "check"]
        /\ rpc' = [rpc EXCEPT ![r] = "loop"] /\ event' = [event EXCEPT ![r] = "none"]
    BY <1>3
  <2>3. m \in NbrRecord
    BY <1>2
  <2> DEFINE s == "check"
  <2>4. s \in {"none", "check", "send", "sleep", "exit", "exited"}
        /\ sender' = [sender EXCEPT ![r] = s]
    BY <2>2
  <2> HIDE DEF s
  <2> QED BY <2>1, <2>2, <2>3, <2>4, Steps
<1>6. Control(r)' /\ Rise(r)
  BY <1>1, <1>2, <1>3, <1>4 DEF Control, Hung, Rise, SameLists
<1>7. Keeps(r)
  BY <1>2, <1>3, <1>4, NothingSaid DEF Keeps, IInv, Began, Hung, SameLists
<1> QED BY <1>5, <1>6, <1>7 DEF Local
-----------------------------------------------------------------------------
(* DD packets that are not accepted. *)

LEMMA InFront ==
    ASSUME IInv, NEW r \in Router, NEW p, chan[r] # <<>>, Head(chan[r]) = DD(p)
    PROVE  /\ p \in Dd /\ DD(p) \in Listing /\ DD(p) \in Part \cup Empty
           /\ DD(p) \in In(r) /\ (DD(p) \in Part <=> ~p.i)
           /\ nbr[r].state # DOWN
<1>1. chan[r] \in Seq(Packet) /\ Order(r, Other(r))
  BY DEF IInv, TypeInv, HelloInv
<1>2. DD(p) \in Packet /\ DD(p) \in In(r)
  BY <1>1, Received DEF In
<1>3. p \in Dd /\ DD(p) \in Part \cup Empty /\ (DD(p) \in Part <=> ~p.i)
  BY <1>2, PacketTypes
<1> QED BY <1>1, <1>2, <1>3, PacketTypes DEF Order

(* What the last packet says, once one was accepted. *)
LEMMA SentFacts ==
    ASSUME IInv, NEW r \in Router, Began(r)
    PROVE  LET d == nbr[r].last_send_dd IN
           /\ d \in Dd /\ Sent(r) \in Part
           /\ d.seq = nbr[r].dd_seq_num /\ ~d.i /\ d.options = MyOptions
           /\ d.ms <=> r # SlaveId
           /\ nbr[r].is_master <=> r = SlaveId
           /\ d.m <=> Len(nbr[r].database_summary_list) > MaxHdrs
           /\ d.hdrs = First(nbr[r].database_summary_list)
<1> DEFINE n == nbr[r]
           more == Len(n.database_summary_list) > MaxHdrs
           ms == ~n.is_master
           hdrs == First(n.database_summary_list)
<1>1. n.last_send_dd = [seq |-> n.dd_seq_num, i |-> FALSE, m |-> more, ms |-> ms,
                        options |-> MyOptions, hdrs |-> hdrs]
  BY DEF IInv, PhaseInv, SentInv
<1>2. n.is_master <=> r = SlaveId
  BY DEF IInv, PhaseInv, SentInv
<1>3. n.last_send_dd \in Dd
  <2>1. n \in NbrRecord
    BY DEF IInv, TypeInv
  <2> QED BY <2>1 DEF NbrRecord
<1>4. ms <=> r # SlaveId
  BY <1>2
<1> HIDE DEF more, ms, hdrs, n
<1>5. /\ n.last_send_dd.seq = n.dd_seq_num /\ ~n.last_send_dd.i
      /\ n.last_send_dd.options = MyOptions /\ n.last_send_dd.ms = ms
      /\ n.last_send_dd.m = more /\ n.last_send_dd.hdrs = hdrs
  BY <1>1
<1>6. DD(n.last_send_dd) \in Part
  BY <1>3, <1>5, PacketTypes
<1> QED BY <1>2, <1>3, <1>4, <1>5, <1>6 DEF Sent, n, more, hdrs

(* A duplicate is answered with the last packet, by a slave. *)
LEMMA AnswerFacts ==
    ASSUME IInv, NEW r \in Router, Began(r), NEW p,
           nbr[r].state >= EXCHANGE
    PROVE  \/ Answer(r, p) = <<>>
           \/ /\ Answer(r, p) = <<Sent(r)>>
              /\ r = SlaveId /\ Sent(r) \in Part /\ Says(r, Sent(r))
<1>1. nbr[r] \in NbrRecord
  BY DEF IInv, TypeInv
<1>2. nbr[r].is_master => r = SlaveId
  BY DEF IInv, PhaseInv, SentInv
<1>6. ~nbr[r].last_send_dd.i
  BY SentFacts
<1>3. nbr[r].last_send_dd \in Dd /\ nbr[r].state \in Nat
  BY <1>1 DEF NbrRecord
<1>4. Sent(r) \in Part
  BY <1>6, <1>3, PacketTypes DEF Sent
<1>5. Says(r, Sent(r))
  BY <1>3, <1>4, PacketTypes DEF Says
<1> QED BY <1>2, <1>4, <1>5 DEF Answer, Sent

LEMMA SaidOnce ==
    ASSUME TypeInv, NEW r \in Router, NEW q \in Packet, NEW p,
           chan'[Other(r)] = Append(chan[Other(r)], q),
           p \in Packet, chan'[Other(r)] = Append(chan[Other(r)], p)
    PROVE  p = q
<1>1. chan[Other(r)] \in Seq(Packet)
  BY TwoRouters DEF TypeInv
<1>2. \A x, y \in Packet :
          Append(chan[Other(r)], x) = Append(chan[Other(r)], y) => x = y
  BY <1>1, AppendInjective
<1> QED BY <1>2

(* A packet that is recorded and perhaps answered, and no more. *)
LEMMA RecordQuiet ==
    ASSUME IInv, NEW r \in Router, NEW p, NEW out,
           rpc[r] = "loop", chan[r] # <<>>, Head(chan[r]) = DD(p),
           Becomes(r, N(r)!RecordReceived(nbr[r], p)), Consume(r, out),
           UNCHANGED <<adj, rpc, event, sender>>,
           r = MasterId /\ nbr[r].state = EXCHANGE =>
              nbr[r].last_recv_dd = AsRecorded(p),
           \/ out = <<>>
           \/ out = <<Sent(r)>> /\ nbr[r].state >= EXCHANGE /\ r = SlaveId
              /\ Sent(r) \in Part /\ Says(r, Sent(r))
    PROVE  Local(r) /\ Keeps(r)
<1> DEFINE m == N(r)!RecordReceived(nbr[r], p)
<1>1. nbr[r] \in NbrRecord /\ Control(r) /\ p \in Dd
  BY InFront DEF IInv, TypeInv, ControlInv
<1>2. /\ m \in NbrRecord /\ SameLists(m, nbr[r])
      /\ m.state = nbr[r].state /\ m.id = nbr[r].id
      /\ m.last_recv_dd = AsRecorded(p)
      /\ m.is_empty_dd_sender_running = nbr[r].is_empty_dd_sender_running
  BY <1>1, RecordReceivedFacts
<1>3. nbr' = [nbr EXCEPT ![r] = m]
  BY DEF Becomes
<1> HIDE DEF m
<1>4. nbr'[r] = m /\ rpc'[r] = "loop" /\ event'[r] = "none" /\ sender'[r] = sender[r]
  BY <1>1, <1>3 DEF IInv, TypeInv, Control
<1>5. Part \subseteq Packet
  BY DEF Packet
<1>6. /\ chan' \in [Router -> Seq(Packet)] /\ chan'[r] = Tail(chan[r])
      /\ \/ chan'[Other(r)] = chan[Other(r)]
         \/ /\ chan'[Other(r)] = Append(chan[Other(r)], Sent(r))
            /\ nbr[r].state >= EXCHANGE /\ r = SlaveId
            /\ Sent(r) \in Part /\ Says(r, Sent(r))
  BY <1>5, ConsumeFacts DEF IInv
<1>7. TypeInv' /\ Frame(r)
  <2>1. /\ sender' = [sender EXCEPT ![r] = sender[r]]
        /\ sender[r] \in {"none", "check", "send", "sleep", "exit", "exited"}
        /\ rpc' = [rpc EXCEPT ![r] = "loop"] /\ event' = [event EXCEPT ![r] = "none"]
    BY <1>4 DEF IInv, TypeInv
  <2> QED BY <1>2, <1>3, <1>5, <1>6, <2>1, Steps
<1>8. nbr[r].state \in Nat
  BY <1>1 DEF NbrRecord
<1>9. Control(r)' /\ Rise(r)
  BY <1>1, <1>2, <1>4, <1>8 DEF Control, Hung, Rise, SameLists
<1>10. \A q \in Part : chan'[Other(r)] = Append(chan[Other(r)], q) =>
          r = SlaveId /\ Began(r) /\ q = Sent(r)
  <2>1. CASE chan'[Other(r)] = chan[Other(r)]
    BY <2>1, NothingSaid DEF IInv
  <2>2. CASE /\ chan'[Other(r)] = Append(chan[Other(r)], Sent(r))
             /\ nbr[r].state >= EXCHANGE /\ r = SlaveId
             /\ Sent(r) \in Part
    BY <1>5, <2>2, SaidOnce DEF IInv, Began
  <2> QED BY <1>6, <2>1, <2>2
<1>11. Keeps(r)
  BY <1>2, <1>4, <1>8, <1>10 DEF Keeps, Began, Hung, SameLists
<1> QED BY <1>7, <1>9, <1>11 DEF Local

LEMMA RecvDDIgnoredQuiet ==
    ASSUME IInv, NEW r \in Router, NEW p, RecvDDIgnored(r, p)
    PROVE  Local(r) /\ Keeps(r)
<1>1. /\ rpc[r] = "loop" /\ chan[r] # <<>> /\ Head(chan[r]) = DD(p)
      /\ nbr[r].state \in {TWOWAY, 6, FULL}
      /\ Becomes(r, N(r)!RecordReceived(nbr[r], p))
      /\ Consume(r, IF nbr[r].state = TWOWAY THEN <<>> ELSE Answer(r, p))
      /\ UNCHANGED <<adj, rpc, event, sender>>
  BY DEF RecvDDIgnored, HasDD
<1> DEFINE out == IF nbr[r].state = TWOWAY THEN <<>> ELSE Answer(r, p)
<1>2. \/ out = <<>>
      \/ /\ out = <<Sent(r)>> /\ nbr[r].state >= EXCHANGE
         /\ r = SlaveId /\ Sent(r) \in Part /\ Says(r, Sent(r))
  <2>1. CASE nbr[r].state = TWOWAY
    BY <2>1
  <2>2. CASE nbr[r].state # TWOWAY
    <3>1. Began(r) /\ nbr[r].state >= EXCHANGE
      BY <1>1, <2>2 DEF Began
    <3> QED BY <2>2, <3>1, AnswerFacts
  <2> QED BY <2>1, <2>2
<1>3. Consume(r, out)
  BY <1>1
<1> HIDE DEF out
<1> QED BY <1>1, <1>2, <1>3, RecordQuiet

LEMMA RecvDDInInitQuiet ==
    ASSUME IInv, NEW r \in Router, NEW p, RecvDDInInit(r, p)
    PROVE  Local(r) /\ Keeps(r)
<1> DEFINE m == N(r)!RecordReceived(nbr[r], p)
<1>1. /\ rpc[r] = "loop" /\ chan[r] # <<>> /\ Head(chan[r]) = DD(p)
      /\ nbr[r].state = INIT /\ TwoWayReceived(r, m)
      /\ IF adj[r]
         THEN rpc' = [rpc EXCEPT ![r] = "dd"] /\ UNCHANGED chan
         ELSE UNCHANGED rpc /\ Consume(r, <<>>)
      /\ UNCHANGED <<adj, event>>
  BY DEF RecvDDInInit, HasDD
<1>2. /\ nbr[r] \in NbrRecord /\ Control(r)
      /\ p \in Dd /\ DD(p) \in Listing /\ DD(p) \in Empty
  <2>1. /\ nbr[r] \in NbrRecord /\ Control(r) /\ DD(p) \in In(r)
        /\ p \in Dd /\ DD(p) \in Listing /\ DD(p) \in Part \cup Empty
    BY <1>1, InFront DEF IInv, TypeInv, ControlInv
  <2>2. ~Began(r) /\ nbr[r].state < EXSTART
    BY <1>1 DEF Began, Hung
  <2>3. DD(p) \notin Part
    <3>1. /\ Router = {MasterId, SlaveId} /\ Order(SlaveId, MasterId)
      BY TwoRouters DEF IInv, HelloInv
    <3>2. Began(SlaveId) => nbr[MasterId].state >= EXSTART
      BY <3>1 DEF Order
    <3>3. CASE r = MasterId
      BY <1>1, <2>1, <2>2, <3>2, <3>3 DEF IInv, PhaseInv, BeforeInv
    <3>4. CASE r = SlaveId
      BY <2>1, <2>2, <3>4 DEF IInv, PhaseInv, BeforeInv, DuringInv
    <3> QED BY <3>1, <3>3, <3>4
  <2> QED BY <2>1, <2>3
<1>3. /\ m \in NbrRecord /\ m.state = INIT /\ m.id = nbr[r].id
      /\ m.link_state_request_list = nbr[r].link_state_request_list
      /\ m.is_empty_dd_sender_running = nbr[r].is_empty_dd_sender_running
  BY <1>1, <1>2, RecordReceivedFacts DEF SameLists
<1> HIDE DEF m
<1>4. sender[r] = "none" /\ event[r] = "none" /\ ~m.is_empty_dd_sender_running
  BY <1>1, <1>2, <1>3 DEF Control
<1>5. PICK k \in NbrRecord, s \in {"none", "check"} :
          /\ nbr' = [nbr EXCEPT ![r] = k] /\ sender' = [sender EXCEPT ![r] = s]
          /\ k.state = (IF adj[r] THEN EXSTART ELSE TWOWAY) /\ k.id = m.id
          /\ k.link_state_request_list = m.link_state_request_list
          /\ adj[r] => /\ s = "check" /\ k.dd_seq_num = 0
                       /\ k.last_send_dd = Unsent /\ k.last_recv_dd = Nothing
          /\ ~adj[r] => s = "none" /\ ~k.is_empty_dd_sender_running
  BY <1>1, <1>3, <1>4, TwoWayFacts
<1> DEFINE at == IF adj[r] THEN "dd" ELSE "loop"
<1>6. /\ rpc' = [rpc EXCEPT ![r] = at] /\ event' = [event EXCEPT ![r] = "none"]
      /\ nbr'[r] = k /\ sender'[r] = s /\ rpc'[r] = at
  BY <1>1, <1>4, <1>5 DEF IInv, TypeInv
<1>7. /\ chan' \in [Router -> Seq(Packet)] /\ chan'[Other(r)] = chan[Other(r)]
      /\ adj[r] => chan'[r] = chan[r]
      /\ ~adj[r] => chan'[r] = Tail(chan[r])
  <2>1. CASE adj[r]
    BY <1>1, <2>1 DEF IInv, TypeInv
  <2>2. CASE ~adj[r]
    BY <1>1, <2>2, ConsumeFacts DEF IInv
  <2> QED BY <2>1, <2>2
<1>8. TypeInv' /\ Frame(r)
  <2>1. at \in {"loop", "dd", "finish", "join_retrans"}
    OBVIOUS
  <2> HIDE DEF at
  <2> QED BY <1>1, <1>5, <1>6, <1>7, <2>1, Steps
<1>9. Control(r)'
  BY <1>1, <1>2, <1>3, <1>4, <1>5, <1>6, <1>7 DEF Control, Hung
<1>10. Rise(r)
  BY <1>1, <1>2, <1>5, <1>6 DEF Rise
<1>11. Keeps(r)
  BY <1>1, <1>3, <1>5, <1>6, <1>7, NothingSaid DEF Keeps, IInv, Began, Hung, SameLists
<1> QED BY <1>8, <1>9, <1>10, <1>11 DEF Local

(* In ExStart: what is not an answer to the negotiation. *)
LEMMA ExstartIgnoredQuiet ==
    ASSUME IInv, NEW r \in Router, NEW p, NEW at \in {"loop", "dd"}, NEW m,
           m = (IF at = "dd" THEN nbr[r] ELSE N(r)!RecordReceived(nbr[r], p)),
           HasDD(r, p, at, {EXSTART}),
           Becomes(r, m), Consume(r, <<>>), rpc' = [rpc EXCEPT ![r] = "loop"],
           UNCHANGED <<adj, event, sender>>
    PROVE  Local(r) /\ Keeps(r)
<1>1. /\ rpc[r] = at /\ chan[r] # <<>> /\ Head(chan[r]) = DD(p) /\ nbr[r].state = EXSTART
  BY DEF HasDD
<1>2. nbr[r] \in NbrRecord /\ Control(r) /\ p \in Dd
  BY <1>1, InFront DEF IInv, TypeInv, ControlInv
<1>3. /\ m \in NbrRecord /\ SameLists(m, nbr[r])
      /\ m.state = EXSTART /\ m.id = nbr[r].id
      /\ m.is_empty_dd_sender_running = nbr[r].is_empty_dd_sender_running
  <2>1. CASE at = "dd"
    BY <1>1, <1>2, <2>1 DEF SameLists
  <2>2. CASE at # "dd"
    BY <1>1, <1>2, <2>2, RecordReceivedFacts
  <2> QED BY <2>1, <2>2
<1>4. event[r] = "none"
  BY <1>1, <1>2 DEF Control
<1>5. /\ nbr' = [nbr EXCEPT ![r] = m] /\ nbr'[r] = m /\ rpc'[r] = "loop"
      /\ event'[r] = "none" /\ sender'[r] = sender[r] /\ UNCHANGED adj
      /\ event' = [event EXCEPT ![r] = "none"]
      /\ sender' = [sender EXCEPT ![r] = sender[r]]
      /\ sender[r] \in {"none", "check", "send", "sleep", "exit", "exited"}
  BY <1>4 DEF IInv, TypeInv, Becomes
<1>6. /\ chan' \in [Router -> Seq(Packet)] /\ chan'[r] = Tail(chan[r])
      /\ chan'[Other(r)] = chan[Other(r)]
  BY <1>1, ConsumeFacts DEF IInv
<1>7. TypeInv' /\ Frame(r)
  BY <1>1, <1>3, <1>5, <1>6, Steps
<1>8. Control(r)' /\ Rise(r)
  BY <1>1, <1>2, <1>3, <1>5 DEF Control, Hung, Rise, SameLists
<1>9. Keeps(r)
  BY <1>1, <1>3, <1>5, <1>6, NothingSaid DEF Keeps, IInv, Began, Hung, SameLists
<1> QED BY <1>7, <1>8, <1>9 DEF Local

(* In Exchange, a packet of the exchange that is no repetition is the next *)
(* one, and the very packet that the other router sent last.               *)
LEMMA Expected ==
    ASSUME IInv, NEW r \in Router, NEW p, nbr[r].state = EXCHANGE,
           chan[r] # <<>>, Head(chan[r]) = DD(p), ~p.i,
           ~N(r)!IsDuplicate(nbr[r], p)
    PROVE  /\ Began(MasterId) /\ Began(SlaveId)
           /\ r = MasterId => Level /\ DD(p) \notin Old
           /\ r = SlaveId => Ahead
           /\ p = nbr[Other(r)].last_send_dd
           /\ ~N(r)!Unexpected(N(r)!RecordReceived(nbr[r], p), p)
<1>1. /\ nbr[r] \in NbrRecord /\ p \in Dd /\ DD(p) \in Part /\ DD(p) \in In(r)
  BY InFront DEF IInv, TypeInv
<1>2. Router = {MasterId, SlaveId} /\ MasterId # SlaveId /\ MasterId \in Router
      /\ SlaveId \in Router /\ Other(MasterId) = SlaveId /\ Other(SlaveId) = MasterId
  BY TwoRouters
<1>3. Began(r)
  BY DEF Began
<1>4. r = MasterId => DD(p) \notin Old
  <2>1. DD(p).dd = p
    BY DEF DD
  <2>2. nbr[r].last_recv_dd # AsRecorded(p)
    BY DEF N!IsDuplicate, AsRecorded
  <2> QED BY <2>1, <2>2 DEF Old
<1>5. /\ Began(MasterId) /\ Began(SlaveId)
      /\ r = MasterId => Level /\ DD(p) \notin Old
      /\ r = SlaveId => Ahead
      /\ DD(p) = Sent(Other(r))
  <2>1. Began(MasterId)
    BY <1>1, <1>2, <1>3 DEF IInv, PhaseInv, BeforeInv
  <2>2. Began(SlaveId) /\ (Ahead \/ Level)
    BY <2>1 DEF IInv, PhaseInv, DuringInv
  <2>3. CASE r = MasterId
    BY <1>1, <1>2, <1>4, <2>1, <2>2, <2>3 DEF Ahead, Level
  <2>4. CASE r = SlaveId
    BY <1>1, <1>2, <2>1, <2>2, <2>4 DEF Ahead, Level
  <2> QED BY <1>2, <2>3, <2>4
<1>6. p = nbr[Other(r)].last_send_dd
  BY <1>5 DEF DD, Sent
<1>7. ~N(r)!Unexpected(N(r)!RecordReceived(nbr[r], p), p)
  <2> DEFINE m == N(r)!RecordReceived(nbr[r], p)
  <2>1. m.options = p.options /\ SameLists(m, nbr[r])
    BY <1>1, RecordReceivedFacts
  <2>2. (nbr[r].is_master <=> r = SlaveId) /\ nbr[r].is_master \in BOOLEAN
    BY <1>1, <1>3, SentFacts DEF NbrRecord
  <2>3. /\ p.seq = nbr[Other(r)].dd_seq_num
        /\ p.ms <=> Other(r) # SlaveId
        /\ p.ms \in BOOLEAN
    BY <1>1, <1>2, <1>5, <1>6, SentFacts DEF Dd
  <2>4. p.ms = m.is_master
    BY <1>2, <2>1, <2>2, <2>3 DEF SameLists
  <2>5. p.seq = IF m.is_master THEN Succ(m.dd_seq_num) ELSE m.dd_seq_num
    BY <1>2, <1>5, <2>1, <2>2, <2>3 DEF SameLists, Ahead, Level
  <2> HIDE DEF m
  <2>6. p.seq = N(r)!ExpectedSeq(m)
    BY <2>5 DEF N!ExpectedSeq, N!NextSeq, Mod, Succ
  <2> HIDE DEF m
  <2>7. ~N(r)!Unexpected(m, p)
    BY <2>1, <2>4, <2>6 DEF N!Unexpected
  <2> QED BY <2>7 DEF m
<1> QED BY <1>5, <1>6, <1>7

(* In Exchange: a repetition, and an empty DD packet that breaks it off. *)
LEMMA DuplicateQuiet ==
    ASSUME IInv, NEW r \in Router, NEW p,
           HasDD(r, p, "loop", {EXCHANGE}),
           N(r)!IsDuplicate(nbr[r], p),
           Becomes(r, N(r)!RecordReceived(nbr[r], p)), Consume(r, Answer(r, p)),
           UNCHANGED <<adj, rpc, event, sender>>
    PROVE  Local(r) /\ Keeps(r)
<1>1. /\ rpc[r] = "loop" /\ chan[r] # <<>> /\ Head(chan[r]) = DD(p)
      /\ nbr[r].state = EXCHANGE
  BY DEF HasDD
<1>2. Began(r) /\ nbr[r].state >= EXCHANGE
  BY <1>1 DEF Began
<1>3. nbr[r].last_recv_dd = AsRecorded(p)
  BY DEF N!IsDuplicate, AsRecorded
<1> DEFINE out == Answer(r, p)
<1>4. \/ out = <<>>
      \/ /\ out = <<Sent(r)>> /\ nbr[r].state >= EXCHANGE
         /\ r = SlaveId /\ Sent(r) \in Part /\ Says(r, Sent(r))
  BY <1>2, AnswerFacts
<1>5. Consume(r, out)
  OBVIOUS
<1> HIDE DEF out
<1> QED BY <1>1, <1>3, <1>4, <1>5, RecordQuiet

LEMMA MismatchQuiet ==
    ASSUME IInv, NEW r \in Router, NEW p,
           HasDD(r, p, "loop", {EXCHANGE}),
           ~N(r)!IsDuplicate(nbr[r], p),
           N(r)!Unexpected(N(r)!RecordReceived(nbr[r], p), p),
           Lower(r, N(r)!RecordReceived(nbr[r], p), EXSTART, "restart"),
           Consume(r, <<>>), UNCHANGED <<adj, sender>>
    PROVE  Local(r) /\ Keeps(r)
<1> DEFINE m == N(r)!RecordReceived(nbr[r], p)
           k == N(r)!TearDown(m, EXSTART)
<1>1. /\ rpc[r] = "loop" /\ chan[r] # <<>> /\ Head(chan[r]) = DD(p)
      /\ nbr[r].state = EXCHANGE
  BY DEF HasDD
<1>2. nbr[r] \in NbrRecord /\ Control(r) /\ p \in Dd
  BY <1>1, InFront DEF IInv, TypeInv, ControlInv
<1>3. p.i
  BY <1>1, Expected
<1>4. /\ m \in NbrRecord /\ SameLists(m, nbr[r]) /\ m.id = nbr[r].id
      /\ m.last_recv_dd.i = p.i
      /\ m.is_empty_dd_sender_running = nbr[r].is_empty_dd_sender_running
  BY <1>2, RecordReceivedFacts
<1>5. nbr' = [nbr EXCEPT ![r] = k] /\ rpc' = [rpc EXCEPT ![r] = "join_retrans"]
      /\ event' = [event EXCEPT ![r] = "restart"]
  BY DEF Lower, Becomes
<1> HIDE DEF m
<1>6. /\ k \in NbrRecord /\ SameLists(k, m) /\ k.state = EXSTART /\ k.id = m.id
      /\ k.last_recv_dd = m.last_recv_dd
      /\ k.is_empty_dd_sender_running = m.is_empty_dd_sender_running
  BY <1>4, TearDownFacts
<1> HIDE DEF k
<1>7. /\ nbr'[r] = k /\ rpc'[r] = "join_retrans" /\ event'[r] = "restart"
      /\ sender'[r] = sender[r] /\ UNCHANGED adj
      /\ sender' = [sender EXCEPT ![r] = sender[r]]
      /\ sender[r] \in {"none", "check", "send", "sleep", "exit", "exited"}
  BY <1>5 DEF IInv, TypeInv
<1>8. /\ chan' \in [Router -> Seq(Packet)] /\ chan'[r] = Tail(chan[r])
      /\ chan'[Other(r)] = chan[Other(r)]
  BY <1>1, ConsumeFacts DEF IInv
<1>9. TypeInv' /\ Frame(r)
  BY <1>1, <1>5, <1>6, <1>7, <1>8, Steps
<1>10. Control(r)' /\ Rise(r)
  <2>1. k.last_recv_dd.i
    BY <1>3, <1>4, <1>6
  <2>2. k.id = Other(r) /\ (sender[r] = "none" => ~k.is_empty_dd_sender_running)
    BY <1>1, <1>2, <1>4, <1>6 DEF Control
  <2> QED BY <1>1, <1>6, <1>7, <2>1, <2>2 DEF Control, Hung, Rise
<1>11. Keeps(r)
  BY <1>1, <1>4, <1>6, <1>7, <1>8, NothingSaid DEF Keeps, IInv, Began, Hung, SameLists
<1> QED BY <1>9, <1>10, <1>11 DEF Local
-----------------------------------------------------------------------------
(* DD packets that are accepted. *)

(* Router r answers packet p and becomes k. *)
Accepts(r, k) ==
    /\ nbr'[r] = k /\ rpc'[r] = "loop"
    /\ chan[r] # <<>> /\ chan'[r] = Tail(chan[r])
    /\ chan'[Other(r)] = Append(chan[Other(r)], DD(k.last_send_dd))

LEMMA AcceptLocal ==
    ASSUME IInv, NEW r \in Router, NEW k \in NbrRecord,
           rpc[r] \in {"loop", "dd"}, nbr[r].state \in {EXSTART, EXCHANGE},
           chan[r] # <<>>, Head(chan[r]) \in Part \cup Empty,
           k.state \in {EXCHANGE, FULL}, k.id = nbr[r].id,
           k.is_empty_dd_sender_running = nbr[r].is_empty_dd_sender_running,
           DD(k.last_send_dd) \in Part,
           Becomes(r, k), rpc' = [rpc EXCEPT ![r] = "loop"],
           Consume(r, <<DD(k.last_send_dd)>>), UNCHANGED <<adj, event, sender>>
    PROVE  Local(r) /\ Begins(r) /\ Accepts(r, k)
<1> DEFINE q == DD(k.last_send_dd)
<1>1. nbr[r] \in NbrRecord /\ Control(r) /\ nbr[r].state # DOWN
  BY DEF IInv, TypeInv, ControlInv
<1>2. event[r] = "none"
  BY <1>1 DEF Control
<1>3. /\ nbr' = [nbr EXCEPT ![r] = k] /\ nbr'[r] = k /\ rpc'[r] = "loop"
      /\ event'[r] = "none" /\ sender'[r] = sender[r] /\ UNCHANGED adj
      /\ event' = [event EXCEPT ![r] = "none"]
      /\ sender' = [sender EXCEPT ![r] = sender[r]]
      /\ sender[r] \in {"none", "check", "send", "sleep", "exit", "exited"}
  BY <1>2 DEF IInv, TypeInv, Becomes
<1>4. q \in Packet /\ Says(r, q)
  BY <1>1, PacketTypes DEF Says, Packet
<1> HIDE DEF q
<1>5. /\ chan' \in [Router -> Seq(Packet)] /\ chan'[r] = Tail(chan[r])
      /\ chan'[Other(r)] = Append(chan[Other(r)], q)
  <2>1. Consume(r, <<q>>)
    BY DEF q
  <2> QED BY <1>4, <2>1, ConsumeFacts DEF IInv
<1>6. TypeInv' /\ Frame(r)
  BY <1>3, <1>4, <1>5, Steps
<1>7. Control(r)' /\ Rise(r)
  BY <1>1, <1>3 DEF Control, Hung, Rise
<1>8. Begins(r)
  BY <1>1 DEF Begins
<1> QED BY <1>3, <1>5, <1>6, <1>7, <1>8 DEF Local, Accepts, q

(* Who reads the other's last packet needs no more than the rest.          *)
LEMMA Reads ==
    ASSUME IInv, NEW r \in Router, Began(Other(r)),
           Knows(r, nbr[Other(r)].database_summary_list),
           nbr'[r].link_state_request_list =
               nbr[r].link_state_request_list
                   \cup Requested(r, nbr[Other(r)].last_send_dd),
           nbr'[Other(r)] = nbr[Other(r)]
    PROVE  /\ Knows(r, Remaining(Other(r)))'
           /\ ~nbr[Other(r)].last_send_dd.m => Knows(r, <<>>)'
<1> DEFINE o == Other(r)
           l == nbr[o].database_summary_list
           d == nbr[o].last_send_dd
<1>1. o \in Router
  BY TwoRouters
<1>2. l \in Seq(Header) /\ Len(l) \in Nat
  <2>1. nbr[o] \in NbrRecord
    BY <1>1 DEF IInv, TypeInv
  <2>2. l \in Seq(Header)
    BY <2>1 DEF NbrRecord
  <2> QED BY <2>2, LenProperties
<1>3. d.hdrs = First(l) /\ (d.m <=> Len(l) > MaxHdrs)
  BY <1>1, SentFacts
<1>4. Remaining(o) = Rest(l, Len(First(l))) /\ Remaining(o)' = Remaining(o)
  BY <1>3 DEF Remaining
<1> HIDE DEF o, l, d
<1>5. Range(l) \subseteq Range(d.hdrs) \cup Range(Remaining(o))
  BY <1>2, <1>3, <1>4, SplitList
<1>6. ~d.m => Remaining(o) = <<>>
  <2>1. MaxHdrs \in Nat
    BY AdjacencyAssumption
  <2>2. ~d.m => Len(l) <= MaxHdrs
    BY <1>2, <1>3, <2>1
  <2> QED BY <1>2, <1>4, <2>2, SplitList
<1>7. ASSUME NEW h \in Range(Database[o]), h.lsa \notin NetworkLsa, Lacks(r, h)'
      PROVE  h \in nbr'[r].link_state_request_list \/ h \in Range(Remaining(o))
  <2>1. Lacks(r, h)
    BY <1>7 DEF Lacks
  <2>2. h \in nbr[r].link_state_request_list \/ h \in Range(l)
    BY <1>7, <2>1 DEF Knows, o, l
  <2>3. h \in Range(d.hdrs) => h \in Requested(r, d)
    BY <1>7, <2>1 DEF Requested
  <2> QED BY <1>5, <2>2, <2>3 DEF o, d
<1>8. Knows(r, Remaining(o))'
  BY <1>4, <1>7 DEF Knows, o
<1>9. ~d.m => Knows(r, <<>>)'
  BY <1>6, <1>7 DEF Knows, o
<1> QED BY <1>8, <1>9 DEF o, d

(* What is known stays known. *)
LEMMA KnowsMore ==
    ASSUME NEW r \in Router, NEW l, Knows(r, l),
           nbr[r].link_state_request_list \subseteq nbr'[r].link_state_request_list
    PROVE  Knows(r, l)'
BY DEF Knows, Lacks

(* Before it begins, a router needs all that the other one has.            *)
LEMMA KnowsAtFirst ==
    ASSUME NEW r \in Router PROVE Knows(r, Database[Other(r)])
BY DEF Knows

LEMMA LinkAfter ==
    ASSUME IInv, NEW r \in Router, NEW k, Accepts(r, k), DD(k.last_send_dd) \in Part
    PROVE  /\ In(r)' = Elements(Tail(chan[r])) /\ In(r)' \subseteq In(r)
           /\ In(Other(r))' = In(Other(r)) \cup {DD(k.last_send_dd)}
           /\ \A X, Y : Follows(chan[Other(r)], X, Y)
                        /\ (DD(k.last_send_dd) \in Y \/ In(Other(r)) \cap X = {}) =>
                  Follows(chan'[Other(r)], X, Y)
<1> DEFINE q == DD(k.last_send_dd)
<1>1. /\ chan[r] \in Seq(Packet) /\ chan[Other(r)] \in Seq(Packet) /\ q \in Packet
  BY TwoRouters DEF IInv, TypeInv, Packet
<1>2. /\ chan[r] # <<>> /\ chan'[r] = Tail(chan[r])
      /\ chan'[Other(r)] = Append(chan[Other(r)], q)
  BY DEF Accepts
<1> HIDE DEF q
<1>3. In(r)' = Elements(Tail(chan[r])) /\ In(r)' \subseteq In(r)
  BY <1>1, <1>2, Received DEF In
<1>4. /\ In(Other(r))' = In(Other(r)) \cup {q}
      /\ \A X, Y : Follows(chan[Other(r)], X, Y) /\ (q \in Y \/ In(Other(r)) \cap X = {}) =>
            Follows(chan'[Other(r)], X, Y)
  BY <1>1, <1>2, Queued DEF In
<1> QED BY <1>3, <1>4 DEF q

LEMMA NoneFollows ==
    ASSUME NEW c, NEW X, NEW Y, Elements(c) \cap X = {}
    PROVE  Follows(c, X, Y)
BY DEF Follows, Elements

(* What a router keeps while the other one accepts a packet. *)
LEMMA Bystander ==
    ASSUME IInv, NEW r \in Router, Local(r)
    PROVE  LET o == Other(r) IN
           /\ nbr'[o] = nbr[o] /\ rpc'[o] = rpc[o] /\ (Began(o)' <=> Began(o))
           /\ Sent(o)' = Sent(o) /\ Remaining(o)' = Remaining(o)
           /\ \A l : Knows(o, l)' <=> Knows(o, l)
           /\ Began(o) => /\ nbr'[o].is_master = (o = SlaveId)
                          /\ nbr'[o].last_send_dd = Reply(nbr'[o])
<1> DEFINE o == Other(r)
<1>1. nbr'[o] = nbr[o] /\ rpc'[o] = rpc[o] /\ o \in Router
  BY TwoRouters DEF Local, Frame
<1> HIDE DEF o
<1>2. \A l : Knows(o, l)' <=> Knows(o, l)
  BY <1>1, KnowsSame
<1>3. Sent(o)' = Sent(o) /\ Remaining(o)' = Remaining(o) /\ (Began(o)' <=> Began(o))
  BY <1>1 DEF Sent, Remaining, Began, Hung
<1>4. Began(o) => /\ nbr'[o].is_master = (o = SlaveId)
                  /\ nbr'[o].last_send_dd = Reply(nbr'[o])
  BY <1>1 DEF IInv, PhaseInv, SentInv, Reply
<1> QED BY <1>1, <1>2, <1>3, <1>4 DEF o

LEMMA SentAfter ==
    ASSUME IInv, NEW r \in Router, NEW k, Local(r), Accepts(r, k),
           k.is_master = (r = SlaveId), k.last_send_dd = Reply(k)
    PROVE  SentInv'
<1>1. Router = {r, Other(r)}
  BY TwoRouters
<1>2. nbr'[r].is_master = (r = SlaveId) /\ nbr'[r].last_send_dd = Reply(nbr'[r])
  BY DEF Accepts
<1>3. Began(Other(r))' => /\ nbr'[Other(r)].is_master = (Other(r) = SlaveId)
                          /\ nbr'[Other(r)].last_send_dd = Reply(nbr'[Other(r)])
  BY Bystander
<1> QED BY <1>1, <1>2, <1>3 DEF SentInv, Reply

LEMMA FullAfter ==
    ASSUME IInv, NEW r \in Router, NEW k, Local(r), Accepts(r, k),
           nbr[r].link_state_request_list \subseteq k.link_state_request_list,
           k.state = FULL => /\ k.database_summary_list = <<>>
                             /\ Knows(r, <<>>)' /\ Knows(Other(r), <<>>)
    PROVE  FullInv'
<1>1. Router = {r, Other(r)}
  BY TwoRouters
<1>2. /\ nbr'[r] = k /\ nbr'[Other(r)] = nbr[Other(r)]
      /\ Knows(Other(r), <<>>)' <=> Knows(Other(r), <<>>)
      /\ Knows(r, <<>>) => Knows(r, <<>>)'
  BY Bystander, KnowsMore DEF Accepts
<1>3. Full(Other(r))' => Full(Other(r))
  BY <1>2 DEF Full
<1> QED BY <1>1, <1>2, <1>3 DEF IInv, PhaseInv, FullInv, Full

(* The master accepts the slave's last packet, in ExStart or in Exchange.  *)
LEMMA MasterAccepts ==
    ASSUME IInv, NEW k \in NbrRecord, NEW p, Local(MasterId), Accepts(MasterId, k),
           Began(SlaveId), p = nbr[SlaveId].last_send_dd,
           k.state = (IF ~p.m /\ k.database_summary_list = <<>>
                      THEN FULL ELSE EXCHANGE),
           k.last_recv_dd = AsRecorded(p), k.is_master = FALSE,
           k.dd_seq_num = Succ(nbr[SlaveId].dd_seq_num),
           k.link_state_request_list =
               nbr[MasterId].link_state_request_list \cup Requested(MasterId, p),
           k.last_send_dd = Reply(k), DD(k.last_send_dd) \in Part,
           In(SlaveId) \cap Part = {},
           Elements(Tail(chan[MasterId])) \cap Part \subseteq {Sent(SlaveId)},
           Knows(MasterId, nbr[SlaveId].database_summary_list),
           Knows(SlaveId, k.database_summary_list)
    PROVE  PhaseInv'
<1> DEFINE M == MasterId
           S == SlaveId
<1>1. /\ Router = {M, S} /\ M \in Router /\ S \in Router /\ M # S
      /\ Other(M) = S /\ Other(S) = M
  BY TwoRouters
<1>2. /\ nbr'[S] = nbr[S] /\ (Began(S)' <=> Began(S))
      /\ Sent(S)' = Sent(S) /\ Remaining(S)' = Remaining(S)
      /\ \A l : Knows(S, l)' <=> Knows(S, l)
  BY <1>1, Bystander
<1>3. nbr'[M] = k /\ Began(M)'
  BY DEF Accepts, Began
<1>4. /\ In(M)' = Elements(Tail(chan[M])) /\ In(S)' = In(S) \cup {DD(k.last_send_dd)}
      /\ Follows(chan'[S], Part, Packet \ Part)
  BY <1>1, LinkAfter, NoneFollows DEF In
<1>5. Knows(M, Remaining(S))' /\ (~p.m => Knows(M, <<>>)')
  BY <1>1, <1>2, <1>3, Reads
<1>6. SentInv'
  BY <1>1, SentAfter
<1>7. BeforeInv'
  BY <1>3 DEF BeforeInv
<1>8. Ahead'
  <2>1. nbr'[M].dd_seq_num = Succ(nbr'[S].dd_seq_num)
    BY <1>2, <1>3
  <2>2. In(S)' \cap Part \subseteq {Sent(M)'}
    BY <1>3, <1>4 DEF Sent
  <2>3. Sent(S)' \in Old'
    <3>1. Sent(S) \in Part /\ Sent(S).dd = p
      BY <1>1, SentFacts DEF Sent, DD
    <3> QED BY <1>2, <1>3, <3>1 DEF Old
  <2>4. In(M)' \cap Part \subseteq Old'
    BY <1>2, <1>4, <2>3
  <2>5. Knows(S, nbr[M].database_summary_list)'
    <3>1. Knows(S, k.database_summary_list)'
      BY <1>2
    <3> QED BY <1>3, <3>1 DEF Knows
  <2> QED BY <1>4, <1>5, <2>1, <2>2, <2>3, <2>4, <2>5 DEF Ahead
<1>9. DuringInv'
  BY <1>2, <1>8 DEF DuringInv
<1>10. FullInv'
  <2>1. k.state = FULL => ~p.m /\ k.database_summary_list = <<>>
    OBVIOUS
  <2>2. k.state = FULL => Knows(M, <<>>)' /\ Knows(S, <<>>)
    BY <1>5, <2>1
  <2> QED BY <1>1, <2>1, <2>2, FullAfter
<1> QED BY <1>6, <1>7, <1>9, <1>10 DEF PhaseInv

(* The slave begins: an empty DD packet of the master, while the master    *)
(* still waits for the slave.                                              *)
LEMMA SlaveBegins ==
    ASSUME IInv, NEW k \in NbrRecord, NEW p, Local(SlaveId), Accepts(SlaveId, k),
           ~Began(SlaveId), DD(p) \in In(SlaveId) \cap Empty,
           k.state = EXCHANGE, k.is_master = TRUE, k.dd_seq_num = p.seq,
           k.database_summary_list = Database[SlaveId],
           nbr[SlaveId].link_state_request_list \subseteq k.link_state_request_list,
           k.last_send_dd = Reply(k), DD(k.last_send_dd) \in Part
    PROVE  PhaseInv'
<1> DEFINE M == MasterId
           S == SlaveId
<1>1. /\ Router = {M, S} /\ M \in Router /\ S \in Router /\ M # S
      /\ Other(M) = S /\ Other(S) = M
  BY TwoRouters
<1>2. ~Began(M)
  BY DEF IInv, PhaseInv, DuringInv
<1>3. /\ nbr'[M] = nbr[M] /\ ~Began(M)' /\ \A l : Knows(M, l)' <=> Knows(M, l)
  BY <1>1, <1>2, Bystander
<1>4. nbr'[S] = k /\ Began(S)'
  BY DEF Accepts, Began
<1>5. /\ In(S)' \subseteq In(S) /\ In(M)' = In(M) \cup {DD(k.last_send_dd)}
  BY <1>1, LinkAfter
<1>6. /\ In(S) \cap Part = {} /\ In(M) \cap Part = {}
      /\ \A q \in In(S) \cap Empty : q.dd.seq = 0
  BY <1>2 DEF IInv, PhaseInv, BeforeInv
<1>7. SentInv'
  BY <1>1, SentAfter
<1>8. BeforeInv'
  <2>1. nbr'[S].dd_seq_num = 0
    <3>1. DD(p).dd = p
      BY DEF DD
    <3> QED BY <1>4, <1>6, <3>1
  <2>2. In(M)' \cap Part \subseteq {Sent(S)'}
    BY <1>4, <1>5, <1>6 DEF Sent
  <2>3. Knows(M, nbr[S].database_summary_list)'
    <3>1. Knows(M, Database[S])'
      BY <1>1, <1>3, KnowsAtFirst
    <3> QED BY <1>4, <3>1 DEF Knows
  <2> QED BY <1>4, <1>5, <1>6, <2>1, <2>2, <2>3 DEF BeforeInv
<1>9. DuringInv'
  BY <1>3 DEF DuringInv
<1>10. FullInv'
  BY <1>1, FullAfter
<1> QED BY <1>7, <1>8, <1>9, <1>10 DEF PhaseInv

(* The slave accepts what the master sent last.                            *)
LEMMA SlaveAdvances ==
    ASSUME IInv, NEW k \in NbrRecord, NEW p, Local(SlaveId), Accepts(SlaveId, k),
           Began(MasterId), Began(SlaveId), Ahead,
           p = nbr[MasterId].last_send_dd, Head(chan[SlaveId]) = DD(p),
           DD(p) \in Part,
           k.state = (IF ~p.m /\ k.database_summary_list = <<>>
                      THEN FULL ELSE EXCHANGE),
           k.is_master = TRUE, k.dd_seq_num = p.seq,
           k.database_summary_list = Remaining(SlaveId),
           k.link_state_request_list =
               nbr[SlaveId].link_state_request_list \cup Requested(SlaveId, p),
           k.last_send_dd = Reply(k), DD(k.last_send_dd) \in Part
    PROVE  PhaseInv'
<1> DEFINE M == MasterId
           S == SlaveId
           q == DD(k.last_send_dd)
<1>1. /\ Router = {M, S} /\ M \in Router /\ S \in Router /\ M # S
      /\ Other(M) = S /\ Other(S) = M
  BY TwoRouters
<1>2. /\ nbr'[M] = nbr[M] /\ Began(M)'
      /\ Sent(M)' = Sent(M) /\ Remaining(M)' = Remaining(M)
      /\ \A l : Knows(M, l)' <=> Knows(M, l)
  BY <1>1, Bystander
<1>3. nbr'[S] = k /\ Began(S)' /\ Sent(S)' = q
  BY DEF Accepts, Began, Sent
<1>4. /\ In(S)' = Elements(Tail(chan[S])) /\ In(M)' = In(M) \cup {q}
      /\ \A X, Y : Follows(chan[M], X, Y) /\ (q \in Y \/ In(M) \cap X = {}) =>
            Follows(chan'[M], X, Y)
  BY <1>1, LinkAfter
<1> HIDE DEF q
<1>5. Knows(S, Remaining(M))' /\ (~p.m => Knows(S, <<>>)')
  <2>1. Knows(S, nbr[M].database_summary_list)
    BY DEF Ahead
  <2> QED BY <1>1, <1>2, <1>3, <2>1, Reads
<1>6. SentInv'
  BY <1>1, SentAfter
<1>7. BeforeInv'
  BY <1>2 DEF BeforeInv
<1>8. Level'
  <2>1. nbr'[M].dd_seq_num = nbr'[S].dd_seq_num
    BY <1>1, <1>2, <1>3, SentFacts
  <2>2. In(S)' \cap Part = {}
    <3>1. chan[S] \in Seq(Packet) /\ chan[S] # <<>>
      BY <1>1 DEF IInv, TypeInv, Accepts
    <3>2. Follows(chan[S], Part, Packet \ Part)
      BY DEF Ahead
    <3> QED BY <1>4, <3>1, <3>2, Received
  <2>3. ASSUME nbr'[M].state = EXCHANGE
        PROVE  /\ Old' = Old /\ In(M)' \cap Part \subseteq Old \cup {q}
               /\ Follows(chan'[M], Part \ Old, (Packet \ Part) \cup {q})
    <3>1. Old' = Old
      BY <1>2 DEF Old
    <3>2. In(M) \cap Part \subseteq Old
      BY <1>2, <2>3 DEF Ahead
    <3>3. Follows(chan[M], Part \ Old, (Packet \ Part) \cup {q})
      BY <3>2, NoneFollows DEF In
    <3> QED BY <1>4, <3>1, <3>2, <3>3
  <2>4. Knows(M, nbr[S].database_summary_list)'
    <3>1. Knows(M, Remaining(S))
      BY DEF Ahead
    <3>2. Knows(M, k.database_summary_list)'
      BY <1>2, <3>1
    <3> QED BY <1>3, <3>2 DEF Knows
  <2> QED BY <1>3, <1>5, <2>1, <2>2, <2>3, <2>4 DEF Level
<1>9. DuringInv'
  BY <1>3, <1>8 DEF DuringInv
<1>10. FullInv'
  <2>1. k.state = FULL => ~p.m /\ k.database_summary_list = <<>>
    OBVIOUS
  <2>2. k.state = FULL => Knows(S, <<>>)' /\ Knows(M, <<>>)
    BY <1>5, <2>1 DEF Ahead
  <2> QED BY <1>1, <2>1, <2>2, FullAfter
<1> QED BY <1>6, <1>7, <1>9, <1>10 DEF PhaseInv

(* event_negotiation_done: the exchange is still to begin. *)
Negotiated(m, b, seq) == [m EXCEPT !.is_master = b, !.dd_seq_num = seq]

LEMMA NegotiationFacts ==
    ASSUME NEW r \in Router, NEW m \in NbrRecord, NEW p \in Dd, NEW b \in BOOLEAN,
           NEW l \in Seq(Header)
    PROVE  LET n == N(r)!NegotiationDone(Negotiated(m, b, p.seq), l)
           IN  /\ n \in NbrRecord /\ n.state = EXCHANGE /\ n.id = m.id
               /\ n.is_master = b /\ n.dd_seq_num = p.seq
               /\ n.last_recv_dd = m.last_recv_dd
               /\ n.last_send_dd = m.last_send_dd
               /\ n.database_summary_list = l
               /\ n.link_state_request_list = m.link_state_request_list
               /\ n.is_empty_dd_sender_running = m.is_empty_dd_sender_running
BY DEF Negotiated, N!NegotiationDone, NbrRecord, Dd

(* From ExStart: the slave begins, or the master accepts its answer. *)
LEMMA ExstartAccepts ==
    ASSUME IInv, NEW r \in Router, NEW p, NEW at \in {"loop", "dd"}, NEW m,
           m = (IF at = "dd" THEN nbr[r] ELSE N(r)!RecordReceived(nbr[r], p)),
           HasDD(r, p, at, {EXSTART}),
           N(r)!PeerIsMaster(m, p) \/ N(r)!PeerIsSlave(m, p),
           Accept(r, N(r)!NegotiationDone(
                         [m EXCEPT !.is_master = N(r)!PeerIsMaster(m, p),
                                   !.dd_seq_num = p.seq],
                         Database[r]), p),
           UNCHANGED <<adj, sender>>
    PROVE  Local(r) /\ Begins(r) /\ PhaseInv'
<1> DEFINE b == N(r)!PeerIsMaster(m, p)
           n == N(r)!NegotiationDone(Negotiated(m, b, p.seq), Database[r])
           want == Requested(r, p)
           own == {OwnLsa[r]}
<1>1. /\ rpc[r] = at /\ chan[r] # <<>> /\ Head(chan[r]) = DD(p) /\ nbr[r].state = EXSTART
  BY DEF HasDD
<1>2. /\ nbr[r] \in NbrRecord /\ Control(r) /\ p \in Dd
      /\ DD(p) \in Part \cup Empty /\ DD(p) \in In(r) /\ (DD(p) \in Part <=> ~p.i)
  BY <1>1, InFront DEF IInv, TypeInv, ControlInv
<1>3. /\ m \in NbrRecord /\ SameLists(m, nbr[r]) /\ m.id = nbr[r].id
      /\ m.is_empty_dd_sender_running = nbr[r].is_empty_dd_sender_running
      /\ at = "loop" => m.last_recv_dd = AsRecorded(p)
  <2>1. CASE at = "dd"
    BY <1>1, <1>2, <2>1 DEF SameLists
  <2>2. CASE at # "dd"
    BY <1>1, <1>2, <2>2, RecordReceivedFacts
  <2> QED BY <2>1, <2>2
<1>4. ~Began(r) /\ nbr[r].id = Other(r)
      /\ nbr[r].dd_seq_num = 0 /\ nbr[r].last_send_dd = Unsent
  BY <1>1, <1>2 DEF Control, Began, Hung
<1>5. b \in BOOLEAN /\ (b => p.i /\ p.m) /\ (~b => ~p.i /\ p.seq = 0)
      /\ (b <=> r = SlaveId)
  <2>1. /\ Router = {MasterId, SlaveId} /\ SlaveId < MasterId
        /\ SlaveId \in Nat /\ MasterId \in Nat
        /\ Other(MasterId) = SlaveId /\ Other(SlaveId) = MasterId
    BY TwoRouters
  <2>2. m.id = Other(r) /\ m.dd_seq_num = 0
    BY <1>3, <1>4 DEF SameLists
  <2>3. /\ b => p.i /\ p.m /\ m.id > r
        /\ ~b => ~p.i /\ p.seq = m.dd_seq_num /\ m.id < r
    BY DEF N!PeerIsMaster, N!PeerIsSlave
  <2>4. b \in BOOLEAN
    BY DEF N!PeerIsMaster
  <2> HIDE DEF b
  <2> QED BY <2>1, <2>2, <2>3, <2>4
<1> HIDE DEF b
<1>6. Database[r] \in Seq(Header) /\ own \in SUBSET Header
  BY AdjacencyAssumption
<1>7. want \in SUBSET Header
  <2>1. p.hdrs \in Seq(Header)
    BY <1>2 DEF Dd
  <2>2. Range(p.hdrs) \subseteq Header
    BY <2>1, ElementOfSeq, LenProperties DEF Range
  <2> QED BY <2>2 DEF Requested
<1> HIDE DEF want, own
<1>8. /\ n \in NbrRecord /\ n.state = EXCHANGE /\ n.id = nbr[r].id
      /\ n.is_master = b /\ n.dd_seq_num = p.seq
      /\ n.last_recv_dd = m.last_recv_dd /\ n.last_send_dd = Unsent
      /\ n.database_summary_list = Database[r]
      /\ n.link_state_request_list = nbr[r].link_state_request_list
      /\ n.is_empty_dd_sender_running = nbr[r].is_empty_dd_sender_running
  <2>1. /\ n \in NbrRecord /\ n.state = EXCHANGE /\ n.id = m.id
        /\ n.is_master = b /\ n.dd_seq_num = p.seq
        /\ n.last_recv_dd = m.last_recv_dd /\ n.last_send_dd = m.last_send_dd
        /\ n.database_summary_list = Database[r]
        /\ n.link_state_request_list = m.link_state_request_list
        /\ n.is_empty_dd_sender_running = m.is_empty_dd_sender_running
    <3>1. m \in NbrRecord /\ p \in Dd /\ b \in BOOLEAN /\ Database[r] \in Seq(Header)
      BY <1>2, <1>3, <1>5, <1>6
    <3> QED BY <3>1, NegotiationFacts
  <2> HIDE DEF n
  <2> QED BY <1>3, <1>4, <2>1 DEF SameLists
<1>9. Rest(Database[r], Len(Unsent.hdrs)) = Database[r]
  BY <1>6, SplitList, EmptySeq DEF Unsent
<1>10. PICK k \in NbrRecord :
          /\ Becomes(r, k) /\ Consume(r, <<DD(k.last_send_dd)>>)
          /\ AcceptedAs(k, n, p, want)
  <2> DEFINE a == N(r)!AcceptDD(n, p, want, own)
  <2>1. Becomes(r, a) /\ Consume(r, <<DD(a.last_send_dd)>>)
    BY DEF Accept, b, want, own, Negotiated
  <2> HIDE DEF n
  <2>2. AcceptedAs(a, n, p, want)
    BY <1>2, <1>6, <1>7, <1>8, AcceptFacts
  <2> HIDE DEF a
  <2>3. a \in NbrRecord
    BY <2>2 DEF AcceptedAs
  <2> QED BY <2>1, <2>2, <2>3
<1>11. rpc' = [rpc EXCEPT ![r] = "loop"] /\ UNCHANGED <<adj, event, sender>>
  BY DEF Accept
<1> HIDE DEF n
<1>12. /\ k.id = nbr[r].id /\ k.is_master = b
       /\ k.state = (IF ~p.m /\ Database[r] = <<>> THEN FULL ELSE EXCHANGE)
       /\ k.last_recv_dd = m.last_recv_dd
       /\ k.dd_seq_num = (IF b THEN p.seq ELSE Succ(p.seq))
       /\ k.database_summary_list = Database[r]
       /\ k.link_state_request_list = nbr[r].link_state_request_list \cup want
       /\ k.last_send_dd = Reply(k) /\ DD(k.last_send_dd) \in Part
       /\ k.is_empty_dd_sender_running = nbr[r].is_empty_dd_sender_running
  BY <1>8, <1>9, <1>10 DEF AcceptedAs
<1>13. Local(r) /\ Begins(r) /\ Accepts(r, k)
  <2>1. /\ k.state \in {EXCHANGE, FULL} /\ k.id = nbr[r].id
        /\ k.is_empty_dd_sender_running = nbr[r].is_empty_dd_sender_running
        /\ DD(k.last_send_dd) \in Part
        /\ rpc[r] \in {"loop", "dd"} /\ nbr[r].state \in {EXSTART, EXCHANGE}
    BY <1>1, <1>12
  <2>2. Head(chan[r]) \in Part \cup Empty
    BY <1>1, InFront
  <2> QED BY <1>1, <2>2, <1>10, <1>11, <2>1, AcceptLocal
<1>14. CASE r = SlaveId
  <2>1. b /\ k.state = EXCHANGE /\ k.is_master = TRUE /\ k.dd_seq_num = p.seq
    BY <1>5, <1>12, <1>14
  <2>2. DD(p) \in In(SlaveId) \cap Empty
    BY <1>2, <1>5, <1>14
  <2>3. PhaseInv'
    BY <1>4, <1>12, <1>13, <1>14, <2>1, <2>2, SlaveBegins
  <2> QED BY <1>13, <2>3
<1>15. CASE r = MasterId
  <2> DEFINE S == SlaveId
  <2>1. ~b /\ ~p.i /\ p.seq = 0 /\ DD(p) \in Part
    BY <1>2, <1>5, <1>15, TwoRouters
  <2>2. at = "loop" /\ k.last_recv_dd = AsRecorded(p)
    <3>1. at # "dd"
      BY <1>1, <1>2, <2>1, PacketTypes DEF Control
    <3> QED BY <1>3, <1>12, <3>1
  <2>3. /\ Began(S) /\ nbr[S].dd_seq_num = 0 /\ In(S) \cap Part = {}
        /\ In(r) \cap Part \subseteq {Sent(S)}
        /\ Knows(r, nbr[S].database_summary_list)
    BY <1>2, <1>4, <1>15, <2>1 DEF IInv, PhaseInv, BeforeInv
  <2>4. p = nbr[S].last_send_dd
    <3>1. DD(p) = Sent(S)
      BY <1>2, <2>1, <2>3
    <3> QED BY <3>1 DEF DD, Sent
  <2>5. Elements(Tail(chan[r])) \cap Part \subseteq {Sent(S)}
    BY <1>1, <2>3, Received DEF In, IInv, TypeInv
  <2>6. Knows(S, k.database_summary_list)
    BY <1>12, <1>15, KnowsAtFirst, TwoRouters
  <2>7. k.is_master = FALSE /\ k.dd_seq_num = Succ(nbr[S].dd_seq_num)
    BY <1>5, <1>12, <2>1, <2>3
  <2>8. PhaseInv'
    BY <1>12, <1>13, <1>15, <2>2, <2>3, <2>4, <2>5, <2>6, <2>7, MasterAccepts
       DEF want
  <2> QED BY <1>13, <2>8
<1> QED BY <1>14, <1>15, TwoRouters

(* In Exchange: each side accepts the packet that the other sent last. *)
LEMMA ExchangeAccepts ==
    ASSUME IInv, NEW r \in Router, NEW p,
           HasDD(r, p, "loop", {EXCHANGE}),
           ~N(r)!IsDuplicate(nbr[r], p),
           ~N(r)!Unexpected(N(r)!RecordReceived(nbr[r], p), p),
           Accept(r, N(r)!RecordReceived(nbr[r], p), p),
           UNCHANGED <<adj, sender>>
    PROVE  Local(r) /\ Begins(r) /\ PhaseInv'
<1> DEFINE n == N(r)!RecordReceived(nbr[r], p)
           want == Requested(r, p)
           own == {OwnLsa[r]}
           o == Other(r)
<1>1. /\ rpc[r] = "loop" /\ chan[r] # <<>> /\ Head(chan[r]) = DD(p)
      /\ nbr[r].state = EXCHANGE /\ Began(r)
  BY DEF HasDD, Began
<1>2. /\ nbr[r] \in NbrRecord /\ p \in Dd
      /\ DD(p) \in In(r) /\ (DD(p) \in Part <=> ~p.i)
  BY <1>1, InFront DEF IInv, TypeInv
<1>3. ~p.i
  BY DEF N!Unexpected
<1>4. /\ Began(MasterId) /\ Began(SlaveId)
      /\ r = MasterId => Level /\ DD(p) \notin Old
      /\ r = SlaveId => Ahead
      /\ p = nbr[o].last_send_dd
  BY <1>1, <1>3, Expected
<1>5. (nbr[r].is_master <=> r = SlaveId) /\ nbr[r].is_master \in BOOLEAN
  BY <1>1, <1>2, SentFacts DEF NbrRecord
<1>6. own \in SUBSET Header
  BY AdjacencyAssumption
<1>7. want \in SUBSET Header
  <2>1. p.hdrs \in Seq(Header)
    BY <1>2 DEF Dd
  <2>2. Range(p.hdrs) \subseteq Header
    BY <2>1, ElementOfSeq, LenProperties DEF Range
  <2> QED BY <2>2 DEF Requested
<1> HIDE DEF want, own, o
<1>8. /\ n \in NbrRecord /\ n.state = EXCHANGE /\ n.id = nbr[r].id
      /\ n.is_master = nbr[r].is_master /\ n.dd_seq_num = nbr[r].dd_seq_num
      /\ n.last_recv_dd = AsRecorded(p) /\ n.last_send_dd = nbr[r].last_send_dd
      /\ n.database_summary_list = nbr[r].database_summary_list
      /\ n.link_state_request_list = nbr[r].link_state_request_list
      /\ n.is_empty_dd_sender_running = nbr[r].is_empty_dd_sender_running
  BY <1>1, <1>2, RecordReceivedFacts DEF SameLists
<1>9. Rest(n.database_summary_list, Len(n.last_send_dd.hdrs)) = Remaining(r)
  BY <1>8 DEF Remaining
<1>10. PICK k \in NbrRecord :
          /\ Becomes(r, k) /\ Consume(r, <<DD(k.last_send_dd)>>)
          /\ AcceptedAs(k, n, p, want)
  <2> DEFINE a == N(r)!AcceptDD(n, p, want, own)
  <2>1. Becomes(r, a) /\ Consume(r, <<DD(a.last_send_dd)>>)
    BY DEF Accept, want, own
  <2> HIDE DEF n
  <2>2. AcceptedAs(a, n, p, want)
    BY <1>2, <1>6, <1>7, <1>8, AcceptFacts
  <2> HIDE DEF a
  <2>3. a \in NbrRecord
    BY <2>2 DEF AcceptedAs
  <2> QED BY <2>1, <2>2, <2>3
<1>11. rpc' = [rpc EXCEPT ![r] = "loop"] /\ UNCHANGED <<adj, event, sender>>
  BY DEF Accept
<1> HIDE DEF n
<1>12. /\ k.id = nbr[r].id /\ k.is_master = nbr[r].is_master
       /\ k.state = (IF ~p.m /\ Remaining(r) = <<>> THEN FULL ELSE EXCHANGE)
       /\ k.last_recv_dd = AsRecorded(p)
       /\ k.dd_seq_num = (IF nbr[r].is_master THEN p.seq ELSE Succ(nbr[r].dd_seq_num))
       /\ k.database_summary_list = Remaining(r)
       /\ k.link_state_request_list = nbr[r].link_state_request_list \cup want
       /\ k.last_send_dd = Reply(k) /\ DD(k.last_send_dd) \in Part
       /\ k.is_empty_dd_sender_running = nbr[r].is_empty_dd_sender_running
  BY <1>8, <1>9, <1>10 DEF AcceptedAs
<1>13. Local(r) /\ Begins(r) /\ Accepts(r, k)
  <2>1. /\ k.state \in {EXCHANGE, FULL} /\ k.id = nbr[r].id
        /\ k.is_empty_dd_sender_running = nbr[r].is_empty_dd_sender_running
        /\ DD(k.last_send_dd) \in Part
        /\ rpc[r] \in {"loop", "dd"} /\ nbr[r].state \in {EXSTART, EXCHANGE}
    BY <1>1, <1>12
  <2>2. Head(chan[r]) \in Part \cup Empty
    BY <1>1, InFront
  <2> QED BY <1>1, <2>2, <1>10, <1>11, <2>1, AcceptLocal
<1>14. CASE r = SlaveId
  <2>1. k.is_master = TRUE /\ k.dd_seq_num = p.seq
    BY <1>5, <1>12, <1>14
  <2>2. p = nbr[MasterId].last_send_dd /\ DD(p) \in Part /\ Ahead
    BY <1>2, <1>3, <1>4, <1>14, TwoRouters DEF o
  <2>3. PhaseInv'
    BY <1>1, <1>4, <1>12, <1>13, <1>14, <2>1, <2>2, SlaveAdvances DEF want
  <2> QED BY <1>13, <2>3
<1>15. CASE r = MasterId
  <2> DEFINE S == SlaveId
  <2>1. p = nbr[S].last_send_dd /\ DD(p) \in Part \ Old /\ Level
    BY <1>2, <1>3, <1>4, <1>15, TwoRouters DEF o
  <2>2. k.is_master = FALSE /\ k.dd_seq_num = Succ(nbr[S].dd_seq_num)
    BY <1>5, <1>12, <1>15, <2>1, TwoRouters DEF Level
  <2>3. Elements(Tail(chan[r])) \cap Part \subseteq {Sent(S)}
    <3>1. Follows(chan[r], Part \ Old, (Packet \ Part) \cup {Sent(S)})
      BY <1>1, <1>15, <2>1 DEF Level
    <3>2. chan[r] \in Seq(Packet)
      BY DEF IInv, TypeInv
    <3> QED BY <1>1, <2>1, <3>1, <3>2, Received
  <2>4. /\ In(S) \cap Part = {} /\ Knows(r, nbr[S].database_summary_list)
        /\ Knows(S, k.database_summary_list)
    BY <1>12, <1>15, <2>1 DEF Level
  <2>5. PhaseInv'
    BY <1>4, <1>12, <1>13, <1>15, <2>1, <2>2, <2>3, <2>4, MasterAccepts
       DEF want
  <2> QED BY <1>13, <2>5
<1> QED BY <1>14, <1>15, TwoRouters
-----------------------------------------------------------------------------
(* The inductive invariant. *)

LEMMA InitIInv == Init => IInv
<1> SUFFICES ASSUME Init PROVE IInv
  OBVIOUS
<1>1. /\ MasterId \in Router /\ SlaveId \in Router /\ MasterId # SlaveId
      /\ \A r \in Router : Other(r) \in Router
  BY TwoRouters
<1>2. \A r \in Router : N(r)!NewNeighbor \in NbrRecord
  <2>1. <<>> \in Seq(Header)
    BY EmptySeq
  <2> QED BY <2>1, PacketTypes, ModFacts
          DEF N!NewNeighbor, N!NoRecv, N!NoSend, NbrRecord, Unsent, Nothing
<1>3. TypeInv
  BY <1>2, EmptySeq DEF Init, TypeInv
<1>4. /\ \A r \in Router : /\ nbr[r].state = DOWN
                           /\ ~nbr[r].is_empty_dd_sender_running
                           /\ rpc[r] = "loop" /\ event[r] = "none"
                           /\ sender[r] = "none" /\ chan[r] = <<>>
  BY DEF Init, N!NewNeighbor
<1>5. \A r \in Router : In(r) = {} /\ ~Began(r) /\ Follows(chan[r], Listing, Listing)
  <2>1. \A r \in Router : Len(chan[r]) = 0
    BY <1>4, EmptySeq
  <2> QED BY <1>4, <2>1 DEF In, Elements, Began, Hung, Follows
<1>6. ControlInv
  BY <1>4 DEF ControlInv, Control, Hung
<1>7. HelloInv
  BY <1>1, <1>4, <1>5 DEF HelloInv, Order
<1>8. PhaseInv
  BY <1>1, <1>4, <1>5 DEF PhaseInv, SentInv, BeforeInv, DuringInv, FullInv, Full
<1> QED BY <1>3, <1>6, <1>7, <1>8 DEF IInv

LEMMA QuietStep ==
    ASSUME IInv, NEW r \in Router, Local(r), Keeps(r)
    PROVE  IInv'
<1>1. Begins(r)
  BY DEF Keeps, Begins
<1> QED BY <1>1, HelloStep, ControlStep, KeepStep DEF IInv, Local

LEMMA ReceiveStep ==
    ASSUME IInv, NEW r \in Router, Receive(r)
    PROVE  IInv' /\ Local(r)
<1>1. CASE RecvHello(r)
  BY <1>1, RecvHelloQuiet, QuietStep
<1>2. CASE Finish(r)
  BY <1>2, FinishQuiet, QuietStep
<1>3. CASE RecvDD(r)
  <2> DEFINE p == Head(chan[r]).dd
  <2>1. \/ RecvDDIgnored(r, p) \/ RecvDDInInit(r, p)
        \/ RecvDDInExstart(r, p) \/ RecvDDInExchange(r, p)
    BY <1>3 DEF RecvDD
  <2> HIDE DEF p
  <2>2. CASE RecvDDIgnored(r, p)
    BY <2>2, RecvDDIgnoredQuiet, QuietStep
  <2>3. CASE RecvDDInInit(r, p)
    BY <2>3, RecvDDInInitQuiet, QuietStep
  <2>4. CASE RecvDDInExstart(r, p)
    <3>1. PICK at \in {"loop", "dd"} :
              LET m == IF at = "dd" THEN nbr[r] ELSE N(r)!RecordReceived(nbr[r], p)
                  master == N(r)!PeerIsMaster(m, p)
              IN  /\ HasDD(r, p, at, {EXSTART})
                  /\ IF master \/ N(r)!PeerIsSlave(m, p)
                     THEN Accept(r, N(r)!NegotiationDone(
                                        [m EXCEPT !.is_master = master,
                                                  !.dd_seq_num = p.seq],
                                        Database[r]), p)
                     ELSE /\ Becomes(r, m) /\ Consume(r, <<>>)
                          /\ rpc' = [rpc EXCEPT ![r] = "loop"] /\ UNCHANGED event
                  /\ UNCHANGED <<adj, sender>>
      BY <2>4 DEF RecvDDInExstart
    <3> DEFINE m == IF at = "dd" THEN nbr[r] ELSE N(r)!RecordReceived(nbr[r], p)
    <3>2. CASE N(r)!PeerIsMaster(m, p) \/ N(r)!PeerIsSlave(m, p)
      <4>1. Local(r) /\ Begins(r) /\ PhaseInv'
        BY <3>1, <3>2, ExstartAccepts
      <4> QED BY <4>1, HelloStep, ControlStep DEF IInv, Local
    <3>3. CASE ~(N(r)!PeerIsMaster(m, p) \/ N(r)!PeerIsSlave(m, p))
      <4>1. UNCHANGED <<adj, event, sender>>
        BY <3>1, <3>3
      <4>2. Local(r) /\ Keeps(r)
        BY <3>1, <3>3, <4>1, ExstartIgnoredQuiet
      <4> QED BY <4>2, QuietStep
    <3> QED BY <3>2, <3>3
  <2>5. CASE RecvDDInExchange(r, p)
    <3> DEFINE m == N(r)!RecordReceived(nbr[r], p)
    <3>1. HasDD(r, p, "loop", {EXCHANGE}) /\ UNCHANGED <<adj, sender>>
      BY <2>5 DEF RecvDDInExchange
    <3>2. CASE /\ N(r)!IsDuplicate(nbr[r], p)
               /\ Becomes(r, m) /\ Consume(r, Answer(r, p))
               /\ UNCHANGED <<rpc, event>>
      <4>1. UNCHANGED <<adj, rpc, event, sender>>
        BY <3>1, <3>2
      <4>2. Local(r) /\ Keeps(r)
        BY <3>1, <3>2, <4>1, DuplicateQuiet
      <4> QED BY <4>2, QuietStep
    <3>3. CASE /\ ~N(r)!IsDuplicate(nbr[r], p) /\ N(r)!Unexpected(m, p)
               /\ Lower(r, m, EXSTART, "restart") /\ Consume(r, <<>>)
      BY <3>1, <3>3, MismatchQuiet, QuietStep
    <3>4. CASE /\ ~N(r)!IsDuplicate(nbr[r], p) /\ ~N(r)!Unexpected(m, p)
               /\ Accept(r, m, p)
      <4>1. Local(r) /\ Begins(r) /\ PhaseInv'
        BY <3>1, <3>4, ExchangeAccepts
      <4> QED BY <4>1, HelloStep, ControlStep DEF IInv, Local
    <3> QED BY <2>5, <3>2, <3>3, <3>4 DEF RecvDDInExchange
  <2> QED BY <2>1, <2>2, <2>3, <2>4, <2>5
<1> QED BY <1>1, <1>2, <1>3 DEF Receive

RouterStep(r) ==
    SendHello(r) \/ Election(r) \/ Receive(r) \/ EmptyDDSender(r) \/ Lose(r)

LEMMA RouterSteps ==
    ASSUME IInv, NEW r \in Router, RouterStep(r)
    PROVE  IInv' /\ Local(r)
<1>1. CASE SendHello(r)
  BY <1>1, SendHelloQuiet, QuietStep
<1>2. CASE Election(r)
  BY <1>2, ElectionQuiet, QuietStep
<1>3. CASE Receive(r)
  BY <1>3, ReceiveStep
<1>4. CASE EmptyDDSender(r)
  BY <1>4, SenderQuiet, QuietStep
<1>5. CASE Lose(r)
  BY <1>5, LoseQuiet, QuietStep
<1> QED BY <1>1, <1>2, <1>3, <1>4, <1>5 DEF RouterStep

LEMMA NextIInv == IInv /\ [Next]_vars => IInv'
<1> SUFFICES ASSUME IInv, [Next]_vars PROVE IInv'
  OBVIOUS
<1>1. CASE Next
  BY <1>1, RouterSteps DEF Next, RouterStep
<1>2. CASE UNCHANGED vars
  <2>1. UNCHANGED <<nbr, adj, rpc, event, sender, chan>>
    BY <1>2 DEF vars
  <2>2. MasterId \in Router
    BY TwoRouters
  <2>3. TypeInv' /\ Frame(MasterId)
    BY <2>1 DEF IInv, TypeInv, Frame
  <2>4. Local(MasterId) /\ Keeps(MasterId)
    BY <2>1, <2>2, <2>3, ControlSame, KeepsSame DEF Local
  <2> QED BY <2>2, <2>4, QuietStep
<1> QED BY <1>1, <1>2

(* The two routers go through the exchange in step, whatever the link      *)
(* loses and the timers repeat.                                            *)
THEOREM Invariance == Spec => []IInv
BY InitIInv, NextIInv, PTL DEF Spec

(* While both exchange they agree who is master, and the master is at most *)
(* one DD packet ahead.                                                    *)
THEOREM ExchangeInStep == Spec => []InStep
<1> SUFFICES ASSUME IInv PROVE InStep
  BY Invariance, PTL
<1> SUFFICES ASSUME nbr[MasterId].state >= EXCHANGE, nbr[SlaveId].state >= EXCHANGE
             PROVE  /\ nbr[SlaveId].is_master /\ ~nbr[MasterId].is_master
                    /\ \/ nbr[MasterId].dd_seq_num = nbr[SlaveId].dd_seq_num
                       \/ nbr[MasterId].dd_seq_num = Succ(nbr[SlaveId].dd_seq_num)
  BY DEF InStep, Succ, Mod
<1>1. /\ MasterId \in Router /\ SlaveId \in Router /\ MasterId # SlaveId
      /\ Began(MasterId) /\ Began(SlaveId)
  BY TwoRouters DEF Began
<1>2. nbr[SlaveId].is_master /\ ~nbr[MasterId].is_master
  BY <1>1, SentFacts
<1>3. Ahead \/ Level
  BY <1>1 DEF IInv, PhaseInv, DuringInv
<1> QED BY <1>2, <1>3 DEF Ahead, Level

(* A Full router has read the other's whole database, and the other one    *)
(* has read its own, for LSAs of type router.                              *)
THEOREM FullKnowsAll == Spec => []ExchangeIsComplete
<1> SUFFICES ASSUME IInv PROVE ExchangeIsComplete
  BY Invariance, PTL
<1> SUFFICES ASSUME NEW r \in Router, Full(r)
             PROVE  \A q \in Router : KnowsStale(q, RouterLsaHeaders)
  BY TwoRouters DEF ExchangeIsComplete
<1>1. \A q \in Router : Knows(q, <<>>)
  BY DEF IInv, PhaseInv, FullInv
<1>2. Range(<<>>) = {}
  BY DEF Range
<1> QED BY <1>1, <1>2 DEF Knows, KnowsStale, RouterLsaHeaders

(* Nothing but an empty DD packet in Exchange makes a thread hang.         *)
THEOREM HangsOnEmptyDD == Spec => []OnlyEmptyDDHangs
<1> SUFFICES ASSUME IInv PROVE OnlyEmptyDDHangs
  BY Invariance, PTL
<1> QED BY DEF IInv, ControlInv, Control, OnlyEmptyDDHangs
-----------------------------------------------------------------------------
(* Each router is a Neighbor of module Neighbor. *)

USE DEF Nb!S_DOWN, Nb!S_ATTEMPT, Nb!S_INIT, Nb!S_2WAY, Nb!S_EXSTART,
        Nb!S_EXCHANGE, Nb!S_LOADING, Nb!S_FULL

(* Each step of the two routers, as the router with id r sees it.          *)
AsNeighbor(r) == [Nb(r)!Next]_(Nb(r)!vars)

(* Both modules take the operations from NeighborEvents.                   *)
LEMMA SameOperations ==
    ASSUME NEW r \in Router, NEW n
    PROVE  /\ Nb(r)!NewNeighbor = N(r)!NewNeighbor
           /\ \A id : Nb(r)!HelloReceived(n, id) = N(r)!HelloReceived(n, id)
           /\ Nb(r)!StartSender(Nb(r)!EnterExstart(n)) =
                 N(r)!StartSender(N(r)!EnterExstart(n))
           /\ Nb(r)!EnterExstart(n) = N(r)!EnterExstart(n)
           /\ \A s : Nb(r)!TearDown(n, s) = N(r)!TearDown(n, s)
           /\ \A l : Nb(r)!NegotiationDone(n, l) = N(r)!NegotiationDone(n, l)
           /\ \A p : /\ Nb(r)!RecordReceived(n, p) = N(r)!RecordReceived(n, p)
                     /\ Nb(r)!IsDuplicate(n, p) = N(r)!IsDuplicate(n, p)
                     /\ Nb(r)!PeerIsMaster(n, p) = N(r)!PeerIsMaster(n, p)
                     /\ Nb(r)!PeerIsSlave(n, p) = N(r)!PeerIsSlave(n, p)
                     /\ Nb(r)!Unexpected(n, p) = N(r)!Unexpected(n, p)
                     /\ Nb(r)!WellTyped(p)
                     /\ \A want, own : Nb(r)!AcceptDD(n, p, want, own) =
                                       N(r)!AcceptDD(n, p, want, own)
<1>1. Nb(r)!NewNeighbor = N(r)!NewNeighbor
  BY DEF Nb!NewNeighbor, N!NewNeighbor, Nb!NoRecv, N!NoRecv, Nb!NoSend, N!NoSend
<1>2. \A id : Nb(r)!HelloReceived(n, id) = N(r)!HelloReceived(n, id)
  BY DEF Nb!HelloReceived, N!HelloReceived
<1>3. Nb(r)!EnterExstart(n) = N(r)!EnterExstart(n)
  BY DEF Nb!EnterExstart, N!EnterExstart, Nb!NoRecv, N!NoRecv, Nb!NoSend, N!NoSend
<1>4. Nb(r)!StartSender(N(r)!EnterExstart(n)) = N(r)!StartSender(N(r)!EnterExstart(n))
  BY DEF Nb!StartSender, N!StartSender
<1>5. /\ \A s : Nb(r)!TearDown(n, s) = N(r)!TearDown(n, s)
      /\ \A l : Nb(r)!NegotiationDone(n, l) = N(r)!NegotiationDone(n, l)
  BY DEF Nb!TearDown, N!TearDown, Nb!NegotiationDone, N!NegotiationDone
<1>6. ASSUME NEW p
      PROVE  /\ Nb(r)!RecordReceived(n, p) = N(r)!RecordReceived(n, p)
             /\ Nb(r)!IsDuplicate(n, p) = N(r)!IsDuplicate(n, p)
             /\ Nb(r)!PeerIsMaster(n, p) = N(r)!PeerIsMaster(n, p)
             /\ Nb(r)!PeerIsSlave(n, p) = N(r)!PeerIsSlave(n, p)
             /\ Nb(r)!Unexpected(n, p) = N(r)!Unexpected(n, p)
             /\ Nb(r)!WellTyped(p)
  BY DEF Nb!RecordReceived, N!RecordReceived, Nb!IsDuplicate, N!IsDuplicate,
         Nb!PeerIsMaster, N!PeerIsMaster, Nb!PeerIsSlave, N!PeerIsSlave,
         Nb!Unexpected, N!Unexpected, Nb!ExpectedSeq, N!ExpectedSeq,
         Nb!NextSeq, N!NextSeq, Nb!WellTyped
<1>7. ASSUME NEW p, NEW want, NEW own
      PROVE  Nb(r)!AcceptDD(n, p, want, own) = N(r)!AcceptDD(n, p, want, own)
  BY DEF Nb!AcceptDD, N!AcceptDD, Nb!NextSeq, N!NextSeq, Nb!Drop, N!Drop,
         Nb!Take, N!Take, Nb!ExchangeDone, N!ExchangeDone
<1> QED BY <1>1, <1>2, <1>3, <1>4, <1>5, <1>6, <1>7

(* What router r's Neighbor has in front of it. *)
Same(r) ==
    /\ nbr'[r] = nbr[r] /\ adj'[r] = adj[r] /\ rpc'[r] = rpc[r]
    /\ event'[r] = event[r] /\ sender'[r] = sender[r]
    /\ rpc[r] = "dd" => Head(chan'[r]) = Head(chan[r])

LEMMA Unseen ==
    ASSUME NEW r \in Router, Same(r)
    PROVE  AsNeighbor(r)
<1>1. UNCHANGED Nb(r)!vars
  BY DEF Same, Nb!vars
<1> QED BY <1>1 DEF AsNeighbor

LEMMA Elsewhere ==
    ASSUME IInv, NEW r \in Router, Local(Other(r))
    PROVE  AsNeighbor(r)
<1> DEFINE o == Other(r)
<1>1. o \in Router /\ Other(o) = r
  BY TwoRouters
<1>2. Control(r) /\ chan[r] \in Seq(Packet)
  BY DEF IInv, ControlInv, TypeInv
<1> HIDE DEF o
<1>3. rpc[r] = "dd" => Head(chan'[r]) = Head(chan[r])
  BY <1>1, <1>2, Queued DEF Local, Frame, Control, o
<1>4. Same(r)
  BY <1>1, <1>3 DEF Local, Frame, Same, o
<1> QED BY <1>4, Unseen

LEMMA SendHelloAs ==
    ASSUME IInv, NEW r \in Router, SendHello(r)
    PROVE  AsNeighbor(r)
<1>1. chan'[r] = chan[r]
  BY TwoRouters DEF SendHello, Send, IInv, TypeInv
<1>2. Same(r)
  BY <1>1 DEF SendHello, Same
<1> QED BY <1>2, Unseen

LEMMA LoseAs ==
    ASSUME IInv, NEW r \in Router, Lose(r)
    PROVE  AsNeighbor(r)
BY Unseen DEF Lose, Same

(* The empty DD sender is TheSender, and Neighbor's senders are no other.  *)
LEMMA SenderAs ==
    ASSUME IInv, NEW r \in Router, EmptyDDSender(r)
    PROVE  AsNeighbor(r)
<1>1. /\ nbr \in [Router -> NbrRecord] /\ nbr[r] \in NbrRecord
      /\ sender \in [Router -> {"none", "check", "send", "sleep", "exit", "exited"}]
  BY DEF IInv, TypeInv
<1>2. chan'[r] = chan[r]
  BY TwoRouters DEF EmptyDDSender, SenderCheck, SenderSend, SenderWakes,
                    SenderExits, Send, IInv, TypeInv
<1>3. ASSUME NEW from \in {"check", "send", "sleep", "exit"},
             NEW to \in {"check", "send", "sleep", "exit", "exited"},
             SenderMoves(r, from, to), nbr'[r].state = nbr[r].state
      PROVE  Nb(r)!SenderMoves(TheSender, from, to)
  BY <1>1, <1>2, <1>3 DEF SenderMoves, Nb!SenderMoves
<1>4. CASE SenderCheck(r)
  <2>1. Nb(r)!SenderCheck(TheSender)
    BY <1>3, <1>4 DEF SenderCheck, Nb!SenderCheck
  <2> QED BY <2>1 DEF AsNeighbor, Nb!Next, Nb!SenderThread
<1>5. CASE SenderSend(r)
  <2>1. Nb(r)!SenderSend(TheSender)
    BY <1>3, <1>5 DEF SenderSend, Nb!SenderSend
  <2> QED BY <2>1 DEF AsNeighbor, Nb!Next, Nb!SenderThread
<1>6. CASE SenderWakes(r)
  <2>1. Nb(r)!SenderWakes(TheSender)
    BY <1>3, <1>6 DEF SenderWakes, Nb!SenderWakes
  <2> QED BY <2>1 DEF AsNeighbor, Nb!Next, Nb!SenderThread
<1>7. CASE SenderExits(r)
  <2>1. /\ nbr'[r] = [nbr[r] EXCEPT !.is_empty_dd_sender_running = FALSE]
        /\ nbr'[r].state = nbr[r].state
    BY <1>1, <1>7 DEF SenderExits, Becomes, NbrRecord
  <2>2. Nb(r)!SenderExits(TheSender)
    BY <1>3, <1>7, <2>1 DEF SenderExits, Nb!SenderExits
  <2> QED BY <2>2 DEF AsNeighbor, Nb!Next, Nb!SenderThread
<1> QED BY <1>4, <1>5, <1>6, <1>7 DEF EmptyDDSender

LEMMA NowHere ==
    ASSUME IInv, NEW r \in Router, NEW m, Becomes(r, m)
    PROVE  nbr'[r] = m
BY DEF Becomes, IInv, TypeInv

LEMMA TwoWayAs ==
    ASSUME IInv, NEW r \in Router, NEW m, TwoWayReceived(r, m), sender[r] = "none"
    PROVE  Nb(r)!TwoWayReceived(m)
<1>1. sender \in [Router -> {"none", "check", "send", "sleep", "exit", "exited"}]
  BY DEF IInv, TypeInv
<1>2. CASE adj[r]
  <2>1. nbr'[r] = N(r)!StartSender(N(r)!EnterExstart(m)) /\ sender'[r] = "check"
    BY <1>1, <1>2, NowHere DEF TwoWayReceived
  <2>2. Nb(r)!Spawn
    BY <1>1, <2>1 DEF Nb!Spawn, Nb!Free
  <2> QED BY <1>2, <2>1, <2>2, SameOperations DEF Nb!TwoWayReceived
<1>3. CASE ~adj[r]
  <2>1. nbr'[r] = [m EXCEPT !.state = TWOWAY] /\ sender'[r] = sender[r]
    BY <1>1, <1>3, NowHere DEF TwoWayReceived
  <2> QED BY <1>3, <2>1 DEF Nb!TwoWayReceived
<1> QED BY <1>2, <1>3

LEMMA LowerAs ==
    ASSUME IInv, NEW r \in Router, NEW m, NEW s, NEW e, Lower(r, m, s, e)
    PROVE  Nb(r)!Lower(m, s, e)
BY NowHere, SameOperations DEF Lower, Nb!Lower, IInv, TypeInv

LEMMA RecvHelloAs ==
    ASSUME IInv, NEW r \in Router, RecvHello(r), Local(r)
    PROVE  AsNeighbor(r)
<1> DEFINE m == N(r)!HelloReceived(nbr[r], Other(r))
<1>1. /\ nbr[r] \in NbrRecord /\ nbr'[r] \in NbrRecord
      /\ Control(r) /\ rpc[r] = "loop" /\ adj'[r] = adj[r]
  BY DEF IInv, TypeInv, Local, ControlInv, RecvHello
<1>2. /\ m = Nb(r)!HelloReceived(nbr[r], Other(r)) /\ m \in NbrRecord
      /\ m.state = IF nbr[r].state = DOWN THEN INIT ELSE nbr[r].state
      /\ Other(r) \in (Router \cup {0}) \ {0}
  <2>1. m = Nb(r)!HelloReceived(nbr[r], Other(r))
    BY SameOperations
  <2>2. m \in NbrRecord /\ m.state = IF nbr[r].state = DOWN THEN INIT ELSE nbr[r].state
    BY <1>1, HelloReceivedFacts
  <2> QED BY <2>1, <2>2, TwoRouters
<1> HIDE DEF m
<1>3. nbr'[r].state # DOWN
  <2> DEFINE w == [m EXCEPT !.state = TWOWAY]
             t == N(r)!TearDown(m, INIT)
             e == N(r)!StartSender(N(r)!EnterExstart(m))
  <2>1. Becomes(r, m) \/ Becomes(r, w) \/ Becomes(r, t) \/ Becomes(r, e)
    BY DEF RecvHello, TwoWayReceived, Lower, m
  <2>2. t.state = INIT /\ w.state = TWOWAY
    BY <1>2 DEF N!TearDown, NbrRecord
  <2>3. e.state = EXSTART
    BY <1>2, ExstartFacts
  <2>4. m.state # DOWN
    BY <1>2
  <2> HIDE DEF w, t, e
  <2> QED BY <2>1, <2>2, <2>3, <2>4, NowHere
<1>4. CASE Head(chan[r]).two_way
  <2>1. /\ IF m.state = INIT THEN TwoWayReceived(r, m)
                             ELSE Becomes(r, m) /\ UNCHANGED sender
        /\ UNCHANGED <<rpc, event>>
    BY <1>4 DEF RecvHello, m
  <2>2. IF m.state = INIT THEN Nb(r)!TwoWayReceived(m)
                         ELSE nbr'[r] = m /\ UNCHANGED sender
    BY <1>1, <1>2, <2>1, TwoWayAs, NowHere DEF Control, NbrRecord
  <2>3. Nb(r)!RecvHello2Way
    BY <1>1, <1>2, <1>3, <2>1, <2>2 DEF Nb!RecvHello2Way
  <2> QED BY <2>3 DEF AsNeighbor, Nb!Next
<1>5. CASE ~Head(chan[r]).two_way
  <2>1. /\ IF m.state >= TWOWAY THEN Lower(r, m, INIT, "1way")
           ELSE Becomes(r, m) /\ UNCHANGED <<rpc, event>>
        /\ UNCHANGED sender
    BY <1>5 DEF RecvHello, m
  <2>2. IF m.state >= TWOWAY THEN Nb(r)!Lower(m, INIT, "1way")
        ELSE nbr'[r] = m /\ UNCHANGED <<rpc, event>>
    BY <2>1, LowerAs, NowHere
  <2>4. rpc'[r] # "dd"
    BY <1>1, <2>1 DEF Lower, IInv, TypeInv
  <2>3. Nb(r)!RecvHello1Way
    BY <1>1, <1>2, <1>3, <2>1, <2>2, <2>4 DEF Nb!RecvHello1Way
  <2> QED BY <2>3 DEF AsNeighbor, Nb!Next
<1> QED BY <1>4, <1>5

LEMMA ElectionAs ==
    ASSUME IInv, NEW r \in Router, Election(r)
    PROVE  AsNeighbor(r)
<1>1. /\ nbr[r] \in NbrRecord /\ Control(r) /\ rpc[r] = "loop"
      /\ adj'[r] = TRUE /\ sender'[r] = sender[r] /\ chan' = chan
      /\ sender \in [Router -> {"none", "check", "send", "sleep", "exit", "exited"}]
  BY DEF IInv, TypeInv, ControlInv, Election
<1>2. CASE nbr[r].state = TWOWAY
  <2> DEFINE e == N(r)!EnterExstart(nbr[r])
  <2>1. /\ nbr'[r] = e /\ rpc'[r] = "finish" /\ event'[r] = "restart"
    BY <1>2, NowHere DEF Election, IInv, TypeInv
  <2>2. ~nbr[r].is_empty_dd_sender_running /\ sender[r] = "none"
    BY <1>1, <1>2 DEF Control
  <2>3. e \in NbrRecord /\ e.state = EXSTART
    BY <1>1, ExstartFacts
  <2>4. e = Nb(r)!EnterExstart(nbr[r])
    BY SameOperations
  <2> HIDE DEF e
  <2>5. [e EXCEPT !.empty_dd_sender_stop = @ \/ nbr[r].is_empty_dd_sender_running] = e
    BY <2>2, <2>3 DEF NbrRecord
  <2>6. TheSender \in Nb(r)!Free
    BY <2>2 DEF Nb!Free
  <2>7. nbr'[r] = [Nb(r)!EnterExstart(nbr[r]) EXCEPT
                      !.empty_dd_sender_stop = @ \/ nbr[r].is_empty_dd_sender_running]
    BY <2>1, <2>4, <2>5
  <2>8. nbr'[r].state # DOWN
    BY <2>1, <2>3
  <2>9. Nb(r)!Election
    <3> SUFFICES /\ nbr[r].state = TWOWAY /\ Nb(r)!Free # {}
                 /\ nbr'[r] = [Nb(r)!EnterExstart(nbr[r]) EXCEPT
                        !.empty_dd_sender_stop = @ \/ nbr[r].is_empty_dd_sender_running]
                 /\ rpc'[r] = IF nbr[r].is_empty_dd_sender_running
                              THEN "join_sender" ELSE "finish"
                 /\ event'[r] = "restart"
      <4>1. UNCHANGED <<nbr[r].state # DOWN,
                        IF rpc[r] = "dd" THEN Head(chan[r]).dd ELSE NoPacket,
                        <<[i \in {TheSender} |-> sender[r]],
                          IF sender[r] = "none" THEN NoThread ELSE TheSender,
                          IF nbr[r].state = DOWN THEN "none" ELSE "check">>, TRUE>>
        BY <1>1, <1>2, <2>1, <2>8
      <4> QED BY <1>1, <4>1, Zenon DEF Nb!Election, Nb!threads
    <3> QED BY <1>2, <2>1, <2>2, <2>6, <2>7
  <2> QED BY <2>9 DEF AsNeighbor, Nb!Next
<1>3. CASE nbr[r].state # TWOWAY
  <2>1. UNCHANGED <<nbr, rpc, event>>
    BY <1>3 DEF Election
  <2>2. Nb(r)!Election
    BY <1>1, <1>3, <2>1 DEF Nb!Election, Nb!threads
  <2> QED BY <2>2 DEF AsNeighbor, Nb!Next
<1> QED BY <1>2, <1>3

LEMMA FinishAs ==
    ASSUME IInv, NEW r \in Router, Finish(r)
    PROVE  AsNeighbor(r)
<1>1. /\ nbr[r] \in NbrRecord /\ Control(r) /\ rpc[r] = "finish"
      /\ adj' = adj /\ sender'[r] = "check" /\ rpc'[r] = "loop"
      /\ event'[r] = "none" /\ event[r] = "restart" /\ sender[r] = "none"
      /\ nbr'[r] = [nbr[r] EXCEPT !.empty_dd_sender_stop = FALSE]
  BY NowHere DEF IInv, TypeInv, ControlInv, Control, Finish
<1>2. nbr'[r].state = nbr[r].state
  BY <1>1 DEF NbrRecord
<1>3. Nb(r)!Spawn
  BY <1>1 DEF Nb!Spawn, Nb!Free
<1>4. Nb(r)!Finish
  BY <1>1, <1>2, <1>3 DEF Nb!Finish
<1> QED BY <1>4 DEF AsNeighbor, Nb!Next

(* The packets of the exchange are among those of the peer.                *)
LEMMA PeerPacket == Dd \subseteq DDPacket
<1> SUFFICES ASSUME NEW d \in Dd PROVE d \in DDPacket
  OBVIOUS
<1>1. /\ d = [seq |-> d.seq, i |-> d.i, m |-> d.m, ms |-> d.ms,
              options |-> MyOptions, hdrs |-> d.hdrs]
      /\ d.seq \in 0 .. Byte * Byte - 1 /\ d.i \in BOOLEAN /\ d.m \in BOOLEAN
      /\ d.ms \in BOOLEAN /\ d.hdrs \in Seq(Header) /\ Len(d.hdrs) <= MaxHdrs
  BY DEF Dd, SeqNum, Mod
<1>2. Len(d.hdrs) \in 0 .. MaxHdrs /\ d.hdrs \in [1 .. Len(d.hdrs) -> Header]
  BY <1>1, LenProperties, AdjacencyAssumption
<1> QED BY <1>1, <1>2, MappingAssumption

LEMMA AcceptAs ==
    ASSUME IInv, NEW r \in Router, NEW m, NEW p, Accept(r, m, p)
    PROVE  Nb(r)!InSequence(m, p)
<1>1. /\ nbr'[r] = N(r)!AcceptDD(m, p, Requested(r, p), {OwnLsa[r]})
      /\ rpc'[r] = "loop" /\ event' = event
  BY NowHere DEF Accept, IInv, TypeInv
<1>2. Requested(r, p) \in SUBSET Range(p.hdrs)
  BY DEF Requested
<1>3. Nb(r)!WellTyped(p)
  BY SameOperations
<1>4. nbr'[r] = Nb(r)!AcceptDD(m, p, Requested(r, p), {OwnLsa[r]})
  BY <1>1, SameOperations
<1> QED BY <1>1, <1>2, <1>3, <1>4 DEF Nb!InSequence, Nb!Range, Range

(* In ExStart, m is the neighbour with packet p recorded.                  *)
Negotiates(r, m, p) ==
    LET b == N(r)!PeerIsMaster(m, p) IN
    IF b \/ N(r)!PeerIsSlave(m, p)
    THEN Accept(r, N(r)!NegotiationDone(Negotiated(m, b, p.seq), Database[r]), p)
    ELSE /\ Becomes(r, m)
         /\ rpc' = [rpc EXCEPT ![r] = "loop"] /\ UNCHANGED event

LEMMA NegotiateAs ==
    ASSUME IInv, NEW r \in Router, NEW m, NEW p, Negotiates(r, m, p)
    PROVE  Nb(r)!Negotiate(m, p)
<1> DEFINE b == N(r)!PeerIsMaster(m, p)
           c == N(r)!PeerIsSlave(m, p)
           k == Negotiated(m, b, p.seq)
<1>1. b = Nb(r)!PeerIsMaster(m, p) /\ c = Nb(r)!PeerIsSlave(m, p)
  BY SameOperations
<1>2. CASE b \/ c
  <2>1. Accept(r, N(r)!NegotiationDone(k, Database[r]), p)
    BY <1>2 DEF Negotiates
  <2>2. Nb(r)!InSequence(N(r)!NegotiationDone(k, Database[r]), p)
    BY <2>1, AcceptAs
  <2>3. Nb(r)!InSequence(Nb(r)!NegotiationDone(k, Database[r]), p)
    BY <2>2, SameOperations
  <2> QED BY <1>1, <1>2, <2>3 DEF Nb!Negotiate, Negotiated
<1>3. CASE ~(b \/ c)
  <2>1. nbr'[r] = m /\ rpc'[r] = "loop" /\ event' = event
    BY <1>3, NowHere DEF Negotiates, IInv, TypeInv
  <2> QED BY <1>1, <1>3, <2>1 DEF Nb!Negotiate
<1> QED BY <1>2, <1>3

LEMMA RecvDDIgnoredAs ==
    ASSUME IInv, NEW r \in Router, NEW p, RecvDDIgnored(r, p), Local(r)
    PROVE  AsNeighbor(r)
<1>1. /\ rpc[r] = "loop" /\ chan[r] # <<>> /\ Head(chan[r]) = DD(p)
      /\ nbr[r].state \in {TWOWAY, N(r)!S_LOADING, FULL}
      /\ nbr'[r] = N(r)!RecordReceived(nbr[r], p) /\ UNCHANGED <<adj, rpc, event, sender>>
  BY NowHere DEF RecvDDIgnored, HasDD
<1>2. p \in DDPacket /\ nbr[r].state # DOWN /\ nbr'[r].state # DOWN
  BY <1>1, InFront, PeerPacket DEF Local, Rise
<1>3. Nb(r)!RecvDDIgnored
  BY <1>1, <1>2, SameOperations DEF Nb!RecvDDIgnored, Nb!threads
<1> QED BY <1>3 DEF AsNeighbor, Nb!Next

LEMMA RecvDDInInitAs ==
    ASSUME IInv, NEW r \in Router, NEW p, RecvDDInInit(r, p), Local(r)
    PROVE  AsNeighbor(r)
<1>1. /\ rpc[r] = "loop" /\ chan[r] # <<>> /\ Head(chan[r]) = DD(p)
      /\ nbr[r].state = INIT /\ UNCHANGED <<adj, event>>
      /\ TwoWayReceived(r, N(r)!RecordReceived(nbr[r], p))
      /\ IF adj[r] THEN rpc'[r] = "dd" /\ UNCHANGED chan ELSE UNCHANGED rpc
  BY DEF RecvDDInInit, HasDD, IInv, TypeInv
<1>2. p \in DDPacket /\ nbr[r].state # DOWN /\ nbr'[r].state # DOWN
  BY <1>1, InFront, PeerPacket DEF Local, Rise
<1>3. sender[r] = "none"
  BY <1>1 DEF IInv, ControlInv, Control
<1>4. Nb(r)!TwoWayReceived(Nb(r)!RecordReceived(nbr[r], p))
  BY <1>1, <1>3, TwoWayAs, SameOperations
<1>5. Head(chan[r]).dd = p
  BY <1>1 DEF DD
<1>6. Nb(r)!RecvDDInInit
  BY <1>1, <1>2, <1>4, <1>5 DEF Nb!RecvDDInInit
<1> QED BY <1>6 DEF AsNeighbor, Nb!Next

LEMMA RecvDDInExstartAs ==
    ASSUME IInv, NEW r \in Router, NEW p, RecvDDInExstart(r, p), Local(r)
    PROVE  AsNeighbor(r)
<1>1. PICK at \in {"loop", "dd"} :
          /\ HasDD(r, p, at, {EXSTART}) /\ UNCHANGED <<adj, sender>>
          /\ Negotiates(r, IF at = "dd" THEN nbr[r]
                           ELSE N(r)!RecordReceived(nbr[r], p), p)
  BY DEF RecvDDInExstart, Negotiates, Negotiated
<1>2. PICK m : /\ m = IF at = "dd" THEN nbr[r]
                       ELSE N(r)!RecordReceived(nbr[r], p)
               /\ Negotiates(r, m, p)
  BY <1>1
<1>3. /\ rpc[r] = at /\ chan[r] # <<>> /\ Head(chan[r]) = DD(p)
      /\ nbr[r].state = EXSTART /\ rpc'[r] = "loop" /\ UNCHANGED <<adj, sender>>
  BY <1>1, <1>2 DEF HasDD, Negotiates, Accept, IInv, TypeInv
<1>4. p \in DDPacket /\ nbr[r].state # DOWN /\ nbr'[r].state # DOWN
  BY <1>3, InFront, PeerPacket DEF Local, Rise
<1>5. CASE at = "loop"
  <2>1. Nb(r)!Negotiate(Nb(r)!RecordReceived(nbr[r], p), p)
    <3>1. m = Nb(r)!RecordReceived(nbr[r], p)
      BY <1>2, <1>5, SameOperations
    <3>2. Nb(r)!Negotiate(m, p)
      BY <1>2, NegotiateAs
    <3> QED BY <3>1, <3>2 DEF Nb!Negotiate, Nb!InSequence, Nb!Lower
  <2>2. Nb(r)!RecvDDInExstart
    BY <1>3, <1>4, <1>5, <2>1 DEF Nb!RecvDDInExstart, Nb!threads
  <2> QED BY <2>2 DEF AsNeighbor, Nb!Next
<1>6. CASE at = "dd"
  <2>1. Nb(r)!Negotiate(nbr[r], p) /\ Head(chan[r]).dd = p
    <3>1. m = nbr[r] /\ Head(chan[r]).dd = p
      BY <1>2, <1>3, <1>6 DEF DD
    <3>2. Nb(r)!Negotiate(m, p)
      BY <1>2, NegotiateAs
    <3> QED BY <3>1, <3>2 DEF Nb!Negotiate, Nb!InSequence, Nb!Lower
  <2>2. Nb(r)!DDBegin
    BY <1>3, <1>4, <1>6, <2>1 DEF Nb!DDBegin, Nb!threads
  <2> QED BY <2>2 DEF AsNeighbor, Nb!Next
<1> QED BY <1>5, <1>6

LEMMA RecvDDInExchangeAs ==
    ASSUME IInv, NEW r \in Router, NEW p, RecvDDInExchange(r, p), Local(r)
    PROVE  AsNeighbor(r)
<1> DEFINE m == N(r)!RecordReceived(nbr[r], p)
           same == N(r)!IsDuplicate(nbr[r], p)
           off == N(r)!Unexpected(m, p)
<1>1. /\ rpc[r] = "loop" /\ chan[r] # <<>> /\ Head(chan[r]) = DD(p)
      /\ nbr[r].state = EXCHANGE /\ UNCHANGED <<adj, sender>>
  BY DEF RecvDDInExchange, HasDD
<1>2. p \in DDPacket /\ nbr[r].state # DOWN /\ nbr'[r].state # DOWN
  BY <1>1, InFront, PeerPacket DEF Local, Rise
<1>3. m.state = EXCHANGE
  BY <1>1, InFront, RecordReceivedFacts DEF IInv, TypeInv
<1>4. /\ m = Nb(r)!RecordReceived(nbr[r], p)
      /\ same = Nb(r)!IsDuplicate(nbr[r], p) /\ off = Nb(r)!Unexpected(m, p)
  BY SameOperations
<1>5. CASE same
  <2>1. nbr'[r] = m /\ rpc' = rpc /\ event' = event
    BY <1>5, NowHere DEF RecvDDInExchange
  <2>2. Nb(r)!RecvDDInExchange
    BY <1>1, <1>2, <1>4, <1>5, <2>1 DEF Nb!RecvDDInExchange, Nb!threads
  <2> QED BY <2>2 DEF AsNeighbor, Nb!Next
<1>6. CASE ~same /\ off
  <2>1. Lower(r, m, EXSTART, "restart")
    BY <1>6 DEF RecvDDInExchange
  <2>2. Nb(r)!Restart(m) /\ rpc'[r] # "dd"
    <3> HIDE DEF m
    <3>1. Nb(r)!Lower(m, EXSTART, "restart")
      BY <2>1, LowerAs
    <3>2. rpc'[r] = "join_retrans"
      BY <2>1 DEF Lower, IInv, TypeInv
    <3> QED BY <1>3, <3>1, <3>2 DEF Nb!Restart
  <2>3. Nb(r)!RecvDDInExchange
    BY <1>1, <1>2, <1>4, <1>6, <2>2 DEF Nb!RecvDDInExchange, Nb!threads
  <2> QED BY <2>3 DEF AsNeighbor, Nb!Next
<1>7. CASE ~same /\ ~off
  <2>1. Accept(r, m, p)
    BY <1>7 DEF RecvDDInExchange
  <2>2. Nb(r)!InSequence(m, p) /\ rpc'[r] # "dd"
    BY <2>1, AcceptAs DEF Accept, IInv, TypeInv
  <2>3. Nb(r)!RecvDDInExchange
    BY <1>1, <1>2, <1>4, <1>7, <2>2 DEF Nb!RecvDDInExchange, Nb!threads
  <2> QED BY <2>3 DEF AsNeighbor, Nb!Next
<1> QED BY <1>5, <1>6, <1>7

LEMMA ReceiveAs ==
    ASSUME IInv, NEW r \in Router, Receive(r), Local(r)
    PROVE  AsNeighbor(r)
<1>1. CASE RecvDD(r)
  <2>1. PICK p : \/ RecvDDIgnored(r, p) \/ RecvDDInInit(r, p)
                 \/ RecvDDInExstart(r, p) \/ RecvDDInExchange(r, p)
    BY <1>1 DEF RecvDD
  <2> QED BY <2>1, RecvDDIgnoredAs, RecvDDInInitAs, RecvDDInExstartAs,
             RecvDDInExchangeAs
<1> QED BY <1>1, RecvHelloAs, FinishAs DEF Receive

(* A step is one of router q, which another router does not see.           *)
LEMMA NextAs == IInv /\ [Next]_vars => \A r \in Router : AsNeighbor(r)
<1> SUFFICES ASSUME IInv, [Next]_vars, NEW r \in Router PROVE AsNeighbor(r)
  OBVIOUS
<1>1. CASE UNCHANGED vars
  <2>1. Same(r)
    BY <1>1 DEF vars, Same
  <2> QED BY <2>1, Unseen
<1>2. CASE Next
  <2>1. PICK q \in Router : RouterStep(q)
    BY <1>2 DEF Next, RouterStep
  <2>2. Local(q)
    BY <2>1, RouterSteps
  <2>3. CASE q = r
    BY <2>1, <2>2, <2>3, SendHelloAs, ElectionAs, ReceiveAs, SenderAs, LoseAs
    DEF RouterStep
  <2>4. CASE q # r
    <3>1. q = Other(r)
      BY <2>4, TwoRouters
    <3> QED BY <2>2, <3>1, Elsewhere
  <2> QED BY <2>3, <2>4
<1> QED BY <1>1, <1>2

LEMMA InitAs == Init => \A r \in Router : Nb(r)!Init
<1> SUFFICES ASSUME Init, NEW r \in Router PROVE Nb(r)!Init
  OBVIOUS
<1>1. /\ nbr[r] = N(r)!NewNeighbor /\ nbr[r] = Nb(r)!NewNeighbor
      /\ adj[r] = FALSE /\ rpc[r] = "loop" /\ event[r] = "none"
      /\ sender[r] = "none"
  BY SameOperations DEF Init
<1>2. nbr[r].state = DOWN
  BY <1>1 DEF N!NewNeighbor
<1> QED BY <1>1, <1>2 DEF Nb!Init

(* Step by step, each of the two routers is the router of module Neighbor  *)
(* among peers that send anything: each handler, the join it waits for,    *)
(* and its empty DD sender.                                                *)
THEOREM NeighborsImplemented == Spec => RouterImplementsNeighbor
<1> DEFINE M == AsNeighbor(MasterId)
           S == AsNeighbor(SlaveId)
           Begin == Nb(MasterId)!Init /\ Nb(SlaveId)!Init
<1>1. MasterId \in Router /\ SlaveId \in Router
  BY TwoRouters
<1>2. Init => IInv /\ Begin
  BY <1>1, InitIInv, InitAs
<1>3. IInv /\ [Next]_vars => IInv' /\ M /\ S
  BY <1>1, NextIInv, NextAs
<1>4. M => [Nb(MasterId)!Next]_(Nb(MasterId)!vars)
  BY DEF AsNeighbor
<1>5. S => [Nb(SlaveId)!Next]_(Nb(SlaveId)!vars)
  BY DEF AsNeighbor
<1>6. RouterImplementsNeighbor <=>
          /\ Begin /\ [][Nb(MasterId)!Next]_(Nb(MasterId)!vars)
          /\ [][Nb(SlaveId)!Next]_(Nb(SlaveId)!vars)
  BY DEF RouterImplementsNeighbor
<1> HIDE DEF M, S, Begin
<1> QED BY <1>2, <1>3, <1>4, <1>5, <1>6, PTL DEF Spec
=============================================================================
