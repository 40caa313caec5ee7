--------------------------- MODULE FloodingProofs ---------------------------
(***************************************************************************)
(* Theorems about Flooding: its invariants and that the database           *)
(* implements LsaStore, for any LSAs, neighbours, elections and memory.    *)
(***************************************************************************)
EXTENDS Flooding, LsdbProofs

(* lsa_header_cmp on whole LSAs. *)
Hd(i) == [seq |-> i.seq, checksum |-> i.checksum, age |-> i.age]

LEMMA CmpHd ==
    ASSUME NEW a \in Lsa, NEW b \in Lsa
    PROVE  Hd(a) \in Header /\ Cmp(a, b) = Cmp(Hd(a), Hd(b))
BY DEF Hd, Header, Lsa, Cmp, CmpAge

LEMMA CmpFlip ==
    ASSUME NEW a \in Lsa, NEW b \in Lsa
    PROVE  Cmp(a, b) \in Int /\ Cmp(a, b) = -Cmp(b, a)
<1>1. Hd(a) \in Header /\ Hd(b) \in Header
  BY CmpHd
<1>2. Cmp(a, b) = -Cmp(b, a)
  BY <1>1, CmpHd, Antisymmetric DEF CmpIsAntisymmetric
<1>3. Cmp(a, b) \in Int
  BY DEF Cmp, CmpAge
<1> QED BY <1>2, <1>3

LEMMA CmpTransitive ==
    ASSUME NEW a \in Lsa, NEW b \in Lsa, NEW c \in Lsa,
           Cmp(a, b) < 0, Cmp(b, c) < 0
    PROVE  Cmp(a, c) < 0
<1>1. Hd(a) \in Header /\ Hd(b) \in Header /\ Hd(c) \in Header
  BY CmpHd
<1> QED BY <1>1, CmpHd, Transitive DEF NewerIsTransitive, Newer

(* Of two LSAs that ntoh has left without an age, what is newer than one   *)
(* is newer than any other that is not newer.                              *)
LEMMA CmpNotNewer ==
    ASSUME NEW h \in Lsa, NEW j \in Lsa, NEW i \in Lsa, i.age = 0, j.age = 0,
           Cmp(h, j) < 0, Cmp(i, j) >= 0
    PROVE  Cmp(h, i) < 0
<1>1. CASE Cmp(i, j) = 0
  <2>1. i.seq = j.seq /\ i.checksum = j.checksum
    BY <1>1 DEF Cmp, Lsa
  <2> QED BY <2>1 DEF Cmp, CmpAge
<1>2. CASE Cmp(i, j) # 0
  <2>1. Cmp(j, i) < 0
    BY <1>2, CmpFlip
  <2> QED BY <2>1, CmpTransitive
<1>3. Cmp(i, j) \in Int
  BY CmpFlip
<1> QED BY <1>1, <1>2, <1>3

(* The LSU that brings a requested LSA brings something newer than a copy  *)
(* that came in an LSU, unless it was requested because of its MAX_AGE.    *)
LEMMA AnswerIsNewer ==
    ASSUME NEW h \in Lsa, NEW i \in Lsa, i.age = 0,
           h.age # MAX_AGE, Cmp(h, i) < 0
    PROVE  Cmp(Ntoh(h), i) < 0
<1>1. Hd(h) \in Header /\ Hd(i) \in DatabaseCopy /\ Hd(h).age # MAX_AGE
  BY CmpHd, LsaHeaderAssumption DEF Hd, DatabaseCopy
<1>2. Cmp(Hd(h), Hd(i)) < 0
  BY CmpHd
<1>3. Newer(Ntoh(Hd(h)), Hd(i))
  BY <1>1, <1>2, MaxAgeDecides DEF OnlyMaxAgeDecides, Newer, DatabaseCopy
<1>4. /\ Ntoh(h).seq = Ntoh(Hd(h)).seq /\ Ntoh(h).age = Ntoh(Hd(h)).age
      /\ Ntoh(h).checksum = Ntoh(Hd(h)).checksum
  BY DEF Ntoh, Hd, Lsa
<1>5. Cmp(Ntoh(h), i) = Cmp(Ntoh(Hd(h)), Hd(i))
  BY <1>4 DEF Cmp, CmpAge, Hd
<1> QED BY <1>3, <1>5 DEF Newer

LEMMA FoundSame ==
    ASSUME NEW d, NEW e, NEW k, SameOf(d, e, k)
    PROVE  Found(e, k) = Found(d, k)
BY DEF SameOf, Found

LEMMA FoundLsa ==
    ASSUME NEW db \in Database, NEW k \in Key, NEW i \in Found(db, k)
    PROVE  i \in Lsa /\ i.key = k
BY MatchingIs DEF Found
-----------------------------------------------------------------------------
(* While an LSA is being installed, cur is new to the database.            *)
ControlInv ==
    /\ cur = Nothing <=> rpc # "install"
    /\ rpc = "install" =>
           /\ cur.lsa \in WireLsa
           /\ cur.lsa.key \in Others => IsNew(cur.lsa)

(* Another router's LSA came in an LSU. *)
WireInv == \A k \in Others : Found(lsdb, k) \subseteq WireLsa

BelowInv == \A p \in Peer : nbr[p].state = "below" => nbr[p] = Below

QueueInv ==
    \A p \in Peer : \A h \in nbr[p].retrans : h.key \in Others =>
        rpc = "install" /\ h.key = cur.lsa.key

(* What is requested is newer than the copy in the database and than the   *)
(* one that is about to take its place.                                    *)
Open(h) ==
    /\ Wanted(h)
    /\ rpc = "install" /\ h.key = cur.lsa.key => Cmp(h, cur.lsa) < 0

RequestInv ==
    \A p \in Peer : nbr[p].state = "EXCHANGE" =>
        \A h \in nbr[p].request : h.key \in Others => Open(h)

IInv == TypeOK /\ Heap(lsdb) /\ ControlInv /\ WireInv /\ BelowInv
            /\ QueueInv /\ RequestInv

LEMMA InitIInv == Init => IInv
<1> SUFFICES ASSUME Init PROVE IInv
  OBVIOUS
<1>1. TypeOK
  BY FloodingAssumption
     DEF Init, TypeOK, EmptyDb, Database, NbrRecord, Below, Ip
<1>2. lsdb.freed = {} /\ \A k \in Key : Matching(lsdb, k) = {}
  <2>1. \A k \in Key : lsdb.list[k.type] = {}
    BY LsdbAssumption DEF Init, EmptyDb
  <2> QED BY <2>1 DEF Init, EmptyDb, Matching
<1>3. Heap(lsdb) /\ WireInv
  BY <1>1, <1>2 DEF Heap, TypeOK, Others, WireInv, Found
<1>4. ControlInv /\ BelowInv /\ QueueInv /\ RequestInv
  BY DEF Init, ControlInv, BelowInv, QueueInv, RequestInv, Below
<1> QED BY <1>1, <1>3, <1>4 DEF IInv
-----------------------------------------------------------------------------
(* What a handler that leaves the database alone may make of the lists.    *)
Calm(ns) ==
    /\ ns \in [Peer -> NbrRecord]
    /\ \A p \in Peer :
           /\ ns[p].state = "below" => ns[p] = Below
           /\ ns[p].retrans \subseteq nbr[p].retrans
           /\ ns[p].state = "EXCHANGE" =>
                  \A h \in ns[p].request : h.key \in Others => Wanted(h)

LEMMA NbrIsCalm ==
    ASSUME IInv, rpc = "loop"
    PROVE  Calm(nbr)
BY DEF IInv, TypeOK, BelowInv, RequestInv, Open, Calm

LEMMA LoweredIsCalm ==
    ASSUME NEW ns, Calm(ns), NEW p \in Peer
    PROVE  Calm([ns EXCEPT ![p] = Below])
<1> DEFINE ms == [ns EXCEPT ![p] = Below]
<1>1. Below \in NbrRecord
  BY DEF Below, NbrRecord
<1>2. /\ ms \in [Peer -> NbrRecord] /\ ms[p] = Below
      /\ \A q \in Peer \ {p} : ms[q] = ns[q]
  BY <1>1 DEF Calm
<1> HIDE DEF ms
<1>3. Calm(ms)
  BY <1>2 DEF Calm, Below
<1> QED BY <1>3 DEF ms

LEMMA ListStep ==
    ASSUME IInv, rpc = "loop", lsdb' = lsdb, cur' = cur, Calm(nbr'),
           rpc' \in {"loop", "hung"}, dr' \in Ip, bdr' \in Ip,
           ls_sequence_cnt' = ls_sequence_cnt, ack' = NoLsa
    PROVE  IInv'
<1>1. cur = Nothing
  BY DEF IInv, ControlInv
<1>2. TypeOK'
  BY DEF IInv, TypeOK, Calm
<1>3. Heap(lsdb)' /\ WireInv' /\ ControlInv'
  BY <1>1 DEF IInv, WireInv, ControlInv
<1>4. BelowInv' /\ QueueInv'
  BY DEF IInv, QueueInv, BelowInv, Calm
<1>5. RequestInv'
  <2> SUFFICES ASSUME NEW p \in Peer, nbr'[p].state = "EXCHANGE",
                      NEW h \in nbr'[p].request, h.key \in Others
               PROVE  Open(h)'
    BY DEF RequestInv
  <2>1. Wanted(h)
    BY DEF Calm
  <2> QED BY <2>1 DEF Open, Wanted
<1> QED BY <1>2, <1>3, <1>4, <1>5 DEF IInv

LEMMA ElectionStep ==
    ASSUME IInv, rpc = "loop", lsdb' = lsdb, cur' = cur, ack' = NoLsa,
           ls_sequence_cnt' = ls_sequence_cnt,
           NEW ns, Calm(ns), Election(ns)
    PROVE  IInv'
<1>1. PICK e \in Outcome :
          LET lost == {p \in Peer : /\ ns[p].state # "below"
                                    /\ {e[1], e[2]} \cap {MyIp, p} = {}}
          IN  /\ dr' = e[1] /\ bdr' = e[2]
              /\ IF lost = {}
                 THEN nbr' = ns /\ rpc' = "loop"
                 ELSE /\ \E p \in lost : nbr' = [ns EXCEPT ![p] = Below]
                      /\ rpc' = "hung"
  BY DEF Election
<1>2. dr' \in Ip /\ bdr' \in Ip
  BY <1>1, FloodingAssumption DEF Ip
<1>3. nbr' = ns \/ \E p \in Peer : nbr' = [ns EXCEPT ![p] = Below]
  BY <1>1
<1>4. Calm(nbr')
  BY <1>3, LoweredIsCalm
<1>5. rpc' \in {"loop", "hung"}
  BY <1>1
<1> QED BY <1>2, <1>4, <1>5, ListStep

LEMMA HangStep ==
    ASSUME IInv, rpc = "loop", NEW p \in Peer, Hang(p),
           lsdb' = lsdb, cur' = cur, ack' = NoLsa,
           ls_sequence_cnt' = ls_sequence_cnt, dr' = dr, bdr' = bdr
    PROVE  IInv'
<1>1. Calm(nbr')
  BY NbrIsCalm, LoweredIsCalm DEF Hang, SetNbr
<1> QED BY <1>1, ListStep DEF Hang, IInv, TypeOK

LEMMA RequestStep ==
    ASSUME IInv, NEW p \in Peer, NegotiationDone(p) \/ RecvDDHeader(p)
    PROVE  IInv'
<1>1. CASE NegotiationDone(p)
  <2>1. Calm(nbr')
    BY <1>1, NbrIsCalm DEF NegotiationDone, SetNbr, Calm, NbrRecord, Below
  <2> QED BY <1>1, <2>1, ListStep DEF NegotiationDone, IInv, TypeOK, roles
<1>2. CASE RecvDDHeader(p)
  <2>1. PICK h \in DDHeader[p] :
            /\ rpc = "loop" /\ nbr[p].state = "EXCHANGE" /\ Wanted(h)
            /\ nbr' = [nbr EXCEPT ![p] = [nbr[p] EXCEPT !.request = @ \cup {h}]]
    BY <1>2 DEF RecvDDHeader, SetNbr
  <2>2. h \in Lsa
    BY FloodingAssumption
  <2>3. Calm(nbr')
    BY <2>1, <2>2, NbrIsCalm DEF Calm, NbrRecord
  <2> QED BY <1>2, <2>1, <2>3, ListStep DEF RecvDDHeader, IInv, TypeOK, roles
<1> QED BY <1>1, <1>2

LEMMA LsAckStep ==
    ASSUME IInv, NEW p \in Peer, RecvLsAck(p)
    PROVE  IInv'
<1>1. PICK h \in nbr[p].retrans :
          /\ rpc = "loop"
          /\ nbr' = [nbr EXCEPT ![p] = [nbr[p] EXCEPT !.retrans = @ \ {h}]]
          /\ nbr[p].state # "below"
  BY DEF RecvLsAck, SetNbr
<1>2. Calm(nbr')
  BY <1>1, NbrIsCalm DEF Calm, NbrRecord
<1> QED BY <1>1, <1>2, ListStep DEF RecvLsAck, IInv, TypeOK, roles
-----------------------------------------------------------------------------
(* Steps that change the database, but no LSA of another router.           *)
LEMMA SameParts ==
    ASSUME IInv, Heap(lsdb'), SameOthers(lsdb, lsdb')
    PROVE  /\ WireInv'
           /\ \A h \in Lsa : h.key \in Others =>
                  Wanted(h)' = Wanted(h) /\ IsNew(h)' = IsNew(h)
<1>1. \A k \in Others : Found(lsdb', k) = Found(lsdb, k)
  BY FoundSame DEF SameOthers
<1> QED BY <1>1 DEF IInv, WireInv, Wanted, IsNew

LEMMA HeapWritesStep ==
    ASSUME IInv, HeapWrites
    PROVE  IInv'
<1>1. Heap(lsdb') /\ SameOthers(lsdb, lsdb')
  BY OverwriteSame DEF HeapWrites, IInv
<1>2. /\ nbr' = nbr /\ rpc' = rpc /\ cur' = cur /\ dr' = dr /\ bdr' = bdr
      /\ ls_sequence_cnt' = ls_sequence_cnt /\ ack' = NoLsa
  BY DEF HeapWrites, roles
<1>3. TypeOK' /\ BelowInv' /\ QueueInv'
  BY <1>1, <1>2 DEF IInv, TypeOK, Heap, BelowInv, QueueInv
<1>4. ControlInv'
  BY <1>1, <1>2, SameParts, FloodingAssumption DEF IInv, ControlInv
<1>5. RequestInv'
  <2> SUFFICES ASSUME NEW p \in Peer, nbr[p].state = "EXCHANGE",
                      NEW h \in nbr[p].request, h.key \in Others
               PROVE  Open(h)'
    BY <1>2 DEF RequestInv
  <2>1. h \in Lsa
    BY DEF IInv, TypeOK, NbrRecord
  <2>2. Open(h)
    BY DEF IInv, RequestInv
  <2> QED BY <1>1, <1>2, <2>1, <2>2, SameParts DEF Open
<1> QED BY <1>1, <1>3, <1>4, <1>5, SameParts DEF IInv

(* What update_lsas makes of the database, and what it queues. *)
LEMMA GeneratedOwn ==
    ASSUME NEW s \in 0 .. SeqMod - 1
    PROVE  /\ NextSeq(s) \in 0 .. SeqMod - 1
           /\ \A k \in {OwnRouter, OwnNetwork} :
                  /\ Generated(k, s) \in Lsa
                  /\ Generated(k, s).key \notin Others
<1>1. 0 \in 0 .. ChecksumMod - 1 /\ 1 \in 0 .. AgeMod - 1
  BY LsaHeaderAssumption, FloodingAssumption
<1>2. NextSeq(s) \in 0 .. SeqMod - 1
  BY LsaHeaderAssumption DEF NextSeq
<1> QED BY <1>1, <1>2, FloodingAssumption DEF Generated, Lsa, Others

LEMMA GenerationsFacts ==
    ASSUME NEW d, Heap(d), ls_sequence_cnt \in 0 .. SeqMod - 1,
           NEW u \in Generations(d)
    PROVE  /\ Heap(u.lsdb) /\ SameOthers(d, u.lsdb)
           /\ u.cnt \in 0 .. SeqMod - 1
           /\ \A h \in u.flooded : h \in Lsa /\ h.key \notin Others
<1> DEFINE s == ls_sequence_cnt
           t == NextSeq(s)
           One(e, i) == UNION {Originate(e, i, c) : c \in Unused(e)}
<1>1. s \in 0 .. SeqMod - 1 /\ t \in 0 .. SeqMod - 1
      /\ NextSeq(t) \in 0 .. SeqMod - 1
  BY GeneratedOwn
<1>2. ASSUME NEW e, Heap(e), NEW q \in 0 .. SeqMod - 1,
             NEW k \in {OwnRouter, OwnNetwork}, NEW r \in One(e, Generated(k, q))
      PROVE  /\ Heap(r.lsdb) /\ SameOthers(e, r.lsdb)
             /\ \A h \in r.flooded : h \in Lsa /\ h.key \notin Others
  <2>1. PICK c \in Unused(e) : r \in Originate(e, Generated(k, q), c)
    BY <1>2
  <2>2. Generated(k, q) \in Lsa /\ Generated(k, q).key \notin Others
    BY GeneratedOwn
  <2> HIDE DEF One
  <2>3. /\ Heap(r.lsdb) /\ SameOthers(e, r.lsdb)
        /\ r.flooded \subseteq {Generated(k, q)}
    BY <1>2, <2>1, <2>2, OriginateSame
  <2> QED BY <2>2, <2>3
<1>3. CASE dr # MyIp
  <2>1. PICK r \in One(d, Generated(OwnRouter, s)) :
            u = [cnt |-> t, lsdb |-> r.lsdb, flooded |-> r.flooded]
    BY <1>3 DEF Generations
  <2> HIDE DEF One, t, s
  <2> QED BY <1>1, <1>2, <2>1
<1>4. CASE dr = MyIp
  <2>1. PICK n \in One(d, Generated(OwnNetwork, s)) :
            \E m \in One(n.lsdb, Generated(OwnRouter, t)) :
                u = [cnt |-> NextSeq(t), lsdb |-> m.lsdb,
                     flooded |-> n.flooded \cup m.flooded]
    BY <1>4 DEF Generations
  <2>2. PICK m \in One(n.lsdb, Generated(OwnRouter, t)) :
            u = [cnt |-> NextSeq(t), lsdb |-> m.lsdb,
                 flooded |-> n.flooded \cup m.flooded]
    BY <2>1
  <2> HIDE DEF One, t, s
  <2>3. /\ Heap(n.lsdb) /\ SameOthers(d, n.lsdb)
        /\ \A h \in n.flooded : h \in Lsa /\ h.key \notin Others
    BY <1>1, <1>2
  <2>4. /\ Heap(m.lsdb) /\ SameOthers(n.lsdb, m.lsdb)
        /\ \A h \in m.flooded : h \in Lsa /\ h.key \notin Others
    BY <1>1, <1>2, <2>3
  <2> QED BY <1>1, <2>2, <2>3, <2>4, SameTransitive
<1> QED BY <1>3, <1>4

LEMMA ExchangeDoneStep ==
    ASSUME IInv, NEW p \in Peer, ExchangeDone(p)
    PROVE  IInv'
<1>1. PICK u \in Generations(lsdb) :
          /\ lsdb' = u.lsdb /\ ls_sequence_cnt' = u.cnt
          /\ nbr' = [q \in Peer |->
                 IF q = p \/ nbr[q].state = "FULL"
                 THEN [nbr[q] EXCEPT !.state = "FULL",
                                     !.retrans = @ \cup u.flooded]
                 ELSE nbr[q]]
  BY DEF ExchangeDone
<1>2. /\ rpc = "loop" /\ rpc' = rpc /\ cur' = cur /\ dr' = dr /\ bdr' = bdr
      /\ ack' = NoLsa
  BY DEF ExchangeDone, roles
<1>3. /\ Heap(lsdb') /\ SameOthers(lsdb, lsdb')
      /\ ls_sequence_cnt' \in 0 .. SeqMod - 1
      /\ \A h \in u.flooded : h \in Lsa /\ h.key \notin Others
  BY <1>1, GenerationsFacts DEF IInv, TypeOK
<1>4. TypeOK' /\ BelowInv'
  <2>1. nbr' \in [Peer -> NbrRecord]
    BY <1>1, <1>3 DEF IInv, TypeOK, NbrRecord
  <2>2. TypeOK'
    BY <1>1, <1>2, <1>3, <2>1 DEF IInv, TypeOK, Heap
  <2>3. BelowInv'
    BY <1>1, <1>2, <1>3 DEF IInv, TypeOK, NbrRecord, BelowInv
  <2> QED BY <2>2, <2>3
<1>5. QueueInv'
  BY <1>1, <1>2, <1>3 DEF IInv, TypeOK, NbrRecord, QueueInv
<1>6. RequestInv'
  <2> SUFFICES ASSUME NEW q \in Peer, nbr'[q].state = "EXCHANGE",
                      NEW h \in nbr'[q].request, h.key \in Others
               PROVE  Open(h)'
    BY DEF RequestInv
  <2>1. nbr'[q] = nbr[q]
    BY <1>1 DEF IInv, TypeOK, NbrRecord
  <2>2. h \in Lsa /\ Open(h)
    BY <2>1 DEF IInv, RequestInv, TypeOK, NbrRecord
  <2> QED BY <1>2, <1>3, <2>2, SameParts DEF Open
<1>7. ControlInv'
  BY <1>2 DEF IInv, ControlInv
<1> QED BY <1>3, <1>4, <1>5, <1>6, <1>7, SameParts DEF IInv
-----------------------------------------------------------------------------
(* LSU packets. *)
LEMMA InstallParts ==
    ASSUME IInv, NEW i \in WireLsa, NEW c \in Unused(lsdb),
           lsdb' = Install(lsdb, i, c)
    PROVE  /\ Heap(lsdb') /\ WireInv'
           /\ \A k \in Others \ {i.key} : Found(lsdb', k) = Found(lsdb, k)
           /\ i.key \in Others => Found(lsdb', i.key) = {i}
<1>1. i \in Lsa /\ Heap(lsdb)
  BY FloodingAssumption DEF IInv
<1>2. /\ Heap(lsdb')
      /\ \A k \in Others \ {i.key} : SameOf(lsdb, lsdb', k)
      /\ i.key \in Others =>
             Matching(lsdb', i.key) = {c} /\ lsdb'.mem[c] = i
  BY <1>1, InstallFacts
<1>3. \A k \in Others \ {i.key} : Found(lsdb', k) = Found(lsdb, k)
  BY <1>2, FoundSame
<1>4. i.key \in Others => Found(lsdb', i.key) = {i}
  BY <1>2 DEF Found
<1>5. WireInv'
  BY <1>3, <1>4 DEF WireInv, IInv
<1> QED BY <1>2, <1>3, <1>4, <1>5

LEMMA RecvNewLsaStep ==
    ASSUME IInv, NEW p \in Peer, RecvNewLsa(p)
    PROVE  IInv'
<1>1. PICK i \in WireLsa :
          /\ IsNew(i)
          /\ nbr' = [q \in Peer |->
                 [nbr[q] EXCEPT !.request = @ \ Answered(q, i, p),
                                !.retrans = IF Queues(q, i, p)
                                            THEN @ \cup {i} ELSE @]]
          /\ cur' = [lsa |-> i, to_ack |-> ToAck(i, p)]
  BY DEF RecvNewLsa
<1>2. /\ rpc = "loop" /\ rpc' = "install" /\ lsdb' = lsdb /\ ack' = NoLsa
      /\ dr' = dr /\ bdr' = bdr /\ ls_sequence_cnt' = ls_sequence_cnt
  BY DEF RecvNewLsa, roles
<1>3. i \in Lsa /\ i # NoLsa /\ i.key \in Key
  BY FloodingAssumption DEF Lsa
<1>4. \A q \in Peer :
          /\ nbr'[q].state = nbr[q].state
          /\ nbr'[q].request = nbr[q].request \ Answered(q, i, p)
          /\ nbr'[q].retrans \subseteq nbr[q].retrans \cup {i}
          /\ nbr[q].state = "below" => nbr'[q].retrans = nbr[q].retrans
          /\ nbr'[q] \in NbrRecord
  BY <1>1, <1>3 DEF IInv, TypeOK, NbrRecord, Queues
<1>5. TypeOK'
  <2>1. nbr' \in [Peer -> NbrRecord]
    BY <1>1, <1>4
  <2>2. cur' \in Received
    BY <1>1, <1>3 DEF Received, ToAck, FloodedBack
  <2> QED BY <1>2, <2>1, <2>2 DEF IInv, TypeOK
<1>6. BelowInv'
  <2> SUFFICES ASSUME NEW q \in Peer, nbr'[q].state = "below"
               PROVE  nbr'[q] = Below
    BY DEF BelowInv
  <2>1. nbr[q] = Below
    BY <1>4 DEF IInv, BelowInv
  <2>2. /\ nbr'[q].state = "below" /\ nbr'[q].request = {}
        /\ nbr'[q].retrans = {}
    BY <1>4, <2>1 DEF Below
  <2>3. nbr'[q] \in NbrRecord
    BY <1>4
  <2> QED BY <2>2, <2>3 DEF NbrRecord, Below
<1>7. ControlInv' /\ WireInv' /\ Heap(lsdb)'
  BY <1>1, <1>2, <1>3 DEF IInv, ControlInv, WireInv, Nothing, IsNew
<1>8. QueueInv'
  BY <1>1, <1>2, <1>4 DEF IInv, QueueInv
<1>9. RequestInv'
  <2> SUFFICES ASSUME NEW q \in Peer, nbr'[q].state = "EXCHANGE",
                      NEW h \in nbr'[q].request, h.key \in Others
               PROVE  Open(h)'
    BY DEF RequestInv
  <2>1. /\ nbr[q].state = "EXCHANGE" /\ h \in nbr[q].request
        /\ h \notin Answered(q, i, p) /\ h \in Lsa
    BY <1>4 DEF IInv, TypeOK, NbrRecord
  <2>2. Wanted(h)
    BY <2>1 DEF IInv, RequestInv, Open
  <2>3. ASSUME h.key = i.key PROVE Cmp(h, i) < 0
    <3>1. IsOf(h, i.key)
      BY <1>3, <2>1, <2>3, IsOfKey
    <3>2. ~(Cmp(i, h) <= 0)
      BY <2>1, <3>1 DEF Answered, RequestsOf
    <3> QED BY <1>3, <2>1, <3>2, CmpFlip
  <2> QED BY <1>1, <1>2, <2>2, <2>3 DEF Open, Wanted
<1> QED BY <1>5, <1>6, <1>7, <1>8, <1>9 DEF IInv

LEMMA UnqueueFacts ==
    ASSUME NEW n \in NbrRecord, NEW k \in Key
    PROVE  /\ Unqueue(n, k) \in NbrRecord
           /\ Unqueue(n, k).state = n.state
           /\ Unqueue(n, k).request = n.request
           /\ Unqueue(n, k).retrans \subseteq n.retrans
           /\ \A h \in Unqueue(n, k).retrans : h.key # k
           /\ n = Below => Unqueue(n, k) = Below
<1>1. \A h \in n.retrans : h \in Lsa /\ (IsOf(h, k) <=> h.key = k)
  BY IsOfKey DEF NbrRecord
<1>2. n = Below => n.retrans = {}
  BY DEF Below
<1> QED BY <1>1, <1>2 DEF Unqueue, NbrRecord, Below

LEMMA InstallLsaStep ==
    ASSUME IInv, InstallLsa
    PROVE  IInv'
<1> DEFINE i == cur.lsa
<1>1. PICK c \in Unused(lsdb) : lsdb' = Install(lsdb, i, c)
  BY DEF InstallLsa
<1>2. /\ rpc = "install" /\ rpc' = "loop" /\ cur' = Nothing
      /\ dr' = dr /\ bdr' = bdr /\ ls_sequence_cnt' = ls_sequence_cnt
      /\ nbr' = [q \in Peer |-> Unqueue(nbr[q], i.key)]
      /\ ack' \in {i, NoLsa}
  BY DEF InstallLsa, roles
<1>3. i \in WireLsa /\ i \in Lsa /\ i.key \in Key
  BY <1>2, FloodingAssumption DEF IInv, ControlInv, Lsa
<1> HIDE DEF i
<1>4. /\ Heap(lsdb') /\ WireInv'
      /\ \A k \in Others \ {i.key} : Found(lsdb', k) = Found(lsdb, k)
      /\ i.key \in Others => Found(lsdb', i.key) = {i}
  BY <1>1, <1>3, InstallParts
<1>5. \A q \in Peer :
          /\ nbr[q] \in NbrRecord
          /\ nbr'[q] \in NbrRecord /\ nbr'[q].state = nbr[q].state
          /\ nbr'[q].request = nbr[q].request
          /\ nbr'[q].retrans \subseteq nbr[q].retrans
          /\ \A h \in nbr'[q].retrans : h.key # i.key
          /\ nbr[q] = Below => nbr'[q] = Below
  BY <1>2, <1>3, UnqueueFacts DEF IInv, TypeOK
<1>6. TypeOK' /\ BelowInv' /\ ControlInv'
  <2>1. nbr' \in [Peer -> NbrRecord]
    BY <1>2, <1>5
  <2> QED BY <1>2, <1>3, <1>4, <1>5, <2>1
          DEF IInv, TypeOK, Heap, BelowInv, ControlInv
<1>7. QueueInv'
  BY <1>2, <1>5 DEF IInv, QueueInv, i
<1>8. RequestInv'
  <2> SUFFICES ASSUME NEW q \in Peer, nbr'[q].state = "EXCHANGE",
                      NEW h \in nbr'[q].request, h.key \in Others
               PROVE  Open(h)'
    BY DEF RequestInv
  <2>1. Open(h)
    BY <1>5 DEF IInv, RequestInv
  <2>2. \A j \in Found(lsdb', h.key) : Cmp(h, j) < 0
    BY <1>2, <1>4, <2>1 DEF Open, Wanted, i
  <2> QED BY <1>2, <2>2 DEF Open, Wanted
<1> QED BY <1>4, <1>6, <1>7, <1>8 DEF IInv
(* A network LSA that is not newer than the copy it replaces is still      *)
(* older than what is requested of any neighbour.                          *)
LEMMA RecvOldLsaStep ==
    ASSUME IInv, NEW p \in Peer, RecvOldLsa(p)
    PROVE  IInv'
<1>0. PICK i \in WireLsa : \E j \in Found(lsdb, i.key) :
          /\ Cmp(i, j) >= 0
          /\ \/ Hang(p) /\ lsdb' = lsdb
             \/ /\ nbr' = [nbr EXCEPT ![p] =
                      IF Cmp(i, j) = 0 THEN Unqueue(nbr[p], i.key) ELSE nbr[p]]
                /\ \/ \E c \in Unused(lsdb) : lsdb' = Install(lsdb, i, c)
                   \/ lsdb' = lsdb
                /\ rpc' = rpc
  BY DEF RecvOldLsa, SetNbr
<1>1. PICK j \in Found(lsdb, i.key) :
          /\ Cmp(i, j) >= 0
          /\ \/ Hang(p) /\ lsdb' = lsdb
             \/ /\ nbr' = [nbr EXCEPT ![p] =
                      IF Cmp(i, j) = 0 THEN Unqueue(nbr[p], i.key) ELSE nbr[p]]
                /\ \/ \E c \in Unused(lsdb) : lsdb' = Install(lsdb, i, c)
                   \/ lsdb' = lsdb
                /\ rpc' = rpc
  BY <1>0
<1>2. /\ rpc = "loop" /\ cur' = cur /\ ack' = NoLsa
      /\ dr' = dr /\ bdr' = bdr /\ ls_sequence_cnt' = ls_sequence_cnt
  BY DEF RecvOldLsa, roles
<1>3. i \in Lsa /\ i.age = 0 /\ i.key \in Key
  BY FloodingAssumption DEF Lsa
<1>4. CASE Hang(p) /\ lsdb' = lsdb
  BY <1>2, <1>4, HangStep
<1>5. ASSUME nbr' = [nbr EXCEPT ![p] =
                 IF Cmp(i, j) = 0 THEN Unqueue(nbr[p], i.key) ELSE nbr[p]]
      PROVE  /\ Calm(nbr')
             /\ \A q \in Peer : /\ nbr'[q].state = nbr[q].state
                                /\ nbr'[q].request = nbr[q].request
                                /\ nbr'[q].retrans \subseteq nbr[q].retrans
  <2>1. nbr[p] \in NbrRecord
    BY DEF IInv, TypeOK
  <2> DEFINE n == IF Cmp(i, j) = 0 THEN Unqueue(nbr[p], i.key) ELSE nbr[p]
  <2>2. /\ n \in NbrRecord /\ n.state = nbr[p].state
        /\ n.request = nbr[p].request /\ n.retrans \subseteq nbr[p].retrans
        /\ nbr[p] = Below => n = Below
    BY <1>3, <2>1, UnqueueFacts
  <2> HIDE DEF n
  <2>3. nbr' = [nbr EXCEPT ![p] = n]
    BY <1>5 DEF n
  <2> QED BY <1>2, <2>2, <2>3, NbrIsCalm DEF Calm
<1>6. ASSUME nbr' = [nbr EXCEPT ![p] =
                 IF Cmp(i, j) = 0 THEN Unqueue(nbr[p], i.key) ELSE nbr[p]],
             lsdb' = lsdb, rpc' = rpc
      PROVE  IInv'
  BY <1>2, <1>5, <1>6, ListStep DEF IInv, TypeOK
<1>7. ASSUME nbr' = [nbr EXCEPT ![p] =
                 IF Cmp(i, j) = 0 THEN Unqueue(nbr[p], i.key) ELSE nbr[p]],
             NEW c \in Unused(lsdb), lsdb' = Install(lsdb, i, c), rpc' = rpc
      PROVE  IInv'
  <2>1. /\ Heap(lsdb') /\ WireInv'
        /\ \A k \in Others \ {i.key} : Found(lsdb', k) = Found(lsdb, k)
        /\ i.key \in Others => Found(lsdb', i.key) = {i}
    BY <1>7, InstallParts
  <2>2. /\ Calm(nbr')
        /\ \A q \in Peer : /\ nbr'[q].state = nbr[q].state
                           /\ nbr'[q].request = nbr[q].request
                           /\ nbr'[q].retrans \subseteq nbr[q].retrans
    BY <1>5, <1>7
  <2>3. TypeOK' /\ ControlInv'
    BY <1>2, <1>7, <2>1, <2>2 DEF IInv, TypeOK, ControlInv, Calm, Heap
  <2>4. BelowInv' /\ QueueInv'
    BY <1>2, <1>7, <2>2 DEF IInv, Calm, BelowInv, QueueInv
  <2>5. RequestInv'
    <3> SUFFICES ASSUME NEW q \in Peer, nbr'[q].state = "EXCHANGE",
                        NEW h \in nbr'[q].request, h.key \in Others
                 PROVE  Open(h)'
      BY DEF RequestInv
    <3>1. Wanted(h) /\ h \in Lsa
      BY <2>2 DEF IInv, RequestInv, Open, TypeOK, NbrRecord
    <3>2. ASSUME h.key = i.key PROVE Cmp(h, i) < 0
      <4>1. j \in WireLsa /\ j \in Lsa /\ j.age = 0
        BY <3>2, FloodingAssumption DEF IInv, WireInv
      <4>2. Cmp(h, j) < 0
        BY <3>1, <3>2 DEF Wanted
      <4> QED BY <1>1, <1>3, <3>1, <4>1, <4>2, CmpNotNewer
    <3>3. \A l \in Found(lsdb', h.key) : Cmp(h, l) < 0
      BY <2>1, <3>1, <3>2 DEF Wanted
    <3> QED BY <1>2, <1>7, <3>3 DEF Open, Wanted
  <2> QED BY <2>1, <2>3, <2>4, <2>5 DEF IInv
<1> QED BY <1>1, <1>4, <1>6, <1>7
-----------------------------------------------------------------------------
LEMMA CrashStep ==
    ASSUME Forgotten, rpc' \in {"loop", "crashed"}
    PROVE  IInv'
<1>1. TypeOK'
  BY FloodingAssumption
     DEF Forgotten, TypeOK, EmptyDb, Database, NbrRecord, Below, Ip
<1>2. lsdb'.freed = {} /\ \A k \in Key : Matching(lsdb', k) = {}
  <2>1. \A k \in Key : lsdb'.list[k.type] = {}
    BY LsdbAssumption DEF Forgotten, EmptyDb
  <2> QED BY <2>1 DEF Forgotten, EmptyDb, Matching
<1>3. Heap(lsdb') /\ WireInv'
  BY <1>1, <1>2 DEF Heap, TypeOK, Others, WireInv, Found
<1>4. ControlInv' /\ BelowInv' /\ QueueInv' /\ RequestInv'
  BY DEF Forgotten, ControlInv, BelowInv, QueueInv, RequestInv, Below
<1> QED BY <1>1, <1>3, <1>4 DEF IInv

LEMMA StutterStep ==
    ASSUME IInv, UNCHANGED vars
    PROVE  IInv'
BY DEF IInv, TypeOK, Heap, ControlInv, WireInv, BelowInv, QueueInv, RequestInv,
       vars, roles, IsNew, Open, Wanted

(* One case per action. *)
LEMMA NextIInv == IInv /\ [Next]_vars => IInv'
<1> SUFFICES ASSUME IInv, [Next]_vars PROVE IInv'
  OBVIOUS
<1>1. CASE RunElection
  BY <1>1, NbrIsCalm, ElectionStep DEF RunElection
<1>2. ASSUME NEW p \in Peer, InactivityTimer(p) PROVE IInv'
  <2> DEFINE ns == [nbr EXCEPT ![p] = Below]
  <2>1. rpc = "loop" /\ Calm(ns)
    BY <1>2, NbrIsCalm, LoweredIsCalm DEF InactivityTimer
  <2>2. CASE Election(ns)
    BY <1>2, <2>1, <2>2, ElectionStep DEF InactivityTimer
  <2>3. CASE nbr' = ns /\ UNCHANGED <<roles, rpc>>
    BY <1>2, <2>1, <2>3, ListStep DEF InactivityTimer, IInv, TypeOK, roles
  <2> QED BY <1>2, <2>2, <2>3 DEF InactivityTimer
<1>3. ASSUME NEW p \in Peer, AdjacencyError(p) PROVE IInv'
  BY <1>3, HangStep DEF AdjacencyError, roles
<1>4. ASSUME NEW p \in Peer, RecvBadLsr(p) PROVE IInv'
  BY <1>4, HangStep DEF RecvBadLsr, roles
<1>5. ASSUME NEW p \in Peer, RetransCrashes(p) PROVE IInv'
  BY <1>5, CrashStep DEF RetransCrashes
<1>6. CASE Restart
  BY <1>6, CrashStep DEF Restart
<1> QED BY <1>1, <1>2, <1>3, <1>4, <1>5, <1>6, RequestStep, ExchangeDoneStep,
           RecvNewLsaStep, InstallLsaStep, RecvOldLsaStep, LsAckStep,
           HeapWritesStep, StutterStep DEF Next

THEOREM Invariance == Spec => []IInv
BY InitIInv, NextIInv, PTL DEF Spec

(* Type correctness, including the wrap of the sequence number.            *)
THEOREM TypeCorrect == Spec => []TypeOK
<1>1. IInv => TypeOK
  BY DEF IInv
<1> QED BY <1>1, Invariance, PTL

(* Deleted memory only ever stands for the router's own LSAs.              *)
THEOREM DeletedSafe == Spec => []DeletedAreOwn
<1>1. IInv => DeletedAreOwn
  BY DEF IInv, Heap, DeletedAreOwn
<1> QED BY <1>1, Invariance, PTL

(* The database has one instance of another router's LSA.                  *)
THEOREM OneCopyEach == Spec => []OneCopy
<1>1. IInv => OneCopy
  BY DEF IInv, Heap, OneCopy
<1> QED BY <1>1, Invariance, PTL

(* No LSA of another router is ever waited for to be acknowledged.         *)
THEOREM OwnAwaited == Spec => []QueuedAreOwn
<1>1. IInv => QueuedAreOwn
  BY DEF IInv, ControlInv, QueueInv, QueuedAreOwn
<1> QED BY <1>1, Invariance, PTL

(* What is still requested is newer than what the database has, and the    *)
(* LSU that answers is no error (ospf.cpp:796) unless the request was for  *)
(* an LSA at MAX_AGE.                                                      *)
THEOREM RequestsStayOpen == Spec => []RequestsAreOpen
<1>1. IInv => RequestsAreOpen
  <2> SUFFICES ASSUME IInv, cur = Nothing, NEW p \in Peer,
                      nbr[p].state = "EXCHANGE",
                      NEW h \in nbr[p].request, h.key \in Others
               PROVE  Wanted(h) /\ (h.age # MAX_AGE => IsNew(Ntoh(h)))
    BY DEF RequestsAreOpen
  <2>1. h \in Lsa /\ lsdb \in Database /\ h.key \in Key
    BY DEF IInv, TypeOK, NbrRecord, Others
  <2>2. Wanted(h)
    BY DEF IInv, RequestInv, Open
  <2>3. ASSUME h.age # MAX_AGE, NEW i \in Found(lsdb, h.key)
        PROVE  Cmp(Ntoh(h), i) < 0
    <3>1. i \in Lsa /\ Cmp(h, i) < 0
      BY <2>1, <2>2, FoundLsa DEF Wanted
    <3>2. i.age = 0
      BY FloodingAssumption DEF IInv, WireInv
    <3> QED BY <2>1, <2>3, <3>1, <3>2, AnswerIsNewer
  <2>4. Ntoh(h).key = h.key
    BY <2>1 DEF Ntoh, Lsa
  <2> QED BY <2>2, <2>3, <2>4 DEF IsNew
<1> QED BY <1>1, Invariance, PTL
-----------------------------------------------------------------------------
(* The refinement. *)
Inst(db, k) == Copy(db, Matching(db, k))

LEMMA StoredIs == IInv => Stored = [k \in Others |-> Inst(lsdb, k)]
<1> SUFFICES ASSUME IInv, NEW k \in Others PROVE Holding(k) = Matching(lsdb, k)
  BY DEF Stored, Inst
<1>1. lsdb \in Database /\ k \in Key
  BY DEF IInv, TypeOK, Others
<1>2. k.type \in Type /\ lsdb.list[k.type] \subseteq Chunk
      /\ \A c \in Chunk : lsdb.mem[c] \in Lsa \cup {Junk}
  BY <1>1, LsdbAssumption DEF Database
<1>3. \A c \in Chunk : c \in Holding(k) <=> c \in Matching(lsdb, k)
  BY <1>1, <1>2, MatchingIs, JunkAssumption DEF Holding
<1> QED BY <1>1, <1>2, <1>3, MatchingIs DEF Holding

LEMMA StoredIsNext == IInv' => Stored' = [k \in Others |-> Inst(lsdb', k)]
<1>1. IInv => Stored = [k \in Others |-> Inst(lsdb, k)]
  BY StoredIs
<1>2. (IInv => Stored = [k \in Others |-> Inst(lsdb, k)])'
  BY <1>1, PTL
<1> QED BY <1>2

LEMMA InstSame ==
    ASSUME NEW d, NEW e, NEW k, SameOf(d, e, k)
    PROVE  Inst(e, k) = Inst(d, k)
<1>1. CASE Matching(d, k) = {}
  BY <1>1 DEF SameOf, Inst, Copy
<1>2. CASE Matching(d, k) # {}
  <2>1. (CHOOSE c \in Matching(d, k) : TRUE) \in Matching(d, k)
    BY <1>2
  <2> QED BY <1>2, <2>1 DEF SameOf, Inst, Copy
<1> QED BY <1>1, <1>2

(* A step that acknowledges nothing and keeps the LSAs of others.          *)
LEMMA QuietStep ==
    ASSUME IInv, IInv', SameOthers(lsdb, lsdb'), ack' = NoLsa
    PROVE  Store!Quiet
<1>1. \A k \in Others : Inst(lsdb', k) = Inst(lsdb, k)
  BY InstSame DEF SameOthers
<1>2. Stored' = Stored
  BY <1>1, StoredIs, StoredIsNext
<1> QED BY <1>2 DEF Store!Quiet, Acked

LEMMA KeptStep ==
    ASSUME IInv, IInv', lsdb' = lsdb, ack' = NoLsa
    PROVE  Store!Next
<1>1. SameOthers(lsdb, lsdb')
  BY DEF SameOthers, SameOf
<1> QED BY <1>1, QuietStep DEF Store!Next

LEMMA ForgottenStep ==
    ASSUME IInv', Forgotten
    PROVE  Store!Next
<1>1. \A k \in Others : Inst(lsdb', k) = NoLsa
  BY LsdbAssumption DEF Forgotten, EmptyDb, Matching, Inst, Copy, Others
<1>2. Stored' = [k \in Others |-> NoLsa] /\ Acked' = NoLsa
  BY <1>1, StoredIsNext DEF Forgotten, Acked
<1> QED BY <1>2 DEF Store!Next, Store!Crash, Store!Init

(* An LSA is installed: what becomes of the abstract store. *)
LEMMA StoredInstalled ==
    ASSUME IInv, IInv', NEW i \in WireLsa, NEW c \in Unused(lsdb),
           lsdb' = Install(lsdb, i, c)
    PROVE  /\ i.key \in Others => Stored' = [Stored EXCEPT ![i.key] = i]
           /\ i.key \notin Others => Stored' = Stored
<1>1. i \in Lsa /\ Heap(lsdb)
  BY FloodingAssumption DEF IInv
<1>2. /\ \A k \in Others \ {i.key} : SameOf(lsdb, lsdb', k)
      /\ i.key \in Others =>
             Matching(lsdb', i.key) = {c} /\ lsdb'.mem[c] = i
  BY <1>1, InstallFacts
<1>3. \A k \in Others \ {i.key} : Inst(lsdb', k) = Inst(lsdb, k)
  BY <1>2, InstSame
<1>4. i.key \in Others => Inst(lsdb', i.key) = i
  BY <1>2 DEF Inst, Copy
<1>5. i.key \in Others => Stored' = [Stored EXCEPT ![i.key] = i]
  BY <1>3, <1>4, StoredIs, StoredIsNext
<1>6. i.key \notin Others => Stored' = Stored
  BY <1>3, StoredIs, StoredIsNext
<1> QED BY <1>5, <1>6

LEMMA StoredFound ==
    ASSUME IInv, NEW k \in Others
    PROVE  /\ Found(lsdb, k) = {} => Stored[k] = NoLsa
           /\ \A j \in Found(lsdb, k) : Stored[k] = j /\ j # NoLsa
<1>1. Stored[k] = Inst(lsdb, k)
  BY StoredIs
<1>2. Found(lsdb, k) = {} => Matching(lsdb, k) = {}
  BY DEF Found
<1>3. ASSUME NEW j \in Found(lsdb, k) PROVE Inst(lsdb, k) = j /\ j # NoLsa
  <2>1. PICK c \in Matching(lsdb, k) : j = lsdb.mem[c]
    BY <1>3 DEF Found
  <2>2. \A d \in Matching(lsdb, k) : d = c
    BY DEF IInv, Heap
  <2>3. (CHOOSE d \in Matching(lsdb, k) : TRUE) = c
    BY <2>2
  <2>4. j \in WireLsa
    BY <1>3 DEF IInv, WireInv
  <2> QED BY <2>1, <2>3, <2>4, FloodingAssumption DEF Inst, Copy
<1> QED BY <1>1, <1>2, <1>3 DEF Inst, Copy

LEMMA InstallReceives ==
    ASSUME IInv, IInv', InstallLsa
    PROVE  Store!Next
<1> DEFINE i == cur.lsa
<1>1. PICK c \in Unused(lsdb) : lsdb' = Install(lsdb, i, c)
  BY DEF InstallLsa
<1>2. /\ rpc = "install" /\ ack' \in {i, NoLsa}
      /\ i \in WireLsa /\ (i.key \in Others => IsNew(i))
  BY DEF InstallLsa, IInv, ControlInv
<1>3. i # NoLsa
  BY <1>2, FloodingAssumption
<1> HIDE DEF i
<1>4. CASE i.key \in Others
  <2>1. Stored' = [Stored EXCEPT ![i.key] = i]
    BY <1>1, <1>2, <1>4, StoredInstalled
  <2>2. Stored[i.key] # NoLsa => Newer(i, Stored[i.key])
    BY <1>2, <1>4, StoredFound DEF IsNew, Newer
  <2>3. Acked' \in {i, NoLsa}
    BY <1>2 DEF Acked
  <2>4. Store!Receive(i)
    BY <2>1, <2>2, <2>3 DEF Store!Receive, Newer, Store!Newer, Cmp, Store!Cmp,
                           CmpAge, Store!CmpAge, Abs, Store!Abs
  <2> QED BY <1>2, <1>4, <2>4 DEF Store!Next
<1>5. CASE i.key \notin Others
  <2>1. Stored' = Stored /\ Acked' = NoLsa
    BY <1>1, <1>2, <1>3, <1>5, StoredInstalled DEF Acked
  <2> QED BY <2>1 DEF Store!Next, Store!Quiet
<1> QED BY <1>4, <1>5

LEMMA OldReplaces ==
    ASSUME IInv, IInv', NEW p \in Peer, RecvOldLsa(p)
    PROVE  Store!Next
<1>1. PICK i \in WireLsa :
          /\ Found(lsdb, i.key) # {}
          /\ \/ lsdb' = lsdb
             \/ /\ i.key.type = "network"
                /\ \E c \in Unused(lsdb) : lsdb' = Install(lsdb, i, c)
  BY DEF RecvOldLsa
<1>2. ack' = NoLsa
  BY DEF RecvOldLsa
<1>3. CASE lsdb' = lsdb
  BY <1>2, <1>3, KeptStep
<1>4. ASSUME i.key.type = "network", i.key \in Others,
             NEW c \in Unused(lsdb), lsdb' = Install(lsdb, i, c)
      PROVE  Store!Next
  <2>1. Stored' = [Stored EXCEPT ![i.key] = i]
    BY <1>4, StoredInstalled
  <2>2. Stored[i.key] # NoLsa
    BY <1>1, <1>4, StoredFound
  <2>3. Store!Replace(i)
    BY <1>2, <1>4, <2>1, <2>2 DEF Store!Replace, Acked
  <2> QED BY <1>4, <2>3 DEF Store!Next
<1>5. ASSUME i.key \notin Others,
             NEW c \in Unused(lsdb), lsdb' = Install(lsdb, i, c)
      PROVE  Store!Next
  <2>1. Stored' = Stored
    BY <1>5, StoredInstalled
  <2> QED BY <1>2, <2>1 DEF Store!Next, Store!Quiet, Acked
<1> QED BY <1>1, <1>3, <1>4, <1>5

LEMMA NextRefines ==
    IInv /\ IInv' /\ [Next]_vars => [Store!Next]_<<Stored, Acked>>
<1> SUFFICES ASSUME IInv, IInv', [Next]_vars
             PROVE  [Store!Next]_<<Stored, Acked>>
  OBVIOUS
<1>1. CASE RunElection
  BY <1>1, KeptStep DEF RunElection
<1>2. ASSUME NEW p \in Peer,
             \/ InactivityTimer(p) \/ AdjacencyError(p) \/ NegotiationDone(p)
             \/ RecvDDHeader(p) \/ RecvNewLsa(p) \/ RecvLsAck(p)
             \/ RecvBadLsr(p)
      PROVE  Store!Next
  <2>1. lsdb' = lsdb /\ ack' = NoLsa
    BY <1>2 DEF InactivityTimer, AdjacencyError, NegotiationDone, RecvDDHeader,
                RecvNewLsa, RecvLsAck, RecvBadLsr
  <2> QED BY <2>1, KeptStep
<1>3. ASSUME NEW p \in Peer, ExchangeDone(p) PROVE Store!Next
  <2>1. PICK u \in Generations(lsdb) : lsdb' = u.lsdb
    BY <1>3 DEF ExchangeDone
  <2>2. SameOthers(lsdb, lsdb')
    BY <2>1, GenerationsFacts DEF IInv, TypeOK
  <2>3. ack' = NoLsa
    BY <1>3 DEF ExchangeDone
  <2> QED BY <2>2, <2>3, QuietStep DEF Store!Next
<1>4. CASE HeapWrites
  <2>1. SameOthers(lsdb, lsdb') /\ ack' = NoLsa
    BY <1>4, OverwriteSame DEF HeapWrites, IInv
  <2> QED BY <2>1, QuietStep DEF Store!Next
<1>5. ASSUME Restart \/ \E p \in Peer : RetransCrashes(p) PROVE Store!Next
  BY <1>5, ForgottenStep DEF Restart, RetransCrashes
<1>6. CASE UNCHANGED vars
  <2>1. Stored' = Stored /\ Acked' = Acked
    BY <1>6, StoredIs, StoredIsNext DEF vars, Acked
  <2> QED BY <2>1
<1> QED BY <1>1, <1>2, <1>3, <1>4, <1>5, <1>6, InstallReceives, OldReplaces
        DEF Next

(* Of another router's LSA the database has one instance, complete, which  *)
(* only a newer one replaces (network LSAs aside), and what is             *)
(* acknowledged has been installed.                                        *)
THEOREM Refinement == Spec => DatabaseImplementsStore
<1>1. Init => Store!Init
  <2> SUFFICES ASSUME Init PROVE Store!Init
    OBVIOUS
  <2>1. IInv
    BY InitIInv
  <2>2. \A k \in Others : Inst(lsdb, k) = NoLsa
    BY LsdbAssumption DEF Init, EmptyDb, Matching, Inst, Copy, Others
  <2> QED BY <2>1, <2>2, StoredIs DEF Init, Store!Init, Acked
<1>2. IInv /\ IInv' /\ [Next]_vars => [Store!Next]_<<Stored, Acked>>
  BY NextRefines
<1> QED BY <1>1, <1>2, Invariance, PTL
        DEF Spec, DatabaseImplementsStore, Store!Spec
-----------------------------------------------------------------------------
(* What the retransmission lists hold.  Round counts the LSAs that were    *)
(* generated before the one with sequence number s, if the counter has not *)
(* come round to where it began.                                           *)
Round(s) == (s - InitialSeq) % SeqMod

Busy(h) == rpc = "install" /\ h.key = cur.lsa.key

(* An LSA that is not being installed was generated by this router, ...    *)
Sent(h) ==
    \E k \in {OwnRouter, OwnNetwork}, s \in 0 .. SeqMod - 1 :
        h = Generated(k, s) /\ Round(s) < Originated

SentInv == \A p \in Peer : \A h \in nbr[p].retrans : Busy(h) \/ Sent(h)

(* ... and nothing older has been found since.                             *)
Current(h) == \A i \in Found(lsdb, h.key) : Cmp(i, h) <= 0

CurrentInv ==
    Originated <= SeqMod - InitialSeq =>
        \A p \in Peer : \A h \in nbr[p].retrans :
            h.key.type = "router" => Busy(h) \/ Current(h)

Queued == SentInv /\ CurrentInv

LEMMA RoundIs ==
    ASSUME NEW s \in 0 .. SeqMod - 1
    PROVE  /\ Round(s) \in 0 .. SeqMod - 1
           /\ Round(s) = IF s >= InitialSeq THEN s - InitialSeq
                         ELSE s - InitialSeq + SeqMod
           /\ Round(s) < SeqMod - InitialSeq => s = InitialSeq + Round(s)
<1>1. Round(s) = IF s >= InitialSeq THEN s - InitialSeq ELSE s - InitialSeq + SeqMod
  BY FloodingAssumption, LsaHeaderAssumption DEF Round
<1> QED BY <1>1, FloodingAssumption, LsaHeaderAssumption

LEMMA RoundNext ==
    ASSUME NEW s \in 0 .. SeqMod - 1, Round(s) < SeqMod - 1
    PROVE  NextSeq(s) \in 0 .. SeqMod - 1 /\ Round(NextSeq(s)) = Round(s) + 1
<1>1. NextSeq(s) = IF s = SeqMod - 1 THEN 0 ELSE s + 1
  BY FloodingAssumption, LsaHeaderAssumption DEF NextSeq
<1>2. NextSeq(s) \in 0 .. SeqMod - 1
  BY GeneratedOwn
<1> QED BY <1>1, <1>2, RoundIs, FloodingAssumption, LsaHeaderAssumption

LEMMA CmpSelf ==
    ASSUME NEW i \in Lsa
    PROVE  Cmp(i, i) = 0
BY LsaHeaderAssumption DEF Cmp, CmpAge, Abs, Lsa

LEMMA InitQueued == Init => Queued
BY DEF Init, Below, Queued, SentInv, CurrentInv

(* A step that queues nothing but what is being installed, and makes       *)
(* nothing that is queued be found where it was not.                       *)
LEMMA QueuedStep ==
    ASSUME IInv, Queued, ls_sequence_cnt' = ls_sequence_cnt,
           \A p \in Peer : \A h \in nbr'[p].retrans :
               \/ Busy(h)'
               \/ /\ h \in nbr[p].retrans /\ ~Busy(h)
                  /\ \/ h.key.type # "router"
                     \/ Found(lsdb', h.key) \subseteq Found(lsdb, h.key)
    PROVE  Queued'
<1>1. Originated' = Originated
  BY DEF Originated
<1>2. \A h : Sent(h)' <=> Sent(h)
  BY <1>1 DEF Sent
<1>3. SentInv'
  BY <1>2 DEF Queued, SentInv
<1>4. CurrentInv'
  <2> SUFFICES ASSUME Originated <= SeqMod - InitialSeq,
                      NEW p \in Peer, NEW h \in nbr'[p].retrans,
                      h.key.type = "router", ~Busy(h)'
               PROVE  Current(h)'
    BY <1>1 DEF CurrentInv
  <2>1. Current(h) /\ Found(lsdb', h.key) \subseteq Found(lsdb, h.key)
    BY DEF Queued, CurrentInv
  <2> QED BY <2>1 DEF Current
<1> QED BY <1>3, <1>4 DEF Queued

LEMMA ListsQueued ==
    ASSUME IInv, Queued, rpc = "loop", lsdb' = lsdb,
           ls_sequence_cnt' = ls_sequence_cnt,
           \A p \in Peer : nbr'[p].retrans \subseteq nbr[p].retrans
    PROVE  Queued'
BY QueuedStep DEF Busy

LEMMA LoweredRetrans ==
    ASSUME NEW ns, NEW p \in Peer, Calm(ns), nbr' = [ns EXCEPT ![p] = Below]
    PROVE  \A q \in Peer : nbr'[q].retrans \subseteq nbr[q].retrans
BY DEF Calm, Below

LEMMA ElectionQueued ==
    ASSUME IInv, Queued, rpc = "loop", lsdb' = lsdb,
           ls_sequence_cnt' = ls_sequence_cnt, NEW ns, Calm(ns), Election(ns)
    PROVE  Queued'
<1>1. nbr' = ns \/ \E p \in Peer : nbr' = [ns EXCEPT ![p] = Below]
  BY DEF Election
<1>2. \A q \in Peer : nbr'[q].retrans \subseteq nbr[q].retrans
  BY <1>1, LoweredRetrans DEF Calm
<1> QED BY <1>2, ListsQueued

LEMMA HangQueued ==
    ASSUME IInv, Queued, rpc = "loop", lsdb' = lsdb,
           ls_sequence_cnt' = ls_sequence_cnt, NEW p \in Peer, Hang(p)
    PROVE  Queued'
BY NbrIsCalm, LoweredRetrans, ListsQueued DEF Hang, SetNbr

LEMMA ForgottenQueued ==
    ASSUME Forgotten
    PROVE  Queued'
BY DEF Forgotten, Below, Queued, SentInv, CurrentInv

LEMMA HeapWritesQueued ==
    ASSUME IInv, Queued, HeapWrites
    PROVE  Queued'
<1>1. \A k \in Key : Found(lsdb', k) \subseteq Found(lsdb, k)
  BY OverwriteOnly DEF HeapWrites, IInv, TypeOK, Database
<1>2. /\ nbr' = nbr /\ rpc' = rpc /\ cur' = cur /\ ls_sequence_cnt' = ls_sequence_cnt
  BY DEF HeapWrites
<1>3. \A p \in Peer : \A h \in nbr[p].retrans : h.key \in Key
  BY DEF IInv, TypeOK, NbrRecord, Lsa
<1> QED BY <1>1, <1>2, <1>3, QueuedStep DEF Busy

LEMMA RecvNewLsaQueued ==
    ASSUME IInv, Queued, NEW p \in Peer, RecvNewLsa(p)
    PROVE  Queued'
<1>1. PICK i \in WireLsa :
          /\ nbr' = [q \in Peer |->
                 [nbr[q] EXCEPT !.request = @ \ Answered(q, i, p),
                                !.retrans = IF Queues(q, i, p)
                                            THEN @ \cup {i} ELSE @]]
          /\ cur' = [lsa |-> i, to_ack |-> ToAck(i, p)]
  BY DEF RecvNewLsa
<1>2. /\ rpc = "loop" /\ rpc' = "install" /\ lsdb' = lsdb
      /\ ls_sequence_cnt' = ls_sequence_cnt
  BY DEF RecvNewLsa
<1>3. \A q \in Peer : nbr'[q].retrans \subseteq nbr[q].retrans \cup {i}
  BY <1>1 DEF IInv, TypeOK, NbrRecord
<1> QED BY <1>1, <1>2, <1>3, QueuedStep DEF Busy

LEMMA InstallLsaQueued ==
    ASSUME IInv, Queued, InstallLsa
    PROVE  Queued'
<1> DEFINE i == cur.lsa
<1>1. PICK c \in Unused(lsdb) : lsdb' = Install(lsdb, i, c)
  BY DEF InstallLsa
<1>2. /\ rpc = "install" /\ ls_sequence_cnt' = ls_sequence_cnt
      /\ nbr' = [q \in Peer |-> Unqueue(nbr[q], i.key)]
  BY DEF InstallLsa
<1>3. i \in Lsa /\ i.key \in Key
  BY <1>2, FloodingAssumption DEF IInv, ControlInv, Lsa
<1>4. \A k \in Key \ {i.key} : Found(lsdb', k) \subseteq Found(lsdb, k)
  BY <1>1, <1>3, InstallOnly DEF IInv, TypeOK, Only
<1>5. \A q \in Peer : \A h \in nbr'[q].retrans :
          h \in nbr[q].retrans /\ h.key # i.key /\ h.key \in Key
  <2>1. \A q \in Peer : nbr[q] \in NbrRecord
    BY DEF IInv, TypeOK
  <2> QED BY <1>2, <1>3, <2>1, UnqueueFacts DEF NbrRecord, Lsa
<1> QED BY <1>2, <1>4, <1>5, QueuedStep DEF Busy

LEMMA RecvOldLsaQueued ==
    ASSUME IInv, Queued, NEW p \in Peer, RecvOldLsa(p)
    PROVE  Queued'
<1>1. PICK i \in WireLsa :
          \/ Hang(p) /\ lsdb' = lsdb
          \/ /\ \/ nbr' = [nbr EXCEPT ![p] = Unqueue(nbr[p], i.key)]
                \/ nbr' = [nbr EXCEPT ![p] = nbr[p]]
             /\ \/ /\ i.key.type = "network"
                   /\ \E c \in Unused(lsdb) : lsdb' = Install(lsdb, i, c)
                \/ lsdb' = lsdb
  BY DEF RecvOldLsa, SetNbr
<1>2. rpc = "loop" /\ ls_sequence_cnt' = ls_sequence_cnt
  BY DEF RecvOldLsa
<1>3. i \in Lsa /\ i.key \in Key /\ nbr \in [Peer -> NbrRecord] /\ lsdb \in Database
  BY FloodingAssumption DEF IInv, TypeOK, Lsa
<1>4. CASE Hang(p) /\ lsdb' = lsdb
  BY <1>2, <1>4, HangQueued
<1>5. CASE /\ \/ nbr' = [nbr EXCEPT ![p] = Unqueue(nbr[p], i.key)]
              \/ nbr' = [nbr EXCEPT ![p] = nbr[p]]
           /\ \/ /\ i.key.type = "network"
                 /\ \E c \in Unused(lsdb) : lsdb' = Install(lsdb, i, c)
              \/ lsdb' = lsdb
  <2>1. \A q \in Peer : nbr'[q].retrans \subseteq nbr[q].retrans
    BY <1>3, <1>5, UnqueueFacts
  <2>2. \A k \in Key : k.type = "network" \/ Found(lsdb', k) \subseteq Found(lsdb, k)
    BY <1>3, <1>5, InstallOnly DEF Only
  <2>3. \A q \in Peer : \A h \in nbr[q].retrans : h.key \in Key
    BY <1>3 DEF NbrRecord, Lsa
  <2> QED BY <1>2, <2>1, <2>2, <2>3, QueuedStep DEF Busy
<1> QED BY <1>1, <1>4, <1>5

LEMMA GenerationsOnly ==
    ASSUME NEW d, Heap(d), ls_sequence_cnt \in 0 .. SeqMod - 1,
           NEW u \in Generations(d)
    PROVE  LET s == ls_sequence_cnt
               t == IF dr = MyIp THEN NextSeq(s) ELSE s
               g == Generated(OwnRouter, t)
           IN  /\ u.cnt = NextSeq(t)
               /\ \A h \in u.flooded :
                      h = g \/ (dr = MyIp /\ h = Generated(OwnNetwork, s))
               /\ Found(u.lsdb, OwnRouter) \subseteq Found(d, OwnRouter) \cup {g}
               /\ g \in u.flooded => Found(u.lsdb, OwnRouter) \subseteq {g}
<1> DEFINE s == ls_sequence_cnt
           n == NextSeq(s)
           One(e, i) == UNION {Originate(e, i, c) : c \in Unused(e)}
<1>1. s \in 0 .. SeqMod - 1 /\ n \in 0 .. SeqMod - 1 /\ d \in Database
  BY GeneratedOwn DEF Heap
<1>2. /\ OwnRouter \in Key /\ OwnNetwork \in Key /\ OwnRouter # OwnNetwork
  BY FloodingAssumption
<1>3. ASSUME NEW e \in Database, NEW q \in 0 .. SeqMod - 1,
             NEW k \in {OwnRouter, OwnNetwork}, NEW r \in One(e, Generated(k, q))
      PROVE  LET i == Generated(k, q)
             IN  /\ Generated(k, q).key = k /\ r.lsdb \in Database
                 /\ \A l \in Key \ {k} : Found(r.lsdb, l) \subseteq Found(e, l)
                 /\ Found(r.lsdb, k) \subseteq Found(e, k) \cup {i}
                 /\ r.flooded = {} \/ (r.flooded = {i} /\ Found(r.lsdb, k) \subseteq {i})
  <2>1. PICK c \in Unused(e) : r \in Originate(e, Generated(k, q), c)
    BY <1>3
  <2>2. Generated(k, q) \in Lsa /\ Generated(k, q).key = k
    BY GeneratedOwn DEF Generated
  <2> HIDE DEF One
  <2> QED BY <2>1, <2>2, OriginateOnly DEF Only
<1>4. CASE dr # MyIp
  <2>1. PICK r \in One(d, Generated(OwnRouter, s)) :
            u = [cnt |-> n, lsdb |-> r.lsdb, flooded |-> r.flooded]
    BY <1>4 DEF Generations
  <2> HIDE DEF One, n, s
  <2>2. LET g == Generated(OwnRouter, s)
        IN  /\ Found(r.lsdb, OwnRouter) \subseteq Found(d, OwnRouter) \cup {g}
            /\ r.flooded = {} \/ (r.flooded = {g} /\ Found(r.lsdb, OwnRouter) \subseteq {g})
    BY <1>1, <1>3
  <2> QED BY <1>4, <2>1, <2>2 DEF n, s
<1>5. CASE dr = MyIp
  <2>1. PICK m \in One(d, Generated(OwnNetwork, s)) :
            \E r \in One(m.lsdb, Generated(OwnRouter, n)) :
                u = [cnt |-> NextSeq(n), lsdb |-> r.lsdb,
                     flooded |-> m.flooded \cup r.flooded]
    BY <1>5 DEF Generations
  <2>2. PICK r \in One(m.lsdb, Generated(OwnRouter, n)) :
            u = [cnt |-> NextSeq(n), lsdb |-> r.lsdb,
                 flooded |-> m.flooded \cup r.flooded]
    BY <2>1
  <2> HIDE DEF One, n, s
  <2>3. LET w == Generated(OwnNetwork, s)
        IN  /\ w.key = OwnNetwork /\ m.lsdb \in Database
            /\ Found(m.lsdb, OwnRouter) \subseteq Found(d, OwnRouter)
            /\ m.flooded \subseteq {w}
    BY <1>1, <1>2, <1>3
  <2>4. LET g == Generated(OwnRouter, n)
        IN  /\ g.key = OwnRouter
            /\ Found(r.lsdb, OwnRouter) \subseteq Found(m.lsdb, OwnRouter) \cup {g}
            /\ r.flooded = {} \/ (r.flooded = {g} /\ Found(r.lsdb, OwnRouter) \subseteq {g})
    BY <1>1, <1>3, <2>3
  <2>5. Generated(OwnRouter, n) # Generated(OwnNetwork, s)
    BY <1>2, <2>3, <2>4
  <2> QED BY <1>5, <2>2, <2>3, <2>4, <2>5 DEF n, s
<1> QED BY <1>4, <1>5

(* update_lsas queues the newest LSA that the router has ever generated.   *)
LEMMA ExchangeDoneQueued ==
    ASSUME IInv, Queued, MaxOriginated < SeqMod - 1,
           NEW p \in Peer, ExchangeDone(p)
    PROVE  Queued'
<1> DEFINE s == ls_sequence_cnt
           t == IF dr = MyIp THEN NextSeq(s) ELSE s
           g == Generated(OwnRouter, t)
           n == Generated(OwnNetwork, s)
<1>1. PICK u \in Generations(lsdb) :
          /\ lsdb' = u.lsdb /\ ls_sequence_cnt' = u.cnt
          /\ nbr' = [q \in Peer |->
                 IF q = p \/ nbr[q].state = "FULL"
                 THEN [nbr[q] EXCEPT !.state = "FULL",
                                     !.retrans = @ \cup u.flooded]
                 ELSE nbr[q]]
  BY DEF ExchangeDone
<1>2. rpc = "loop" /\ rpc' = "loop" /\ Originated < MaxOriginated
  BY DEF ExchangeDone
<1>3. /\ ls_sequence_cnt' = NextSeq(t)
      /\ \A h \in u.flooded : h = g \/ (dr = MyIp /\ h = n)
      /\ Found(lsdb', OwnRouter) \subseteq Found(lsdb, OwnRouter) \cup {g}
      /\ g \in u.flooded => Found(lsdb', OwnRouter) \subseteq {g}
  BY <1>1, GenerationsOnly DEF IInv, TypeOK
<1>4. \A q \in Peer : nbr'[q].retrans \subseteq nbr[q].retrans \cup u.flooded
  BY <1>1 DEF IInv, TypeOK, NbrRecord
<1>5. /\ s \in 0 .. SeqMod - 1 /\ t \in 0 .. SeqMod - 1
      /\ Round(s) = Originated
      /\ Round(t) = IF dr = MyIp THEN Originated + 1 ELSE Originated
  <2>1. s \in 0 .. SeqMod - 1 /\ Round(s) = Originated
    BY DEF IInv, TypeOK, Originated, Round
  <2>2. NextSeq(s) \in 0 .. SeqMod - 1 /\ Round(NextSeq(s)) = Round(s) + 1
    BY <1>2, <2>1, RoundNext, RoundIs, FloodingAssumption, LsaHeaderAssumption
  <2> QED BY <2>1, <2>2
<1>6. Originated \in Nat /\ Round(t) \in Nat /\ Originated' = Round(t) + 1
  <2>1. Round(t) < SeqMod - 1 /\ Originated \in Nat /\ Round(t) \in Nat
    BY <1>2, <1>5, RoundIs, FloodingAssumption, LsaHeaderAssumption
  <2>2. Originated' = Round(NextSeq(t))
    BY <1>3 DEF Originated, Round
  <2> HIDE DEF t
  <2> QED BY <1>5, <2>1, <2>2, RoundNext
<1>7. Originated <= Round(t) /\ Originated < Originated'
  BY <1>5, <1>6
<1>8. g.key = OwnRouter /\ n.key = OwnNetwork /\ g \in Lsa
  BY <1>5, GeneratedOwn DEF Generated
<1> HIDE DEF g, n, t, s
<1>9. SentInv'
  <2> SUFFICES ASSUME NEW q \in Peer, NEW h \in nbr'[q].retrans
               PROVE  Sent(h)'
    BY DEF SentInv
  <2>1. CASE h \in nbr[q].retrans
    <3>1. Sent(h)
      BY <1>2, <2>1 DEF Queued, SentInv, Busy
    <3>2. \A r \in 0 .. SeqMod - 1 : Round(r) < Originated => Round(r) < Originated'
      BY <1>6, <1>7, RoundIs, FloodingAssumption, LsaHeaderAssumption
    <3> QED BY <3>1, <3>2 DEF Sent
  <2>2. CASE h = g
    <3>1. Round(t) < Originated'
      BY <1>6
    <3> QED BY <1>5, <2>2, <3>1 DEF Sent, g
  <2>3. CASE h = n
    <3>1. Round(s) < Originated'
      BY <1>5, <1>7
    <3> QED BY <1>5, <2>3, <3>1 DEF Sent, n
  <2> QED BY <1>3, <1>4, <2>1, <2>2, <2>3
<1>10. CurrentInv'
  <2> SUFFICES ASSUME Originated' <= SeqMod - InitialSeq,
                      NEW q \in Peer, NEW h \in nbr'[q].retrans,
                      h.key.type = "router"
               PROVE  Current(h)'
    BY DEF CurrentInv
  <2>1. h \in nbr[q].retrans \/ (h = g /\ g \in u.flooded)
    BY <1>3, <1>4, <1>8, FloodingAssumption
  <2>2. CASE h = g /\ g \in u.flooded
    BY <1>3, <1>8, <2>2, CmpSelf DEF Current
  <2>3. CASE h \in nbr[q].retrans
    <3>1. PICK k \in {OwnRouter, OwnNetwork}, r \in 0 .. SeqMod - 1 :
              h = Generated(k, r) /\ Round(r) < Originated
      BY <1>2, <2>3 DEF Queued, SentInv, Busy, Sent
    <3>2. h.key = OwnRouter /\ h.seq = r
      BY <3>1, FloodingAssumption DEF Generated
    <3>3. Current(h)
      BY <1>2, <1>6, <1>7, <2>3, FloodingAssumption, LsaHeaderAssumption
         DEF Queued, CurrentInv, Busy
    <3>4. r < t
      <4>1. Round(r) < Round(t) /\ Round(t) < SeqMod - InitialSeq
        BY <1>6, <1>7, <3>1, RoundIs, FloodingAssumption, LsaHeaderAssumption
      <4>2. t = InitialSeq + Round(t)
        BY <1>5, <4>1, RoundIs
      <4>3. r = InitialSeq + Round(r) /\ Round(r) \in Int
        BY <1>6, <4>1, RoundIs, FloodingAssumption, LsaHeaderAssumption
      <4> QED BY <1>6, <4>1, <4>2, <4>3, FloodingAssumption, LsaHeaderAssumption
    <3>5. Cmp(g, h) <= 0
      <4>1. g.seq = t
        BY DEF g, Generated
      <4> QED BY <1>5, <3>2, <3>4, <4>1, FloodingAssumption, LsaHeaderAssumption DEF Cmp
    <3> QED BY <1>3, <3>2, <3>3, <3>5 DEF Current
  <2> QED BY <2>1, <2>2, <2>3
<1> QED BY <1>9, <1>10 DEF Queued

LEMMA NextQueued ==
    MaxOriginated < SeqMod - 1 /\ IInv /\ Queued /\ [Next]_vars => Queued'
<1> SUFFICES ASSUME MaxOriginated < SeqMod - 1, IInv, Queued, [Next]_vars
             PROVE  Queued'
  OBVIOUS
<1>1. CASE RunElection
  BY <1>1, NbrIsCalm, ElectionQueued DEF RunElection
<1>2. ASSUME NEW p \in Peer, InactivityTimer(p) PROVE Queued'
  <2> DEFINE ns == [nbr EXCEPT ![p] = Below]
  <2>1. /\ rpc = "loop" /\ Calm(nbr) /\ Calm(ns)
        /\ lsdb' = lsdb /\ ls_sequence_cnt' = ls_sequence_cnt
    BY <1>2, NbrIsCalm, LoweredIsCalm DEF InactivityTimer
  <2>2. CASE Election(ns)
    <3> HIDE DEF ns
    <3>1. nbr' = ns \/ \E q \in Peer : nbr' = [ns EXCEPT ![q] = Below]
      BY <2>2 DEF Election
    <3>2. \A q \in Peer : nbr'[q].retrans \subseteq ns[q].retrans
      <4>1. CASE nbr' = ns
        BY <4>1
      <4>2. ASSUME NEW r \in Peer, nbr' = [ns EXCEPT ![r] = Below]
            PROVE  \A q \in Peer : nbr'[q].retrans \subseteq ns[q].retrans
        BY <2>1, <4>2 DEF Calm, Below
      <4> QED BY <3>1, <4>1, <4>2
    <3>3. \A q \in Peer : ns[q].retrans \subseteq nbr[q].retrans
      BY <2>1 DEF ns, Calm, Below
    <3> QED BY <2>1, <3>2, <3>3, ListsQueued
  <2>3. CASE nbr' = ns
    BY <2>1, <2>3, LoweredRetrans, ListsQueued
  <2> QED BY <1>2, <2>2, <2>3 DEF InactivityTimer
<1>3. ASSUME NEW p \in Peer, AdjacencyError(p) \/ RecvBadLsr(p) PROVE Queued'
  BY <1>3, HangQueued DEF AdjacencyError, RecvBadLsr
<1>4. ASSUME NEW p \in Peer,
             NegotiationDone(p) \/ RecvDDHeader(p) \/ RecvLsAck(p)
      PROVE  Queued'
  <2>1. \A q \in Peer : nbr'[q].retrans \subseteq nbr[q].retrans
    BY <1>4 DEF NegotiationDone, RecvDDHeader, RecvLsAck, SetNbr,
                IInv, TypeOK, NbrRecord
  <2> QED BY <1>4, <2>1, ListsQueued DEF NegotiationDone, RecvDDHeader, RecvLsAck
<1>5. ASSUME Restart \/ \E p \in Peer : RetransCrashes(p) PROVE Queued'
  BY <1>5, ForgottenQueued DEF Restart, RetransCrashes
<1>6. CASE UNCHANGED vars
  BY <1>6 DEF vars, Queued, SentInv, CurrentInv, Busy, Sent, Current, Originated
<1> QED BY <1>1, <1>2, <1>3, <1>4, <1>5, <1>6, ExchangeDoneQueued,
           RecvNewLsaQueued, InstallLsaQueued, RecvOldLsaQueued, HeapWritesQueued
        DEF Next

(* An entry of a retransmission list stands for its LSA in the database,   *)
(* which is sent instead: of a router LSA that is never an older instance, *)
(* as long as the sequence numbers have not wrapped.  The hypothesis keeps *)
(* the model's bound on update_lsas (MaxOriginated) below one round of the *)
(* counter, so that what was generated can be counted at all.              *)
THEOREM ResendsCurrent ==
    ASSUME MaxOriginated < SeqMod - 1
    PROVE  Spec => []ResendsAreCurrent
<1>1. IInv /\ Queued => ResendsAreCurrent
  BY DEF IInv, ControlInv, Queued, CurrentInv, Current, Busy, ResendsAreCurrent
<1>2. IInv /\ Queued /\ [Next]_vars => Queued'
  BY NextQueued
<1> QED BY <1>1, <1>2, InitQueued, Invariance, PTL DEF Spec
=============================================================================
