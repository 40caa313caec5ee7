-------------------------- MODULE InterfaceProofs ---------------------------
(***************************************************************************)
(* The roles and the adjacencies of one router, proved for any neighbours, *)
(* ids, priorities and order of events.  Good is about the adjacencies,    *)
(* Sound about who holds the roles; both follow the receive thread through *)
(* the passes of an election, where the properties of Interface say little *)
(* or nothing.  What a pass chooses is first restated in terms of ip       *)
(* addresses (Chosen), so that the steps need neither lists nor scans.     *)
(***************************************************************************)
EXTENDS Interface, ElectionProofs

(* Whoever has been heard is in the list that event_adj_ok goes through. *)
Listed(j) == \A p \in Peer : j.nbr[p].state # "down" =>
                                 \E k \in DOMAIN j.neighbors : j.neighbors[k] = p

(* The adjacencies are those that these roles call for. *)
Follows(j, d, b) ==
    \A p \in Peer : j.nbr[p].state \in TwoWay =>
                        (j.nbr[p].state = "adj" <=> {d, b} \cap {j.ip, p} # {})

(* During an election they are still those of the roles before it. *)
Good(j) ==
    /\ j \in InterfaceRecord /\ Listed(j)
    /\ j.rpc \in {"loop", "role"}  => Follows(j, j.dr, j.bdr)
    /\ j.rpc \in {"elect", "adj"} => Follows(j, j.old.dr, j.old.bdr)

IInv == Good(i)
-----------------------------------------------------------------------------
LEMMA InitGood == Init => IInv
BY InterfaceAssumption DEF Init, IInv, Good, NewInterface, NewNeighbor, NoRoles, InterfaceRecord, Listed,
   Follows, TwoWay, NbrRecord, Ip

(* Only the position of the receive thread and the roles matter.           *)
SameNbrs(j, k) == k.neighbors = j.neighbors /\ k.nbr = j.nbr
SameRoles(j, k) == k.dr = j.dr /\ k.bdr = j.bdr

LEMMA NbrsGood ==
    ASSUME NEW j, Good(j), NEW k \in InterfaceRecord, SameNbrs(j, k),
           k.rpc \in {"loop", "role"} => Follows(j, k.dr, k.bdr),
           k.rpc \in {"elect", "adj"} => Follows(j, k.old.dr, k.old.bdr)
    PROVE  Good(k)
<1>1. k.ip = j.ip /\ k.nbr = j.nbr /\ k.neighbors = j.neighbors
  BY DEF Good, InterfaceRecord, SameNbrs
<1>2. Listed(k)
  BY <1>1 DEF Good, Listed
<1>3. \A d, b : Follows(j, d, b) => Follows(k, d, b)
  BY <1>1 DEF Follows
<1> QED BY <1>2, <1>3 DEF Good

LEMMA UpGood == ASSUME NEW j, Good(j) PROVE Good(Up(j))
<1>1. j \in InterfaceRecord
  BY DEF Good
<1>2. Up(j) \in InterfaceRecord
  BY <1>1 DEF Up, InterfaceRecord
<1>3. /\ SameNbrs(j, Up(j)) /\ SameRoles(j, Up(j))
      /\ Up(j).rpc = j.rpc /\ Up(j).old = j.old
  BY <1>1 DEF Up, InterfaceRecord, SameNbrs, SameRoles
<1> QED BY <1>2, <1>3, NbrsGood DEF Good, SameRoles

LEMMA TimeoutGood == ASSUME NEW j, Good(j) PROVE Good(Timeout(j))
<1>1. j \in InterfaceRecord
  BY DEF Good
<1>2. Timeout(j) \in InterfaceRecord
  BY <1>1 DEF Timeout, InterfaceRecord
<1>3. /\ SameNbrs(j, Timeout(j)) /\ SameRoles(j, Timeout(j))
      /\ Timeout(j).rpc = j.rpc /\ Timeout(j).old = j.old
  BY <1>1 DEF Timeout, InterfaceRecord, SameNbrs, SameRoles
<1> QED BY <1>2, <1>3, NbrsGood DEF Good, SameRoles

LEMMA StopGood ==
    ASSUME NEW j, Good(j), NEW pc \in {"hung", "aborted", "crashed"}
    PROVE  Good([j EXCEPT !.rpc = pc])
<1> DEFINE k == [j EXCEPT !.rpc = pc]
<1>1. j \in InterfaceRecord
  BY DEF Good
<1>2. k \in InterfaceRecord
  BY <1>1 DEF InterfaceRecord
<1>3. SameNbrs(j, k) /\ k.rpc \notin {"loop", "role", "elect", "adj"}
  BY <1>1 DEF InterfaceRecord, SameNbrs
<1> HIDE DEF k
<1>4. Good(k)
  BY <1>2, <1>3, NbrsGood
<1> QED BY <1>4 DEF k

LEMMA StartElectionGood ==
    ASSUME NEW j, Good(j), j.rpc = "loop",
           NEW c \in {"wait", "backup", "change"}
    PROVE  Good(StartElection(j, c))
<1> DEFINE k == StartElection(j, c)
<1>1. j \in InterfaceRecord
  BY DEF Good
<1>2. k \in InterfaceRecord
  BY <1>1 DEF StartElection, InterfaceRecord
<1>3. /\ SameNbrs(j, k) /\ k.rpc = "elect"
      /\ k.old.dr = j.dr /\ k.old.bdr = j.bdr
  BY <1>1 DEF StartElection, InterfaceRecord, SameNbrs
<1>4. Follows(j, j.dr, j.bdr)
  BY DEF Good
<1> HIDE DEF k
<1>5. Good(k)
  BY <1>2, <1>3, <1>4, NbrsGood
<1> QED BY <1>5 DEF k

LEMMA NeighborChangeGood ==
    ASSUME NEW j, Good(j), j.rpc = "loop"
    PROVE  Good(NeighborChange(j))
BY StartElectionGood DEF NeighborChange

-----------------------------------------------------------------------------
(* Whom the election chooses, said of ip addresses: who stands, who claims *)
(* which role, and who outranks whom.                                      *)
Heeded(j) == j \in InterfaceRecord /\ Listed(j)
Router == Peer \cup {MyIp}

Cand(j, q) == IF q = MyIp THEN Self(j) ELSE Candidate(j, q)
Field(j) == {Cand(j, q) : q \in Router}

Stands(j, q)  == IF q = MyIp THEN MyPriority # 0 ELSE Eligible(j, q)
Pri(j, q)     == IF q = MyIp THEN MyPriority ELSE j.nbr[q].pri
SaysDr(j, q)  == IF q = MyIp THEN j.dr = MyIp ELSE j.nbr[q].dr = q
SaysBdr(j, q) == IF q = MyIp THEN j.bdr = MyIp ELSE j.nbr[q].bdr = q

Above(j, q, r) == \/ Pri(j, q) > Pri(j, r)
                  \/ Pri(j, q) = Pri(j, r) /\ Id[q] > Id[r]
AboveForBdr(j, q, r) == IF SaysBdr(j, r) THEN SaysBdr(j, q) /\ Above(j, q, r)
                        ELSE SaysBdr(j, q) \/ Above(j, q, r)

ForBdr(j, n) == {q \in Router : Stands(j, q) /\ ~SaysDr(j, q) /\ ~(n /\ q = MyIp)}
ForDr(j) == {q \in Router : Stands(j, q) /\ SaysDr(j, q)}

ChosenBdr(j, n, b) ==
    IF ForBdr(j, n) = {} THEN b = NoIp
    ELSE b \in ForBdr(j, n) /\ \A q \in ForBdr(j, n) : q = b \/ AboveForBdr(j, b, q)
Chosen(j, n, d, b) ==
    /\ ChosenBdr(j, n, b)
    /\ IF ForDr(j) = {} THEN d = b
       ELSE d \in ForDr(j) /\ \A q \in ForDr(j) : q = d \/ Above(j, d, q)

LEMMA FieldFacts ==
    ASSUME NEW j, Heeded(j)
    PROVE  /\ IsField(Field(j))
           /\ Self(j) \in Field(j)
           /\ Candidates(j) \in Seq(Field(j))
           /\ \A c \in Field(j) : c.ip \in Router /\ c = Cand(j, c.ip)
<1>1. \A p \in Peer : /\ j.nbr[p] \in NbrRecord
                      /\ p \in Nat \ {NoIp} /\ p # MyIp
  BY InterfaceAssumption DEF Heeded, InterfaceRecord
<1>2. MyIp \in Nat \ {NoIp} /\ j.ip = MyIp /\ Ip \subseteq Nat
  BY InterfaceAssumption DEF Heeded, InterfaceRecord, Ip, NoIp
<1>3. \A q \in Router : /\ Cand(j, q).ip = q /\ Cand(j, q).id = Id[q]
                        /\ Id[q] \in Nat
  BY <1>1, <1>2, InterfaceAssumption DEF Cand, Self, Candidate, Router
<1>4. \A q \in Router :
        Cand(j, q) \in [ip: Nat \ {NoIp}, id: Nat, pri: Nat, stands: BOOLEAN,
                        dr: Nat, bdr: Nat]
  <2>1. Self(j) \in [ip: Nat \ {NoIp}, id: Nat, pri: Nat, stands: BOOLEAN,
                     dr: Nat, bdr: Nat]
    BY <1>2, InterfaceAssumption DEF Self, Heeded, InterfaceRecord
  <2>2. ASSUME NEW p \in Peer
        PROVE  Candidate(j, p) \in [ip: Nat \ {NoIp}, id: Nat, pri: Nat,
                                    stands: BOOLEAN, dr: Nat, bdr: Nat]
    <3>1. Eligible(j, p) \in BOOLEAN
      BY DEF Eligible
    <3>2. j.nbr[p].pri \in Nat /\ j.nbr[p].dr \in Nat /\ j.nbr[p].bdr \in Nat
      <4>1. j.nbr[p] \in [state: {"down", "init", "2way", "adj"}, pri: Priority \cup {0},
                          dr: Ip, bdr: Ip]
        BY <1>1 DEF NbrRecord
      <4>2. Priority \cup {0} \subseteq Nat
        BY InterfaceAssumption
      <4> QED BY <1>2, <4>1, <4>2
    <3>3. Id[p] \in Nat
      BY InterfaceAssumption
    <3> QED BY <1>1, <3>1, <3>2, <3>3 DEF Candidate
  <2> QED BY <2>1, <2>2 DEF Cand, Router
<1>5. \A q, r \in Router : Id[q] = Id[r] => q = r
  BY InterfaceAssumption DEF IsInjective, Router
<1>6. IsField(Field(j))
  BY <1>3, <1>4, <1>5 DEF IsField, Field
<1>7. Self(j) \in Field(j)
  BY DEF Field, Cand, Router
<1>8. Candidates(j) \in Seq(Field(j))
  <2>1. j.neighbors \in Seq(Peer)
    BY DEF Heeded, InterfaceRecord
  <2>2. \A k \in DOMAIN j.neighbors : Candidate(j, j.neighbors[k]) \in Field(j)
    BY <1>1, <2>1 DEF Field, Cand, Router
  <2> QED BY <2>1, <2>2 DEF Candidates
<1> QED BY <1>3, <1>6, <1>7, <1>8 DEF Field

(* Only those of the list that stand matter, and all of these are in it.   *)
LEMMA WhoRuns ==
    ASSUME NEW j, Heeded(j), NEW n \in BOOLEAN
    PROVE  /\ BdrField(Self(j), Range(Candidates(j)), n) = {Cand(j, q) : q \in ForBdr(j, n)}
           /\ DrField(Self(j), Range(Candidates(j))) = {Cand(j, q) : q \in ForDr(j)}
<1> DEFINE nbrs == Range(Candidates(j))
<1>1. j.ip = MyIp /\ MyIp \notin Peer /\ j.neighbors \in Seq(Peer)
  BY InterfaceAssumption DEF Heeded, InterfaceRecord
<1>2. \A q \in Router : /\ Cand(j, q).stands = Stands(j, q)
                        /\ DeclaresDr(Cand(j, q)) = SaysDr(j, q)
  BY <1>1 DEF Cand, Stands, SaysDr, Self, Candidate, DeclaresDr, Router
<1>3. \A c \in nbrs : \E p \in Peer : c = Cand(j, p)
  <2>1. \A k \in DOMAIN j.neighbors : j.neighbors[k] \in Peer
    BY <1>1
  <2> QED BY <1>1, <2>1 DEF Candidates, Range, Cand
<1>4. \A p \in Peer : Stands(j, p) => Cand(j, p) \in nbrs
  <2> SUFFICES ASSUME NEW p \in Peer, Stands(j, p) PROVE Cand(j, p) \in nbrs
    OBVIOUS
  <2>1. j.nbr[p].state # "down"
    BY <1>1 DEF Stands, Eligible, TwoWay
  <2>2. PICK k \in DOMAIN j.neighbors : j.neighbors[k] = p
    BY <2>1 DEF Heeded, Listed
  <2>3. Candidates(j)[k] = Cand(j, p) /\ k \in DOMAIN Candidates(j)
    BY <1>1, <2>2 DEF Candidates, Cand
  <2> QED BY <2>3 DEF Range
<1>5. Self(j) = Cand(j, MyIp)
  BY DEF Cand
<1> HIDE DEF nbrs
<1>7. BdrField(Self(j), nbrs, n) = {Cand(j, q) : q \in ForBdr(j, n)}
  BY <1>1, <1>2, <1>3, <1>4, <1>5 DEF BdrField, RunsForBdr, ForBdr, Router
<1>8. DrField(Self(j), nbrs) = {Cand(j, q) : q \in ForDr(j)}
  BY <1>1, <1>2, <1>3, <1>4, <1>5 DEF DrField, RunsForDr, ForDr, Router
<1> QED BY <1>7, <1>8 DEF nbrs

LEMMA ElectChooses ==
    ASSUME NEW j, Heeded(j), NEW n \in BOOLEAN
    PROVE  LET e == Elect(Self(j), Candidates(j), n)
           IN  /\ Chosen(j, n, e.dr.ip, e.bdr.ip)
               /\ e.dr = Nobody <=> e.dr.ip = NoIp
               /\ {e.dr.ip, e.bdr.ip} \subseteq Router \cup {NoIp}
<1> DEFINE e == Elect(Self(j), Candidates(j), n)
           bs == {Cand(j, q) : q \in ForBdr(j, n)}
           ds == {Cand(j, q) : q \in ForDr(j)}
<1>1. BestBdr(e.bdr, bs) /\ IF ds = {} THEN e.dr = e.bdr ELSE BestDr(e.dr, ds)
  <2>1. /\ IsField(Field(j)) /\ Self(j) \in Field(j)
        /\ Candidates(j) \in Seq(Field(j))
    BY FieldFacts
  <2>2. /\ BestBdr(e.bdr, BdrField(Self(j), Range(Candidates(j)), n))
        /\ IF DrField(Self(j), Range(Candidates(j))) = {} THEN e.dr = e.bdr
           ELSE BestDr(e.dr, DrField(Self(j), Range(Candidates(j))))
    BY <2>1, ElectFacts
  <2> HIDE DEF e
  <2> QED BY <2>2, WhoRuns
<1>2. /\ ForBdr(j, n) \subseteq Router /\ ForDr(j) \subseteq Router
      /\ \A q \in Router : Cand(j, q) \in Field(j) /\ Cand(j, q).ip = q
  <2>1. j.ip = MyIp
    BY DEF Heeded, InterfaceRecord
  <2> QED BY <2>1 DEF ForBdr, ForDr, Field, Cand, Self, Candidate
<1>3. \A q, r \in Router :
        /\ Outranks(Cand(j, q), Cand(j, r)) = Above(j, q, r)
        /\ BeatsForBdr(Cand(j, q), Cand(j, r)) = AboveForBdr(j, q, r)
  <2>1. j.ip = MyIp
    BY DEF Heeded, InterfaceRecord
  <2>2. \A q \in Router : /\ Cand(j, q).pri = Pri(j, q) /\ Cand(j, q).id = Id[q]
                          /\ DeclaresBdr(Cand(j, q)) = SaysBdr(j, q)
    BY <2>1 DEF Cand, Self, Candidate, Pri, SaysBdr, DeclaresBdr
  <2>3. \A q, r \in Router : Outranks(Cand(j, q), Cand(j, r)) = Above(j, q, r)
    BY <2>2 DEF Outranks, Above
  <2> QED BY <2>2, <2>3 DEF BeatsForBdr, AboveForBdr
<1>4. Nobody.ip = NoIp /\ NoIp \notin Router
  BY InterfaceAssumption DEF Nobody, Router
<1> HIDE DEF e
<1>5. ChosenBdr(j, n, e.bdr.ip) /\ (e.bdr.ip = NoIp <=> e.bdr = Nobody)
  BY <1>1, <1>2, <1>3, <1>4 DEF BestBdr, ChosenBdr
<1>6. Chosen(j, n, e.dr.ip, e.bdr.ip) /\ (e.dr.ip = NoIp <=> e.dr = Nobody)
  BY <1>1, <1>2, <1>3, <1>4, <1>5 DEF BestDr, Chosen
<1>7. {e.dr.ip, e.bdr.ip} \subseteq Router \cup {NoIp}
  BY <1>2, <1>6 DEF Chosen, ChosenBdr
<1> QED BY <1>6, <1>7 DEF e
-----------------------------------------------------------------------------
LEMMA ElectionPassGood ==
    ASSUME NEW j, Good(j), j.rpc = "elect"
    PROVE  Good(ElectionPass(j))
<1> DEFINE e == Elect(Self(j), Candidates(j), j.no_bdr)
           n == NewDr(j, e) \/ (j.no_bdr /\ ~NewBdr(j, e))
           pc == IF NewDr(j, e) \/ NewBdr(j, e) THEN "elect" ELSE "adj"
           next == [j EXCEPT !.dr = e.dr.ip, !.bdr = e.bdr.ip, !.no_bdr = n, !.rpc = pc]
<1>1. ElectionPass(j) = IF e.dr = Nobody THEN [j EXCEPT !.rpc = "crashed"] ELSE next
  BY DEF ElectionPass, Good, InterfaceRecord
<1>2. pc \in {"elect", "adj"} /\ n \in BOOLEAN
  BY DEF Good, InterfaceRecord, NewDr
<1>3. e.dr.ip \in Ip /\ e.bdr.ip \in Ip
  BY ElectChooses DEF Good, Heeded, InterfaceRecord, Router, Ip
<1> HIDE DEF e, n, pc
<1>4. next \in InterfaceRecord
  BY <1>2, <1>3 DEF Good, InterfaceRecord
<1>5. SameNbrs(j, next) /\ next.rpc = pc /\ next.old = j.old
  BY DEF Good, InterfaceRecord, SameNbrs
<1>6. Follows(j, j.old.dr, j.old.bdr)
  BY DEF Good
<1> HIDE DEF next
<1>7. Good(next)
  BY <1>2, <1>4, <1>5, <1>6, NbrsGood
<1> QED BY <1>1, <1>7, StopGood

LEMMA SetRoleGood ==
    ASSUME NEW j, Good(j), j.rpc = "role"
    PROVE  Good(SetRole(j))
<1> DEFINE st == IF j.dr = j.ip THEN "DR"
                 ELSE IF j.bdr = j.ip THEN "BACKUP" ELSE "DROTHER"
           wt == IF j.cause = "backup" THEN "joined" ELSE j.waiting_timer
           to == j.waiting_timeout /\ ~(j.cause = "backup")
           next == [j EXCEPT !.state = st, !.waiting_timer = wt, !.waiting_timeout = to,
                             !.rpc = "loop", !.cause = "none", !.no_bdr = FALSE,
                             !.old = NoRoles]
<1>1. SetRole(j) = next
  BY DEF SetRole, Good, InterfaceRecord
<1>2. /\ st \in {"DR", "BACKUP", "DROTHER"} /\ to \in BOOLEAN
      /\ wt \in {"none", "sleep", "ended", "joined"}
  BY DEF Good, InterfaceRecord
<1>3. NoRoles \in [dr: Ip, bdr: Ip]
  BY DEF NoRoles, Ip
<1> HIDE DEF st, wt, to
<1>4. next \in InterfaceRecord
  BY <1>2, <1>3 DEF Good, InterfaceRecord
<1>5. Good(next)
  BY <1>4 DEF Good, InterfaceRecord, Listed, Follows
<1> QED BY <1>1, <1>5

(* event_adj_ok on every neighbour, unless one of them hangs the thread.   *)
LEMMA AdjOkGood ==
    ASSUME NEW j, Good(j), j.rpc = "adj"
    PROVE  Good(AdjOk(j))
<1> DEFINE D == DOMAIN j.neighbors
           givesUp(k) == /\ j.nbr[j.neighbors[k]].state = "adj"
                         /\ ~Wanted(j, j.neighbors[k])
           reached == {k \in D : \A l \in 1 .. k - 1 : ~givesUp(l)}
           joins == {j.neighbors[k] : k \in {l \in reached : ~givesUp(l)}}
           hangs == {j.neighbors[k] : k \in {l \in reached : givesUp(l)}}
           stt(p) == IF p \in joins /\ j.nbr[p].state = "2way" /\ Wanted(j, p)
                     THEN "adj"
                     ELSE IF p \in hangs THEN "2way" ELSE j.nbr[p].state
           nbrs == [p \in Peer |-> [j.nbr[p] EXCEPT !.state = stt(p)]]
           pc == IF hangs # {} THEN "hung" ELSE "role"
           next == [j EXCEPT !.nbr = nbrs, !.rpc = pc]
<1>1. CASE ~RolesChanged(j)
  <2>1. AdjOk(j) = [j EXCEPT !.rpc = "role"]
    BY <1>1 DEF AdjOk
  <2>2. j.old.dr = j.dr /\ j.old.bdr = j.bdr
    BY <1>1 DEF RolesChanged
  <2>3. Good([j EXCEPT !.rpc = "role"])
    BY <2>2 DEF Good, InterfaceRecord, Listed, Follows
  <2> QED BY <2>1, <2>3
<1>2. CASE RolesChanged(j)
  <2>1. AdjOk(j) = next
    BY <1>2 DEF AdjOk, Good, InterfaceRecord
  <2>was. \A p \in Peer : j.nbr[p] \in NbrRecord
    BY DEF Good, InterfaceRecord
  <2>new. \A p \in Peer : stt(p) \in {j.nbr[p].state, "adj", "2way"}
    OBVIOUS
  <2>2. nbrs \in [Peer -> NbrRecord]
    <3> HIDE DEF stt
    <3> QED BY <2>was, <2>new DEF NbrRecord
  <2>3. \A p \in Peer : nbrs[p].state = stt(p)
    <3> HIDE DEF stt
    <3> QED BY <2>was DEF NbrRecord
  <2>4. pc \in {"hung", "role"}
    OBVIOUS
  <2>5. \A p \in Peer : nbrs[p].state # "down" => j.nbr[p].state # "down"
    <3>1. \A p \in hangs : j.nbr[p].state = "adj"
      OBVIOUS
    <3> QED BY <2>3, <3>1
  <2>below. \A k \in D : \A l \in 1 .. k - 1 : l \in D /\ l < k
    <3> DEFINE s0 == j.neighbors
    <3>1. s0 \in Seq(Peer)
      BY DEF Good, InterfaceRecord
    <3> HIDE DEF s0
    <3>2. \A k \in DOMAIN s0 : \A l \in 1 .. k - 1 : l \in DOMAIN s0 /\ l < k
      BY <3>1
    <3> QED BY <3>2 DEF s0
  <2>6. pc = "role" => \A k \in D : ~givesUp(k)
    <3> SUFFICES ASSUME hangs = {}, NEW q \in D, givesUp(q) PROVE FALSE
      OBVIOUS
    <3> DEFINE T == {k \in D : givesUp(k)}
    <3>1. T \subseteq Nat /\ q \in T
      BY DEF Good, InterfaceRecord
    <3>2. PICK k \in T : \A l \in T : ~(l < k)
      <4>1. T # {}
        BY <3>1, Zenon
      <4> HIDE DEF T
      <4> QED BY <3>1, <4>1, FirstOf
    <3>3. k \in D /\ \A l \in 1 .. k - 1 : l \in D /\ l < k
      <4> HIDE DEF D, hangs
      <4> QED BY <3>2, <2>below
    <3>4. k \in reached
      <4> HIDE DEF givesUp, D
      <4> QED BY <3>2, <3>3
    <3>5. k \in {l \in reached : givesUp(l)}
      BY <3>4
    <3>6. j.neighbors[k] \in hangs
      BY <3>5
    <3> QED BY <3>6
  <2>7. pc = "role" => \A p \in Peer : nbrs[p].state \in TwoWay =>
                          (nbrs[p].state = "adj" <=> Wanted(j, p))
    <3> SUFFICES ASSUME pc = "role", NEW p \in Peer, nbrs[p].state \in TwoWay
                 PROVE  nbrs[p].state = "adj" <=> Wanted(j, p)
      OBVIOUS
    <3>1. PICK k \in D : j.neighbors[k] = p
      BY <2>5 DEF Good, Listed, TwoWay
    <3>2. \A l \in D : ~givesUp(l)
      BY <2>6
    <3>3. \A l \in 1 .. k - 1 : l \in D
      <4> HIDE DEF D, nbrs, pc
      <4> QED BY <3>1, <2>below
    <3>4. p \in joins
      <4> HIDE DEF givesUp
      <4>1. k \in reached /\ ~givesUp(k)
        BY <3>1, <3>2, <3>3
      <4> QED BY <3>1, <4>1
    <3>5. hangs = {}
      <4> HIDE DEF givesUp
      <4> QED BY <3>2
    <3>6. ~(j.nbr[p].state = "adj" /\ ~Wanted(j, p))
      BY <3>1, <3>2
    <3> HIDE DEF D, joins, hangs
    <3>7. nbrs[p].state = IF j.nbr[p].state = "2way" /\ Wanted(j, p)
                          THEN "adj" ELSE j.nbr[p].state
      <4> HIDE DEF nbrs
      <4> QED BY <2>3, <3>4, <3>5
    <3> HIDE DEF nbrs
    <3> QED BY <3>6, <3>7 DEF TwoWay
  <2> HIDE DEF nbrs, pc
  <2>8. Good(next)
    BY <2>2, <2>4, <2>5, <2>7 DEF Good, InterfaceRecord, Listed, Follows, Wanted
  <2> QED BY <2>1, <2>8
<1> QED BY <1>1, <1>2
-----------------------------------------------------------------------------
(* What a Hello of p may set: a state that agrees with the roles.          *)
Fits(j, p, s) ==
    /\ s \in {"init", "2way", "adj"}
    /\ s \in TwoWay => (s = "adj" <=> Wanted(j, p))

LEMMA BothWaysFits ==
    ASSUME NEW j, Good(j), j.rpc = "loop", NEW p \in Peer
    PROVE  Fits(j, p, BothWays(j, p))
BY DEF Good, Follows, BothWays, Fits, Wanted, TwoWay

LEMMA HeardGood ==
    ASSUME NEW j, Good(j), j.rpc = "loop", NEW p \in Peer, NEW m \in Hello(p),
           NEW s, Fits(j, p, s)
    PROVE  Good(Heard(j, p, m, s)) /\ Heard(j, p, m, s).rpc = "loop"
<1> DEFINE heard == [state |-> s, pri |-> m.pri, dr |-> m.dr, bdr |-> m.bdr]
           nbrs  == [j.nbr EXCEPT ![p] = heard]
           list  == IF p \in Range(j.neighbors) THEN j.neighbors
                    ELSE Append(j.neighbors, p)
           next  == [j EXCEPT !.neighbors = list, !.nbr = nbrs]
<1>1. Heard(j, p, m, s) = next
  BY DEF Heard, Good, InterfaceRecord
<1>2. heard \in NbrRecord
  BY InterfaceAssumption DEF Hello, Fits, NbrRecord, Ip
<1>3. nbrs \in [Peer -> NbrRecord]
  BY <1>2 DEF Good, InterfaceRecord
<1>4. \A q \in Peer : nbrs[q] = IF q = p THEN heard ELSE j.nbr[q]
  BY DEF Good, InterfaceRecord
<1>5. list \in Seq(Peer)
  BY DEF Good, InterfaceRecord
<1>6. /\ \A k \in DOMAIN j.neighbors :
            k \in DOMAIN list /\ list[k] = j.neighbors[k]
      /\ \E k \in DOMAIN list : list[k] = p
  <2> DEFINE s0 == j.neighbors
  <2>1. s0 \in Seq(Peer)
    BY DEF Good, InterfaceRecord
  <2> HIDE DEF s0
  <2>2. CASE p \in Range(s0)
    BY <2>1, <2>2 DEF Range, s0
  <2>3. CASE p \notin Range(s0)
    <3>1. list = Append(s0, p)
      BY <2>3 DEF s0
    <3>2. Len(s0) + 1 \in DOMAIN list /\ list[Len(s0) + 1] = p
      BY <2>1, <3>1
    <3>3. \A k \in DOMAIN s0 : k \in DOMAIN list /\ list[k] = s0[k]
      BY <2>1, <3>1
    <3> QED BY <3>2, <3>3 DEF s0
  <2> QED BY <2>2, <2>3
<1>7. \A q \in Peer : nbrs[q].state \in TwoWay =>
          (nbrs[q].state = "adj" <=> Wanted(j, q))
  BY <1>4 DEF Good, Follows, Wanted, Fits
<1>8. \A q \in Peer : nbrs[q].state # "down" =>
          \E k \in DOMAIN list : list[k] = q
  BY <1>4, <1>6 DEF Good, Listed
<1> HIDE DEF nbrs, list
<1>9. next \in InterfaceRecord
  BY <1>3, <1>5 DEF Good, InterfaceRecord
<1>10. /\ next.nbr = nbrs /\ next.neighbors = list /\ next.ip = j.ip
       /\ SameRoles(j, next) /\ next.rpc = "loop"
  BY DEF Good, InterfaceRecord, SameRoles
<1> HIDE DEF next
<1>11. Listed(next)
  BY <1>8, <1>10 DEF Listed
<1>12. Follows(next, next.dr, next.bdr)
  BY <1>7, <1>10 DEF Follows, Wanted, SameRoles
<1>13. Good(next)
  BY <1>9, <1>10, <1>11, <1>12 DEF Good
<1> QED BY <1>1, <1>10, <1>13

LEMMA Hello1WayGood ==
    ASSUME NEW j, Good(j), j.rpc = "loop", NEW p \in Peer, NEW m \in Hello(p)
    PROVE  Good(Hello1Way(j, p, m))
<1> DEFINE h == Heard(j, p, m, "init")
<1>1. Good(h) /\ h.rpc = "loop"
  BY HeardGood DEF Fits, TwoWay
<1>2. Hello1Way(j, p, m) = IF j.nbr[p].state \in TwoWay
                           THEN [h EXCEPT !.rpc = "hung"] ELSE h
  <2> HIDE DEF h
  <2>1. [h EXCEPT !.rpc = h.rpc] = h
    BY <1>1 DEF Good, InterfaceRecord
  <2>2. Hello1Way(j, p, m) =
          [h EXCEPT !.rpc = IF j.nbr[p].state \in TwoWay THEN "hung" ELSE h.rpc]
    BY DEF Hello1Way, h
  <2> QED BY <2>1, <2>2
<1> HIDE DEF h
<1> QED BY <1>1, <1>2, StopGood

LEMMA Hello2WayGood ==
    ASSUME NEW j, Good(j), j.rpc = "loop", NEW p \in Peer, NEW m \in Hello(p)
    PROVE  Good(Hello2Way(j, p, m))
<1> DEFINE h == Heard(j, p, m, BothWays(j, p))
<1>1. Good(h) /\ h.rpc = "loop"
  BY HeardGood, BothWaysFits
<1> HIDE DEF h
<1>2. Hello2Way(j, p, m) \in {StartElection(h, "backup"), NeighborChange(h), h}
  BY DEF Hello2Way, h
<1> QED BY <1>1, <1>2, StartElectionGood, NeighborChangeGood

(* A neighbour's state alone is set. *)
SetState(j, p, s) == [j EXCEPT !.nbr[p].state = s]

LEMMA SetStateGood ==
    ASSUME NEW j, Good(j), j.rpc = "loop", NEW p \in Peer, NEW s,
           s = "down" \/ (Fits(j, p, s) /\ j.nbr[p].state # "down")
    PROVE  Good(SetState(j, p, s))
<1> DEFINE nbrs == [j.nbr EXCEPT ![p].state = s]
           next == [j EXCEPT !.nbr = nbrs]
<1>1. SetState(j, p, s) = next
  BY DEF Good, InterfaceRecord, SetState
<1>2. nbrs \in [Peer -> NbrRecord]
  BY DEF Good, InterfaceRecord, NbrRecord, Fits
<1>3. \A q \in Peer : nbrs[q].state = IF q = p THEN s ELSE j.nbr[q].state
  BY DEF Good, InterfaceRecord, NbrRecord
<1>4. \A q \in Peer : nbrs[q].state \in TwoWay =>
          (nbrs[q].state = "adj" <=> Wanted(j, q))
  BY <1>3 DEF Good, Follows, Wanted, Fits, TwoWay
<1>5. \A q \in Peer : nbrs[q].state # "down" => j.nbr[q].state # "down"
  BY <1>3
<1> HIDE DEF nbrs
<1>6. Good(next)
  BY <1>2, <1>4, <1>5 DEF Good, InterfaceRecord, Listed, Follows, Wanted
<1> QED BY <1>1, <1>6

LEMMA InactivityGood ==
    ASSUME NEW j, Good(j), j.rpc = "loop", NEW p \in Peer
    PROVE  Good(Inactivity(j, p))
<1> DEFINE d == [j EXCEPT !.nbr[p].state = "down"]
<1>1. Good(d)
  <2>1. Good(SetState(j, p, "down"))
    BY SetStateGood
  <2> QED BY <2>1 DEF SetState
<1>2. d.rpc = "loop"
  BY DEF Good, InterfaceRecord
<1> HIDE DEF d
<1>3. Inactivity(j, p) = NeighborChange(d)
  BY DEF Inactivity, d
<1> QED BY <1>1, <1>2, <1>3, NeighborChangeGood
-----------------------------------------------------------------------------
LEMMA StepGood == IInv /\ [Next]_i => IInv'
<1> SUFFICES ASSUME Good(i), [Next]_i PROVE Good(i')
  BY DEF IInv, Good, InterfaceRecord, Listed, Follows
<1>1. CASE UNCHANGED i
  BY <1>1
<1>2. CASE InterfaceUp
  BY <1>2, UpGood DEF InterfaceUp
<1>3. CASE TimerFires
  BY <1>3, TimeoutGood DEF TimerFires
<1>4. CASE Resume
  BY <1>4, ElectionPassGood, AdjOkGood, SetRoleGood DEF Resume, Electing, GoOn
<1>5. CASE WaitOver
  BY <1>5, StartElectionGood DEF WaitOver, WaitExpired, WaitTimer
<1>6. ASSUME NEW p \in Peer, InactivityTimer(p) PROVE Good(i')
  BY <1>6, InactivityGood DEF InactivityTimer, Idle
<1>7. ASSUME NEW p \in Peer, RecvHello1Way(p) PROVE Good(i')
  BY <1>7, Hello1WayGood DEF RecvHello1Way, Idle
<1>8. ASSUME NEW p \in Peer, RecvHello2Way(p) PROVE Good(i')
  BY <1>8, Hello2WayGood DEF RecvHello2Way, Idle
<1>9. ASSUME NEW p \in Peer, RecvDDInInit(p) PROVE Good(i')
  BY <1>9, SetStateGood, BothWaysFits DEF RecvDDInInit, DDInInit, SetState, Idle
<1>10. ASSUME NEW p \in Peer, RecvFromUnknown(p) PROVE Good(i')
  BY <1>10, StopGood DEF RecvFromUnknown
<1>11. ASSUME NEW p \in Peer, AdjacencyError(p) PROVE Good(i')
  BY <1>11, StopGood DEF AdjacencyError
<1> QED
  BY <1>1, <1>2, <1>3, <1>4, <1>5, <1>6, <1>7, <1>8, <1>9, <1>10, <1>11 DEF Next

(* Between two events of the receive thread exactly the neighbours that    *)
(* the DR and the Backup call for are adjacent, however often the roles    *)
(* moved and whoever joined, left or came back.                            *)
THEOREM AdjacencyFollows == Spec => []AdjacentIffWanted
<1>1. IInv => AdjacentIffWanted
  BY DEF IInv, Good, Follows, AdjacentIffWanted, Wanted
<1> QED BY <1>1, InitGood, StepGood, PTL DEF Spec
-----------------------------------------------------------------------------
(* The roles: who may hold them at each point of an election. *)

(* Between events a role is one the state shows, and none before the first *)
(* election; when the passes end, at most one of the roles is ours.        *)
RolesShow(j) ==
    /\ j.rpc = "loop" =>
         IF j.state \in Elected
         THEN /\ ~(j.dr = MyIp /\ j.bdr = MyIp)
              /\ j.state = "DR" <=> j.dr = MyIp
              /\ j.state = "BACKUP" <=> j.bdr = MyIp
         ELSE j.dr = NoIp /\ j.bdr = NoIp
    /\ j.rpc \in {"adj", "role"} => ~(j.dr = MyIp /\ j.bdr = MyIp)

(* Nothing was received before the interface came up. *)
Unheard(j) == j.state = "DOWN" => \A p \in Peer : j.nbr[p].state = "down"

(* Whoever holds a role was eligible when the passes ended, and still is.  *)
RolesEligible(j) ==
    j.rpc \in {"loop", "adj", "role"} =>
        \A p \in Peer : p = j.dr \/ p = j.bdr => Eligible(j, p)

(* The router is kept out of the Backup scan only as the DR that the pass  *)
(* before has made it, nobody else claiming the role.                      *)
KeptOut(j) ==
    j.rpc = "elect" =>
        /\ j.no_bdr => /\ j.dr = MyIp
                       /\ \A p \in Peer : Eligible(j, p) => j.nbr[p].dr # p
        /\ ~j.no_bdr /\ j.dr = MyIp => j.old.dr = MyIp

(* The last pass chose what one more pass would choose. *)
Settled(j) ==
    j.rpc \in {"adj", "role"} /\ MyPriority # 0 =>
        (j.old.dr = MyIp /\ j.dr # MyIp) \/ Chosen(j, FALSE, j.dr, j.bdr)

NotCrashed(j) == MyPriority # 0 => j.rpc # "crashed"

Sound(j) ==
    /\ RolesShow(j) /\ Unheard(j) /\ RolesEligible(j)
    /\ KeptOut(j) /\ Settled(j) /\ NotCrashed(j)

Inv == Good(i) /\ Sound(i)

(* The election sees no difference between j and k. *)
SameVote(j, k) ==
    /\ k.dr = j.dr /\ k.bdr = j.bdr
    /\ \A p \in Peer :
         /\ Eligible(k, p) <=> Eligible(j, p)
         /\ Eligible(j, p) => /\ k.nbr[p].pri = j.nbr[p].pri
                              /\ k.nbr[p].dr = p <=> j.nbr[p].dr = p
                              /\ k.nbr[p].bdr = p <=> j.nbr[p].bdr = p

(* The election depends on its own roles, and on the eligibility, the      *)
(* priorities and the claims of the neighbours, and on nothing else.       *)
LEMMA SameVoteSameChoice ==
    ASSUME NEW j, NEW k, SameVote(j, k), NEW n, NEW d, NEW b
    PROVE  Chosen(j, n, d, b) <=> Chosen(k, n, d, b)
<1>1. \A q \in Router : Stands(k, q) <=> Stands(j, q)
  BY DEF SameVote, Stands, Router
<1>2. \A q \in Router : Stands(j, q) => /\ Pri(k, q) = Pri(j, q)
                                        /\ SaysDr(k, q) <=> SaysDr(j, q)
                                        /\ SaysBdr(k, q) <=> SaysBdr(j, q)
  BY DEF SameVote, Stands, Router, Pri, SaysDr, SaysBdr
<1>3. \A q, r \in Router : Stands(j, q) /\ Stands(j, r) =>
        /\ Above(k, q, r) <=> Above(j, q, r)
        /\ AboveForBdr(k, q, r) <=> AboveForBdr(j, q, r)
  BY <1>2 DEF Above, AboveForBdr
<1>4. ForBdr(k, n) = ForBdr(j, n) /\ ForDr(k) = ForDr(j)
  BY <1>1, <1>2 DEF ForBdr, ForDr
<1>5. \A q \in ForBdr(j, n) \cup ForDr(j) : q \in Router /\ Stands(j, q)
  BY DEF ForBdr, ForDr
<1> QED BY <1>3, <1>4, <1>5 DEF Chosen, ChosenBdr

LEMMA OneChoice ==
    ASSUME NEW j, Heeded(j), NEW n, NEW d, NEW b, Chosen(j, n, d, b),
           NEW dd, NEW bb, Chosen(j, n, dd, bb)
    PROVE  dd = d /\ bb = b
<1>1. \A q \in Router : Pri(j, q) \in Nat /\ Id[q] \in Nat
  <2>1. \A p \in Peer : j.nbr[p] \in NbrRecord
    BY DEF Heeded, InterfaceRecord
  <2>2. \A p \in Peer : j.nbr[p].pri \in Priority \cup {0}
    BY <2>1 DEF NbrRecord
  <2>3. \A q \in Router : Pri(j, q) \in Nat
    <3>1. Priority \cup {0} \subseteq Nat /\ MyPriority \in Nat
      BY InterfaceAssumption
    <3>2. \A p \in Peer : j.nbr[p].pri \in Nat
      BY <2>2, <3>1
    <3> QED BY <3>1, <3>2 DEF Pri, Router
  <2>4. \A q \in Router : Id[q] \in Nat
    BY InterfaceAssumption DEF Router
  <2> QED BY <2>3, <2>4
<1>2. \A q, r \in Router : ~ (Above(j, q, r) /\ Above(j, r, q))
  BY <1>1 DEF Above
<1>3. \A q, r \in Router : ~ (AboveForBdr(j, q, r) /\ AboveForBdr(j, r, q))
  BY <1>2 DEF AboveForBdr
<1>4. ForBdr(j, n) \subseteq Router /\ ForDr(j) \subseteq Router
  BY DEF ForBdr, ForDr
<1> QED BY <1>2, <1>3, <1>4 DEF Chosen, ChosenBdr

(* Again, of any interface. *)
Choice(j) == LET e == Elect(Self(j), Candidates(j), FALSE)
             IN  [dr |-> e.dr.ip, bdr |-> e.bdr.ip]

LEMMA ChoiceIsChosen ==
    ASSUME NEW j, Heeded(j)
    PROVE  /\ Chosen(j, FALSE, Choice(j).dr, Choice(j).bdr)
           /\ \A d, b : Chosen(j, FALSE, d, b) => Choice(j) = [dr |-> d, bdr |-> b]
<1>1. Chosen(j, FALSE, Choice(j).dr, Choice(j).bdr)
  BY ElectChooses DEF Choice
<1>2. ASSUME NEW d, NEW b, Chosen(j, FALSE, d, b)
      PROVE  Choice(j).dr = d /\ Choice(j).bdr = b
  BY <1>1, <1>2, OneChoice
<1>3. Choice(j) = [dr |-> Choice(j).dr, bdr |-> Choice(j).bdr]
  BY DEF Choice
<1> HIDE DEF Choice
<1> QED BY <1>1, <1>2, <1>3

LEMMA SameVoteSameAgain ==
    ASSUME NEW j, Heeded(j), NEW k, Heeded(k), SameVote(j, k)
    PROVE  Choice(k) = Choice(j)
<1>1. Chosen(k, FALSE, Choice(j).dr, Choice(j).bdr)
  BY ChoiceIsChosen, SameVoteSameChoice
<1>2. Choice(k) = [dr |-> Choice(j).dr, bdr |-> Choice(j).bdr]
  BY <1>1, ChoiceIsChosen
<1> QED BY <1>2 DEF Choice

LEMMA InitSound == Init => Inv
<1> SUFFICES ASSUME Init PROVE Sound(i)
  BY InitGood DEF IInv, Inv
<1> QED
  BY InterfaceAssumption DEF Init, NewInterface, NewNeighbor, NoRoles, Sound, RolesShow, Unheard,
     RolesEligible, KeptOut, Settled, NotCrashed, Elected

(* One pass of call_election. *)
LEMMA ElectionPassSound ==
    ASSUME NEW j, Good(j), Sound(j), j.rpc = "elect"
    PROVE  Sound(ElectionPass(j))
<1> DEFINE e == Elect(Self(j), Candidates(j), j.no_bdr)
           d == e.dr.ip
           b == e.bdr.ip
           newDr  == d = MyIp /\ j.dr # MyIp
           newBdr == b = MyIp /\ j.bdr # MyIp
           n  == newDr \/ (j.no_bdr /\ ~newBdr)
           pc == IF newDr \/ newBdr THEN "elect" ELSE "adj"
           next == [j EXCEPT !.dr = d, !.bdr = b, !.no_bdr = n, !.rpc = pc]
<1>1. j \in InterfaceRecord /\ j.ip = MyIp /\ j.no_bdr \in BOOLEAN
  BY DEF Good, InterfaceRecord
<1>2. ElectionPass(j) = IF e.dr = Nobody THEN [j EXCEPT !.rpc = "crashed"] ELSE next
  BY <1>1 DEF ElectionPass, NewDr, NewBdr
<1>3. /\ Chosen(j, j.no_bdr, d, b) /\ (e.dr = Nobody <=> d = NoIp)
      /\ {d, b} \subseteq Router \cup {NoIp}
  BY <1>1, ElectChooses DEF Good, Heeded
<1>4. MyIp # NoIp /\ MyIp \notin Peer /\ NoIp \notin Router
  BY InterfaceAssumption DEF Router
<1> HIDE DEF e
<1>5. KeptOut(j) /\ Unheard(j)
  BY DEF Sound
<1>6. MyPriority # 0 => e.dr # Nobody
  <2>1. MyPriority # 0 => IF j.dr = MyIp THEN MyIp \in ForDr(j)
                          ELSE MyIp \in ForBdr(j, j.no_bdr)
    BY <1>5 DEF KeptOut, ForDr, ForBdr, Router, Stands, SaysDr
  <2>2. MyPriority # 0 => d # NoIp
    BY <1>3, <1>4, <2>1 DEF Chosen, ChosenBdr, ForDr, ForBdr
  <2> QED BY <1>3, <2>2
<1>7. /\ \A q \in ForDr(j) : q \in Router /\ Stands(j, q) /\ SaysDr(j, q)
      /\ \A q \in ForBdr(j, j.no_bdr) :
            /\ q \in Router /\ Stands(j, q) /\ ~SaysDr(j, q)
            /\ ~(j.no_bdr /\ q = MyIp)
  BY DEF ForDr, ForBdr
<1>8. /\ b = NoIp \/ b \in ForBdr(j, j.no_bdr)
      /\ d = NoIp \/ d \in ForDr(j) \/ (d \in ForBdr(j, j.no_bdr) /\ ForDr(j) = {} /\ d = b)
  BY <1>3 DEF Chosen, ChosenBdr
<1>9. /\ next.rpc = pc /\ next.dr = d /\ next.bdr = b /\ next.no_bdr = n
      /\ next.old = j.old /\ next.nbr = j.nbr /\ next.state = j.state
  BY <1>1 DEF InterfaceRecord
<1> HIDE DEF d, b, n, pc, newDr, newBdr, next
<1>10. \A p \in Peer : Eligible(next, p) <=> Eligible(j, p)
  BY <1>9 DEF Eligible
<1>11. pc = "elect" <=> newDr \/ newBdr
  BY DEF pc
<1>12. RolesShow(next)
  <2>1. pc = "adj" => ~(d = MyIp /\ b = MyIp)
    <3> SUFFICES ASSUME pc = "adj", d = MyIp, b = MyIp PROVE FALSE
      OBVIOUS
    <3>1. j.dr = MyIp
      BY <1>11 DEF newDr, pc
    <3>2. ~SaysDr(j, MyIp)
      BY <1>4, <1>7, <1>8
    <3> QED BY <3>1, <3>2 DEF SaysDr
  <2>2. pc \in {"adj", "elect"}
    BY DEF pc
  <2> QED BY <1>9, <2>1, <2>2 DEF RolesShow
<1>13. Unheard(next)
  BY <1>5, <1>9 DEF Unheard
<1>14. RolesEligible(next)
  <2> SUFFICES ASSUME NEW p \in Peer, p = d \/ p = b PROVE Eligible(j, p)
    BY <1>9, <1>10 DEF RolesEligible
  <2>1. Stands(j, p)
    BY <1>4, <1>7, <1>8 DEF Router
  <2> QED BY <1>4, <2>1 DEF Stands
<1>15. newDr => \A p \in Peer : Eligible(j, p) => j.nbr[p].dr # p
  <2> SUFFICES ASSUME newDr PROVE ForDr(j) = {}
    BY <1>4 DEF ForDr, Router, Stands, SaysDr
  <2>1. ~SaysDr(j, MyIp) /\ d = MyIp
    BY DEF SaysDr, newDr
  <2> QED BY <1>4, <1>7, <1>8, <2>1
<1>16. j.no_bdr => ~newDr /\ ~newBdr
  <2>1. j.no_bdr => j.dr = MyIp /\ b # MyIp
    BY <1>4, <1>5, <1>7, <1>8, <1>1 DEF KeptOut
  <2> QED BY <2>1 DEF newDr, newBdr
<1>17. newBdr /\ ~newDr => d # MyIp
  BY <1>4, <1>7, <1>8 DEF newBdr, newDr, SaysDr
<1>18. KeptOut(next)
  BY <1>9, <1>10, <1>11, <1>15, <1>16, <1>17 DEF KeptOut, n, newDr
<1>19. Settled(next)
  <2> SUFFICES ASSUME pc = "adj", MyPriority # 0
               PROVE  (j.old.dr = MyIp /\ d # MyIp) \/ Chosen(next, FALSE, d, b)
    BY <1>9, <1>11 DEF Settled, pc
  <2>1. (d = MyIp => j.dr = MyIp) /\ (b = MyIp => j.bdr = MyIp)
    BY <1>11 DEF newDr, newBdr, pc
  <2>2. \A q \in Router :
          /\ Stands(next, q) <=> Stands(j, q)
          /\ Pri(next, q) = Pri(j, q)
          /\ q # MyIp => /\ SaysDr(next, q) <=> SaysDr(j, q)
                         /\ SaysBdr(next, q) <=> SaysBdr(j, q)
    BY <1>9, <1>10 DEF Router, Stands, Pri, SaysDr, SaysBdr
  <2>3. \A q, r \in Router : Above(next, q, r) <=> Above(j, q, r)
    BY <2>2 DEF Above
  <2>4. Stands(j, MyIp) /\ MyIp \in Router
    BY DEF Stands, Router
  <2>5. /\ SaysDr(j, MyIp) <=> j.dr = MyIp
        /\ SaysDr(next, MyIp) <=> d = MyIp
        /\ SaysBdr(j, MyIp) <=> j.bdr = MyIp
        /\ SaysBdr(next, MyIp) <=> b = MyIp
    BY <1>9 DEF SaysDr, SaysBdr
  <2>6. CASE j.dr = MyIp /\ d # MyIp
    <3>1. ~j.no_bdr
      <4> SUFFICES ASSUME j.no_bdr PROVE FALSE
        OBVIOUS
      <4>1. \A p \in Peer : Eligible(j, p) => j.nbr[p].dr # p
        BY <1>1, <1>5 DEF KeptOut
      <4>2. ForDr(j) = {MyIp}
        BY <2>4, <2>5, <2>6, <4>1 DEF ForDr, Router, Stands, SaysDr
      <4> QED BY <2>6, <4>2, <1>3 DEF Chosen
    <3> QED BY <1>5, <2>6, <3>1 DEF KeptOut
  <2>7. CASE j.dr = MyIp /\ d = MyIp
    <3>1. ForDr(next) = ForDr(j)
      BY <2>2, <2>5, <2>7 DEF ForDr
    <3>2. ForBdr(next, FALSE) = ForBdr(j, j.no_bdr)
      BY <2>2, <2>5, <2>7 DEF ForBdr
    <3>3. MyIp \notin ForBdr(j, j.no_bdr)
      BY <2>5, <2>7 DEF ForBdr
    <3>4. \A q, r \in ForBdr(j, j.no_bdr) : AboveForBdr(next, q, r) <=> AboveForBdr(j, q, r)
      BY <1>7, <2>2, <2>3, <3>3 DEF AboveForBdr
    <3> QED BY <1>3, <1>7, <2>3, <3>1, <3>2, <3>4 DEF Chosen, ChosenBdr
  <2>8. CASE j.dr # MyIp
    <3>1. ~j.no_bdr /\ d # MyIp
      BY <1>5, <2>1, <2>8 DEF KeptOut
    <3>2. ForDr(next) = ForDr(j)
      BY <2>2, <2>5, <2>8, <3>1 DEF ForDr
    <3>3. ForBdr(next, FALSE) = ForBdr(j, j.no_bdr)
      BY <2>2, <2>5, <2>8, <3>1 DEF ForBdr
    <3>4. \A q \in ForBdr(j, j.no_bdr) : AboveForBdr(j, b, q) => AboveForBdr(next, b, q)
      <4> SUFFICES ASSUME NEW q \in ForBdr(j, j.no_bdr), AboveForBdr(j, b, q)
                   PROVE  AboveForBdr(next, b, q)
        OBVIOUS
      <4>1. b \in Router /\ q \in Router
        BY <1>3, <1>7 DEF Chosen, ChosenBdr
      <4>2. CASE b = MyIp
        BY <2>1, <2>2, <2>3, <2>5, <4>1, <4>2 DEF AboveForBdr
      <4>3. CASE b # MyIp
        BY <2>2, <2>3, <2>5, <4>1, <4>3 DEF AboveForBdr
      <4> QED BY <4>2, <4>3
    <3> QED BY <1>3, <1>7, <2>3, <3>2, <3>3, <3>4 DEF Chosen, ChosenBdr
  <2> QED BY <2>6, <2>7, <2>8
<1>20. NotCrashed(next)
  BY <1>9 DEF NotCrashed, pc
<1>21. Sound(next)
  BY <1>12, <1>13, <1>14, <1>18, <1>19, <1>20 DEF Sound
<1>22. e.dr = Nobody => Sound([j EXCEPT !.rpc = "crashed"])
  BY <1>1, <1>5, <1>6 DEF Sound, RolesShow, Unheard, RolesEligible, KeptOut, Settled,
     NotCrashed, InterfaceRecord
<1> QED BY <1>2, <1>21, <1>22 DEF next

(* Nothing but the thread's own place, or a timer, has changed. *)
LEMMA SameRolesSound ==
    ASSUME NEW j, Sound(j), NEW k,
           k.dr = j.dr, k.bdr = j.bdr, k.state = j.state, k.no_bdr = j.no_bdr,
           k.old = j.old, k.nbr = j.nbr,
           k.rpc = j.rpc \/ k.rpc \in {"hung", "aborted"}
    PROVE  Sound(k)
<1>1. \A p \in Peer : Eligible(k, p) <=> Eligible(j, p)
  BY DEF Eligible
<1>2. Chosen(k, FALSE, j.dr, j.bdr) <=> Chosen(j, FALSE, j.dr, j.bdr)
  BY <1>1, SameVoteSameChoice DEF SameVote
<1>3. RolesShow(k)
  BY <1>1, <1>2 DEF Sound, RolesShow
<1>4. Unheard(k)
  BY <1>1, <1>2 DEF Sound, Unheard
<1>5. RolesEligible(k)
  BY <1>1, <1>2 DEF Sound, RolesEligible
<1>6. KeptOut(k)
  BY <1>1, <1>2 DEF Sound, KeptOut
<1>7. Settled(k)
  BY <1>1, <1>2 DEF Sound, Settled
<1>8. NotCrashed(k)
  BY <1>1, <1>2 DEF Sound, NotCrashed
<1> QED BY <1>3, <1>4, <1>5, <1>6, <1>7, <1>8 DEF Sound

LEMMA AdjOkSound ==
    ASSUME NEW j, Good(j), Sound(j), j.rpc = "adj"
    PROVE  Sound(AdjOk(j))
<1> DEFINE k == AdjOk(j)
<1>1. /\ k.dr = j.dr /\ k.bdr = j.bdr /\ k.old = j.old /\ k.state = j.state
      /\ k.rpc \in {"hung", "role"}
  BY DEF Good, InterfaceRecord, AdjOk
<1>2. \A p \in Peer :
        /\ k.nbr[p].pri = j.nbr[p].pri /\ k.nbr[p].dr = j.nbr[p].dr
        /\ k.nbr[p].bdr = j.nbr[p].bdr
        /\ k.nbr[p].state \in TwoWay <=> j.nbr[p].state \in TwoWay
        /\ k.nbr[p].state = "down" <=> j.nbr[p].state = "down"
  <2> DEFINE givesUp(l) == /\ j.nbr[j.neighbors[l]].state = "adj"
                           /\ ~Wanted(j, j.neighbors[l])
             reached == {l \in DOMAIN j.neighbors : \A a \in 1 .. l - 1 : ~givesUp(a)}
             joins == {j.neighbors[l] : l \in {a \in reached : ~givesUp(a)}}
             hangs == {j.neighbors[l] : l \in {a \in reached : givesUp(a)}}
             stt(p) == IF p \in joins /\ j.nbr[p].state = "2way" /\ Wanted(j, p)
                       THEN "adj"
                       ELSE IF p \in hangs THEN "2way" ELSE j.nbr[p].state
  <2>1. \A p \in hangs : j.nbr[p].state = "adj"
    OBVIOUS
  <2>2. j \in InterfaceRecord /\ \A p \in Peer : j.nbr[p] \in NbrRecord
    BY DEF Good, InterfaceRecord
  <2>3. k.nbr = IF RolesChanged(j)
                THEN [p \in Peer |-> [j.nbr[p] EXCEPT !.state = stt(p)]] ELSE j.nbr
    BY <2>2 DEF InterfaceRecord, AdjOk
  <2> HIDE DEF joins, hangs, k
  <2>4. ASSUME NEW p \in Peer
        PROVE  /\ stt(p) \in TwoWay <=> j.nbr[p].state \in TwoWay
               /\ stt(p) = "down" <=> j.nbr[p].state = "down"
    BY <2>1 DEF TwoWay
  <2> HIDE DEF stt
  <2>5. \A p \in Peer : RolesChanged(j) => k.nbr[p] = [j.nbr[p] EXCEPT !.state = stt(p)]
    BY <2>3
  <2>6. \A p \in Peer : ~RolesChanged(j) => k.nbr[p] = j.nbr[p]
    BY <2>3
  <2>7. CASE RolesChanged(j)
    <3>1. ASSUME NEW p \in Peer
          PROVE  /\ k.nbr[p].pri = j.nbr[p].pri /\ k.nbr[p].dr = j.nbr[p].dr
                 /\ k.nbr[p].bdr = j.nbr[p].bdr /\ k.nbr[p].state = stt(p)
      <4> DEFINE old == j.nbr[p]
      <4>1. old \in NbrRecord /\ k.nbr[p] = [old EXCEPT !.state = stt(p)]
        BY <2>2, <2>5, <2>7
      <4> HIDE DEF old
      <4> QED BY <4>1 DEF NbrRecord, old
    <3> QED BY <2>4, <3>1
  <2>8. CASE ~RolesChanged(j)
    BY <2>6, <2>8
  <2> QED BY <2>7, <2>8
<1> HIDE DEF k
<1>3. \A p \in Peer : Eligible(k, p) <=> Eligible(j, p)
  BY <1>2 DEF Eligible
<1>4. Chosen(k, FALSE, j.dr, j.bdr) <=> Chosen(j, FALSE, j.dr, j.bdr)
  BY <1>1, <1>2, <1>3, SameVoteSameChoice DEF SameVote
<1>5. Sound(k)
  <2>1. RolesShow(k)
    BY <1>1, <1>2, <1>3, <1>4 DEF Sound, RolesShow
  <2>2. Unheard(k)
    BY <1>1, <1>2, <1>3, <1>4 DEF Sound, Unheard
  <2>3. RolesEligible(k)
    BY <1>1, <1>2, <1>3, <1>4 DEF Sound, RolesEligible
  <2>4. KeptOut(k)
    BY <1>1, <1>2, <1>3, <1>4 DEF Sound, KeptOut
  <2>5. Settled(k)
    BY <1>1, <1>2, <1>3, <1>4 DEF Sound, Settled
  <2>6. NotCrashed(k)
    BY <1>1, <1>2, <1>3, <1>4 DEF Sound, NotCrashed
  <2> QED BY <2>1, <2>2, <2>3, <2>4, <2>5, <2>6 DEF Sound
<1> QED BY <1>5 DEF k

LEMMA SetRoleSound ==
    ASSUME NEW j, Good(j), Sound(j), j.rpc = "role"
    PROVE  Sound(SetRole(j))
<1> DEFINE k == SetRole(j)
<1>1. /\ k.dr = j.dr /\ k.bdr = j.bdr /\ k.nbr = j.nbr /\ k.rpc = "loop"
      /\ k.state = IF j.dr = MyIp THEN "DR"
                   ELSE IF j.bdr = MyIp THEN "BACKUP" ELSE "DROTHER"
  BY DEF Good, InterfaceRecord, SetRole
<1> HIDE DEF k
<1>2. \A p \in Peer : Eligible(k, p) <=> Eligible(j, p)
  BY <1>1 DEF Eligible
<1>3. Sound(k)
  <2>1. RolesShow(k)
    BY <1>1, <1>2 DEF Sound, RolesShow, Elected
  <2>2. Unheard(k)
    BY <1>1, <1>2 DEF Sound, Unheard
  <2>3. RolesEligible(k)
    BY <1>1, <1>2 DEF Sound, RolesEligible
  <2>4. KeptOut(k)
    BY <1>1, <1>2 DEF Sound, KeptOut
  <2>5. Settled(k)
    BY <1>1, <1>2 DEF Sound, Settled
  <2>6. NotCrashed(k)
    BY <1>1, <1>2 DEF Sound, NotCrashed
  <2> QED BY <2>1, <2>2, <2>3, <2>4, <2>5, <2>6 DEF Sound
<1> QED BY <1>3 DEF k

LEMMA UpSound ==
    ASSUME NEW j, Good(j), Sound(j), j.state = "DOWN"
    PROVE  Sound(Up(j))
<1> DEFINE k == Up(j)
<1>1. /\ k.dr = j.dr /\ k.bdr = j.bdr /\ k.nbr = j.nbr /\ k.rpc = j.rpc
      /\ k.no_bdr = j.no_bdr /\ k.old = j.old /\ k.state \in {"WAITING", "DROTHER"}
  BY DEF Good, InterfaceRecord, Up
<1> HIDE DEF k
<1>2. \A p \in Peer : Eligible(k, p) <=> Eligible(j, p)
  BY <1>1 DEF Eligible
<1>3. Chosen(k, FALSE, j.dr, j.bdr) <=> Chosen(j, FALSE, j.dr, j.bdr)
  BY <1>1, <1>2, SameVoteSameChoice DEF SameVote
<1>4. MyIp # NoIp
  BY InterfaceAssumption
<1>5. Sound(k)
  <2>1. RolesShow(k)
    BY <1>1, <1>2, <1>3, <1>4 DEF Sound, RolesShow, Elected
  <2>2. Unheard(k)
    BY <1>1, <1>2, <1>3, <1>4 DEF Sound, Unheard
  <2>3. RolesEligible(k)
    BY <1>1, <1>2, <1>3, <1>4 DEF Sound, RolesEligible
  <2>4. KeptOut(k)
    BY <1>1, <1>2, <1>3, <1>4 DEF Sound, KeptOut
  <2>5. Settled(k)
    BY <1>1, <1>2, <1>3, <1>4 DEF Sound, Settled
  <2>6. NotCrashed(k)
    BY <1>1, <1>2, <1>3, <1>4 DEF Sound, NotCrashed
  <2> QED BY <2>1, <2>2, <2>3, <2>4, <2>5, <2>6 DEF Sound
<1> QED BY <1>5 DEF k

(* What the last election needed is still so: no need of another. *)
LEMMA StillSound ==
    ASSUME NEW j, Sound(j), j.rpc = "loop", j.state # "DOWN", NEW k,
           k.dr = j.dr, k.bdr = j.bdr, k.state = j.state, k.rpc \in {"loop", "hung"},
           k.rpc = "loop" /\ j.state \in Elected =>
               \A p \in Peer : Eligible(j, p) => Eligible(k, p)
    PROVE  Sound(k)
<1>1. \A p \in Peer : p = j.dr \/ p = j.bdr => Eligible(j, p) /\ j.state \in Elected
  BY InterfaceAssumption DEF Sound, RolesShow, RolesEligible
<1>3. RolesShow(k)
  BY <1>1 DEF Sound, RolesShow
<1>4. Unheard(k)
  BY <1>1 DEF Sound, Unheard
<1>5. RolesEligible(k)
  BY <1>1 DEF Sound, RolesEligible
<1>6. KeptOut(k)
  BY <1>1 DEF Sound, KeptOut
<1>7. Settled(k)
  BY <1>1 DEF Sound, Settled
<1>8. NotCrashed(k)
  BY <1>1 DEF Sound, NotCrashed
<1> QED BY <1>3, <1>4, <1>5, <1>6, <1>7, <1>8 DEF Sound

LEMMA StartElectionSound ==
    ASSUME NEW j, Good(j), j.state # "DOWN", NEW c
    PROVE  Sound(StartElection(j, c))
<1> DEFINE k == StartElection(j, c)
<1>1. /\ k.dr = j.dr /\ k.state = j.state /\ k.no_bdr = FALSE /\ k.old.dr = j.dr
      /\ k.rpc = "elect"
  BY DEF Good, InterfaceRecord, StartElection
<1> HIDE DEF k
<1>2. Sound(k)
  BY <1>1 DEF Sound, RolesShow, Unheard, RolesEligible, KeptOut, Settled, NotCrashed
<1> QED BY <1>2 DEF k

LEMMA HeardFields ==
    ASSUME NEW j, Good(j), NEW p \in Peer, NEW m \in Hello(p), NEW s
    PROVE  LET h == Heard(j, p, m, s)
           IN  /\ h.dr = j.dr /\ h.bdr = j.bdr /\ h.state = j.state /\ h.rpc = j.rpc
               /\ h.nbr[p] = [state |-> s, pri |-> m.pri, dr |-> m.dr, bdr |-> m.bdr]
               /\ \A q \in Peer \ {p} : h.nbr[q] = j.nbr[q]
BY DEF Good, InterfaceRecord, Heard

LEMMA Hello1WaySound ==
    ASSUME NEW j, Good(j), Sound(j), Idle(j), NEW p \in Peer, NEW m \in Hello(p)
    PROVE  Sound(Hello1Way(j, p, m))
<1> DEFINE h == Heard(j, p, m, "init")
           k == Hello1Way(j, p, m)
<1>1. j.rpc = "loop" /\ j.state # "DOWN"
  BY DEF Idle
<1>2. /\ h.nbr[p] = [state |-> "init", pri |-> m.pri, dr |-> m.dr, bdr |-> m.bdr]
      /\ h.dr = j.dr /\ h.bdr = j.bdr /\ h.state = j.state /\ h.rpc = j.rpc
      /\ \A q \in Peer \ {p} : h.nbr[q] = j.nbr[q]
  BY HeardFields
<1>3. Good(h)
  BY <1>1, HeardGood DEF Fits, TwoWay
<1> HIDE DEF h
<1>4. /\ k.dr = h.dr /\ k.bdr = h.bdr /\ k.state = h.state /\ k.nbr = h.nbr
      /\ k.rpc = IF j.nbr[p].state \in TwoWay THEN "hung" ELSE h.rpc
  BY <1>3 DEF Hello1Way, h, Good, InterfaceRecord
<1> HIDE DEF k
<1>5. k.rpc = "loop" => \A q \in Peer : Eligible(j, q) => Eligible(k, q)
  BY <1>2, <1>4 DEF Eligible
<1>6. Sound(k)
  BY <1>1, <1>2, <1>4, <1>5, StillSound
<1> QED BY <1>6 DEF k

(* What a Hello may change without an election being held: nothing that an *)
(* election would look at, unless the neighbour has just joined.           *)
LEMMA HeardVotes ==
    ASSUME NEW j, Good(j), NEW p \in Peer, NEW m \in Hello(p),
           j.nbr[p].state \in TwoWay,
           ~NeighborChanged(p, j.nbr[p], Heard(j, p, m, BothWays(j, p)).nbr[p])
    PROVE  SameVote(j, Heard(j, p, m, BothWays(j, p)))
<1> DEFINE h == Heard(j, p, m, BothWays(j, p))
<1>1. /\ h.dr = j.dr /\ h.bdr = j.bdr
      /\ h.nbr[p] = [state |-> BothWays(j, p), pri |-> m.pri, dr |-> m.dr, bdr |-> m.bdr]
      /\ \A q \in Peer \ {p} : h.nbr[q] = j.nbr[q]
  BY HeardFields
<1>2. BothWays(j, p) = j.nbr[p].state
  BY DEF BothWays
<1>3. ~NeighborChanged(p, j.nbr[p], h.nbr[p])
  OBVIOUS
<1> HIDE DEF h
<1>4. Known(j.nbr[p])
  BY DEF TwoWay, Known
<1>5. /\ h.nbr[p].state = j.nbr[p].state /\ h.nbr[p].pri = j.nbr[p].pri
      /\ h.nbr[p].dr = p <=> j.nbr[p].dr = p
      /\ h.nbr[p].bdr = p <=> j.nbr[p].bdr = p
  BY <1>1, <1>2, <1>3, <1>4 DEF NeighborChanged, PriChanged, DrChanged, BdrChanged
<1>6. SameVote(j, h)
  BY <1>1, <1>5 DEF SameVote, Eligible
<1> QED BY <1>6 DEF h

LEMMA Hello2WaySound ==
    ASSUME NEW j, Good(j), Sound(j), Idle(j), NEW p \in Peer, NEW m \in Hello(p)
    PROVE  Sound(Hello2Way(j, p, m))
<1> DEFINE h == Heard(j, p, m, BothWays(j, p))
<1>1. j.rpc = "loop" /\ j.state # "DOWN"
  BY DEF Idle
<1>2. Good(h)
  BY <1>1, HeardGood, BothWaysFits
<1>3. /\ h.nbr[p] = [state |-> BothWays(j, p), pri |-> m.pri, dr |-> m.dr, bdr |-> m.bdr]
      /\ h.dr = j.dr /\ h.bdr = j.bdr /\ h.state = j.state /\ h.rpc = j.rpc
      /\ \A q \in Peer \ {p} : h.nbr[q] = j.nbr[q]
  BY HeardFields
<1>4. j.nbr[p].state \in TwoWay /\ ~NeighborChanged(p, j.nbr[p], h.nbr[p]) => SameVote(j, h)
  BY HeardVotes
<1> HIDE DEF h
<1>5. CASE \E c : Hello2Way(j, p, m) = StartElection(h, c)
  BY <1>1, <1>2, <1>3, <1>5, StartElectionSound
<1>6. CASE /\ Hello2Way(j, p, m) = h
           /\ j.state \in Elected => ~NeighborChanged(p, j.nbr[p], h.nbr[p])
  <2>1. j.state \in Elected => \A q \in Peer : Eligible(j, q) => Eligible(h, q)
    BY <1>3, <1>4, <1>6 DEF SameVote, Eligible
  <2> QED BY <1>1, <1>3, <1>6, <2>1, StillSound
<1> QED
  BY <1>3, <1>5, <1>6 DEF Hello2Way, NeighborChange, h

LEMMA InactivitySound ==
    ASSUME NEW j, Good(j), Sound(j), Idle(j), NEW p \in Peer
    PROVE  Sound(Inactivity(j, p))
<1> DEFINE h == SetState(j, p, "down")
<1>1. j.rpc = "loop" /\ j.state # "DOWN"
  BY DEF Idle
<1>2. Good(h)
  BY <1>1, SetStateGood
<1>3. h.dr = j.dr /\ h.bdr = j.bdr /\ h.state = j.state /\ h.rpc = j.rpc
  BY DEF Good, InterfaceRecord, SetState
<1>4. Inactivity(j, p) = NeighborChange(h)
  BY DEF Inactivity, SetState
<1> HIDE DEF h
<1>5. CASE h.state \in Elected
  BY <1>1, <1>2, <1>3, <1>4, <1>5, StartElectionSound DEF NeighborChange
<1>6. CASE h.state \notin Elected
  BY <1>1, <1>3, <1>4, <1>6, StillSound DEF NeighborChange
<1> QED BY <1>5, <1>6

LEMMA DDInInitSound ==
    ASSUME NEW j, Good(j), Sound(j), Idle(j), NEW p \in Peer, j.nbr[p].state = "init"
    PROVE  Sound(DDInInit(j, p))
<1> DEFINE k == DDInInit(j, p)
<1>1. j.rpc = "loop" /\ j.state # "DOWN"
  BY DEF Idle
<1>2. /\ k.dr = j.dr /\ k.bdr = j.bdr /\ k.state = j.state /\ k.rpc = j.rpc
      /\ \A q \in Peer \ {p} : k.nbr[q] = j.nbr[q]
  BY DEF Good, InterfaceRecord, DDInInit
<1> HIDE DEF k
<1>3. \A q \in Peer : Eligible(j, q) => Eligible(k, q)
  BY <1>2 DEF Eligible, TwoWay
<1>4. Sound(k)
  BY <1>1, <1>2, <1>3, StillSound
<1> QED BY <1>4 DEF k

LEMMA StepSound == Good(i) /\ Sound(i) /\ [Next]_i => Sound(i')
<1> SUFFICES ASSUME Good(i), Sound(i), [Next]_i PROVE Sound(i')
  OBVIOUS
<1>1. CASE UNCHANGED i
  BY <1>1
<1>2. CASE InterfaceUp
  BY <1>2, UpSound DEF InterfaceUp
<1>3. CASE TimerFires
  <2>1. Sound(Timeout(i))
    BY SameRolesSound DEF Timeout, Good, InterfaceRecord
  <2> QED BY <1>3, <2>1 DEF TimerFires
<1>4. CASE Resume
  BY <1>4, ElectionPassSound, AdjOkSound, SetRoleSound DEF Resume, Electing, GoOn
<1>5. CASE WaitOver
  BY <1>5, StartElectionSound DEF WaitOver, WaitExpired, WaitTimer
<1>6. ASSUME NEW p \in Peer, InactivityTimer(p) PROVE Sound(i')
  BY <1>6, InactivitySound DEF InactivityTimer
<1>7. ASSUME NEW p \in Peer, RecvHello1Way(p) PROVE Sound(i')
  BY <1>7, Hello1WaySound DEF RecvHello1Way
<1>8. ASSUME NEW p \in Peer, RecvHello2Way(p) PROVE Sound(i')
  BY <1>8, Hello2WaySound DEF RecvHello2Way
<1>9. ASSUME NEW p \in Peer, RecvDDInInit(p) PROVE Sound(i')
  BY <1>9, DDInInitSound DEF RecvDDInInit
<1>10. ASSUME NEW pc \in {"hung", "aborted"} PROVE Sound([i EXCEPT !.rpc = pc])
  BY SameRolesSound DEF Good, InterfaceRecord
<1>11. ASSUME NEW p \in Peer, RecvFromUnknown(p) \/ AdjacencyError(p) PROVE Sound(i')
  BY <1>10, <1>11 DEF RecvFromUnknown, AdjacencyError
<1> QED
  BY <1>1, <1>2, <1>3, <1>4, <1>5, <1>6, <1>7, <1>8, <1>9, <1>11 DEF Next

LEMMA AlwaysSound == Spec => []Inv
<1>1. Inv /\ [Next]_i => Inv'
  BY StepGood, StepSound DEF Inv, IInv
<1> QED BY <1>1, InitSound, PTL DEF Spec
-----------------------------------------------------------------------------
(* The fields of the interface and of what it knows of its neighbours stay *)
(* in range: whoever is elected is on the link or is nobody.               *)
THEOREM TypeCorrect == Spec => []TypeOK
<1>1. Inv => TypeOK
  BY DEF Inv, Good, TypeOK
<1> QED BY <1>1, AlwaysSound, PTL

(* A router with a priority of its own never dereferences a DR that was    *)
(* not found (interface.cpp:228), whatever the others claim and in         *)
(* whatever pass it is.                                                    *)
THEOREM DrIsFound == Spec => []AlwaysElectsDr
<1>1. Inv => AlwaysElectsDr
  BY DEF Inv, Sound, NotCrashed, AlwaysElectsDr
<1> QED BY <1>1, AlwaysSound, PTL

(* After an election the router has at most one role and its state says    *)
(* which, until the next one: in particular the pass that makes it DR is   *)
(* followed by one that takes the Backup role from it (no_bdr).            *)
THEOREM RolesAreOne == Spec => []OneRole
<1>1. Inv => OneRole
  BY DEF Inv, Sound, RolesShow, OneRole
<1> QED BY <1>1, AlwaysSound, PTL

(* Between events whoever holds a role is heard both ways and willing: no  *)
(* Hello, timeout or packet makes the DR or the Backup ineligible without  *)
(* an election being held.                                                 *)
THEOREM RolesAreEligible == Spec => []ElectedAreEligible
<1>1. Inv => ElectedAreEligible
  <2> SUFFICES ASSUME Inv, i.rpc = "loop", NEW p \in {i.dr, i.bdr} \ {MyIp, NoIp}
               PROVE  Eligible(i, p)
    BY DEF ElectedAreEligible
  <2>1. p \in Peer
    BY DEF Inv, Good, InterfaceRecord, Ip
  <2> QED BY <2>1 DEF Inv, Sound, RolesEligible
<1> QED BY <1>1, AlwaysSound, PTL

(* call_election ends in roles that one more pass would choose again,      *)
(* unless the router ceased to be DR: two passes are enough, for any       *)
(* number of neighbours and any claims.                                    *)
THEOREM ElectionSettles == Spec => []ElectionIsStable
<1>1. Inv => ElectionIsStable
  <2> SUFFICES ASSUME Inv, i.rpc = "role", MyPriority # 0, ~Resigned
               PROVE  Again = Roles
    BY DEF ElectionIsStable
  <2>1. Chosen(i, FALSE, i.dr, i.bdr)
    BY DEF Inv, Sound, Settled, Resigned
  <2>2. Choice(i) = [dr |-> i.dr, bdr |-> i.bdr]
    BY <2>1, ChoiceIsChosen DEF Inv, Good, Heeded
  <2> QED BY <2>2 DEF Choice, Again, Roles
<1> QED BY <1>1, AlwaysSound, PTL
-----------------------------------------------------------------------------
(* Only a pass of call_election, and nothing else, moves the DR role.      *)
LEMMA OnlyPassesMoveRoles ==
    ASSUME Good(i), [Next]_i
    PROVE  i'.dr = i.dr \/ (i.rpc = "elect" /\ i' = ElectionPass(i))
<1> DEFINE Same == i'.dr = i.dr
<1>1. CASE UNCHANGED i
  BY <1>1
<1>2. CASE InterfaceUp
  BY <1>2 DEF InterfaceUp, Up, Good, InterfaceRecord
<1>3. CASE TimerFires
  BY <1>3 DEF TimerFires, Timeout, Good, InterfaceRecord
<1>4. CASE Resume
  BY <1>4 DEF Resume, Electing, GoOn, AdjOk, SetRole, Good, InterfaceRecord
<1>5. CASE WaitOver
  BY <1>5 DEF WaitOver, WaitTimer, StartElection, Good, InterfaceRecord
<1>6. ASSUME NEW p \in Peer, InactivityTimer(p) PROVE Same
  BY <1>6 DEF InactivityTimer, Inactivity, NeighborChange, StartElection, Good, InterfaceRecord
<1>7. ASSUME NEW p \in Peer, NEW m \in Hello(p), i' = Hello1Way(i, p, m) PROVE Same
  BY <1>7 DEF Hello1Way, Heard, Good, InterfaceRecord
<1>8. ASSUME NEW p \in Peer, NEW m \in Hello(p), i' = Hello2Way(i, p, m) PROVE Same
  BY <1>8 DEF Hello2Way, NeighborChange, StartElection, Heard, Good, InterfaceRecord
<1>9. ASSUME NEW p \in Peer, RecvDDInInit(p) PROVE Same
  BY <1>9 DEF RecvDDInInit, DDInInit, Good, InterfaceRecord
<1>10. ASSUME NEW p \in Peer, RecvFromUnknown(p) \/ AdjacencyError(p) PROVE Same
  BY <1>10 DEF RecvFromUnknown, AdjacencyError, Good, InterfaceRecord
<1> QED
  BY <1>1, <1>2, <1>3, <1>4, <1>5, <1>6, <1>7, <1>8, <1>9, <1>10
     DEF Next, RecvHello1Way, RecvHello2Way

(* There is no pre-emption: while the DR is eligible and claims the role,  *)
(* whoever replaces it claims it too, whatever their ranks and ours.       *)
THEOREM NoPreemption == Spec => DrIsNotPreempted
<1>1. Inv /\ [Next]_i =>
        [\A p \in Peer :
            i.dr = p /\ i'.dr # p /\ Eligible(i, p) /\ i.nbr[p].dr = p =>
               i'.dr # MyIp /\ i.nbr[i'.dr].dr = i'.dr]_i
  <2> SUFFICES ASSUME Inv, [Next]_i, NEW p \in Peer, i.dr = p, i'.dr # p,
                      Eligible(i, p), i.nbr[p].dr = p
               PROVE  i'.dr # MyIp /\ i.nbr[i'.dr].dr = i'.dr
    OBVIOUS
  <2> DEFINE e == Elect(Self(i), Candidates(i), i.no_bdr)
  <2>1. i \in InterfaceRecord /\ i.no_bdr \in BOOLEAN /\ Heeded(i)
    BY DEF Inv, Good, InterfaceRecord, Heeded
  <2>2. i' = ElectionPass(i)
    BY OnlyPassesMoveRoles DEF Inv
  <2>3. i'.dr = e.dr.ip
    BY <2>1, <2>2 DEF ElectionPass, InterfaceRecord
  <2>4. Chosen(i, i.no_bdr, e.dr.ip, e.bdr.ip)
    BY <2>1, ElectChooses
  <2> HIDE DEF e
  <2>5. p \in ForDr(i) /\ MyIp \notin ForDr(i)
    BY InterfaceAssumption DEF ForDr, Router, Stands, SaysDr
  <2>6. i'.dr \in ForDr(i)
    BY <2>3, <2>4, <2>5 DEF Chosen
  <2> QED BY <2>5, <2>6 DEF ForDr, SaysDr
<1> QED BY <1>1, AlwaysSound, PTL DEF Spec, DrIsNotPreempted
-----------------------------------------------------------------------------
(* The election would now choose others than those that hold the roles. *)
Outdated(j) == j.state \in Elected /\ Choice(j) # [dr |-> j.dr, bdr |-> j.bdr]

LEMMA SameVoteNotOutdated ==
    ASSUME NEW j, Good(j), ~Outdated(j), NEW k, Good(k), k.state = j.state,
           SameVote(j, k)
    PROVE  ~Outdated(k)
<1>1. Choice(k) = Choice(j)
  BY SameVoteSameAgain DEF Good, Heeded
<1> QED BY <1>1 DEF Outdated, SameVote

LEMMA UpNotOutdated ==
    ASSUME NEW j, Good(j), Sound(j), j.rpc = "loop", j.state = "DOWN", Good(Up(j))
    PROVE  ~Outdated(Up(j))
<1> DEFINE k == Up(j)
<1>1. /\ k.state = IF MyPriority # 0 THEN "WAITING" ELSE "DROTHER"
      /\ k.dr = j.dr /\ k.bdr = j.bdr /\ k.nbr = j.nbr
  BY DEF Good, InterfaceRecord, Up
<1> HIDE DEF k
<1>2. k.dr = NoIp /\ k.bdr = NoIp /\ \A p \in Peer : k.nbr[p].state = "down"
  BY <1>1 DEF Sound, RolesShow, Unheard, Elected
<1>3. CASE MyPriority # 0
  BY <1>1, <1>3 DEF Outdated, Elected, k
<1>4. CASE MyPriority = 0
  <2>1. \A q \in Router : ~Stands(k, q)
    BY <1>2, <1>4 DEF Stands, Router, Eligible, TwoWay
  <2>2. Chosen(k, FALSE, NoIp, NoIp)
    BY <2>1 DEF Chosen, ChosenBdr, ForDr, ForBdr
  <2>3. Choice(k) = [dr |-> NoIp, bdr |-> NoIp]
    BY <2>2, ChoiceIsChosen DEF k, Good, Heeded
  <2> QED BY <1>2, <2>3 DEF Outdated, k
<1> QED BY <1>3, <1>4

LEMMA Hello1WayNotOutdated ==
    ASSUME NEW j, Good(j), ~Outdated(j), NEW p \in Peer, NEW m \in Hello(p),
           j.rpc = "loop", Hello1Way(j, p, m).rpc = "loop", Good(Hello1Way(j, p, m))
    PROVE  ~Outdated(Hello1Way(j, p, m))
<1> DEFINE h == Heard(j, p, m, "init")
           k == Hello1Way(j, p, m)
<1>1. /\ h.nbr[p] = [state |-> "init", pri |-> m.pri, dr |-> m.dr, bdr |-> m.bdr]
      /\ h.dr = j.dr /\ h.bdr = j.bdr /\ h.state = j.state /\ h.rpc = j.rpc
      /\ \A q \in Peer \ {p} : h.nbr[q] = j.nbr[q]
  BY HeardFields
<1>2. Good(h)
  BY HeardGood DEF Fits, TwoWay
<1> HIDE DEF h
<1>3. /\ k.dr = h.dr /\ k.bdr = h.bdr /\ k.state = h.state /\ k.nbr = h.nbr
      /\ k.rpc = IF j.nbr[p].state \in TwoWay THEN "hung" ELSE h.rpc
  BY <1>2 DEF Hello1Way, h, Good, InterfaceRecord
<1>4. k.rpc = "loop" /\ Good(k)
  OBVIOUS
<1> HIDE DEF k
<1>5. j.nbr[p].state \notin TwoWay
  BY <1>3, <1>4
<1>6. ~Eligible(j, p) /\ ~Eligible(k, p)
  BY <1>1, <1>3, <1>5 DEF Eligible, TwoWay
<1>7. SameVote(j, k)
  BY <1>1, <1>3, <1>6 DEF SameVote, Eligible
<1>8. ~Outdated(k)
  BY <1>1, <1>3, <1>4, <1>7, SameVoteNotOutdated
<1> QED BY <1>8 DEF k

LEMMA Hello2WayNotOutdated ==
    ASSUME NEW j, Good(j), ~Outdated(j), NEW p \in Peer, NEW m \in Hello(p),
           j.nbr[p].state \in TwoWay, j.rpc = "loop",
           Hello2Way(j, p, m).rpc = "loop", Good(Hello2Way(j, p, m))
    PROVE  ~Outdated(Hello2Way(j, p, m))
<1> DEFINE h == Heard(j, p, m, BothWays(j, p))
<1>1. /\ h.nbr[p] = [state |-> BothWays(j, p), pri |-> m.pri, dr |-> m.dr, bdr |-> m.bdr]
      /\ h.dr = j.dr /\ h.bdr = j.bdr /\ h.state = j.state /\ h.rpc = j.rpc
      /\ \A q \in Peer \ {p} : h.nbr[q] = j.nbr[q]
  BY HeardFields
<1>2. Good(h)
  BY HeardGood, BothWaysFits
<1>3. ~NeighborChanged(p, j.nbr[p], h.nbr[p]) => SameVote(j, h)
  BY HeardVotes
<1> HIDE DEF h
<1>4. \A c : StartElection(h, c).rpc = "elect"
  BY <1>2 DEF StartElection, Good, InterfaceRecord
<1>5. /\ Hello2Way(j, p, m) = h
      /\ j.state \in Elected => ~NeighborChanged(p, j.nbr[p], h.nbr[p])
  BY <1>1, <1>4 DEF Hello2Way, NeighborChange, h
<1>6. CASE j.state \in Elected
  BY <1>1, <1>2, <1>3, <1>5, <1>6, SameVoteNotOutdated
<1>7. CASE j.state \notin Elected
  BY <1>1, <1>5, <1>7 DEF Outdated
<1> QED BY <1>6, <1>7

LEMMA InactivityNotOutdated ==
    ASSUME NEW j, Good(j), NEW p \in Peer, j.rpc = "loop",
           Inactivity(j, p).rpc = "loop"
    PROVE  ~Outdated(Inactivity(j, p))
<1> DEFINE h == SetState(j, p, "down")
<1>1. h \in InterfaceRecord
  BY SetStateGood DEF Good
<1>2. Inactivity(j, p) = NeighborChange(h)
  BY DEF Inactivity, SetState
<1> HIDE DEF h
<1>3. \A c : StartElection(h, c).rpc = "elect"
  BY <1>1 DEF StartElection, InterfaceRecord
<1> QED BY <1>2, <1>3 DEF NeighborChange, Outdated

(* The tests at ospf.cpp:343-357 miss nothing that an election looks at:   *)
(* no change of a priority or a claim, and no loss of a neighbour, goes    *)
(* by without an election, except that a neighbour joins.                  *)
THEOREM ChangesAreNoticed == Spec => OnlyJoinsGoUnnoticed
<1> DEFINE Joins == \E p \in Peer : /\ i.nbr[p].state \notin TwoWay
                                    /\ i'.nbr[p].state \in TwoWay
<1>1. /\ Stale <=> Outdated(i)
      /\ Stale' <=> Outdated(i')
  BY DEF Stale, Outdated, Again, Roles, Choice
<1>2. Inv /\ [Next]_i =>
        [i.rpc = "loop" /\ i'.rpc = "loop" /\ ~Stale /\ Stale' => Joins]_i
  <2> SUFFICES ASSUME Good(i), Sound(i), Good(i'), [Next]_i, i.rpc = "loop", i'.rpc = "loop",
                      ~Outdated(i), ~Joins
               PROVE  ~Outdated(i')
    BY <1>1, StepGood DEF Inv, IInv
  <2>1. CASE UNCHANGED i
    BY <2>1
  <2>2. CASE InterfaceUp
    BY <2>2, UpNotOutdated DEF InterfaceUp
  <2>3. CASE TimerFires
    <3>1. /\ i'.state = i.state /\ i'.dr = i.dr /\ i'.bdr = i.bdr /\ i'.nbr = i.nbr
      BY <2>3 DEF TimerFires, Timeout, Good, InterfaceRecord
    <3>2. SameVote(i, i')
      BY <3>1 DEF SameVote, Eligible
    <3> QED BY <3>1, <3>2, SameVoteNotOutdated
  <2>4. CASE Resume
    BY <2>4 DEF Resume, Electing
  <2>5. CASE WaitOver
    BY <2>5 DEF WaitOver, WaitTimer, StartElection, Good, InterfaceRecord
  <2>6. ASSUME NEW p \in Peer, InactivityTimer(p) PROVE ~Outdated(i')
    BY <2>6, InactivityNotOutdated DEF InactivityTimer
  <2>7. ASSUME NEW p \in Peer, RecvHello1Way(p) PROVE ~Outdated(i')
    BY <2>7, Hello1WayNotOutdated DEF RecvHello1Way
  <2>8. ASSUME NEW p \in Peer, NEW m \in Hello(p), i' = Hello2Way(i, p, m)
        PROVE  ~Outdated(i')
    <3> DEFINE h == Heard(i, p, m, BothWays(i, p))
    <3>1. i'.nbr = h.nbr
      <4>1. Good(h)
        BY HeardGood, BothWaysFits
      <4> HIDE DEF h
      <4>2. \A c : StartElection(h, c).nbr = h.nbr
        BY <4>1 DEF StartElection, Good, InterfaceRecord
      <4> QED BY <2>8, <4>2 DEF Hello2Way, NeighborChange, h
    <3>2. h.nbr[p] = [state |-> BothWays(i, p), pri |-> m.pri, dr |-> m.dr, bdr |-> m.bdr]
      BY HeardFields
    <3>3. i'.nbr[p].state \in TwoWay
      <4>1. BothWays(i, p) \in TwoWay
        BY DEF BothWays, TwoWay
      <4> HIDE DEF h
      <4>2. h.nbr[p].state = BothWays(i, p)
        BY <3>2
      <4> QED BY <3>1, <4>1, <4>2
    <3>4. i.nbr[p].state \in TwoWay
      BY <3>3
    <3> QED BY <2>8, <3>4, Hello2WayNotOutdated
  <2>9. ASSUME NEW p \in Peer, RecvDDInInit(p) PROVE Joins
    <3>1. i'.nbr[p].state = BothWays(i, p)
      BY <2>9 DEF RecvDDInInit, DDInInit, Good, InterfaceRecord, NbrRecord
    <3> QED BY <2>9, <3>1 DEF RecvDDInInit, BothWays, TwoWay
  <2>10. ASSUME NEW p \in Peer, RecvFromUnknown(p) \/ AdjacencyError(p)
         PROVE  i'.rpc # "loop"
    BY <2>10 DEF RecvFromUnknown, AdjacencyError, Good, InterfaceRecord
  <2> QED
    BY <2>1, <2>2, <2>3, <2>4, <2>5, <2>6, <2>7, <2>8, <2>9, <2>10
       DEF Next, RecvHello2Way
<1> QED BY <1>2, AlwaysSound, PTL DEF Spec, OnlyJoinsGoUnnoticed
-----------------------------------------------------------------------------
(* The passes.  A second pass follows one that made the router DR, and     *)
(* keeps it out of the scan for Backup, or one that made it Backup beside  *)
(* a DR that claims the role and goes on claiming it.                      *)
SecondPass(j) ==
    j.rpc = "elect" /\ [dr |-> j.dr, bdr |-> j.bdr] # j.old =>
        \/ j.no_bdr
        \/ /\ j.dr # MyIp /\ j.bdr = MyIp
           /\ \E p \in Peer : Eligible(j, p) /\ j.nbr[p].dr = p

PassInv == Inv /\ SecondPass(i)

(* A pass that is followed by another began with the roles of the event,   *)
(* and the one that follows has what the last election needs.              *)
LEMMA PassFollowed ==
    ASSUME NEW j, Good(j), Sound(j), SecondPass(j), j.rpc = "elect",
           ElectionPass(j).rpc = "elect"
    PROVE  /\ [dr |-> j.dr, bdr |-> j.bdr] = j.old
           /\ SecondPass(ElectionPass(j))
<1> DEFINE e == Elect(Self(j), Candidates(j), j.no_bdr)
           d == e.dr.ip
           b == e.bdr.ip
           newDr  == d = MyIp /\ j.dr # MyIp
           newBdr == b = MyIp /\ j.bdr # MyIp
           n  == newDr \/ (j.no_bdr /\ ~newBdr)
           k  == ElectionPass(j)
<1>1. j \in InterfaceRecord /\ j.ip = MyIp /\ j.no_bdr \in BOOLEAN
  BY DEF Good, InterfaceRecord
<1>2. /\ newDr \/ newBdr
      /\ k.dr = d /\ k.bdr = b /\ k.no_bdr = n /\ k.nbr = j.nbr
  BY <1>1 DEF ElectionPass, NewDr, NewBdr, InterfaceRecord
<1>3. Chosen(j, j.no_bdr, d, b)
  BY <1>1, ElectChooses DEF Good, Heeded
<1> HIDE DEF e, k
<1>4. MyIp # NoIp /\ MyIp \notin Peer
  BY InterfaceAssumption
<1>5. \/ b = NoIp /\ ForBdr(j, j.no_bdr) = {}
      \/ b \in ForBdr(j, j.no_bdr)
  BY <1>3 DEF Chosen, ChosenBdr
<1>6. IF ForDr(j) = {} THEN d = b ELSE d \in ForDr(j)
  BY <1>3 DEF Chosen
<1> HIDE DEF d, b
(* Who is Backup has not been DR, and was not kept out.                    *)
<1>7. b = MyIp => j.dr # MyIp /\ ~j.no_bdr
  BY <1>4, <1>5 DEF ForBdr, SaysDr
<1>8. ~j.no_bdr
  <2>1. j.no_bdr => j.dr = MyIp
    BY DEF Sound, KeptOut
  <2> QED BY <1>2, <1>7, <2>1
(* Backup without being DR is who left the role to one that claims it.     *)
<1>9. b = MyIp /\ d # MyIp =>
          \E p \in Peer : Eligible(j, p) /\ j.nbr[p].dr = p
  <2> SUFFICES ASSUME b = MyIp, d # MyIp
               PROVE  \E p \in Peer : Eligible(j, p) /\ j.nbr[p].dr = p
    OBVIOUS
  <2>1. d \in ForDr(j)
    BY <1>6
  <2>2. d \in Peer /\ Eligible(j, d) /\ j.nbr[d].dr = d
    BY <2>1 DEF ForDr, Router, Stands, SaysDr
  <2> QED BY <2>2
<1>10. newDr => ForDr(j) = {}
  <2> SUFFICES ASSUME newDr, ForDr(j) # {} PROVE FALSE
    OBVIOUS
  <2>1. MyIp \in ForDr(j)
    BY <1>6
  <2> QED BY <2>1 DEF ForDr, SaysDr
<1>11. [dr |-> j.dr, bdr |-> j.bdr] = j.old
  <2> SUFFICES ASSUME [dr |-> j.dr, bdr |-> j.bdr] # j.old PROVE FALSE
    OBVIOUS
  <2>1. /\ j.dr # MyIp /\ j.bdr = MyIp
        /\ \E p \in Peer : Eligible(j, p) /\ j.nbr[p].dr = p
    BY <1>8 DEF SecondPass
  <2>2. ForDr(j) # {}
    BY <1>4, <2>1 DEF ForDr, Router, Stands, SaysDr
  <2> QED BY <1>2, <1>10, <2>1, <2>2
<1>12. SecondPass(k)
  <2>1. CASE newDr
    BY <1>2, <2>1 DEF SecondPass
  <2>2. CASE ~newDr
    <3>1. b = MyIp /\ d # MyIp
      BY <1>2, <1>7, <2>2
    <3>2. \E p \in Peer : Eligible(k, p) /\ k.nbr[p].dr = p
      BY <1>2, <1>9, <3>1 DEF Eligible
    <3> QED BY <1>2, <3>1, <3>2 DEF SecondPass
  <2> QED BY <2>1, <2>2
<1> QED BY <1>11, <1>12 DEF k

(* How the receive thread comes to be in call_election, or stays there.    *)
Passes(j, k) == j.rpc = "elect" /\ k = ElectionPass(j)
Waits(j, k) == /\ k.rpc = j.rpc /\ k.old = j.old /\ k.no_bdr = j.no_bdr
               /\ k.nbr = j.nbr /\ SameRoles(j, k)

LEMMA IntoElection ==
    ASSUME Good(i), [Next]_i, i'.rpc = "elect"
    PROVE  \/ i'.old = [dr |-> i'.dr, bdr |-> i'.bdr] /\ i.rpc # "elect"
           \/ Passes(i, i') \/ Waits(i, i')
<1> DEFINE New == i'.old = [dr |-> i'.dr, bdr |-> i'.bdr] /\ i.rpc # "elect"
<1>1. CASE UNCHANGED i
  BY <1>1 DEF Waits, SameRoles
<1>2. CASE InterfaceUp
  BY <1>2 DEF InterfaceUp, Up, Good, InterfaceRecord, Waits, SameRoles
<1>3. CASE TimerFires
  BY <1>3 DEF TimerFires, Timeout, Good, InterfaceRecord, Waits, SameRoles
<1>4. CASE Resume
  <2>1. CASE i.rpc = "elect"
    BY <1>4, <2>1 DEF Resume, GoOn, Passes
  <2>2. CASE i.rpc = "adj"
    <3>1. AdjOk(i).rpc \in {"hung", "role"}
      BY DEF AdjOk, Good, InterfaceRecord
    <3>2. i' = AdjOk(i)
      BY <1>4, <2>2 DEF Resume, GoOn
    <3> QED BY <3>1, <3>2
  <2>3. CASE i.rpc = "role"
    <3>1. SetRole(i).rpc = "loop"
      BY DEF SetRole, Good, InterfaceRecord
    <3>2. i' = SetRole(i)
      BY <1>4, <2>3 DEF Resume, GoOn
    <3> QED BY <3>1, <3>2
  <2> QED BY <1>4, <2>1, <2>2, <2>3 DEF Resume, Electing
<1>5. CASE WaitOver
  BY <1>5 DEF WaitOver, WaitExpired, WaitTimer, StartElection, Good, InterfaceRecord
<1>6. ASSUME NEW p \in Peer, InactivityTimer(p) PROVE New
  BY <1>6 DEF InactivityTimer, Inactivity, Idle, NeighborChange, StartElection, Good, InterfaceRecord
<1>7. ASSUME NEW p \in Peer, NEW m \in Hello(p), Idle(i), i' = Hello1Way(i, p, m) PROVE New
  BY <1>7 DEF Hello1Way, Heard, Idle, Good, InterfaceRecord
<1>8. ASSUME NEW p \in Peer, NEW m \in Hello(p), Idle(i), i' = Hello2Way(i, p, m) PROVE New
  BY <1>8 DEF Hello2Way, Idle, NeighborChange, StartElection, Heard, Good, InterfaceRecord
<1>9. ASSUME NEW p \in Peer, RecvDDInInit(p) PROVE New
  BY <1>9 DEF RecvDDInInit, DDInInit, Idle, Good, InterfaceRecord
<1>10. ASSUME NEW p \in Peer, RecvFromUnknown(p) \/ AdjacencyError(p) PROVE New
  BY <1>10 DEF RecvFromUnknown, AdjacencyError, Good, InterfaceRecord
<1> QED
  BY <1>1, <1>2, <1>3, <1>4, <1>5, <1>6, <1>7, <1>8, <1>9, <1>10
     DEF Next, RecvHello1Way, RecvHello2Way

LEMMA PassStep == PassInv /\ [Next]_i => SecondPass(i')
<1> SUFFICES ASSUME Inv, SecondPass(i), [Next]_i, i'.rpc = "elect"
             PROVE  SecondPass(i')
  BY DEF PassInv, SecondPass
<1>1. CASE i'.old = [dr |-> i'.dr, bdr |-> i'.bdr]
  BY <1>1 DEF SecondPass
<1>2. CASE Passes(i, i')
  BY <1>2, PassFollowed DEF Passes, Inv
<1>3. CASE Waits(i, i')
  BY <1>3 DEF Waits, SameRoles, SecondPass, Eligible
<1> QED BY <1>1, <1>2, <1>3, IntoElection DEF Inv

(* The while(1) of call_election (interface.cpp:226) makes at most two     *)
(* passes, for any neighbours and any claims: the receive thread, which    *)
(* runs it, always comes out.                                              *)
THEOREM TwoPassesAtMost == Spec => AtMostTwoPasses
<1>1. Init => PassInv
  BY InitSound DEF PassInv, SecondPass, Init, NewInterface
<1>2. PassInv /\ [Next]_i => PassInv'
  BY PassStep, StepGood, StepSound DEF PassInv, Inv, IInv
<1>3. PassInv /\ [Next]_i =>
        [i.rpc = "elect" /\ i'.rpc = "elect" /\ Roles' # Roles => Roles = i.old]_i
  <2> SUFFICES ASSUME PassInv, [Next]_i, i.rpc = "elect", i'.rpc = "elect", Roles' # Roles
               PROVE  Roles = i.old
    OBVIOUS
  <2>1. Good(i) /\ Sound(i) /\ SecondPass(i)
    BY DEF PassInv, Inv
  <2>2. ~Waits(i, i')
    BY DEF Waits, SameRoles, Roles
  <2>3. Passes(i, i')
    BY <2>1, <2>2, IntoElection
  <2> QED BY <2>1, <2>3, PassFollowed DEF Passes, Roles
<1> QED BY <1>1, <1>2, <1>3, PTL DEF Spec, AtMostTwoPasses
=============================================================================
