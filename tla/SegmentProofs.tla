--------------------------- MODULE SegmentProofs ----------------------------
(***************************************************************************)
(* Four results about the routers of a link, for any number of them:       *)
(*                                                                         *)
(* Every router implements the router of module Interface: each operator   *)
(* on an interface commutes with Abstract, which forgets of what the       *)
(* others say whom they name when they do not name themselves.             *)
(*                                                                         *)
(* A thread hangs only when it gives up an adjacency, which takes three    *)
(* routers, or when one is back before the others noticed that it was      *)
(* away (PairInv).                                                         *)
(*                                                                         *)
(* Routers that know what the others say would elect the same ones         *)
(* (AllIntroduced).                                                        *)
(*                                                                         *)
(* Routers that have agreed on a DR keep it when others join (JoinInv).    *)
(***************************************************************************)
EXTENDS Segment, ElectionProofs, FiniteSetTheorems

Peers(r) == Router \ {r}
Ips == Router \cup {NoIp}
NbrRec == [state: {"down", "init", "2way", "adj"}, pri: {0, 1}, dr: Ips, bdr: Ips]
Rec(r) ==
    [ip: {r}, state: {"DOWN", "WAITING", "DROTHER", "BACKUP", "DR"},
     dr: Ips, bdr: Ips, neighbors: Seq(Peers(r)), nbr: [Peers(r) -> NbrRec],
     waiting_timeout: BOOLEAN,
     waiting_timer: {"none", "sleep", "ended", "joined"},
     rpc: {"loop", "elect", "adj", "role", "hung", "crashed"},
     cause: {"none", "wait", "backup", "change"},
     old: [dr: Ips, bdr: Ips], no_bdr: BOOLEAN]

LEMMA AbstractFields ==
    ASSUME NEW r \in Router, NEW j \in Rec(r)
    PROVE  LET v == Abstract(r, j)
           IN  /\ v = [j EXCEPT !.nbr = v.nbr]
               /\ v.nbr \in [Peers(r) -> NbrRec]
               /\ \A p \in Peers(r) : v.nbr[p] = Claims(r, p, j.nbr[p])
               /\ \A p \in Peers(r) :
                     /\ v.nbr[p].state = j.nbr[p].state /\ v.nbr[p].pri = j.nbr[p].pri
                     /\ v.nbr[p].dr = IF j.nbr[p].dr = p THEN p ELSE NoIp
                     /\ v.nbr[p].bdr = IF j.nbr[p].bdr \in {NoIp, p} THEN j.nbr[p].bdr ELSE r
<1> DEFINE a == [p \in Peers(r) |-> Claims(r, p, j.nbr[p])]
<1>1. Abstract(r, j) = [j EXCEPT !.nbr = a]
  BY DEF Abstract, Peers
<1>2. Abstract(r, j).nbr = a
  BY <1>1 DEF Rec
<1>3. ASSUME NEW p \in Peers(r)
      PROVE  LET c == Claims(r, p, j.nbr[p])
             IN  /\ c \in NbrRec
                 /\ c.state = j.nbr[p].state /\ c.pri = j.nbr[p].pri
                 /\ c.dr = IF j.nbr[p].dr = p THEN p ELSE NoIp
                 /\ c.bdr = IF j.nbr[p].bdr \in {NoIp, p} THEN j.nbr[p].bdr ELSE r
  <2>1. j.nbr[p] \in NbrRec /\ p \in Ips /\ r \in Ips /\ NoIp \in Ips
    BY DEF Rec, Peers, Ips
  <2> QED BY <2>1 DEF NbrRec, Claims
<1> QED BY <1>1, <1>2, <1>3

(* What changes nothing that is known of the neighbours. *)
LEMMA UpLocal ==
    ASSUME NEW r \in Router, NEW j \in Rec(r)
    PROVE  Up(j) \in Rec(r) /\ Abstract(r, Up(j)) = Local(r)!Up(Abstract(r, j))
<1>1. Up(j) \in Rec(r)
  BY DEF Rec, Up
<1> DEFINE a == [p \in Router \ {r} |-> Claims(r, p, j.nbr[p])]
<1>2. Abstract(r, Up(j)) = [Up(j) EXCEPT !.nbr = a]
  BY DEF Abstract, Up, Rec
<1>3. Abstract(r, j) = [j EXCEPT !.nbr = a]
  BY DEF Abstract
<1> HIDE DEF a
<1>4. [Up(j) EXCEPT !.nbr = a] = Local(r)!Up([j EXCEPT !.nbr = a])
  BY DEF Rec, Up, Local!Up
<1> QED BY <1>1, <1>2, <1>3, <1>4

LEMMA TimeoutLocal ==
    ASSUME NEW r \in Router, NEW j \in Rec(r)
    PROVE  Timeout(j) \in Rec(r) /\ Abstract(r, Timeout(j)) = Local(r)!Timeout(Abstract(r, j))
<1>1. Timeout(j) \in Rec(r)
  BY DEF Rec, Timeout
<1> DEFINE a == [p \in Router \ {r} |-> Claims(r, p, j.nbr[p])]
<1>2. Abstract(r, Timeout(j)) = [Timeout(j) EXCEPT !.nbr = a]
  BY DEF Abstract, Timeout, Rec
<1>3. Abstract(r, j) = [j EXCEPT !.nbr = a]
  BY DEF Abstract
<1> HIDE DEF a
<1>4. [Timeout(j) EXCEPT !.nbr = a] = Local(r)!Timeout([j EXCEPT !.nbr = a])
  BY DEF Rec, Timeout, Local!Timeout
<1> QED BY <1>1, <1>2, <1>3, <1>4

LEMMA StartElectionLocal ==
    ASSUME NEW r \in Router, NEW j \in Rec(r), NEW c \in {"wait", "backup", "change"}
    PROVE  /\ StartElection(j, c) \in Rec(r)
           /\ Abstract(r, StartElection(j, c)) = Local(r)!StartElection(Abstract(r, j), c)
<1>1. StartElection(j, c) \in Rec(r)
  BY DEF Rec, StartElection
<1> DEFINE a == [p \in Router \ {r} |-> Claims(r, p, j.nbr[p])]
<1>2. Abstract(r, StartElection(j, c)) = [StartElection(j, c) EXCEPT !.nbr = a]
  BY DEF Abstract, StartElection, Rec
<1>3. Abstract(r, j) = [j EXCEPT !.nbr = a]
  BY DEF Abstract
<1> HIDE DEF a
<1>4. [StartElection(j, c) EXCEPT !.nbr = a] =
         Local(r)!StartElection([j EXCEPT !.nbr = a], c)
  BY DEF Rec, StartElection, Local!StartElection
<1> QED BY <1>1, <1>2, <1>3, <1>4

LEMMA NeighborChangeLocal ==
    ASSUME NEW r \in Router, NEW j \in Rec(r)
    PROVE  /\ NeighborChange(j) \in Rec(r)
           /\ Abstract(r, NeighborChange(j)) = Local(r)!NeighborChange(Abstract(r, j))
<1>1. Abstract(r, j).state = j.state
  BY DEF Rec, Abstract
<1> QED
  BY <1>1, StartElectionLocal DEF NeighborChange, Local!NeighborChange, Elected, Local!Elected

LEMMA RoleTyped ==
    ASSUME NEW r, NEW j \in Rec(r), NEW s \in {"DR", "BACKUP", "DROTHER"},
           NEW w \in {"none", "sleep", "ended", "joined"}, NEW t \in BOOLEAN
    PROVE  [j EXCEPT !.state = s, !.waiting_timer = w, !.waiting_timeout = t] \in Rec(r)
BY DEF Rec

LEMMA LoopTyped ==
    ASSUME NEW r, NEW j \in Rec(r), NEW o \in [dr: Ips, bdr: Ips]
    PROVE  [j EXCEPT !.rpc = "loop", !.cause = "none", !.no_bdr = FALSE, !.old = o]
               \in Rec(r)
BY DEF Rec

LEMMA SetRoleLocal ==
    ASSUME NEW r \in Router, NEW j \in Rec(r)
    PROVE  SetRole(j) \in Rec(r) /\ Abstract(r, SetRole(j)) = Local(r)!SetRole(Abstract(r, j))
<1> DEFINE st == IF j.dr = j.ip THEN "DR"
                 ELSE IF j.bdr = j.ip THEN "BACKUP" ELSE "DROTHER"
           wt == IF j.cause = "backup" THEN "joined" ELSE j.waiting_timer
           to == j.waiting_timeout /\ ~(j.cause = "backup")
           Next1(k) == [k EXCEPT !.state = st, !.waiting_timer = wt,
                                 !.waiting_timeout = to, !.rpc = "loop", !.cause = "none",
                                 !.no_bdr = FALSE, !.old = NoRoles]
           v == Abstract(r, j)
<1>1. SetRole(j) = Next1(j)
  BY DEF SetRole, Rec
<1>2. Local(r)!SetRole(v) = Next1(v)
  BY DEF Local!SetRole, Local!NoRoles, Local!NoIp, NoRoles, NoIp, Rec, Abstract
<1>3. /\ st \in {"DR", "BACKUP", "DROTHER"} /\ to \in BOOLEAN
      /\ wt \in {"none", "sleep", "ended", "joined"}
      /\ NoRoles \in [dr: Ips, bdr: Ips]
  BY DEF Rec, NoRoles, Ips
<1> HIDE DEF st, wt, to
<1>4. Next1(j) \in Rec(r)
  <2> DEFINE a == [j EXCEPT !.state = st, !.waiting_timer = wt, !.waiting_timeout = to]
             b == [a EXCEPT !.rpc = "loop", !.cause = "none", !.no_bdr = FALSE,
                            !.old = NoRoles]
  <2> HIDE DEF v
  <2>1. Next1(j) = b
    BY DEF Rec
  <2>2. a \in Rec(r)
    <3> HIDE DEF Next1
    <3> QED BY <1>3, RoleTyped
  <2> HIDE DEF a
  <2>3. b \in Rec(r)
    BY <1>3, <2>2, LoopTyped
  <2> HIDE DEF b, Next1
  <2> QED BY <2>1, <2>3
<1>5. Abstract(r, Next1(j)) = Next1(v)
  <2> DEFINE a == [p \in Router \ {r} |-> Claims(r, p, j.nbr[p])]
  <2>1. Abstract(r, Next1(j)) = [Next1(j) EXCEPT !.nbr = a]
    BY DEF Abstract, Rec
  <2>2. v = [j EXCEPT !.nbr = a]
    BY DEF Abstract
  <2> HIDE DEF a, v
  <2>3. [Next1(j) EXCEPT !.nbr = a] = Next1([j EXCEPT !.nbr = a])
    BY DEF Rec
  <2> QED BY <2>1, <2>2, <2>3
<1> QED BY <1>1, <1>2, <1>4, <1>5
-----------------------------------------------------------------------------
(* The election. *)
Field(r, j) == {Self(j)} \cup {Candidate(j, p) : p \in Peers(r)}

LEMMA FieldFacts ==
    ASSUME NEW r \in Router, NEW j \in Rec(r)
    PROVE  /\ IsField(Field(r, j))
           /\ Self(j) \in Field(r, j)
           /\ Candidates(j) \in Seq(Field(r, j))
           /\ \A c \in Field(r, j) : c.ip \in Ips
<1> DEFINE cand == [ip: Nat \ {NoIp}, id: Nat, pri: Nat, stands: BOOLEAN, dr: Nat, bdr: Nat]
<1>1. Ips \subseteq Nat /\ Router \subseteq Nat \ {NoIp} /\ MyPriority \in Nat
  BY SegmentAssumption DEF Ips, NoIp
<1>2. \A q \in Router : Id[q] \in Nat
  BY SegmentAssumption
<1>3. Self(j) \in cand /\ Self(j).ip = r /\ Self(j).id = Id[r]
  BY <1>1, <1>2 DEF Self, Rec
<1>4. ASSUME NEW p \in Peers(r)
      PROVE  /\ Candidate(j, p) \in cand /\ Candidate(j, p).ip = p
             /\ Candidate(j, p).id = Id[p]
  <2>1. j.nbr[p] \in NbrRec /\ p \in Router
    BY DEF Rec, Peers
  <2>2. j.nbr[p].pri \in Nat /\ j.nbr[p].dr \in Nat /\ j.nbr[p].bdr \in Nat
    <3>1. j.nbr[p].pri \in {0, 1} /\ j.nbr[p].dr \in Ips /\ j.nbr[p].bdr \in Ips
      BY <2>1 DEF NbrRec
    <3>2. {0, 1} \subseteq Nat
      OBVIOUS
    <3> HIDE DEF Ips
    <3> QED BY <1>1, <3>1, <3>2, Zenon
  <2>3. Eligible(j, p) \in BOOLEAN
    BY DEF Eligible
  <2> QED BY <1>1, <1>2, <2>1, <2>2, <2>3 DEF Candidate
<1>5. \A p, q \in Router : Id[p] = Id[q] => p = q
  BY SegmentAssumption DEF IsInjective
<1>6. IsField(Field(r, j))
  BY <1>3, <1>4, <1>5 DEF IsField, Field, Peers
<1>7. Candidates(j) \in Seq(Field(r, j))
  <2>1. j.neighbors \in Seq(Peers(r))
    BY DEF Rec
  <2>2. \A k \in DOMAIN j.neighbors : Candidate(j, j.neighbors[k]) \in Field(r, j)
    BY <2>1 DEF Field
  <2> QED BY <2>1, <2>2 DEF Candidates
<1> QED BY <1>3, <1>4, <1>6, <1>7 DEF Field, Ips, Peers

LEMMA SameElect ==
    ASSUME NEW r, NEW self, NEW others, NEW n
    PROVE  Local(r)!Elect(self, others, n) = Elect(self, others, n)
BY DEF Local!Elect, Elect, Local!BdrScan, BdrScan, Local!DrScan, DrScan,
   Local!BdrCandidates, BdrCandidates,
   Local!DrCandidates, DrCandidates, Local!RunsForBdr, RunsForBdr, Local!RunsForDr, RunsForDr,
   Local!BeatsForBdr, BeatsForBdr, Local!Outranks, Outranks, Local!DeclaresDr, DeclaresDr,
   Local!DeclaresBdr, DeclaresBdr, Local!Nobody, Nobody, Local!NoIp, NoIp

LEMMA SamePass ==
    ASSUME NEW r, NEW j
    PROVE  Local(r)!ElectionPass(j) = ElectionPass(j)
<1>1. Local(r)!Self(j) = Self(j) /\ Local(r)!Candidates(j) = Candidates(j)
  BY DEF Local!Self, Self, Local!Candidates, Candidates, Local!Candidate, Candidate,
         Local!Eligible, Eligible, Local!TwoWay, TwoWay
<1> DEFINE e == Elect(Self(j), Candidates(j), j.no_bdr)
<1>2. Local(r)!Elect(Self(j), Candidates(j), j.no_bdr) = e
  BY SameElect
<1>3. Local(r)!Nobody = Nobody
  BY DEF Local!Nobody, Nobody, Local!NoIp, NoIp
<1> HIDE DEF e
<1>4. Local(r)!NewDr(j, e) = NewDr(j, e) /\ Local(r)!NewBdr(j, e) = NewBdr(j, e)
  BY DEF Local!NewDr, NewDr, Local!NewBdr, NewBdr
<1> QED BY <1>1, <1>2, <1>3, <1>4 DEF Local!ElectionPass, ElectionPass, e

LEMMA ElectionPassLocal ==
    ASSUME NEW r \in Router, NEW j \in Rec(r)
    PROVE  /\ ElectionPass(j) \in Rec(r)
           /\ Abstract(r, ElectionPass(j)) = Local(r)!ElectionPass(Abstract(r, j))
<1> DEFINE v == Abstract(r, j)
           e == Elect(Self(j), Candidates(j), j.no_bdr)
           f == Elect(Self(v), Candidates(v), v.no_bdr)
           newDr  == e.dr.ip = r /\ j.dr # r
           newBdr == e.bdr.ip = r /\ j.bdr # r
           d == e.dr.ip
           b == e.bdr.ip
           n  == newDr \/ (j.no_bdr /\ ~newBdr)
           pc == IF newDr \/ newBdr THEN "elect" ELSE "adj"
           Next1(k) == [k EXCEPT !.dr = d, !.bdr = b, !.no_bdr = n, !.rpc = pc]
           Fail(k) == [k EXCEPT !.rpc = "crashed"]
<1>1. /\ v = [j EXCEPT !.nbr = v.nbr]
      /\ v.nbr \in [Peers(r) -> NbrRec]
      /\ \A p \in Peers(r) :
            /\ v.nbr[p].state = j.nbr[p].state /\ v.nbr[p].pri = j.nbr[p].pri
            /\ v.nbr[p].dr = IF j.nbr[p].dr = p THEN p ELSE NoIp
            /\ v.nbr[p].bdr = IF j.nbr[p].bdr \in {NoIp, p} THEN j.nbr[p].bdr ELSE r
  BY AbstractFields
<1> HIDE DEF v
<1>2. v \in Rec(r) /\ v.dr = j.dr /\ v.bdr = j.bdr /\ v.no_bdr = j.no_bdr
      /\ v.ip = r /\ j.ip = r /\ v.neighbors = j.neighbors /\ j.no_bdr \in BOOLEAN
  BY <1>1 DEF Rec
<1>3. Self(v) = Self(j)
  BY <1>2 DEF Self
<1>4. \A p \in Peers(r) : Alike(Candidate(j, p), Candidate(v, p))
  <2> SUFFICES ASSUME NEW p \in Peers(r) PROVE Alike(Candidate(j, p), Candidate(v, p))
    OBVIOUS
  <2>1. p # NoIp /\ p # r
    BY SegmentAssumption DEF Peers
  <2>2. Eligible(v, p) = Eligible(j, p)
    BY <1>1 DEF Eligible
  <2> QED BY <1>1, <2>1, <2>2 DEF Alike, Candidate, DeclaresDr, DeclaresBdr
<1>5. /\ Len(Candidates(v)) = Len(Candidates(j))
      /\ \A k \in 1 .. Len(Candidates(j)) : Alike(Candidates(j)[k], Candidates(v)[k])
  <2>1. j.neighbors \in Seq(Peers(r))
    BY DEF Rec
  <2> QED BY <1>2, <1>4, <2>1 DEF Candidates
<1>6. /\ f.dr.ip = d /\ f.bdr.ip = b /\ (f.dr = Nobody <=> e.dr = Nobody)
  <2>1. Alike(Self(j), Self(v))
    BY <1>3 DEF Alike
  <2>2. /\ IsField(Field(r, j)) /\ Self(j) \in Field(r, j)
        /\ Candidates(j) \in Seq(Field(r, j))
        /\ IsField(Field(r, v)) /\ Self(v) \in Field(r, v)
        /\ Candidates(v) \in Seq(Field(r, v))
    BY <1>2, FieldFacts
  <2> QED BY <1>2, <1>5, <2>1, <2>2, AlikeElections
<1>7. d \in Ips /\ b \in Ips
  <2>1. {e.dr, e.bdr} \subseteq Field(r, j) \cup {Nobody}
    BY <1>2, FieldFacts, ElectedAreCandidates
  <2>2. Nobody.ip \in Ips
    BY DEF Nobody, Ips
  <2> QED BY <2>1, <2>2, FieldFacts
<1>8. ElectionPass(j) = IF e.dr = Nobody THEN Fail(j) ELSE Next1(j)
  BY <1>2 DEF ElectionPass, NewDr, NewBdr
<1>9. ElectionPass(v) = IF e.dr = Nobody THEN Fail(v) ELSE Next1(v)
  <2>1. /\ NewDr(v, f) <=> newDr
        /\ NewBdr(v, f) <=> newBdr
    BY <1>2, <1>6 DEF NewDr, NewBdr
  <2> HIDE DEF f, e, newDr, newBdr
  <2> QED BY <1>2, <1>6, <2>1 DEF ElectionPass, f, e
<1>10. pc \in {"elect", "adj"} /\ n \in BOOLEAN
  BY <1>2
<1> HIDE DEF e, n, pc, d, b
<1>11. Next1(j) \in Rec(r) /\ Fail(j) \in Rec(r)
  BY <1>7, <1>10 DEF Rec
<1>12. Abstract(r, Next1(j)) = Next1(v) /\ Abstract(r, Fail(j)) = Fail(v)
  BY DEF Rec, Abstract, v
<1> QED BY <1>8, <1>9, <1>11, <1>12, SamePass DEF v
-----------------------------------------------------------------------------
(* event_adj_ok looks only at the states of the neighbours and the roles.  *)
GivesUp(k, x) == /\ k.nbr[k.neighbors[x]].state = "adj"
                 /\ ~Wanted(k, k.neighbors[x])
Reached(k) == {x \in DOMAIN k.neighbors : \A y \in 1 .. x - 1 : ~GivesUp(k, y)}
Joins(k) == {k.neighbors[x] : x \in {y \in Reached(k) : ~GivesUp(k, y)}}
Hangs(k) == {k.neighbors[x] : x \in {y \in Reached(k) : GivesUp(k, y)}}
After(k, p) == IF p \in Joins(k) /\ k.nbr[p].state = "2way" /\ Wanted(k, p)
               THEN "adj"
               ELSE IF p \in Hangs(k) THEN "2way" ELSE k.nbr[p].state

LEMMA AdjOkIs ==
    ASSUME NEW r \in Router, NEW k \in Rec(r)
    PROVE  AdjOk(k) =
             IF ~RolesChanged(k) THEN [k EXCEPT !.rpc = "role"]
             ELSE [k EXCEPT !.nbr = [p \in Peers(r) |-> [k.nbr[p] EXCEPT !.state = After(k, p)]],
                            !.rpc = IF Hangs(k) # {} THEN "hung" ELSE "role"]
<1>1. DOMAIN k.nbr = Peers(r)
  BY DEF Rec
<1> QED BY <1>1 DEF AdjOk, After, Joins, Hangs, Reached, GivesUp

LEMMA SameAdjOk ==
    ASSUME NEW r, NEW k
    PROVE  Local(r)!AdjOk(k) = AdjOk(k)
BY DEF Local!AdjOk, AdjOk, Local!RolesChanged, RolesChanged, Local!Wanted, Wanted

LEMMA ClaimsKeepState ==
    ASSUME NEW r, NEW p, NEW n \in NbrRec, NEW s
    PROVE  [Claims(r, p, n) EXCEPT !.state = s] = Claims(r, p, [n EXCEPT !.state = s])
<1> DEFINE d == IF n.dr = p THEN p ELSE NoIp
           b == IF n.bdr \in {NoIp, p} THEN n.bdr ELSE r
<1>1. Claims(r, p, n) = [n EXCEPT !.dr = d, !.bdr = b]
  BY DEF Claims
<1>2. Claims(r, p, [n EXCEPT !.state = s]) = [[n EXCEPT !.state = s] EXCEPT !.dr = d, !.bdr = b]
  BY DEF Claims, NbrRec
<1> HIDE DEF d, b
<1> QED BY <1>1, <1>2 DEF NbrRec

LEMMA AdjOkLocal ==
    ASSUME NEW r \in Router, NEW j \in Rec(r)
    PROVE  /\ AdjOk(j) \in Rec(r)
           /\ Abstract(r, AdjOk(j)) = Local(r)!AdjOk(Abstract(r, j))
<1> DEFINE v == Abstract(r, j)
           new(k) == [p \in Peers(r) |-> [k.nbr[p] EXCEPT !.state = After(j, p)]]
           pc == IF Hangs(j) # {} THEN "hung" ELSE "role"
           Next1(k) == [k EXCEPT !.rpc = "role"]
           Next2(k) == [k EXCEPT !.nbr = new(k), !.rpc = pc]
<1>1. /\ v = [j EXCEPT !.nbr = v.nbr]
      /\ v.nbr \in [Peers(r) -> NbrRec]
      /\ \A p \in Peers(r) : v.nbr[p] = Claims(r, p, j.nbr[p])
      /\ \A p \in Peers(r) : v.nbr[p].state = j.nbr[p].state
  BY AbstractFields
<1>2. Next1(v) = Abstract(r, Next1(j))
  BY DEF Rec, Abstract
<1> HIDE DEF v
<1>3. /\ v \in Rec(r) /\ v.dr = j.dr /\ v.bdr = j.bdr /\ v.ip = j.ip /\ v.old = j.old
      /\ v.neighbors = j.neighbors /\ j.neighbors \in Seq(Peers(r))
  BY <1>1 DEF Rec
<1>4. \A p : Wanted(v, p) = Wanted(j, p)
  BY <1>3 DEF Wanted
<1>5. \A x \in DOMAIN j.neighbors : GivesUp(v, x) = GivesUp(j, x)
  BY <1>1, <1>3, <1>4 DEF GivesUp
<1>6. \A x \in DOMAIN j.neighbors : 1 .. x - 1 \subseteq DOMAIN j.neighbors
  BY <1>3
<1>7. Reached(v) = Reached(j) /\ Reached(j) \subseteq DOMAIN j.neighbors
  BY <1>3, <1>5, <1>6 DEF Reached
<1>8. Joins(v) = Joins(j) /\ Hangs(v) = Hangs(j)
  BY <1>3, <1>5, <1>7 DEF Joins, Hangs
<1>9. \A p \in Peers(r) : After(v, p) = After(j, p)
  BY <1>1, <1>4, <1>8 DEF After
<1>10. RolesChanged(v) = RolesChanged(j)
  BY <1>3 DEF RolesChanged
<1>11. \A p \in Peers(r) : After(j, p) \in {"down", "init", "2way", "adj"}
  BY DEF After, Rec, NbrRec
<1>12. AdjOk(j) = IF ~RolesChanged(j) THEN Next1(j) ELSE Next2(j)
  BY AdjOkIs
<1>13. AdjOk(v) = IF ~RolesChanged(j) THEN Next1(v) ELSE Next2(v)
  <2> DEFINE n1 == [p \in Peers(r) |-> [v.nbr[p] EXCEPT !.state = After(v, p)]]
             n2 == new(v)
  <2>1. n1 = n2
    BY <1>9
  <2>2. AdjOk(v) = IF ~RolesChanged(v) THEN Next1(v)
                   ELSE [v EXCEPT !.nbr = n1,
                                  !.rpc = IF Hangs(v) # {} THEN "hung" ELSE "role"]
    BY <1>3, AdjOkIs
  <2> HIDE DEF n1, n2
  <2>3. AdjOk(v) = IF ~RolesChanged(j) THEN Next1(v)
                   ELSE [v EXCEPT !.nbr = n2, !.rpc = pc]
    BY <1>8, <1>10, <2>1, <2>2
  <2> QED BY <2>3 DEF n2
<1>14. pc \in {"hung", "role"}
  OBVIOUS
<1> HIDE DEF pc
<1>15. new(j) \in [Peers(r) -> NbrRec]
  BY <1>11 DEF Rec, NbrRec
<1>16. Next1(j) \in Rec(r)
  BY DEF Rec
<1>17. Next2(j) \in Rec(r)
  <2> HIDE DEF new
  <2> QED BY <1>14, <1>15 DEF Rec
<1>18. new(v) = [p \in Peers(r) |-> Claims(r, p, new(j)[p])]
  <2> SUFFICES ASSUME NEW p \in Peers(r)
               PROVE  [v.nbr[p] EXCEPT !.state = After(j, p)] =
                      Claims(r, p, [j.nbr[p] EXCEPT !.state = After(j, p)])
    OBVIOUS
  <2>1. j.nbr[p] \in NbrRec
    BY DEF Rec
  <2> HIDE DEF v
  <2>2. v.nbr[p] = Claims(r, p, j.nbr[p])
    BY <1>1
  <2> QED BY <2>1, <2>2, ClaimsKeepState
<1>19. Abstract(r, Next2(j)) = Next2(v)
  <2> DEFINE n1 == new(j)
             n2 == new(v)
  <2> HIDE DEF new
  <2>1. n2 = [p \in Router \ {r} |-> Claims(r, p, n1[p])]
    BY <1>18 DEF Peers
  <2> HIDE DEF n1, n2
  <2>2. Abstract(r, [j EXCEPT !.nbr = n1, !.rpc = pc]) = [v EXCEPT !.nbr = n2, !.rpc = pc]
    BY <1>1, <2>1 DEF Abstract, Rec
  <2> QED BY <2>2 DEF n1, n2
<1> QED BY <1>2, <1>12, <1>13, <1>16, <1>17, <1>19, SameAdjOk DEF v

LEMMA GoOnLocal ==
    ASSUME NEW r \in Router, NEW j \in Rec(r), j.rpc \in Electing
    PROVE  GoOn(j) \in Rec(r) /\ Abstract(r, GoOn(j)) = Local(r)!GoOn(Abstract(r, j))
<1>1. Abstract(r, j).rpc = j.rpc
  BY DEF Abstract, Rec
<1>2. CASE j.rpc = "elect"
  BY <1>1, <1>2, ElectionPassLocal DEF GoOn, Local!GoOn
<1>3. CASE j.rpc = "adj"
  BY <1>1, <1>3, AdjOkLocal DEF GoOn, Local!GoOn
<1>4. CASE j.rpc = "role"
  BY <1>1, <1>4, SetRoleLocal DEF GoOn, Local!GoOn
<1> QED BY <1>2, <1>3, <1>4 DEF Electing
-----------------------------------------------------------------------------
(* Packets and the inactivity timer: a change of one neighbour. *)
Said == [pri: {0, 1}, dr: Ips, bdr: Ips]
NbrStates == {"down", "init", "2way", "adj"}

(* The list only grows by the sender of a Hello. *)
Lined(j, p) == IF p \in Range(j.neighbors) THEN j.neighbors ELSE Append(j.neighbors, p)

Put(k, l, p, n) == [k EXCEPT !.neighbors = l, !.nbr = [k.nbr EXCEPT ![p] = n]]

LEMMA PutLocal ==
    ASSUME NEW r \in Router, NEW j \in Rec(r), NEW p \in Peers(r),
           NEW l \in Seq(Peers(r)), NEW n \in NbrRec
    PROVE  /\ Put(j, l, p, n) \in Rec(r)
           /\ Abstract(r, Put(j, l, p, n)) = Put(Abstract(r, j), l, p, Claims(r, p, n))
<1> DEFINE v == Abstract(r, j)
           k == Put(j, l, p, n)
           n1 == [j.nbr EXCEPT ![p] = n]
           n2 == [v.nbr EXCEPT ![p] = Claims(r, p, n)]
<1>1. /\ v = [j EXCEPT !.nbr = v.nbr]
      /\ v.nbr \in [Peers(r) -> NbrRec]
      /\ \A q \in Peers(r) : v.nbr[q] = Claims(r, q, j.nbr[q])
  BY AbstractFields
<1> HIDE DEF v
<1>2. n1 \in [Peers(r) -> NbrRec] /\ n1 = [q \in Peers(r) |-> IF q = p THEN n ELSE j.nbr[q]]
  BY DEF Rec
<1>3. n2 = [q \in Peers(r) |-> Claims(r, q, n1[q])]
  BY <1>1, <1>2
<1>4. k = [j EXCEPT !.neighbors = l, !.nbr = n1]
  BY DEF Put
<1> HIDE DEF n1, n2, k
<1>5. k \in Rec(r)
  BY <1>2, <1>4 DEF Rec
<1>6. Abstract(r, k) = [v EXCEPT !.neighbors = l, !.nbr = n2]
  BY <1>1, <1>3, <1>4 DEF Abstract, Peers, Rec
<1> QED BY <1>5, <1>6 DEF n2, v, k, Put

LEMMA HeardLocal ==
    ASSUME NEW r \in Router, NEW j \in Rec(r), NEW p \in Peers(r), NEW m \in Said,
           NEW s \in NbrStates
    PROVE  /\ Heard(j, p, m, s) \in Rec(r)
           /\ Abstract(r, Heard(j, p, m, s)) = Heard(Abstract(r, j), p, Claims(r, p, m), s)
<1> DEFINE v == Abstract(r, j)
           n == [state |-> s, pri |-> m.pri, dr |-> m.dr, bdr |-> m.bdr]
           c == Claims(r, p, m)
           o == [state |-> s, pri |-> c.pri, dr |-> c.dr, bdr |-> c.bdr]
<1>1. /\ v = [j EXCEPT !.nbr = v.nbr]
      /\ v.nbr \in [Peers(r) -> NbrRec]
  BY AbstractFields
<1>2. v \in Rec(r) /\ Lined(v, p) = Lined(j, p)
  BY <1>1 DEF Rec, Lined
<1>3. Lined(j, p) \in Seq(Peers(r))
  BY DEF Lined, Rec
<1>4. n \in NbrRec
  BY DEF NbrRec, Said, NbrStates
<1>5. Claims(r, p, n) = o
  <2> DEFINE d == IF m.dr = p THEN p ELSE NoIp
             b == IF m.bdr \in {NoIp, p} THEN m.bdr ELSE r
  <2>1. Claims(r, p, n) = [n EXCEPT !.dr = d, !.bdr = b]
    BY DEF Claims
  <2>2. c = [m EXCEPT !.dr = d, !.bdr = b]
    BY DEF Claims
  <2> HIDE DEF d, b, c
  <2>3. c.pri = m.pri /\ c.dr = d /\ c.bdr = b
    BY <2>2 DEF Said
  <2> QED BY <2>1, <2>3
<1>8. n = [state |-> s, pri |-> m.pri, dr |-> m.dr, bdr |-> m.bdr]
  OBVIOUS
<1>9. o = [state |-> s, pri |-> c.pri, dr |-> c.dr, bdr |-> c.bdr]
  OBVIOUS
<1> HIDE DEF v, o, n, c
<1>6. Heard(j, p, m, s) = Put(j, Lined(j, p), p, n)
  BY <1>8 DEF Heard, Lined, Put, Rec
<1>7. Heard(v, p, c, s) = Put(v, Lined(j, p), p, o)
  BY <1>2, <1>9 DEF Heard, Lined, Put, Rec
<1> QED BY <1>3, <1>4, <1>5, <1>6, <1>7, PutLocal DEF v, c

LEMMA BothWaysLocal ==
    ASSUME NEW r \in Router, NEW j \in Rec(r), NEW p \in Peers(r)
    PROVE  BothWays(Abstract(r, j), p) = BothWays(j, p) /\ BothWays(j, p) \in NbrStates
<1> DEFINE v == Abstract(r, j)
<1>1. /\ v = [j EXCEPT !.nbr = v.nbr]
      /\ v.nbr[p].state = j.nbr[p].state
  BY AbstractFields
<1> HIDE DEF v
<1>2. v.dr = j.dr /\ v.bdr = j.bdr /\ v.ip = j.ip
  BY <1>1 DEF Rec
<1>3. j.nbr[p].state \in NbrStates
  BY DEF Rec, NbrRec, NbrStates
<1> QED BY <1>1, <1>2, <1>3 DEF BothWays, Wanted, NbrStates, v

LEMMA DDInInitLocal ==
    ASSUME NEW r \in Router, NEW j \in Rec(r), NEW p \in Peers(r)
    PROVE  /\ DDInInit(j, p) \in Rec(r)
           /\ Abstract(r, DDInInit(j, p)) = Local(r)!DDInInit(Abstract(r, j), p)
<1> DEFINE v == Abstract(r, j)
           s == BothWays(j, p)
           n == [j.nbr[p] EXCEPT !.state = s]
<1>1. /\ v = [j EXCEPT !.nbr = v.nbr]
      /\ v.nbr \in [Peers(r) -> NbrRec]
      /\ v.nbr[p] = Claims(r, p, j.nbr[p])
  BY AbstractFields
<1>2. s \in NbrStates /\ BothWays(v, p) = s
  BY BothWaysLocal
<1> HIDE DEF v, s
<1>3. v \in Rec(r) /\ v.neighbors = j.neighbors /\ j.neighbors \in Seq(Peers(r))
  BY <1>1 DEF Rec
<1>4. n \in NbrRec /\ [v.nbr[p] EXCEPT !.state = s] = Claims(r, p, n)
  <2>1. j.nbr[p] \in NbrRec
    BY DEF Rec
  <2>2. n \in NbrRec
    BY <1>2, <2>1 DEF NbrRec, NbrStates
  <2> QED BY <1>1, <2>1, <2>2, ClaimsKeepState
<1>5. DDInInit(j, p) = Put(j, j.neighbors, p, n)
  BY DEF DDInInit, s, Put, Rec
<1>6. Local(r)!DDInInit(v, p) = DDInInit(v, p)
  BY DEF Local!DDInInit, DDInInit, Local!BothWays, BothWays, Local!TwoWay, TwoWay,
         Local!Wanted, Wanted
<1>7. DDInInit(v, p) = Put(v, j.neighbors, p, [v.nbr[p] EXCEPT !.state = s])
  BY <1>2, <1>3 DEF DDInInit, Put, Rec
<1> HIDE DEF n
<1> QED BY <1>3, <1>4, <1>5, <1>6, <1>7, PutLocal DEF v

LEMMA InactivityLocal ==
    ASSUME NEW r \in Router, NEW j \in Rec(r), NEW p \in Peers(r)
    PROVE  /\ Inactivity(j, p) \in Rec(r)
           /\ Abstract(r, Inactivity(j, p)) = Local(r)!Inactivity(Abstract(r, j), p)
<1> DEFINE v == Abstract(r, j)
           n == [j.nbr[p] EXCEPT !.state = "down"]
           k == Put(j, j.neighbors, p, n)
           w == Put(v, j.neighbors, p, [v.nbr[p] EXCEPT !.state = "down"])
<1>1. /\ v = [j EXCEPT !.nbr = v.nbr]
      /\ v.nbr \in [Peers(r) -> NbrRec]
      /\ v.nbr[p] = Claims(r, p, j.nbr[p])
  BY AbstractFields
<1> HIDE DEF v
<1>2. v \in Rec(r) /\ v.neighbors = j.neighbors /\ j.neighbors \in Seq(Peers(r))
  BY <1>1 DEF Rec
<1>3. n \in NbrRec /\ [v.nbr[p] EXCEPT !.state = "down"] = Claims(r, p, n)
  <2>1. j.nbr[p] \in NbrRec
    BY DEF Rec
  <2>2. n \in NbrRec
    BY <2>1 DEF NbrRec
  <2> QED BY <1>1, <2>1, <2>2, ClaimsKeepState
<1>4. Inactivity(j, p) = NeighborChange(k)
  <2>1. [j EXCEPT !.nbr[p].state = "down"] = k
    BY DEF Put, Rec
  <2> HIDE DEF k
  <2> QED BY <2>1 DEF Inactivity
<1>5. Local(r)!Inactivity(v, p) = Local(r)!NeighborChange(w)
  <2>1. [v EXCEPT !.nbr[p].state = "down"] = w
    BY <1>2 DEF Put, Rec
  <2> HIDE DEF w
  <2> QED BY <2>1 DEF Local!Inactivity
<1>6. k \in Rec(r) /\ Abstract(r, k) = w
  BY <1>2, <1>3, PutLocal DEF v
<1> QED BY <1>4, <1>5, <1>6, NeighborChangeLocal DEF v

LEMMA SameHeard ==
    ASSUME NEW r, NEW j, NEW p, NEW m, NEW s
    PROVE  Local(r)!Heard(j, p, m, s) = Heard(j, p, m, s)
BY DEF Local!Heard, Heard, Local!Range, Range

LEMMA Hello1WayLocal ==
    ASSUME NEW r \in Router, NEW j \in Rec(r), NEW p \in Peers(r), NEW m \in Said
    PROVE  /\ Hello1Way(j, p, m) \in Rec(r)
           /\ Abstract(r, Hello1Way(j, p, m)) =
                 Local(r)!Hello1Way(Abstract(r, j), p, Claims(r, p, m))
<1> DEFINE v == Abstract(r, j)
           c == Claims(r, p, m)
           k == Heard(j, p, m, "init")
           w == Heard(v, p, c, "init")
           hangs == j.nbr[p].state \in TwoWay
           Next1(x) == [x EXCEPT !.rpc = "hung"]
<1>1. k \in Rec(r) /\ Abstract(r, k) = w
  BY HeardLocal DEF NbrStates
<1>2. v.nbr[p].state = j.nbr[p].state
  BY AbstractFields
<1> HIDE DEF v, c
<1>3. Hello1Way(j, p, m) = IF hangs THEN Next1(k) ELSE k
  <2>1. k = [k EXCEPT !.rpc = k.rpc]
    BY <1>1 DEF Rec
  <2> HIDE DEF k
  <2>2. Hello1Way(j, p, m) = [k EXCEPT !.rpc = IF hangs THEN "hung" ELSE k.rpc]
    BY DEF Hello1Way, k
  <2> QED BY <2>1, <2>2
<1>4. Local(r)!Hello1Way(v, p, c) = IF hangs THEN Next1(w) ELSE w
  <2>1. w = [w EXCEPT !.rpc = w.rpc]
    <3> HIDE DEF w
    <3> QED BY <1>1 DEF Rec, Abstract
  <2>2. Local(r)!Hello1Way(v, p, c) = Hello1Way(v, p, c)
    BY SameHeard DEF Local!Hello1Way, Hello1Way, Local!TwoWay, TwoWay
  <2> HIDE DEF w
  <2>3. Hello1Way(v, p, c) = [w EXCEPT !.rpc = IF hangs THEN "hung" ELSE w.rpc]
    BY <1>2 DEF Hello1Way, w
  <2> QED BY <2>1, <2>2, <2>3
<1> HIDE DEF k, w
<1>5. Next1(k) \in Rec(r) /\ Abstract(r, Next1(k)) = Next1(w)
  <2>1. Next1(k) \in Rec(r)
    BY <1>1 DEF Rec
  <2> DEFINE a == [q \in Router \ {r} |-> Claims(r, q, k.nbr[q])]
  <2>2. Abstract(r, Next1(k)) = [Next1(k) EXCEPT !.nbr = a]
    BY <1>1 DEF Abstract, Rec
  <2>3. w = [k EXCEPT !.nbr = a]
    BY <1>1 DEF Abstract
  <2> HIDE DEF a
  <2>4. [Next1(k) EXCEPT !.nbr = a] = Next1([k EXCEPT !.nbr = a])
    BY <1>1 DEF Rec
  <2> QED BY <2>1, <2>2, <2>3, <2>4
<1> QED BY <1>1, <1>3, <1>4, <1>5 DEF v, c

(* What the interface events look at. *)
LEMMA ClaimsTell ==
    ASSUME NEW r \in Router, NEW p \in Peers(r), NEW n \in NbrRec
    PROVE  LET c == Claims(r, p, n)
           IN  /\ c.state = n.state /\ c.pri = n.pri
               /\ c.dr = p <=> n.dr = p
               /\ c.bdr = p <=> n.bdr = p
               /\ c.bdr = NoIp <=> n.bdr = NoIp
<1> DEFINE d == IF n.dr = p THEN p ELSE NoIp
           b == IF n.bdr \in {NoIp, p} THEN n.bdr ELSE r
           c == Claims(r, p, n)
<1>1. p # NoIp /\ r # NoIp /\ p # r
  BY SegmentAssumption DEF Peers
<1>2. c = [n EXCEPT !.dr = d, !.bdr = b]
  BY DEF Claims
<1>3. /\ d = p <=> n.dr = p
      /\ b = p <=> n.bdr = p
      /\ b = NoIp <=> n.bdr = NoIp
  BY <1>1
<1> HIDE DEF c, d, b
<1>4. c.state = n.state /\ c.pri = n.pri /\ c.dr = d /\ c.bdr = b
  BY <1>2 DEF NbrRec
<1> QED BY <1>3, <1>4 DEF c

LEMMA EventsLocal ==
    ASSUME NEW r \in Router, NEW j, NEW v, v.state = j.state,
           NEW p \in Peers(r), NEW was \in NbrRec, NEW is \in NbrRec
    PROVE  LET a == Claims(r, p, was)
               b == Claims(r, p, is)
           IN  /\ BackupSeen(v, p, a, b) <=> BackupSeen(j, p, was, is)
               /\ NeighborChanged(p, a, b) <=> NeighborChanged(p, was, is)
<1> DEFINE a == Claims(r, p, was)
           b == Claims(r, p, is)
<1>1. /\ a.state = was.state /\ a.pri = was.pri
      /\ a.dr = p <=> was.dr = p
      /\ a.bdr = p <=> was.bdr = p
  BY ClaimsTell
<1>2. /\ b.pri = is.pri
      /\ b.dr = p <=> is.dr = p
      /\ b.bdr = p <=> is.bdr = p
      /\ b.bdr = NoIp <=> is.bdr = NoIp
  BY ClaimsTell
<1> HIDE DEF a, b
<1>3. PriChanged(a, b) <=> PriChanged(was, is)
  BY <1>1, <1>2 DEF PriChanged, Known
<1>4. DrChanged(p, a, b) <=> DrChanged(p, was, is)
  BY <1>1, <1>2 DEF DrChanged, Known
<1>5. BdrChanged(p, a, b) <=> BdrChanged(p, was, is)
  BY <1>1, <1>2 DEF BdrChanged, Known
<1> QED BY <1>2, <1>3, <1>4, <1>5 DEF BackupSeen, NeighborChanged, a, b

LEMMA Hello2WayLocal ==
    ASSUME NEW r \in Router, NEW j \in Rec(r), NEW p \in Peers(r), NEW m \in Said
    PROVE  /\ Hello2Way(j, p, m) \in Rec(r)
           /\ Abstract(r, Hello2Way(j, p, m)) =
                 Local(r)!Hello2Way(Abstract(r, j), p, Claims(r, p, m))
<1> DEFINE v == Abstract(r, j)
           c == Claims(r, p, m)
           s == BothWays(j, p)
           k == Heard(j, p, m, s)
           w == Heard(v, p, c, s)
           seen == BackupSeen(j, p, j.nbr[p], k.nbr[p])
           changed == NeighborChanged(p, j.nbr[p], k.nbr[p])
<1>1. s \in NbrStates /\ BothWays(v, p) = s
  BY BothWaysLocal
<1> HIDE DEF s
<1>2. k \in Rec(r) /\ Abstract(r, k) = w
  BY <1>1, HeardLocal
<1>3. v.nbr[p] = Claims(r, p, j.nbr[p]) /\ v.state = j.state
  <2>1. v.nbr[p] = Claims(r, p, j.nbr[p])
    BY AbstractFields
  <2> QED BY <2>1 DEF Abstract, Rec
<1> HIDE DEF v, c, k, w
<1>4. w.nbr[p] = Claims(r, p, k.nbr[p])
  BY <1>2, AbstractFields
<1>5. j.nbr[p] \in NbrRec /\ k.nbr[p] \in NbrRec
  BY <1>2 DEF Rec
<1>6. /\ BackupSeen(v, p, v.nbr[p], w.nbr[p]) <=> seen
      /\ NeighborChanged(p, v.nbr[p], w.nbr[p]) <=> changed
  BY <1>3, <1>4, <1>5, EventsLocal
<1>7. Hello2Way(j, p, m) = IF seen THEN StartElection(k, "backup")
                           ELSE IF changed THEN NeighborChange(k) ELSE k
  BY DEF Hello2Way, k, s
<1>8. Local(r)!Hello2Way(v, p, c) =
        IF seen THEN Local(r)!StartElection(w, "backup")
        ELSE IF changed THEN Local(r)!NeighborChange(w) ELSE w
  <2> DEFINE a == v.nbr[p]
             b == w.nbr[p]
  <2>1. Local(r)!BothWays(v, p) = BothWays(v, p)
    BY DEF Local!BothWays, BothWays, Local!TwoWay, TwoWay, Local!Wanted, Wanted
  <2>2. Local(r)!Heard(v, p, c, s) = w
    BY SameHeard DEF w
  <2>3. Local(r)!Hello2Way(v, p, c) =
          IF Local(r)!BackupSeen(v, p, a, b) THEN Local(r)!StartElection(w, "backup")
          ELSE IF Local(r)!NeighborChanged(p, a, b) THEN Local(r)!NeighborChange(w) ELSE w
    BY <1>1, <2>1, <2>2 DEF Local!Hello2Way
  <2> HIDE DEF a, b
  <2>4. Local(r)!BackupSeen(v, p, a, b) <=> BackupSeen(v, p, a, b)
    BY DEF Local!BackupSeen, BackupSeen, Local!PriChanged, PriChanged,
           Local!DrChanged, DrChanged, Local!Known, Known, Local!NoIp, NoIp
  <2>5. Local(r)!NeighborChanged(p, a, b) <=> NeighborChanged(p, a, b)
    BY DEF Local!NeighborChanged, NeighborChanged, Local!PriChanged, PriChanged,
           Local!DrChanged, DrChanged, Local!BdrChanged, BdrChanged, Local!Known, Known
  <2> QED BY <1>6, <2>3, <2>4, <2>5 DEF a, b
<1> HIDE DEF seen, changed
<1>9. /\ StartElection(k, "backup") \in Rec(r)
      /\ Abstract(r, StartElection(k, "backup")) = Local(r)!StartElection(w, "backup")
      /\ NeighborChange(k) \in Rec(r)
      /\ Abstract(r, NeighborChange(k)) = Local(r)!NeighborChange(w)
  BY <1>2, StartElectionLocal, NeighborChangeLocal
<1> QED BY <1>2, <1>7, <1>8, <1>9 DEF v, c
-----------------------------------------------------------------------------
(* Where every router stands.  A router comes back once. *)
Placed ==
    /\ rt = [r \in Router |-> rt[r]]
    /\ \A r \in Router : rt[r] \in Rec(r)
    /\ \A r \in dead \ start.absent : r \notin returned

LEMMA NewLocal ==
    ASSUME NEW r \in Router
    PROVE  New(r) \in Rec(r) /\ Abstract(r, New(r)) = Local(r)!NewInterface(r, Router \ {r})
<1> DEFINE n == [p \in Peers(r) |-> NewNeighbor]
<1>1. NewNeighbor \in NbrRec /\ NoIp \in Ips /\ r \in Ips
  BY DEF NewNeighbor, NbrRec, Ips
<1>2. \A p : Claims(r, p, NewNeighbor) = NewNeighbor
  <2> SUFFICES ASSUME NEW p PROVE Claims(r, p, NewNeighbor) = NewNeighbor
    OBVIOUS
  <2>1. NewNeighbor.dr = NoIp /\ NewNeighbor.bdr = NoIp
    BY DEF NewNeighbor
  <2>2. Claims(r, p, NewNeighbor) = [NewNeighbor EXCEPT !.dr = NoIp, !.bdr = NoIp]
    BY <2>1 DEF Claims
  <2> QED BY <2>2 DEF NewNeighbor
<1>3. n = [p \in Router \ {r} |-> Claims(r, p, n[p])] /\ n \in [Peers(r) -> NbrRec]
  BY <1>1, <1>2 DEF Peers
<1>4. New(r) = [ip |-> r, state |-> "DOWN", dr |-> NoIp, bdr |-> NoIp,
                neighbors |-> <<>>, nbr |-> n,
                waiting_timeout |-> FALSE, waiting_timer |-> "none",
                rpc |-> "loop", cause |-> "none", old |-> NoRoles, no_bdr |-> FALSE]
  BY DEF New, NewInterface, Peers
<1>5. Local(r)!NewInterface(r, Router \ {r}) = New(r)
  BY DEF Local!NewInterface, New, NewInterface, Local!NewNeighbor, NewNeighbor,
         Local!NoRoles, NoRoles, Local!NoIp, NoIp
<1> HIDE DEF n
<1>6. New(r) \in Rec(r)
  <2>1. NoRoles \in [dr: Ips, bdr: Ips] /\ <<>> \in Seq(Peers(r))
    BY <1>1 DEF NoRoles
  <2> HIDE DEF Ips
  <2> QED BY <1>1, <1>3, <1>4, <2>1 DEF Rec
<1>7. Abstract(r, New(r)) = New(r)
  <2> DEFINE k == New(r)
  <2>1. k.nbr = n
    BY <1>4
  <2> HIDE DEF k
  <2>2. k = [k EXCEPT !.nbr = n]
    BY <1>6, <2>1 DEF Rec, k
  <2>3. Abstract(r, k) = [k EXCEPT !.nbr = n]
    BY <1>3, <2>1 DEF Abstract
  <2> QED BY <2>2, <2>3 DEF k
<1> QED BY <1>5, <1>6, <1>7

LEMMA InitLocal ==
    Init => Placed /\ \A r \in Router : Local(r)!Init
<1> SUFFICES ASSUME Init PROVE Placed /\ \A r \in Router : Local(r)!Init
  OBVIOUS
<1>1. rt = [r \in Router |-> rt[r]] /\ \A r \in Router : rt[r] = New(r)
  BY DEF Init
<1>2. Placed
  BY <1>1, NewLocal DEF Placed, Init
<1>3. ASSUME NEW r \in Router PROVE Local(r)!Init
  BY <1>1, NewLocal DEF Local!Init, View
<1> QED BY <1>2, <1>3

(* A step changes the view of one router. *)
LEMMA Moves ==
    ASSUME Placed, NEW r \in Router, NEW n \in Rec(r), Becomes(r, n)
    PROVE  /\ rt' = [q \in Router |-> rt'[q]]
           /\ \A q \in Router : rt'[q] \in Rec(q)
           /\ View(r)' = Abstract(r, n)
           /\ \A q \in Router \ {r} : View(q)' = View(q)
BY DEF Placed, Becomes, View

LEMMA Stays ==
    ASSUME Placed, NEW r \in Router, NEW n \in Rec(r), Step(r, n)
    PROVE  /\ Placed' /\ View(r)' = Abstract(r, n)
           /\ \A q \in Router \ {r} : View(q)' = View(q)
BY Moves DEF Placed, Step

(* What the guards read. *)
LEMMA ViewTells ==
    ASSUME Placed, NEW r \in Router
    PROVE  /\ rt[r] \in Rec(r)
           /\ View(r).rpc = rt[r].rpc /\ View(r).state = rt[r].state
           /\ View(r).waiting_timer = rt[r].waiting_timer
           /\ View(r).waiting_timeout = rt[r].waiting_timeout
           /\ Local(r)!Idle(View(r)) <=> Idle(rt[r])
           /\ \A p \in Peers(r) : View(r).nbr[p].state = rt[r].nbr[p].state
<1>1. rt[r] \in Rec(r)
  BY DEF Placed
<1>2. \A p \in Peers(r) : View(r).nbr[p].state = rt[r].nbr[p].state
  BY <1>1, AbstractFields DEF View
<1>3. /\ View(r).rpc = rt[r].rpc /\ View(r).state = rt[r].state
      /\ View(r).waiting_timer = rt[r].waiting_timer
      /\ View(r).waiting_timeout = rt[r].waiting_timeout
  BY <1>1 DEF View, Abstract, Rec
<1> QED BY <1>1, <1>2, <1>3 DEF Local!Idle, Idle

(* Each action is one of Interface's at its router, and no other router    *)
(* notices it.                                                             *)
Implements(r) == /\ Placed' /\ Local(r)!Next
                 /\ \A q \in Router \ {r} : View(q)' = View(q)

LEMMA InterfaceUpStep ==
    ASSUME Placed, NEW r \in Router, InterfaceUp(r) PROVE Implements(r)
<1>1. Up(rt[r]) \in Rec(r) /\ Abstract(r, Up(rt[r])) = Local(r)!Up(View(r))
  BY ViewTells, UpLocal DEF View
<1>2. Local(r)!InterfaceUp
  BY <1>1, Stays, ViewTells DEF InterfaceUp, Local!InterfaceUp
<1> QED BY <1>1, <1>2, Stays DEF InterfaceUp, Implements, Local!Next

LEMMA TimerFiresStep ==
    ASSUME Placed, NEW r \in Router, TimerFires(r) PROVE Implements(r)
<1>1. Timeout(rt[r]) \in Rec(r) /\ Abstract(r, Timeout(rt[r])) = Local(r)!Timeout(View(r))
  BY ViewTells, TimeoutLocal DEF View
<1>2. rt[r].rpc # "aborted"
  BY DEF Placed, Rec
<1>3. Local(r)!TimerFires
  BY <1>1, <1>2, Stays, ViewTells DEF TimerFires, Local!TimerFires
<1> QED BY <1>1, <1>3, Stays DEF TimerFires, Implements, Local!Next

LEMMA WaitOverStep ==
    ASSUME Placed, NEW r \in Router, WaitOver(r) PROVE Implements(r)
<1>1. /\ WaitTimer(rt[r]) \in Rec(r)
      /\ Abstract(r, WaitTimer(rt[r])) = Local(r)!WaitTimer(View(r))
  BY ViewTells, StartElectionLocal DEF View, WaitTimer, Local!WaitTimer
<1>2. Local(r)!WaitOver
  BY <1>1, Stays, ViewTells
     DEF WaitOver, Local!WaitOver, WaitExpired, Local!WaitExpired
<1> QED BY <1>1, <1>2, Stays DEF WaitOver, Implements, Local!Next

LEMMA ResumeStep ==
    ASSUME Placed, NEW r \in Router, Resume(r) PROVE Implements(r)
<1>1. rt[r].rpc \in Electing /\ rt[r].rpc \in Local(r)!Electing
  BY DEF Resume, Electing, Local!Electing
<1>2. GoOn(rt[r]) \in Rec(r) /\ Abstract(r, GoOn(rt[r])) = Local(r)!GoOn(View(r))
  BY <1>1, ViewTells, GoOnLocal DEF View
<1>3. Local(r)!Resume
  BY <1>1, <1>2, Stays, ViewTells DEF Resume, Local!Resume
<1> QED BY <1>2, <1>3, Stays DEF Resume, Implements, Local!Next

LEMMA InactivityTimerStep ==
    ASSUME Placed, NEW r \in Router, NEW p \in Peers(r), InactivityTimer(r, p)
    PROVE  Implements(r)
<1>1. /\ Inactivity(rt[r], p) \in Rec(r)
      /\ Abstract(r, Inactivity(rt[r], p)) = Local(r)!Inactivity(View(r), p)
  BY ViewTells, InactivityLocal DEF View
<1>2. Local(r)!InactivityTimer(p)
  BY <1>1, Stays, ViewTells DEF InactivityTimer, Local!InactivityTimer
<1> QED BY <1>1, <1>2, Stays DEF InactivityTimer, Implements, Local!Next, Peers

LEMMA RecvDDStep ==
    ASSUME Placed, NEW r \in Router, NEW p \in Peers(r), RecvDD(r, p)
    PROVE  Implements(r)
<1>1. /\ DDInInit(rt[r], p) \in Rec(r)
      /\ Abstract(r, DDInInit(rt[r], p)) = Local(r)!DDInInit(View(r), p)
  BY ViewTells, DDInInitLocal DEF View
<1>2. Local(r)!RecvDDInInit(p)
  BY <1>1, Stays, ViewTells DEF RecvDD, Local!RecvDDInInit
<1> QED BY <1>1, <1>2, Stays DEF RecvDD, Implements, Local!Next, Peers

LEMMA RecvHelloStep ==
    ASSUME Placed, NEW r \in Router, NEW p \in Peers(r), RecvHello(r, p)
    PROVE  Implements(r)
<1> DEFINE m == Hello(p)
           c == Claims(r, p, m)
<1>1. m \in Said /\ c \in Local(r)!Hello(p)
  <2>1. rt[p].dr \in Ips /\ rt[p].bdr \in Ips
    BY DEF Peers, Placed, Rec
  <2>2. m \in Said
    BY <2>1 DEF Hello, Said
  <2> DEFINE d == IF m.dr = p THEN p ELSE NoIp
             b == IF m.bdr \in {NoIp, p} THEN m.bdr ELSE r
  <2>3. c = [m EXCEPT !.dr = d, !.bdr = b] /\ d \in {NoIp, p} /\ b \in {NoIp, p, r}
    BY DEF Claims
  <2>4. m.pri = 1
    BY DEF Hello
  <2> HIDE DEF c, d, b, m
  <2>5. c = [pri |-> 1, dr |-> d, bdr |-> b]
    BY <2>2, <2>3, <2>4 DEF Said
  <2> QED BY <2>2, <2>3, <2>5 DEF Local!Hello, Local!NoIp, NoIp
<1> HIDE DEF m, c
<1>2. Local(r)!Idle(View(r))
  BY ViewTells DEF RecvHello
<1>3. CASE Lists(p, r)
  <2>1. /\ Hello2Way(rt[r], p, m) \in Rec(r)
        /\ Abstract(r, Hello2Way(rt[r], p, m)) = Local(r)!Hello2Way(View(r), p, c)
    BY <1>1, ViewTells, Hello2WayLocal DEF View, c
  <2>2. Step(r, Hello2Way(rt[r], p, m))
    BY <1>3 DEF RecvHello, m
  <2>3. Local(r)!RecvHello2Way(p)
    BY <1>1, <1>2, <2>1, <2>2, Stays DEF Local!RecvHello2Way
  <2> QED BY <2>1, <2>2, <2>3, Stays DEF Implements, Local!Next, Peers
<1>4. CASE ~Lists(p, r)
  <2>1. /\ Hello1Way(rt[r], p, m) \in Rec(r)
        /\ Abstract(r, Hello1Way(rt[r], p, m)) = Local(r)!Hello1Way(View(r), p, c)
    BY <1>1, ViewTells, Hello1WayLocal DEF View, c
  <2>2. Step(r, Hello1Way(rt[r], p, m))
    BY <1>4 DEF RecvHello, m
  <2>3. Local(r)!RecvHello1Way(p)
    BY <1>1, <1>2, <2>1, <2>2, Stays DEF Local!RecvHello1Way
  <2> QED BY <2>1, <2>2, <2>3, Stays DEF Implements, Local!Next, Peers
<1> QED BY <1>3, <1>4

(* Dying is not seen on the link, and a new process is a new interface.    *)
LEMMA DieStep ==
    ASSUME Placed, NEW r \in Router, Die(r)
    PROVE  Placed' /\ \A q \in Router : View(q)' = View(q)
BY DEF Placed, Die, View

LEMMA ReturnStep ==
    ASSUME Placed, NEW r \in Router, Return(r)
    PROVE  /\ Placed' /\ r \in returned' \ returned
           /\ \A q \in Router \ {r} : View(q)' = View(q)
<1>1. /\ rt' = [q \in Router |-> rt'[q]]
      /\ \A q \in Router : rt'[q] \in Rec(q)
      /\ \A q \in Router \ {r} : View(q)' = View(q)
  BY NewLocal, Moves DEF Return
<1>2. r \in returned' \ returned
  BY DEF Return, Placed
<1>3. \A q \in dead' \ start'.absent : q \notin returned'
  BY DEF Return, Placed
<1> QED BY <1>1, <1>2, <1>3 DEF Placed

AsInterfaces == \A r \in Router : [Local(r)!Next \/ r \in returned' \ returned]_(View(r))

LEMMA NextLocal == Placed /\ [Next]_vars => Placed' /\ AsInterfaces
<1> SUFFICES ASSUME Placed, [Next]_vars PROVE Placed' /\ AsInterfaces
  OBVIOUS
<1>1. CASE UNCHANGED vars
  BY <1>1 DEF vars, Placed, AsInterfaces, View
<1>2. ASSUME NEW r \in Router, Implements(r) PROVE Placed' /\ AsInterfaces
  BY <1>2 DEF Implements, AsInterfaces
<1>3. ASSUME NEW r \in Router, Die(r) PROVE Placed' /\ AsInterfaces
  BY <1>3, DieStep DEF AsInterfaces
<1>4. ASSUME NEW r \in Router, Return(r) PROVE Placed' /\ AsInterfaces
  BY <1>4, ReturnStep DEF AsInterfaces
<1>5. CASE Next
  <2>1. PICK r \in Router :
           \/ InterfaceUp(r) \/ TimerFires(r) \/ Resume(r) \/ WaitOver(r)
           \/ Die(r) \/ Return(r)
           \/ \E p \in Peers(r) :
                 InactivityTimer(r, p) \/ RecvHello(r, p) \/ RecvDD(r, p)
    BY <1>5 DEF Next, Peers
  <2>2. CASE InterfaceUp(r) \/ TimerFires(r) \/ Resume(r) \/ WaitOver(r)
    BY <1>2, <2>2, InterfaceUpStep, TimerFiresStep, ResumeStep, WaitOverStep
  <2>3. CASE Die(r) \/ Return(r)
    BY <1>3, <1>4, <2>3
  <2>4. ASSUME NEW p \in Peers(r),
               InactivityTimer(r, p) \/ RecvHello(r, p) \/ RecvDD(r, p)
        PROVE  Placed' /\ AsInterfaces
    BY <1>2, <2>4, InactivityTimerStep, RecvHelloStep, RecvDDStep
  <2> QED BY <2>1, <2>2, <2>3, <2>4
<1> QED BY <1>1, <1>5

(* Step by step, a router among its peers is the router of module          *)
(* Interface among peers that say anything, until its process ends: each   *)
(* pass of call_election, each Hello of ospf.cpp:272-359 and each timer    *)
(* does to the record that keeps only who names himself what it does to    *)
(* the record itself.                                                      *)
THEOREM InterfacesImplemented == Spec => RoutersAreInterfaces
<1> DEFINE First == \A r \in Router : Local(r)!Init
<1>1. Init => Placed /\ First
  BY InitLocal
<1>2. Placed /\ [Next]_vars => Placed' /\ [AsInterfaces]_vars
  BY NextLocal
<1>3. RoutersAreInterfaces <=> First /\ [][AsInterfaces]_vars
  BY DEF RoutersAreInterfaces, AsInterfaces
<1> HIDE DEF First
<1> QED BY <1>1, <1>2, <1>3, PTL DEF Spec
-----------------------------------------------------------------------------
(* What the operators do to the fields that the invariants below are about. *)
SameNbrs(j, k) == k.neighbors = j.neighbors /\ k.nbr = j.nbr
SameRoles(j, k) == k.dr = j.dr /\ k.bdr = j.bdr
SameState(j, k) == k.state = j.state /\ k.waiting_timeout = j.waiting_timeout
SameClaims(n, o) == o.pri = n.pri /\ o.dr = n.dr /\ o.bdr = n.bdr

LEMMA TimersAre ==
    ASSUME NEW r \in Router, NEW j \in Rec(r)
    PROVE  /\ /\ SameNbrs(j, Up(j)) /\ SameRoles(j, Up(j)) /\ Up(j).rpc = j.rpc
              /\ Up(j).state = "WAITING" /\ Up(j).waiting_timer = "sleep"
              /\ Up(j).waiting_timeout = j.waiting_timeout
           /\ /\ SameNbrs(j, Timeout(j)) /\ SameRoles(j, Timeout(j))
              /\ Timeout(j).rpc = j.rpc /\ Timeout(j).state = j.state
BY SegmentAssumption DEF Rec, Up, Timeout, SameNbrs, SameRoles

LEMMA ElectionsAre ==
    ASSUME NEW r \in Router, NEW j \in Rec(r), NEW c
    PROVE  LET s == StartElection(j, c)
               n == NeighborChange(j)
           IN  /\ SameNbrs(j, s) /\ SameRoles(j, s) /\ SameState(j, s) /\ s.rpc = "elect"
               /\ SameNbrs(j, n) /\ SameRoles(j, n) /\ SameState(j, n)
               /\ n.rpc = IF j.state \in Elected THEN "elect" ELSE j.rpc
BY DEF Rec, StartElection, NeighborChange, SameNbrs, SameRoles, SameState

LEMMA SetRoleIs ==
    ASSUME NEW r \in Router, NEW j \in Rec(r)
    PROVE  LET s == SetRole(j)
           IN  /\ SameNbrs(j, s) /\ SameRoles(j, s)
               /\ s.rpc = "loop" /\ s.state \in Elected
               /\ s.waiting_timeout => j.waiting_timeout
BY DEF Rec, SetRole, SameNbrs, SameRoles, Elected

LEMMA AdjOkFacts ==
    ASSUME NEW r \in Router, NEW j \in Rec(r)
    PROVE  LET a == AdjOk(j)
           IN  /\ a.neighbors = j.neighbors /\ SameRoles(j, a) /\ SameState(j, a)
               /\ \A p \in Peers(r) :
                     /\ SameClaims(j.nbr[p], a.nbr[p])
                     /\ IF j.nbr[p].state \in TwoWay THEN a.nbr[p].state \in TwoWay
                        ELSE a.nbr[p].state = j.nbr[p].state
               /\ \/ a.rpc = "role"
                  \/ /\ a.rpc = "hung"
                     /\ \E p \in Peers(r) : j.nbr[p].state = "adj" /\ ~Wanted(j, p)
<1> DEFINE new == [p \in Peers(r) |-> [j.nbr[p] EXCEPT !.state = After(j, p)]]
           pc == IF Hangs(j) # {} THEN "hung" ELSE "role"
           Next1 == [j EXCEPT !.rpc = "role"]
           Next2 == [j EXCEPT !.nbr = new, !.rpc = pc]
<1>1. AdjOk(j) = IF ~RolesChanged(j) THEN Next1 ELSE Next2
  BY AdjOkIs
<1>2. \A p \in Peers(r) : j.nbr[p] \in NbrRec
  BY DEF Rec
<1>3. CASE AdjOk(j) = Next1
  <2>2. SameRoles(j, Next1) /\ SameState(j, Next1) /\ Next1.neighbors = j.neighbors
        /\ Next1.nbr = j.nbr /\ Next1.rpc = "role"
    BY DEF Rec, SameRoles, SameState
  <2> HIDE DEF Next1
  <2> QED BY <1>3, <2>2 DEF SameClaims
<1>4. CASE AdjOk(j) = Next2
  <2>1. \A p \in Peers(r) : /\ After(j, p) \in NbrStates
                            /\ IF j.nbr[p].state \in TwoWay THEN After(j, p) \in TwoWay
                               ELSE After(j, p) = j.nbr[p].state
    <3>1. \A p : p \in Hangs(j) => j.nbr[p].state = "adj"
      BY DEF Hangs, GivesUp
    <3> HIDE DEF After
    <3> QED BY <1>2, <3>1 DEF After, NbrRec, NbrStates, TwoWay
  <2>2. pc = "role" \/ (/\ pc = "hung"
                         /\ \E p \in Peers(r) : j.nbr[p].state = "adj" /\ ~Wanted(j, p))
    <3>1. \A p \in Hangs(j) : p \in Peers(r) /\ j.nbr[p].state = "adj" /\ ~Wanted(j, p)
      <4>1. \A x \in DOMAIN j.neighbors : j.neighbors[x] \in Peers(r)
        BY DEF Rec
      <4> QED BY <4>1 DEF Hangs, Reached, GivesUp
    <3> QED BY <3>1
  <2> HIDE DEF pc
  <2>3. \A p \in Peers(r) : /\ SameClaims(j.nbr[p], new[p])
                            /\ new[p].state = After(j, p)
    BY <1>2 DEF SameClaims, NbrRec
  <2> HIDE DEF new
  <2>4. SameRoles(j, Next2) /\ SameState(j, Next2) /\ Next2.neighbors = j.neighbors
        /\ Next2.nbr = new /\ Next2.rpc = pc
    BY DEF Rec, SameRoles, SameState
  <2> HIDE DEF Next2
  <2> QED BY <1>4, <2>1, <2>2, <2>3, <2>4
<1> QED BY <1>1, <1>3, <1>4

LEMMA PassFacts ==
    ASSUME NEW r \in Router, NEW j \in Rec(r)
    PROVE  LET e == ElectionPass(j)
           IN  /\ SameNbrs(j, e) /\ SameState(j, e)
               /\ \/ e.rpc = "crashed" /\ SameRoles(j, e)
                  \/ /\ e.rpc \in {"elect", "adj"}
                     /\ \/ e.dr = r
                        \/ e.dr \in Peers(r) /\ j.nbr[e.dr].state \in TwoWay
<1> DEFINE e == Elect(Self(j), Candidates(j), j.no_bdr)
           pc == IF NewDr(j, e) \/ NewBdr(j, e) THEN "elect" ELSE "adj"
           n == NewDr(j, e) \/ (j.no_bdr /\ ~NewBdr(j, e))
           d == e.dr.ip
           b == e.bdr.ip
           Next1 == [j EXCEPT !.rpc = "crashed"]
           Next2 == [j EXCEPT !.dr = d, !.bdr = b, !.no_bdr = n, !.rpc = pc]
<1>1. ElectionPass(j) = IF e.dr = Nobody THEN Next1 ELSE Next2
  BY DEF ElectionPass
<1>2. e.dr # Nobody => \/ e.dr = Self(j)
                       \/ \E p \in Peers(r) : e.dr = Candidate(j, p) /\ Eligible(j, p)
  <2> DEFINE field == BdrField(Self(j), Range(Candidates(j)), j.no_bdr)
             drs == DrField(Self(j), Range(Candidates(j)))
  <2>1. BestBdr(e.bdr, field) /\ IF drs = {} THEN e.dr = e.bdr ELSE BestDr(e.dr, drs)
    <3>1. j.no_bdr \in BOOLEAN
      BY DEF Rec
    <3> QED BY <3>1, FieldFacts, ElectFacts
  <2>2. \A c \in field \cup drs :
          c = Self(j) \/ \E p \in Peers(r) : c = Candidate(j, p) /\ Eligible(j, p)
    <3>1. \A k \in DOMAIN j.neighbors : j.neighbors[k] \in Peers(r)
      BY DEF Rec
    <3>2. \A c \in field \cup drs : c.stands /\ c \in Range(Candidates(j)) \cup {Self(j)}
      BY DEF BdrField, DrField, RunsForBdr, RunsForDr
    <3>3. \A c \in Range(Candidates(j)) : \E p \in Peers(r) : c = Candidate(j, p)
      BY <3>1 DEF Range, Candidates
    <3>4. \A p : Candidate(j, p).stands = Eligible(j, p)
      BY DEF Candidate
    <3> HIDE DEF field, drs
    <3> QED BY <3>2, <3>3, <3>4
  <2> HIDE DEF e, field, drs
  <2> QED BY <2>1, <2>2 DEF BestBdr, BestDr
<1>3. Self(j).ip = r /\ \A p : Candidate(j, p).ip = p
  BY DEF Self, Candidate, Rec
<1>4. pc \in {"elect", "adj"}
  OBVIOUS
<1> HIDE DEF e, pc, n
<1>5. e.dr # Nobody => d = r \/ (d \in Peers(r) /\ j.nbr[d].state \in TwoWay)
  BY <1>2, <1>3 DEF Eligible
<1> HIDE DEF d, b
<1>6. SameNbrs(j, Next1) /\ SameState(j, Next1) /\ SameRoles(j, Next1) /\ Next1.rpc = "crashed"
  BY DEF SameNbrs, SameState, SameRoles, Rec
<1>7. SameNbrs(j, Next2) /\ SameState(j, Next2) /\ Next2.rpc = pc /\ Next2.dr = d
  BY DEF SameNbrs, SameState, Rec
<1> HIDE DEF Next1, Next2
<1> QED BY <1>1, <1>4, <1>5, <1>6, <1>7

(* A packet of p changes what is known of p. *)
SameOthers(j, k, p) == \A q \in DOMAIN j.nbr \ {p} : k.nbr[q] = j.nbr[q]

LEMMA PutIs ==
    ASSUME NEW r \in Router, NEW j \in Rec(r), NEW p \in Peers(r),
           NEW l \in Seq(Peers(r)), NEW n \in NbrRec
    PROVE  LET k == Put(j, l, p, n)
           IN  /\ SameOthers(j, k, p) /\ SameRoles(j, k) /\ SameState(j, k)
               /\ k.neighbors = l /\ k.nbr[p] = n /\ k.rpc = j.rpc /\ k \in Rec(r)
<1>1. Put(j, l, p, n) \in Rec(r)
  BY PutLocal
<1> QED BY <1>1 DEF Put, SameOthers, SameRoles, SameState, Rec

LEMMA Hello1WayIs ==
    ASSUME NEW r \in Router, NEW j \in Rec(r), NEW p \in Peers(r), NEW m \in Said
    PROVE  LET k == Hello1Way(j, p, m)
           IN  /\ SameOthers(j, k, p) /\ SameRoles(j, k) /\ SameState(j, k)
               /\ k.neighbors = Lined(j, p)
               /\ k.nbr[p] = [state |-> "init", pri |-> m.pri, dr |-> m.dr, bdr |-> m.bdr]
               /\ k.rpc = IF j.nbr[p].state \in TwoWay THEN "hung" ELSE j.rpc
<1> DEFINE n == [state |-> "init", pri |-> m.pri, dr |-> m.dr, bdr |-> m.bdr]
           h == Put(j, Lined(j, p), p, n)
           pc == IF j.nbr[p].state \in TwoWay THEN "hung" ELSE h.rpc
<1>1. n \in NbrRec /\ Lined(j, p) \in Seq(Peers(r))
  BY DEF NbrRec, Said, Rec, Lined
<1>2. Heard(j, p, m, "init") = h
  BY DEF Heard, Lined, Put, Rec
<1> HIDE DEF n
<1>3. /\ SameOthers(j, h, p) /\ SameRoles(j, h) /\ SameState(j, h)
      /\ h.neighbors = Lined(j, p) /\ h.nbr[p] = n /\ h.rpc = j.rpc /\ h \in Rec(r)
  BY <1>1, PutIs
<1>4. Hello1Way(j, p, m) = [h EXCEPT !.rpc = pc]
  BY <1>2 DEF Hello1Way
<1>5. pc = IF j.nbr[p].state \in TwoWay THEN "hung" ELSE j.rpc
  BY <1>3
<1> HIDE DEF h, pc
<1>6. LET k == Hello1Way(j, p, m)
      IN  /\ SameOthers(j, k, p) /\ SameRoles(j, k) /\ SameState(j, k)
          /\ k.neighbors = Lined(j, p) /\ k.nbr[p] = n
          /\ k.rpc = pc
  BY <1>3, <1>4 DEF SameOthers, SameRoles, SameState, Rec
<1> QED BY <1>5, <1>6 DEF n

LEMMA DDInInitIs ==
    ASSUME NEW r \in Router, NEW j \in Rec(r), NEW p \in Peers(r)
    PROVE  LET k == DDInInit(j, p)
           IN  /\ SameOthers(j, k, p) /\ SameRoles(j, k) /\ SameState(j, k)
               /\ k.neighbors = j.neighbors /\ k.rpc = j.rpc
               /\ k.nbr[p].state \in TwoWay /\ SameClaims(j.nbr[p], k.nbr[p])
<1> DEFINE n == [j.nbr[p] EXCEPT !.state = BothWays(j, p)]
<1>1. j.nbr[p] \in NbrRec /\ j.neighbors \in Seq(Peers(r))
  BY DEF Rec
<1>2. BothWays(j, p) \in TwoWay
  BY DEF BothWays, TwoWay
<1>3. n \in NbrRec /\ n.state \in TwoWay /\ SameClaims(j.nbr[p], n)
  BY <1>1, <1>2 DEF NbrRec, TwoWay, SameClaims
<1>4. DDInInit(j, p) = Put(j, j.neighbors, p, n)
  BY DEF DDInInit, Put, Rec
<1> HIDE DEF n
<1> QED BY <1>1, <1>3, <1>4, PutIs

LEMMA InactivityIs ==
    ASSUME NEW r \in Router, NEW j \in Rec(r), NEW p \in Peers(r)
    PROVE  LET k == Inactivity(j, p)
           IN  /\ SameOthers(j, k, p) /\ SameRoles(j, k) /\ SameState(j, k)
               /\ k.neighbors = j.neighbors /\ k.rpc \in {"elect", j.rpc}
               /\ k.nbr[p].state = "down" /\ SameClaims(j.nbr[p], k.nbr[p])
<1> DEFINE n == [j.nbr[p] EXCEPT !.state = "down"]
           h == Put(j, j.neighbors, p, n)
           k == NeighborChange(h)
<1>1. j.nbr[p] \in NbrRec /\ j.neighbors \in Seq(Peers(r))
  BY DEF Rec
<1>2. n \in NbrRec /\ n.state = "down" /\ SameClaims(j.nbr[p], n)
  BY <1>1 DEF NbrRec, SameClaims
<1>3. Inactivity(j, p) = k
  <2>1. [j EXCEPT !.nbr[p].state = "down"] = h
    BY DEF Put, Rec
  <2> HIDE DEF h
  <2> QED BY <2>1 DEF Inactivity
<1> HIDE DEF n
<1>4. /\ SameOthers(j, h, p) /\ SameRoles(j, h) /\ SameState(j, h)
      /\ h.neighbors = j.neighbors /\ h.nbr[p] = n /\ h.rpc = j.rpc /\ h \in Rec(r)
  BY <1>1, <1>2, PutIs
<1> HIDE DEF h
<1>5. SameNbrs(h, k) /\ SameRoles(h, k) /\ SameState(h, k) /\ k.rpc \in {"elect", h.rpc}
  BY <1>4, ElectionsAre
<1> HIDE DEF k
<1> QED BY <1>2, <1>3, <1>4, <1>5 DEF SameOthers, SameNbrs, SameRoles, SameState

(* A Hello that lists this router makes it elect when it ends the wait, or *)
(* when it tells of a change and the router has a role.                    *)
HeardBothWays(j, k, p, m, s) ==
    LET n == [state |-> s, pri |-> m.pri, dr |-> m.dr, bdr |-> m.bdr]
    IN  /\ SameOthers(j, k, p) /\ SameRoles(j, k) /\ SameState(j, k)
        /\ k.neighbors = Lined(j, p) /\ k.nbr[p] = n
        /\ k.rpc = IF \/ BackupSeen(j, p, j.nbr[p], n)
                      \/ NeighborChanged(p, j.nbr[p], n) /\ j.state \in Elected
                   THEN "elect" ELSE j.rpc

LEMMA Hello2WayIs ==
    ASSUME NEW r \in Router, NEW j \in Rec(r), NEW p \in Peers(r), NEW m \in Said
    PROVE  \E s \in TwoWay : HeardBothWays(j, Hello2Way(j, p, m), p, m, s)
<1> DEFINE s == BothWays(j, p)
           n == [state |-> s, pri |-> m.pri, dr |-> m.dr, bdr |-> m.bdr]
           h == Put(j, Lined(j, p), p, n)
           k == Hello2Way(j, p, m)
           seen == BackupSeen(j, p, j.nbr[p], n)
           changed == NeighborChanged(p, j.nbr[p], n)
<1>1. s \in TwoWay /\ s \in NbrStates /\ Lined(j, p) \in Seq(Peers(r))
  BY DEF BothWays, TwoWay, NbrStates, Rec, Lined
<1>2. n \in NbrRec
  BY <1>1 DEF NbrRec, Said, NbrStates
<1>3. Heard(j, p, m, s) = h
  BY DEF Heard, Lined, Put, Rec
<1> HIDE DEF n, s
<1>5. /\ SameOthers(j, h, p) /\ SameRoles(j, h) /\ SameState(j, h)
      /\ h.neighbors = Lined(j, p) /\ h.nbr[p] = n /\ h.rpc = j.rpc /\ h \in Rec(r)
  BY <1>1, <1>2, PutIs
<1> HIDE DEF h
<1>6. k = IF seen THEN StartElection(h, "backup")
          ELSE IF changed THEN NeighborChange(h) ELSE h
  BY <1>3, <1>5 DEF Hello2Way, s
<1> HIDE DEF seen, changed, k
<1>7. /\ SameNbrs(h, k) /\ SameRoles(h, k) /\ SameState(h, k)
      /\ k.rpc = IF seen \/ (changed /\ h.state \in Elected) THEN "elect" ELSE h.rpc
  <2>1. SameNbrs(h, h) /\ SameRoles(h, h) /\ SameState(h, h)
    BY DEF SameNbrs, SameRoles, SameState
  <2> QED BY <1>5, <1>6, <2>1, ElectionsAre
<1>8. /\ SameOthers(j, k, p) /\ SameRoles(j, k) /\ SameState(j, k)
      /\ k.neighbors = Lined(j, p) /\ k.nbr[p] = n
      /\ k.rpc = IF seen \/ (changed /\ j.state \in Elected) THEN "elect" ELSE j.rpc
  BY <1>5, <1>7 DEF SameOthers, SameNbrs, SameRoles, SameState
<1> QED BY <1>1, <1>8 DEF n, seen, changed, k, HeardBothWays
-----------------------------------------------------------------------------
(* A neighbour that is not Down is in the list, and has said its priority. *)
Introduced(r, j) ==
    \A p \in Peers(r) : j.nbr[p].state # "down" =>
        j.nbr[p].pri = 1 /\ p \in Range(j.neighbors)

LEMMA StillIntroduced ==
    ASSUME NEW r, NEW j, NEW k, Introduced(r, j), k.neighbors = j.neighbors,
           \A p \in Peers(r) : /\ SameClaims(j.nbr[p], k.nbr[p])
                               /\ j.nbr[p].state = "down" => k.nbr[p].state = "down"
    PROVE  Introduced(r, k)
BY DEF Introduced, SameClaims

LEMMA HeardIsIntroduced ==
    ASSUME NEW r \in Router, NEW j \in Rec(r), Introduced(r, j), NEW p \in Peers(r),
           NEW k, k.neighbors = Lined(j, p), SameOthers(j, k, p), k.nbr[p].pri = 1
    PROVE  Introduced(r, k)
<1>1. j.neighbors \in Seq(Peers(r)) /\ DOMAIN j.nbr = Peers(r)
  BY DEF Rec
<1>2. p \in Range(k.neighbors) /\ Range(j.neighbors) \subseteq Range(k.neighbors)
  <2> DEFINE l == j.neighbors
  <2>1. k.neighbors = IF p \in Range(l) THEN l ELSE Append(l, p)
    BY DEF Lined
  <2>2. /\ Len(l) + 1 \in DOMAIN Append(l, p) /\ Append(l, p)[Len(l) + 1] = p
        /\ \A x \in DOMAIN l : x \in DOMAIN Append(l, p) /\ Append(l, p)[x] = l[x]
    BY <1>1
  <2> HIDE DEF l
  <2>3. p \in Range(Append(l, p)) /\ Range(l) \subseteq Range(Append(l, p))
    BY <2>2 DEF Range
  <2> QED BY <2>1, <2>3 DEF l
<1> QED BY <1>1, <1>2 DEF Introduced, SameOthers

(* What a step of router r may do to its adjacencies, and what makes its   *)
(* receive thread hang.                                                    *)
Links(r) ==
    /\ r \in Alive /\ UNCHANGED <<dead, returned, start>>
    /\ Placed' /\ \A q \in Router \ {r} : rt'[q] = rt[q]
    /\ Introduced(r, rt[r]) => Introduced(r, rt'[r])
    /\ \A p \in Peers(r) :
          LET was == rt[r].nbr[p].state
              is  == rt'[r].nbr[p].state
          IN  /\ is \in TwoWay => was \in TwoWay \/ rt[p].nbr[r].state # "down"
              /\ is = "down" => was = "down" \/ p \in dead
              /\ was = "down" => is = "down" \/ p \notin dead
    /\ rt'[r].rpc = "adj" =>
          LET d == rt'[r].dr
          IN  \/ d = r
              \/ d \in Peers(r) /\ rt[r].nbr[d].state \in TwoWay
              \/ rt[r].rpc = "adj" /\ d = rt[r].dr
    /\ rt'[r].rpc = "hung" =>
          \/ rt[r].rpc = "hung"
          \/ \E p \in Peers(r) \ dead : /\ rt[r].nbr[p].state \in TwoWay
                                        /\ rt[p].nbr[r].state = "down"
          \/ /\ rt[r].rpc = "adj"
             /\ \E p \in Peers(r) : rt[r].nbr[p].state = "adj" /\ ~Wanted(rt[r], p)

(* A step is that of one record. *)
LEMMA StepIs ==
    ASSUME Placed, NEW r \in Router, NEW n \in Rec(r), Step(r, n)
    PROVE  /\ r \in Alive /\ UNCHANGED <<dead, returned, start>> /\ Placed'
           /\ rt'[r] = n /\ \A q \in Router \ {r} : rt'[q] = rt[q]
           /\ rt[r] \in Rec(r)
BY Stays DEF Placed, Step, Becomes

LEMMA QuietLinks ==
    ASSUME Placed, NEW r \in Router,
           \/ InterfaceUp(r) \/ TimerFires(r) \/ WaitOver(r)
    PROVE  Links(r)
<1> DEFINE j == rt[r]
<1>1. j \in Rec(r)
  BY DEF Placed
<1>2. PICK n \in Rec(r) : /\ Step(r, n) /\ SameNbrs(j, n) /\ SameRoles(j, n)
                          /\ n.rpc \in {j.rpc, "elect"}
  <2>1. CASE InterfaceUp(r)
    BY <1>1, <2>1, UpLocal, TimersAre DEF InterfaceUp
  <2>2. CASE TimerFires(r)
    BY <1>1, <2>2, TimeoutLocal, TimersAre DEF TimerFires
  <2>3. CASE WaitOver(r)
    BY <1>1, <2>3, StartElectionLocal, ElectionsAre DEF WaitOver, WaitTimer
  <2> QED BY <2>1, <2>2, <2>3
<1>3. rt'[r] = n
  BY <1>2, StepIs
<1>4. Introduced(r, j) => Introduced(r, n)
  BY <1>2 DEF Introduced, SameNbrs
<1> QED BY <1>2, <1>3, <1>4, StepIs DEF Links, SameNbrs, SameRoles

LEMMA ResumeLinks ==
    ASSUME Placed, NEW r \in Router, Resume(r)
    PROVE  Links(r)
<1>1. PICK j \in Rec(r) : j = rt[r] /\ j.rpc \in Electing
  BY DEF Placed, Resume
<1> DEFINE n == GoOn(j)
<1>2. n \in Rec(r) /\ Step(r, n)
  BY <1>1, GoOnLocal DEF Resume
<1>3. /\ \A p \in Peers(r) : /\ n.nbr[p].state \in TwoWay <=> j.nbr[p].state \in TwoWay
                             /\ n.nbr[p].state = "down" <=> j.nbr[p].state = "down"
      /\ n.rpc = "adj" => \/ n.dr = r
                          \/ n.dr \in Peers(r) /\ j.nbr[n.dr].state \in TwoWay
      /\ n.rpc = "hung" => /\ j.rpc = "adj"
                           /\ \E p \in Peers(r) : j.nbr[p].state = "adj" /\ ~Wanted(j, p)
      /\ Introduced(r, j) => Introduced(r, n)
  <2>1. CASE j.rpc = "elect"
    <3>1. n = ElectionPass(j)
      BY <2>1 DEF GoOn
    <3> QED BY <1>1, <3>1, PassFacts DEF SameNbrs, Introduced
  <2>2. CASE j.rpc = "adj"
    <3>1. n = AdjOk(j)
      BY <2>2 DEF GoOn
    <3> HIDE DEF n
    <3>2. n.rpc # "adj" /\ (n.rpc = "hung" =>
             \E p \in Peers(r) : j.nbr[p].state = "adj" /\ ~Wanted(j, p))
      BY <1>1, <3>1, AdjOkFacts
    <3>3. ASSUME NEW p \in Peers(r)
          PROVE  /\ n.nbr[p].state \in TwoWay <=> j.nbr[p].state \in TwoWay
                 /\ n.nbr[p].state = "down" <=> j.nbr[p].state = "down"
      <4>1. IF j.nbr[p].state \in TwoWay THEN n.nbr[p].state \in TwoWay
                                        ELSE n.nbr[p].state = j.nbr[p].state
        BY <1>1, <3>1, AdjOkFacts
      <4> QED BY <4>1 DEF TwoWay
    <3>4. n.neighbors = j.neighbors /\ \A p \in Peers(r) : SameClaims(j.nbr[p], n.nbr[p])
      BY <1>1, <3>1, AdjOkFacts
    <3>5. Introduced(r, j) => Introduced(r, n)
      BY <3>3, <3>4, StillIntroduced
    <3> QED BY <2>2, <3>2, <3>3, <3>5
  <2>3. CASE j.rpc = "role"
    <3>1. n = SetRole(j)
      BY <2>3 DEF GoOn
    <3> QED BY <1>1, <3>1, SetRoleIs DEF SameNbrs, Introduced
  <2> QED BY <1>1, <2>1, <2>2, <2>3 DEF Electing
<1>4. rt'[r] = n
  BY <1>2, StepIs
<1> HIDE DEF n
<1> QED BY <1>1, <1>2, <1>3, <1>4, StepIs DEF Links

LEMMA PacketLinks ==
    ASSUME Placed, NEW r \in Router, NEW p \in Peers(r),
           \/ InactivityTimer(r, p) \/ RecvHello(r, p) \/ RecvDD(r, p)
    PROVE  Links(r)
<1>1. PICK j \in Rec(r) : j = rt[r] /\ j.nbr[p] \in NbrRec /\ DOMAIN j.nbr = Peers(r)
  BY DEF Placed, Rec
<1>2. PICK m \in Said : m = Hello(p)
  <2>1. rt[p].dr \in Ips /\ rt[p].bdr \in Ips
    BY DEF Peers, Placed, Rec
  <2> QED BY <2>1 DEF Hello, Said
<1>3. CASE InactivityTimer(r, p)
  <2> DEFINE n == Inactivity(j, p)
  <2>1. n \in Rec(r) /\ Step(r, n) /\ p \in dead /\ j.rpc = "loop"
    BY <1>1, <1>3, InactivityLocal DEF InactivityTimer, Idle
  <2>2. /\ SameOthers(j, n, p) /\ n.rpc \in {"elect", j.rpc}
        /\ n.nbr[p].state = "down"
        /\ n.neighbors = j.neighbors /\ SameClaims(j.nbr[p], n.nbr[p])
    BY <1>1, <1>2, InactivityIs
  <2> HIDE DEF n
  <2>3. Introduced(r, j) => Introduced(r, n)
    BY <1>1, <2>2, StillIntroduced DEF SameOthers, SameClaims
  <2>4. rt'[r] = n
    BY <2>1, StepIs
  <2> QED BY <1>1, <2>1, <2>2, <2>3, <2>4, StepIs DEF Links, SameOthers, TwoWay
<1>4. CASE RecvDD(r, p)
  <2> DEFINE n == DDInInit(j, p)
  <2>1. /\ n \in Rec(r) /\ Step(r, n) /\ p \notin dead /\ j.rpc = "loop"
        /\ rt[p].nbr[r].state = "adj" /\ j.nbr[p].state = "init"
    BY <1>1, <1>4, DDInInitLocal DEF RecvDD, Idle, Alive
  <2>2. /\ SameOthers(j, n, p) /\ n.rpc = j.rpc
        /\ n.nbr[p].state \in TwoWay
        /\ n.neighbors = j.neighbors /\ SameClaims(j.nbr[p], n.nbr[p])
    BY <1>1, <1>2, DDInInitIs
  <2> HIDE DEF n
  <2>3. Introduced(r, j) => Introduced(r, n)
    BY <1>1, <2>1, <2>2, StillIntroduced DEF SameOthers, SameClaims
  <2>4. rt'[r] = n
    BY <2>1, StepIs
  <2> QED BY <1>1, <2>1, <2>2, <2>3, <2>4, StepIs DEF Links, SameOthers, TwoWay
<1>5. CASE RecvHello(r, p) /\ Lists(p, r)
  <2> DEFINE n == Hello2Way(j, p, m)
  <2>1. /\ n \in Rec(r) /\ Step(r, n) /\ p \notin dead /\ j.rpc = "loop"
        /\ rt[p].nbr[r].state # "down"
    BY <1>1, <1>2, <1>5, Hello2WayLocal DEF RecvHello, Idle, Alive, Lists
  <2>2. PICK s \in TwoWay : HeardBothWays(j, n, p, m, s)
    BY Hello2WayIs
  <2> HIDE DEF n
  <2>3. /\ n.nbr[p].state \in TwoWay /\ n.rpc \in {"elect", "loop"}
        /\ SameOthers(j, n, p)
    BY <2>1, <2>2 DEF HeardBothWays
  <2>4. rt'[r] = n
    BY <2>1, StepIs
  <2>5. Introduced(r, j) => Introduced(r, n)
    <3>1. n.neighbors = Lined(j, p) /\ n.nbr[p].pri = 1
      BY <1>2, <2>2 DEF HeardBothWays, Hello
    <3> QED BY <2>3, <3>1, HeardIsIntroduced
  <2> QED BY <1>1, <2>1, <2>2, <2>3, <2>4, <2>5, StepIs DEF Links, SameOthers, TwoWay
<1>6. CASE RecvHello(r, p) /\ ~Lists(p, r)
  <2> DEFINE n == Hello1Way(j, p, m)
  <2>1. /\ n \in Rec(r) /\ Step(r, n) /\ p \notin dead /\ j.rpc = "loop"
        /\ rt[p].nbr[r].state = "down"
    BY <1>1, <1>2, <1>6, Hello1WayLocal DEF RecvHello, Idle, Alive, Lists
  <2>2. /\ SameOthers(j, n, p) /\ n.neighbors = Lined(j, p)
        /\ n.nbr[p] = [state |-> "init", pri |-> m.pri, dr |-> m.dr, bdr |-> m.bdr]
        /\ n.rpc = IF j.nbr[p].state \in TwoWay THEN "hung" ELSE j.rpc
    BY <1>1, <1>2, Hello1WayIs
  <2> HIDE DEF n
  <2>3. n.nbr[p].state = "init" /\ n.nbr[p].pri = 1
    BY <1>2, <2>2 DEF Hello
  <2>4. rt'[r] = n
    BY <2>1, StepIs
  <2>5. Introduced(r, j) => Introduced(r, n)
    BY <2>2, <2>3, HeardIsIntroduced
  <2> QED BY <1>1, <2>1, <2>2, <2>3, <2>4, <2>5, StepIs DEF Links, SameOthers, TwoWay
<1> QED BY <1>3, <1>4, <1>5, <1>6

(* Every step is one of these, or a router dies or comes back. *)
LEMMA NextLinks ==
    Placed /\ Next => \E r \in Router : Links(r) \/ Die(r) \/ Return(r)
<1> SUFFICES ASSUME Placed, NEW r \in Router,
                    \/ InterfaceUp(r) \/ TimerFires(r) \/ Resume(r) \/ WaitOver(r)
                    \/ Die(r) \/ Return(r)
                    \/ \E p \in Peers(r) :
                          InactivityTimer(r, p) \/ RecvHello(r, p) \/ RecvDD(r, p)
             PROVE  Links(r) \/ Die(r) \/ Return(r)
  BY DEF Next, Peers
<1> QED BY QuietLinks, ResumeLinks, PacketLinks

(* Nobody hears of a router that is never switched on, nor elects it; and  *)
(* unless a router is back, a neighbour that is heard both ways lists this *)
(* router, so its Hellos do, and no thread of two routers hangs.           *)
Present == Router \ start.absent
PresentInv ==
    /\ start.absent \subseteq dead \cap Router
    /\ \A r \in Router : \A a \in start.absent \ {r} : rt[r].nbr[a].state = "down"
    /\ \A r \in Router : rt[r].rpc = "adj" => rt[r].dr \in Present
HeardBack ==
    \A r \in Alive : \A p \in Peers(r) :
       rt[r].nbr[p].state \in TwoWay => rt[p].nbr[r].state # "down"
PairInv ==
    returned = {} =>
       /\ HeardBack
       /\ Cardinality(Present) = 2 => \A r \in Router : rt[r].rpc # "hung"

LEMMA NewIs ==
    ASSUME NEW r \in Router
    PROVE  /\ New(r).rpc = "loop" /\ New(r).state = "DOWN" /\ ~New(r).waiting_timeout
           /\ New(r).dr = NoIp /\ New(r).bdr = NoIp
           /\ \A p \in Peers(r) : New(r).nbr[p] = NewNeighbor
BY DEF New, NewInterface, Peers

LEMMA PairInit == Init => PresentInv /\ PairInv
<1> SUFFICES ASSUME Init PROVE PresentInv /\ PairInv
  OBVIOUS
<1>1. start.absent \subseteq dead \cap Router
  BY SegmentAssumption DEF Init
<1>2. \A r \in Router : rt[r] = New(r)
  BY DEF Init
<1>3. NewNeighbor.state = "down"
  BY DEF NewNeighbor
<1>4. \A r \in Router : rt[r].rpc = "loop" /\ \A p \in Peers(r) : rt[r].nbr[p].state = "down"
  BY <1>2, <1>3, NewIs
<1> QED BY <1>1, <1>4 DEF PresentInv, PairInv, HeardBack, Alive, TwoWay, Peers

LEMMA OneOfTwo ==
    ASSUME NEW S, IsFiniteSet(S), Cardinality(S) = 2, NEW a \in S, NEW b \in S, a # b, NEW c \in S
    PROVE  c = a \/ c = b
<1>1. IsFiniteSet(S \ {a}) /\ Cardinality(S \ {a}) = 1
  BY FS_RemoveElement
<1>2. IsFiniteSet((S \ {a}) \ {b}) /\ Cardinality((S \ {a}) \ {b}) = 0
  BY <1>1, FS_RemoveElement
<1> QED BY <1>2, FS_EmptySet

LEMMA PairStep ==
    Placed /\ PresentInv /\ PairInv /\ [Next]_vars => PresentInv' /\ PairInv'
<1> SUFFICES ASSUME Placed, PresentInv, PairInv, [Next]_vars
             PROVE  PresentInv' /\ PairInv'
  OBVIOUS
<1>1. CASE UNCHANGED vars
  BY <1>1 DEF vars, PresentInv, PairInv, HeardBack, Present, Alive
<1>2. ASSUME NEW r \in Router, Links(r) PROVE PresentInv' /\ PairInv'
  <2>1. /\ dead' = dead /\ returned' = returned /\ start' = start
        /\ Alive' = Alive /\ Present' = Present /\ r \in Present
        /\ \A q \in Router \ {r} : rt'[q] = rt[q]
    BY <1>2 DEF Links, Alive, Present, PresentInv
  <2>2. PresentInv'
    <3>1. ASSUME NEW q \in Router, NEW a \in start.absent \ {q}
          PROVE  rt'[q].nbr[a].state = "down"
      <4>1. a \in dead /\ rt[q].nbr[a].state = "down"
        BY DEF PresentInv
      <4>2. CASE q # r
        BY <2>1, <4>1, <4>2
      <4>3. CASE q = r /\ a \in Peers(r)
        BY <1>2, <4>1, <4>3 DEF Links
      <4>4. start.absent \subseteq Router
        BY DEF PresentInv
      <4> QED BY <4>2, <4>3, <4>4 DEF Peers
    <3>2. ASSUME NEW q \in Router, rt'[q].rpc = "adj" PROVE rt'[q].dr \in Present
      <4>1. CASE q # r
        BY <2>1, <3>2, <4>1 DEF PresentInv
      <4>2. CASE q = r
        <5>1. \A d \in Peers(r) : rt[r].nbr[d].state \in TwoWay => d \in Present
          BY DEF PresentInv, Present, Peers, TwoWay
        <5> QED BY <1>2, <2>1, <3>2, <4>2, <5>1 DEF Links, PresentInv
      <4> QED BY <4>1, <4>2
    <3> QED BY <2>1, <3>1, <3>2 DEF PresentInv
  <2>3. PairInv'
    <3> SUFFICES ASSUME returned = {}
                 PROVE  /\ HeardBack'
                        /\ Cardinality(Present) = 2 => \A q \in Router : rt'[q].rpc # "hung"
      BY <2>1 DEF PairInv
    <3>1. /\ HeardBack
          /\ Cardinality(Present) = 2 => \A q \in Router : rt[q].rpc # "hung"
      BY DEF PairInv
    <3>2. ASSUME NEW q \in Alive, NEW p \in Peers(q), rt'[q].nbr[p].state \in TwoWay
          PROVE  rt'[p].nbr[q].state # "down"
      <4>1. q \in Router /\ p \in Router /\ q \in Peers(p) /\ q \notin dead
        BY DEF Peers, Alive
      <4>2. CASE q = r
        <5>1. rt[r].nbr[p].state \in TwoWay \/ rt[p].nbr[r].state # "down"
          BY <1>2, <3>2, <4>2 DEF Links
        <5> QED BY <2>1, <3>1, <4>1, <4>2, <5>1 DEF HeardBack, Peers
      <4>3. CASE p = r
        <5>1. rt[q].nbr[p].state \in TwoWay
          BY <2>1, <3>2, <4>1, <4>3 DEF Peers
        <5>2. rt[p].nbr[q].state # "down"
          BY <3>1, <5>1 DEF HeardBack
        <5> QED BY <1>2, <4>1, <4>3, <5>2 DEF Links
      <4>4. CASE q # r /\ p # r
        BY <2>1, <3>1, <3>2, <4>1, <4>4 DEF HeardBack
      <4> QED BY <4>2, <4>3, <4>4
    <3>3. Cardinality(Present) = 2 => rt'[r].rpc # "hung"
      <4> SUFFICES ASSUME Cardinality(Present) = 2, rt'[r].rpc = "hung" PROVE FALSE
        OBVIOUS
      <4>1. ASSUME NEW p \in Peers(r) \ dead, rt[r].nbr[p].state \in TwoWay,
                   rt[p].nbr[r].state = "down"
            PROVE  FALSE
        BY <1>2, <3>1, <4>1 DEF Links, HeardBack
      <4>2. ASSUME rt[r].rpc = "adj", NEW p \in Peers(r),
                   rt[r].nbr[p].state = "adj", ~Wanted(rt[r], p)
            PROVE  FALSE
        <5>1. rt[r].dr \in Present /\ p \in Present /\ r \in Present /\ p # r
          BY <2>1, <4>2 DEF PresentInv, Present, Peers
        <5>2. IsFiniteSet(Present)
          BY SegmentAssumption, FS_Subset DEF Present
        <5>3. rt[r].dr \in {r, p}
          BY <5>1, <5>2, OneOfTwo
        <5>4. rt[r].ip = r
          BY DEF Placed, Rec
        <5> QED BY <4>2, <5>3, <5>4 DEF Wanted
      <4> QED BY <1>2, <3>1, <4>1, <4>2 DEF Links
    <3> QED BY <2>1, <3>1, <3>2, <3>3 DEF HeardBack
  <2> QED BY <2>2, <2>3
<1>3. ASSUME NEW r \in Router, Die(r) PROVE PresentInv' /\ PairInv'
  BY <1>3 DEF Die, PresentInv, PairInv, HeardBack, Present, Alive
<1>4. ASSUME NEW r \in Router, Return(r) PROVE PresentInv' /\ PairInv'
  <2>1. /\ returned' # {} /\ start' = start /\ start.absent \subseteq dead'
        /\ \A q \in Router \ {r} : rt'[q] = rt[q]
        /\ rt'[r] = New(r)
    BY <1>4 DEF Return, Becomes, Placed, PresentInv
  <2>2. NewNeighbor.state = "down"
    BY DEF NewNeighbor
  <2>3. rt'[r].rpc = "loop" /\ \A a \in start.absent \ {r} : rt'[r].nbr[a].state = "down"
    <3>1. start.absent \subseteq Router
      BY DEF PresentInv
    <3> QED BY <2>1, <2>2, <3>1, NewIs DEF Peers
  <2>4. PresentInv'
    BY <2>1, <2>3 DEF PresentInv, Present
  <2> QED BY <2>1, <2>4 DEF PairInv
<1> QED BY <1>1, <1>2, <1>3, <1>4, NextLinks

(* A receive thread hangs in two ways: when the roles have moved among     *)
(* three routers or more and it gives up an adjacency (event_adj_ok), or   *)
(* after a router has died and come back (event_1way_received).            *)
THEOREM HangsExplained == Spec => HangsHaveCause
<1>1. Init => Placed /\ PresentInv /\ PairInv
  BY InitLocal, PairInit
<1>2. Placed /\ PresentInv /\ PairInv /\ [Next]_vars => (Placed /\ PresentInv /\ PairInv)'
  BY NextLocal, PairStep
<1>3. /\ Placed /\ PresentInv /\ PairInv /\ [Next]_vars
      /\ (Placed /\ PresentInv /\ PairInv)'
      => [~Hung /\ Hung' /\ returned = {} =>
            /\ Cardinality(Router \ start.absent) # 2
            /\ \E r \in Alive : /\ rt[r].rpc = "adj"
                               /\ \E p \in Router \ {r} :
                                     rt[r].nbr[p].state = "adj" /\ ~Wanted(rt[r], p)]_vars
  <2> SUFFICES ASSUME Placed, PresentInv, PairInv, Next, PairInv',
                      ~Hung, Hung', returned = {}
               PROVE  /\ Cardinality(Router \ start.absent) # 2
                      /\ \E r \in Alive : /\ rt[r].rpc = "adj"
                                         /\ \E p \in Router \ {r} :
                                               rt[r].nbr[p].state = "adj" /\ ~Wanted(rt[r], p)
    BY DEF vars, Hung, Alive
  <2>1. PICK r \in Router : Links(r) \/ Die(r) \/ Return(r)
    BY NextLinks
  <2>2. ~Die(r) /\ ~Return(r)
    <3>1. ~Die(r)
      BY DEF Die, Hung, Alive
    <3>2. ASSUME Return(r) PROVE FALSE
      <4>1. /\ rt' = [rt EXCEPT ![r] = New(r)] /\ dead' = dead \ {r}
            /\ New(r).rpc = "loop"
        BY <3>2, NewIs DEF Return, Becomes
      <4> QED BY <4>1 DEF Hung, Alive, Placed
    <3> QED BY <3>1, <3>2
  <2>3. /\ r \in Alive /\ dead' = dead /\ returned' = returned /\ start' = start
        /\ \A q \in Router \ {r} : rt'[q] = rt[q]
    BY <2>1, <2>2 DEF Links
  <2>4. rt'[r].rpc = "hung" /\ rt[r].rpc # "hung"
    BY <2>3 DEF Hung, Alive
  <2>5. Cardinality(Router \ start.absent) # 2
    BY <2>3, <2>4 DEF PairInv, Present
  <2>6. /\ rt[r].rpc = "adj"
        /\ \E p \in Router \ {r} : rt[r].nbr[p].state = "adj" /\ ~Wanted(rt[r], p)
    BY <2>1, <2>2, <2>3, <2>4 DEF Links, PairInv, HeardBack, Peers
  <2> QED BY <2>3, <2>5, <2>6
<1> QED BY <1>1, <1>2, <1>3, PTL DEF Spec, HangsHaveCause

(* So of two routers none ever waits for the end of a sender that never    *)
(* ends, whoever is elected when, unless one is back after dying.          *)
THEOREM PairNeverHangs ==
    Spec => [](Cardinality(Router \ start.absent) = 2 => (Hung => returned # {}))
<1>1. Init => Placed /\ PresentInv /\ PairInv
  BY InitLocal, PairInit
<1>2. Placed /\ PresentInv /\ PairInv /\ [Next]_vars => (Placed /\ PresentInv /\ PairInv)'
  BY NextLocal, PairStep
<1>3. PairInv => (Cardinality(Router \ start.absent) = 2 => (Hung => returned # {}))
  BY DEF PairInv, Hung, Alive, Present
<1> QED BY <1>1, <1>2, <1>3, PTL DEF Spec
-----------------------------------------------------------------------------
(* Who is elected, as far as it matters to a DR that is known.             *)

(* Of k, d is the only router known to claim DR. *)
OnlyDr(r, k, d) ==
    /\ \A p \in Peers(r) : k.nbr[p].state \in TwoWay /\ k.nbr[p].dr = p => p = d
    /\ IF d = r THEN k.dr = r
       ELSE /\ d \in Peers(r) /\ k.dr # r
            /\ d \in Range(k.neighbors) /\ Eligible(k, d) /\ k.nbr[d].dr = d

LEMMA ElectedIs ==
    ASSUME NEW r \in Router, NEW k \in Rec(r)
    PROVE  LET e == Elect(Self(k), Candidates(k), k.no_bdr)
               drs == DrField(Self(k), Range(Candidates(k)))
               bdrs == BdrField(Self(k), Range(Candidates(k)), k.no_bdr)
           IN  /\ BestBdr(e.bdr, bdrs)
               /\ IF drs = {} THEN e.dr = e.bdr ELSE BestDr(e.dr, drs)
               /\ IsField(Field(r, k)) /\ drs \subseteq Field(r, k) /\ bdrs \subseteq Field(r, k)
<1>1. k.no_bdr \in BOOLEAN
  BY DEF Rec
<1>2. /\ IsField(Field(r, k)) /\ Self(k) \in Field(r, k) /\ Candidates(k) \in Seq(Field(r, k))
  BY FieldFacts
<1>3. Range(Candidates(k)) \subseteq Field(r, k)
  BY <1>2 DEF Range
<1>4. /\ DrField(Self(k), Range(Candidates(k))) \subseteq Field(r, k)
      /\ BdrField(Self(k), Range(Candidates(k)), k.no_bdr) \subseteq Field(r, k)
  BY <1>2, <1>3 DEF DrField, BdrField
<1> QED BY <1>1, <1>2, <1>4, ElectFacts

(* The candidates on the list are the neighbours. *)
LEMMA CandidatesAre ==
    ASSUME NEW r \in Router, NEW k \in Rec(r)
    PROVE  /\ Range(Candidates(k)) = {Candidate(k, p) : p \in Range(k.neighbors)}
           /\ Range(k.neighbors) \subseteq Peers(r)
           /\ Self(k).ip = r /\ Self(k).stands
           /\ Self(k).dr = k.dr /\ Self(k).bdr = k.bdr
<1>1. \A x \in DOMAIN k.neighbors : k.neighbors[x] \in Peers(r)
  BY DEF Rec
<1>2. /\ Self(k).ip = r /\ Self(k).stands
      /\ Self(k).dr = k.dr /\ Self(k).bdr = k.bdr
  <2>1. MyPriority = 1 /\ k.ip = r
    BY SegmentAssumption DEF Rec
  <2>2. Self(k).stands = (MyPriority # 0)
    BY DEF Self
  <2>3. Self(k).ip = k.ip /\ Self(k).dr = k.dr /\ Self(k).bdr = k.bdr
    BY DEF Self
  <2>4. MyPriority # 0
    BY <2>1
  <2>5. Self(k).stands
    BY <2>2, <2>4, Zenon
  <2> QED BY <2>1, <2>3, <2>5
<1> QED BY <1>1, <1>2 DEF Candidates, Range

LEMMA OnlyDrElected ==
    ASSUME NEW r \in Router, NEW k \in Rec(r), NEW d, OnlyDr(r, k, d)
    PROVE  ElectionPass(k).dr = d
<1> DEFINE e == Elect(Self(k), Candidates(k), k.no_bdr)
           drs == DrField(Self(k), Range(Candidates(k)))
<1>1. /\ IF drs = {} THEN e.dr = e.bdr ELSE BestDr(e.dr, drs)
      /\ IsField(Field(r, k)) /\ drs \subseteq Field(r, k)
  BY ElectedIs
<1>2. /\ Range(Candidates(k)) = {Candidate(k, p) : p \in Range(k.neighbors)}
      /\ Range(k.neighbors) \subseteq Peers(r)
      /\ Self(k).ip = r /\ Self(k).dr = k.dr /\ Self(k).stands
  BY CandidatesAre
<1>3. \A p : /\ Candidate(k, p).ip = p /\ Candidate(k, p).stands = Eligible(k, p)
             /\ Candidate(k, p).dr = k.nbr[p].dr
  BY DEF Candidate
<1>4. \A c \in drs : c.ip = d
  <2>1. \A c \in drs : /\ c.stands /\ c.dr = c.ip
                       /\ c = Self(k) \/ \E p \in Range(k.neighbors) : c = Candidate(k, p)
    BY <1>2 DEF DrField, RunsForDr, DeclaresDr
  <2> HIDE DEF drs
  <2>2. k.dr = r => d = r
    BY DEF OnlyDr
  <2>3. \A p \in Peers(r) : Eligible(k, p) /\ k.nbr[p].dr = p => p = d
    BY DEF OnlyDr, Eligible
  <2> QED BY <1>2, <1>3, <2>1, <2>2, <2>3
<1>5. drs # {}
  <2> DEFINE c == IF d = r THEN Self(k) ELSE Candidate(k, d)
  <2>1. c \in Range(Candidates(k)) \cup {Self(k)}
    BY <1>2 DEF OnlyDr
  <2>2. c.stands /\ c.dr = c.ip
    BY <1>2, <1>3 DEF OnlyDr
  <2> QED BY <2>1, <2>2 DEF DrField, RunsForDr, DeclaresDr
<1>6. e.dr.ip = d /\ e.dr # Nobody
  <2>1. e.dr \in drs
    BY <1>1, <1>5 DEF BestDr
  <2>2. Nobody \notin Field(r, k)
    BY <1>1, NobodyRuns
  <2> HIDE DEF e, drs
  <2> QED BY <1>1, <1>4, <2>1, <2>2
<1> HIDE DEF e
<1>7. ElectionPass(k) = [k EXCEPT !.dr = e.dr.ip, !.bdr = e.bdr.ip,
                                  !.no_bdr = NewDr(k, e) \/ (k.no_bdr /\ ~NewBdr(k, e)),
                                  !.rpc = IF NewDr(k, e) \/ NewBdr(k, e) THEN "elect" ELSE "adj"]
  BY <1>6 DEF ElectionPass, e
<1> QED BY <1>6, <1>7 DEF Rec

(* When nobody is known to claim DR, and another router claims Backup but  *)
(* not this one, one of those that do is both.                             *)
LEMMA BackupElected ==
    ASSUME NEW r \in Router, NEW k \in Rec(r), k.dr # r, k.bdr # r,
           \A p \in Peers(r) : k.nbr[p].state \in TwoWay => k.nbr[p].dr # p,
           NEW q \in Range(k.neighbors), Eligible(k, q), k.nbr[q].bdr = q
    PROVE  ElectionPass(k).dr # r /\ ElectionPass(k).bdr # r
<1> DEFINE e == Elect(Self(k), Candidates(k), k.no_bdr)
           drs == DrField(Self(k), Range(Candidates(k)))
           bdrs == BdrField(Self(k), Range(Candidates(k)), k.no_bdr)
<1>1. /\ BestBdr(e.bdr, bdrs)
      /\ IF drs = {} THEN e.dr = e.bdr ELSE BestDr(e.dr, drs)
      /\ IsField(Field(r, k)) /\ bdrs \subseteq Field(r, k)
  BY ElectedIs
<1>2. /\ Range(Candidates(k)) = {Candidate(k, p) : p \in Range(k.neighbors)}
      /\ Range(k.neighbors) \subseteq Peers(r)
      /\ Self(k).ip = r /\ Self(k).dr = k.dr /\ Self(k).bdr = k.bdr /\ Self(k).stands
  BY CandidatesAre
<1>3. \A p : /\ Candidate(k, p).ip = p /\ Candidate(k, p).stands = Eligible(k, p)
             /\ Candidate(k, p).dr = k.nbr[p].dr /\ Candidate(k, p).bdr = k.nbr[p].bdr
  BY DEF Candidate
<1>4. drs = {}
  <2>1. \A p \in Peers(r) : Eligible(k, p) => k.nbr[p].dr # p
    BY DEF Eligible
  <2> QED BY <1>2, <1>3, <2>1 DEF DrField, RunsForDr, DeclaresDr
<1>5. Candidate(k, q) \in bdrs /\ DeclaresBdr(Candidate(k, q))
  <2>1. k.nbr[q].dr # q
    BY <1>2 DEF Eligible
  <2> QED BY <1>2, <1>3, <2>1 DEF BdrField, RunsForBdr, DeclaresDr, DeclaresBdr
<1> HIDE DEF e, drs, bdrs
<1>6. e.bdr \in bdrs /\ DeclaresBdr(e.bdr)
  BY <1>1, <1>5 DEF BestBdr, BeatsForBdr
<1>7. e.bdr.ip # r
  <2>1. e.bdr = Self(k) \/ \E p \in Range(k.neighbors) : e.bdr = Candidate(k, p)
    BY <1>2, <1>6 DEF bdrs, BdrField
  <2>2. ~DeclaresBdr(Self(k))
    BY <1>2 DEF DeclaresBdr
  <2>3. r \notin Range(k.neighbors)
    BY <1>2 DEF Peers
  <2> QED BY <1>3, <1>6, <2>1, <2>2, <2>3
<1>8. e.dr = e.bdr /\ e.dr # Nobody
  <2>1. Nobody \notin Field(r, k)
    BY <1>1, NobodyRuns
  <2> QED BY <1>1, <1>4, <1>6, <2>1
<1>9. ElectionPass(k) = [k EXCEPT !.dr = e.dr.ip, !.bdr = e.bdr.ip,
                                  !.no_bdr = NewDr(k, e) \/ (k.no_bdr /\ ~NewBdr(k, e)),
                                  !.rpc = IF NewDr(k, e) \/ NewBdr(k, e) THEN "elect" ELSE "adj"]
  BY <1>8 DEF ElectionPass, e
<1> QED BY <1>7, <1>8, <1>9 DEF Rec
-----------------------------------------------------------------------------
(* What routers that are in touch would elect. *)

(* Every router that has had an election hears each of the others both     *)
(* ways, knows what it would say now, and hears nobody else both ways.     *)
InTouch ==
    \A r \in Voters : \A p \in Peers(r) :
        IF p \in Voters THEN UpToDate(r, p) ELSE rt[r].nbr[p].state \notin TwoWay

Verdict(r) == Elect(Self(rt[r]), Candidates(rt[r]), FALSE)

(* Another election would leave it the DR and the Backup that it has. *)
Content(r) == Verdict(r).dr.ip = rt[r].dr /\ Verdict(r).bdr.ip = rt[r].bdr

AllIntroduced == \A r \in Router : Introduced(r, rt[r])

(* q as everyone in touch with it sees it, q itself included. *)
Stood(q) == [ip |-> q, id |-> Id[q], pri |-> 1, stands |-> TRUE,
             dr |-> rt[q].dr, bdr |-> rt[q].bdr]

(* The field of the election is the same, whoever holds it. *)
LEMMA SameField ==
    ASSUME Placed, AllIntroduced, InTouch, NEW r \in Voters
    PROVE  LET nbrs == Range(Candidates(rt[r]))
           IN  /\ BdrField(Self(rt[r]), nbrs, FALSE) =
                      {c \in {Stood(q) : q \in Voters} : RunsForBdr(c)}
               /\ DrField(Self(rt[r]), nbrs) =
                      {c \in {Stood(q) : q \in Voters} : RunsForDr(c)}
<1> DEFINE j == rt[r]
           nbrs == Range(Candidates(j))
<1>1. r \in Router /\ j \in Rec(r) /\ Voters \subseteq Router
  BY DEF Voters, Alive, Placed
<1>2. /\ nbrs = {Candidate(j, p) : p \in Range(j.neighbors)}
      /\ Range(j.neighbors) \subseteq Peers(r)
  BY <1>1, CandidatesAre
<1>3. Self(j) = Stood(r)
  <2>1. j.ip = r /\ MyPriority = 1
    BY <1>1, SegmentAssumption DEF Rec
  <2>2. (MyPriority # 0) = TRUE
    BY <2>1
  <2> QED BY <2>1, <2>2 DEF Self, Stood
<1>4. ASSUME NEW p \in Voters, p # r
      PROVE  Candidate(j, p) = Stood(p) /\ p \in Range(j.neighbors)
  <2>1. /\ j.nbr[p].state \in TwoWay
        /\ j.nbr[p].dr = rt[p].dr /\ j.nbr[p].bdr = rt[p].bdr
    BY <1>1, <1>4 DEF InTouch, Peers, UpToDate, Hello
  <2>2. j.nbr[p].pri = 1 /\ p \in Range(j.neighbors)
    BY <1>1, <1>4, <2>1 DEF AllIntroduced, Introduced, Peers, TwoWay
  <2>3. Eligible(j, p) = TRUE
    BY <2>1, <2>2 DEF Eligible
  <2> QED BY <2>1, <2>2, <2>3 DEF Candidate, Stood
<1>5. ASSUME NEW p \in Peers(r), p \notin Voters
      PROVE  ~Candidate(j, p).stands
  <2>1. ~Eligible(j, p)
    BY <1>5 DEF InTouch, Eligible
  <2> QED BY <2>1 DEF Candidate
<1> HIDE DEF j, nbrs
<1>6. \A c : c.stands => (c \in nbrs \cup {Self(j)} <=> \E q \in Voters : c = Stood(q))
  <2>1. ASSUME NEW c, c.stands, c \in nbrs \cup {Self(j)}
        PROVE  \E q \in Voters : c = Stood(q)
    <3>1. CASE c = Self(j)
      BY <1>3, <3>1
    <3>2. CASE \E p \in Range(j.neighbors) : c = Candidate(j, p)
      <4>1. PICK p \in Peers(r) : c = Candidate(j, p)
        BY <1>2, <3>2
      <4>2. p \in Voters /\ p # r
        BY <1>5, <2>1, <4>1 DEF Peers
      <4> QED BY <1>4, <4>1, <4>2
    <3> QED BY <1>2, <2>1, <3>1, <3>2
  <2>2. ASSUME NEW q \in Voters PROVE Stood(q) \in nbrs \cup {Self(j)}
    <3>1. CASE q = r
      BY <1>3, <3>1
    <3>2. CASE q # r
      BY <1>2, <1>4, <3>2
    <3> QED BY <3>1, <3>2
  <2> QED BY <2>1, <2>2
<1>7. /\ BdrField(Self(j), nbrs, FALSE) = {c \in {Stood(q) : q \in Voters} : RunsForBdr(c)}
      /\ DrField(Self(j), nbrs) = {c \in {Stood(q) : q \in Voters} : RunsForDr(c)}
  BY <1>6 DEF BdrField, DrField, RunsForBdr, RunsForDr
<1> QED BY <1>7 DEF j, nbrs

LEMMA SameVerdict ==
    ASSUME Placed, AllIntroduced, InTouch, NEW r \in Voters, NEW q \in Voters
    PROVE  Verdict(r) = Verdict(q)
<1> DEFINE Bdrs(x) == BdrField(Self(rt[x]), Range(Candidates(rt[x])), FALSE)
           Drs(x) == DrField(Self(rt[x]), Range(Candidates(rt[x])))
           Claim(S) == {c \in S : DeclaresBdr(c)}
           Backup(S) == Best(IF Claim(S) # {} THEN Claim(S) ELSE S)
<1>1. ASSUME NEW x \in Voters
      PROVE  Verdict(x) = [dr |-> IF Drs(x) # {} THEN Best(Drs(x)) ELSE Backup(Bdrs(x)),
                           bdr |-> Backup(Bdrs(x))]
  <2>1. x \in Router /\ rt[x] \in Rec(x)
    BY DEF Voters, Alive, Placed
  <2>2. ChoosesBest(Self(rt[x]), Candidates(rt[x]), FALSE)
    BY <2>1, FieldFacts, ElectionIsBest
  <2> QED BY <2>2 DEF ChoosesBest, Verdict
<1>2. Bdrs(r) = Bdrs(q) /\ Drs(r) = Drs(q)
  BY SameField
<1> HIDE DEF Bdrs, Drs, Backup
<1> QED BY <1>1, <1>2

LEMMA IntroducedStep ==
    Placed /\ AllIntroduced /\ [Next]_vars => AllIntroduced'
<1> SUFFICES ASSUME Placed, AllIntroduced, [Next]_vars PROVE AllIntroduced'
  OBVIOUS
<1>1. CASE UNCHANGED vars
  BY <1>1 DEF vars, AllIntroduced
<1>2. ASSUME NEW r \in Router, Links(r) PROVE AllIntroduced'
  BY <1>2 DEF Links, AllIntroduced
<1>3. ASSUME NEW r \in Router, Die(r) PROVE AllIntroduced'
  BY <1>3 DEF Die, AllIntroduced
<1>4. ASSUME NEW r \in Router, Return(r) PROVE AllIntroduced'
  <2>1. rt'[r] = New(r) /\ \A q \in Router \ {r} : rt'[q] = rt[q]
    BY <1>4 DEF Return, Becomes, Placed
  <2>2. Introduced(r, New(r))
    BY NewIs DEF NewNeighbor, Introduced
  <2> QED BY <2>1, <2>2 DEF AllIntroduced
<1> QED BY <1>1, <1>2, <1>3, <1>4, NextLinks

(* Routers that are in touch, however they came to be, would all elect the *)
(* same DR and the same Backup: the election depends on the order of no    *)
(* list, and a router judges itself as the others judge it (lines 141-154  *)
(* of interface.cpp).  So those that another election would leave as they  *)
(* are agree, and where two in touch differ, one has not held an election  *)
(* that it should have held.                                               *)
THEOREM ContentAgree ==
    Spec => [](InTouch =>
                 \A r, q \in Voters :
                    /\ Verdict(r) = Verdict(q)
                    /\ Content(r) /\ Content(q) =>
                           rt[r].dr = rt[q].dr /\ rt[r].bdr = rt[q].bdr)
<1> DEFINE Agree == InTouch =>
                      \A r, q \in Voters :
                         /\ Verdict(r) = Verdict(q)
                         /\ Content(r) /\ Content(q) =>
                                rt[r].dr = rt[q].dr /\ rt[r].bdr = rt[q].bdr
<1>1. Init => Placed /\ AllIntroduced
  <2>1. \A r \in Router : Introduced(r, New(r))
    BY NewIs DEF NewNeighbor, Introduced
  <2>2. Init => AllIntroduced
    BY <2>1 DEF Init, AllIntroduced
  <2> QED BY <2>2, InitLocal
<1>2. Placed /\ AllIntroduced /\ [Next]_vars => (Placed /\ AllIntroduced)'
  BY NextLocal, IntroducedStep
<1>3. Placed /\ AllIntroduced => Agree
  BY SameVerdict DEF Content
<1> QED BY <1>1, <1>2, <1>3, PTL DEF Spec
-----------------------------------------------------------------------------
(* Routers join others, and nobody dies or elects before it has heard. *)
Orderly == /\ start.early = {} /\ start.mortal = {}
           /\ start.late \subseteq Router /\ start.absent \subseteq Router
Firm == Router \ (start.late \cup start.absent)

(* Nothing is known of a router that is not up; of one that is heard, that *)
(* it stands for election.                                                 *)
OnceUp ==
    /\ dead = start.absent /\ start.absent \subseteq Router
    /\ \A p \in Router : rt[p].state = "DOWN" =>
          rt[p] = New(p) /\ \A q \in Router \ {p} : rt[q].nbr[p] = NewNeighbor
    /\ \A p \in start.absent : rt[p].state = "DOWN"
    /\ \A r \in Router : \A p \in Peers(r) : rt[r].nbr[p].state # "down" =>
          rt[r].nbr[p].pri = 1 /\ p \in Range(rt[r].neighbors)

(* What r may know of p after a step of r. *)
Learns(r, p) ==
    LET was == rt[r].nbr[p]
        is  == rt'[r].nbr[p]
    IN  \/ is = was
        \/ /\ rt[p].state # "DOWN" /\ is.state # "down" /\ is.pri = 1
           /\ p \in Range(rt'[r].neighbors)
           /\ was.state \in TwoWay => is.state \in TwoWay \/ rt'[r].rpc = "hung"
           /\ \/ was.state # "down" /\ is.dr = was.dr /\ is.bdr = was.bdr
              \/ is.dr = rt[p].dr /\ is.bdr = rt[p].bdr

(* A Hello of p makes r elect. *)
Alarms(r, p) ==
    LET was == rt[r].nbr[p]
        is  == rt'[r].nbr[p]
    IN  /\ rt[p].state # "DOWN" /\ is.state \in TwoWay /\ is.pri = 1
        /\ is.dr = rt[p].dr /\ is.bdr = rt[p].bdr
        /\ \/ BackupSeen(rt[r], p, was, is)
           \/ NeighborChanged(p, was, is) /\ rt[r].state \in Elected

Heeds(r) ==
    /\ r \in Alive /\ UNCHANGED <<dead, returned, start>>
    /\ Placed' /\ \A q \in Router \ {r} : rt'[q] = rt[q]
    /\ \A p \in Peers(r) : Learns(r, p)
    /\ Range(rt[r].neighbors) \subseteq Range(rt'[r].neighbors)
    /\ \/ rt[r].state = "DOWN" /\ InterfaceUp(r)
       \/ /\ rt[r].state # "DOWN" /\ rt'[r].state = rt[r].state
       \/ /\ rt[r].state # "DOWN" /\ rt[r].rpc # "loop" /\ rt'[r].state \in Elected
    /\ \/ SameRoles(rt[r], rt'[r])
       \/ rt[r].rpc = "elect" /\ rt'[r] = ElectionPass(rt[r])
    /\ rt'[r].waiting_timeout => rt[r].waiting_timeout \/ TimerFires(r)
    /\ \/ rt'[r].rpc \in {"loop", "hung"} \/ rt[r].rpc # "loop"
       \/ WaitExpired(rt[r])
       \/ \E p \in Peers(r) : Alarms(r, p)

LEMMA QuietHeeds ==
    ASSUME Placed, OnceUp, NEW r \in Router, InterfaceUp(r) \/ TimerFires(r) \/ WaitOver(r)
    PROVE  Heeds(r)
<1>1. PICK k \in Rec(r) : k = rt[r]
  BY DEF Placed
<1>2. PICK n \in Rec(r) :
          /\ Step(r, n) /\ SameNbrs(k, n) /\ SameRoles(k, n)
          /\ n.waiting_timeout => k.waiting_timeout \/ TimerFires(r)
          /\ \/ k.state = "DOWN" /\ InterfaceUp(r)
             \/ k.state # "DOWN" /\ n.state = k.state
          /\ \/ n.rpc = k.rpc
             \/ WaitExpired(k)
  <2>1. CASE InterfaceUp(r)
    BY <1>1, <2>1, UpLocal, TimersAre DEF InterfaceUp
  <2>2. CASE TimerFires(r)
    <3>1. k.state # "DOWN"
      <4>1. New(r).waiting_timer = "none"
        BY DEF New, NewInterface
      <4> QED BY <1>1, <2>2, <4>1 DEF OnceUp, TimerFires
    <3> QED BY <1>1, <2>2, <3>1, TimeoutLocal, TimersAre DEF TimerFires
  <2>3. CASE WaitOver(r)
    BY <1>1, <2>3, StartElectionLocal, ElectionsAre
    DEF WaitOver, WaitTimer, WaitExpired, SameState
  <2> QED BY <2>1, <2>2, <2>3
<1>3. rt'[r] = n
  BY <1>2, StepIs
<1>4. Range(rt[r].neighbors) \subseteq Range(rt'[r].neighbors)
  BY <1>1, <1>2, <1>3 DEF SameNbrs
<1>5. \A p \in Peers(r) : Learns(r, p)
  BY <1>1, <1>2, <1>3 DEF Learns, SameNbrs
<1>6. n.rpc = "loop" \/ k.rpc # "loop" \/ WaitExpired(k)
  BY <1>2
<1> QED BY <1>1, <1>2, <1>3, <1>4, <1>5, <1>6, StepIs DEF Heeds

LEMMA ResumeHeeds ==
    ASSUME Placed, OnceUp, NEW r \in Router, Resume(r)
    PROVE  Heeds(r)
<1>1. PICK k \in Rec(r) : k = rt[r] /\ k.rpc \in Electing
  BY DEF Placed, Resume
<1> DEFINE n == GoOn(k)
<1>2. n \in Rec(r) /\ Step(r, n)
  BY <1>1, GoOnLocal DEF Resume
<1>3. k.state # "DOWN" /\ k.rpc # "loop"
  <2>1. New(r).rpc = "loop"
    BY NewIs
  <2> QED BY <1>1, <2>1 DEF OnceUp, Electing
<1>4. /\ n.neighbors = k.neighbors
      /\ \A p \in Peers(r) :
            \/ n.nbr[p] = k.nbr[p]
            \/ /\ k.nbr[p].state \in TwoWay /\ n.nbr[p].state \in TwoWay
               /\ SameClaims(k.nbr[p], n.nbr[p])
      /\ n.state = k.state \/ n.state \in Elected
      /\ SameRoles(k, n) \/ (k.rpc = "elect" /\ n = ElectionPass(k))
      /\ n.waiting_timeout => k.waiting_timeout
  <2>1. CASE k.rpc = "elect"
    <3>1. n = ElectionPass(k)
      BY <2>1 DEF GoOn
    <3> QED BY <1>1, <2>1, <3>1, PassFacts DEF SameNbrs, SameState
  <2>2. CASE k.rpc = "adj"
    <3>1. n = AdjOk(k)
      BY <2>2 DEF GoOn
    <3> HIDE DEF n
    <3>2. ASSUME NEW p \in Peers(r)
          PROVE  \/ n.nbr[p] = k.nbr[p]
                 \/ /\ k.nbr[p].state \in TwoWay /\ n.nbr[p].state \in TwoWay
                    /\ SameClaims(k.nbr[p], n.nbr[p])
      <4>1. /\ SameClaims(k.nbr[p], n.nbr[p])
            /\ IF k.nbr[p].state \in TwoWay THEN n.nbr[p].state \in TwoWay
               ELSE n.nbr[p].state = k.nbr[p].state
        BY <1>1, <3>1, AdjOkFacts
      <4>2. k.nbr[p] \in NbrRec /\ n.nbr[p] \in NbrRec
        BY <1>1, <1>2 DEF Rec
      <4> QED BY <4>1, <4>2 DEF NbrRec, SameClaims
    <3>3. n.neighbors = k.neighbors /\ SameRoles(k, n) /\ SameState(k, n)
      BY <1>1, <3>1, AdjOkFacts
    <3> QED BY <3>2, <3>3 DEF SameState
  <2>3. CASE k.rpc = "role"
    <3>1. n = SetRole(k)
      BY <2>3 DEF GoOn
    <3> QED BY <1>1, <3>1, SetRoleIs DEF SameNbrs
  <2> QED BY <1>1, <2>1, <2>2, <2>3 DEF Electing
<1> HIDE DEF n
<1>5. rt'[r] = n
  BY <1>2, StepIs
<1>6. ASSUME NEW p \in Peers(r) PROVE Learns(r, p)
  <2>1. CASE n.nbr[p] = k.nbr[p]
    BY <1>1, <1>5, <2>1 DEF Learns
  <2>2. CASE /\ k.nbr[p].state \in TwoWay /\ n.nbr[p].state \in TwoWay
             /\ SameClaims(k.nbr[p], n.nbr[p])
    <3>1. k.nbr[p].state # "down" /\ n.nbr[p].state # "down"
      BY <2>2 DEF TwoWay
    <3>2. rt[p].state # "DOWN"
      <4>1. NewNeighbor.state = "down"
        BY DEF NewNeighbor
      <4> QED BY <1>1, <3>1, <4>1 DEF OnceUp, Peers
    <3>3. k.nbr[p].pri = 1 /\ p \in Range(k.neighbors)
      BY <1>1, <3>1 DEF OnceUp
    <3> QED BY <1>1, <1>4, <1>5, <2>2, <3>1, <3>2, <3>3 DEF Learns, SameClaims
  <2> QED BY <1>4, <2>1, <2>2
<1> QED BY <1>1, <1>2, <1>3, <1>4, <1>5, <1>6, StepIs DEF Heeds

LEMMA PacketHeeds ==
    ASSUME Placed, OnceUp, NEW r \in Router, NEW p \in Peers(r),
           \/ InactivityTimer(r, p) \/ RecvHello(r, p) \/ RecvDD(r, p)
    PROVE  Heeds(r)
<1>1. PICK k \in Rec(r) : /\ k = rt[r] /\ k.nbr[p] \in NbrRec /\ DOMAIN k.nbr = Peers(r)
                          /\ DOMAIN k.neighbors = 1 .. Len(k.neighbors)
                          /\ k.neighbors \in Seq(Peers(r))
  BY DEF Placed, Rec
<1>2. PICK m \in Said : m = Hello(p)
  <2>1. rt[p].dr \in Ips /\ rt[p].bdr \in Ips
    BY DEF Peers, Placed, Rec
  <2> QED BY <2>1 DEF Hello, Said
<1>3. m.pri = 1 /\ m.dr = rt[p].dr /\ m.bdr = rt[p].bdr
  BY <1>2 DEF Hello
<1>4. p \in Range(Lined(k, p)) /\ Range(k.neighbors) \subseteq Range(Lined(k, p))
  <2>1. CASE p \in Range(k.neighbors)
    BY <2>1 DEF Lined
  <2>2. CASE p \notin Range(k.neighbors)
    <3> DEFINE l == Append(k.neighbors, p)
    <3>1. /\ DOMAIN l = 1 .. Len(k.neighbors) + 1 /\ l[Len(k.neighbors) + 1] = p
          /\ \A x \in DOMAIN k.neighbors : x \in DOMAIN l /\ l[x] = k.neighbors[x]
      BY <1>1
    <3>2. Len(k.neighbors) + 1 \in DOMAIN l
      BY <1>1, <3>1
    <3>3. Lined(k, p) = l
      BY <2>2 DEF Lined
    <3> HIDE DEF l
    <3> QED BY <3>1, <3>2, <3>3 DEF Range
  <2> QED BY <2>1, <2>2
<1>5. ~InactivityTimer(r, p)
  <2>1. NewNeighbor.state = "down"
    BY DEF NewNeighbor
  <2> QED BY <2>1 DEF InactivityTimer, OnceUp, Peers
(* What is common to the packets. *)
<1>6. ASSUME NEW n \in Rec(r), Step(r, n), k.state # "DOWN",
             SameOthers(k, n, p), SameRoles(k, n), SameState(k, n),
             Range(k.neighbors) \subseteq Range(n.neighbors), p \in Range(n.neighbors),
             rt[p].state # "DOWN", n.nbr[p].state # "down", n.nbr[p].pri = 1,
             k.nbr[p].state \in TwoWay => n.nbr[p].state \in TwoWay \/ n.rpc = "hung",
             \/ k.nbr[p].state # "down" /\ SameClaims(k.nbr[p], n.nbr[p])
             \/ n.nbr[p].dr = rt[p].dr /\ n.nbr[p].bdr = rt[p].bdr,
             n.rpc \in {"loop", "hung"} \/ Alarms(r, p)
      PROVE  Heeds(r)
  <2>1. rt'[r] = n
    BY <1>6, StepIs
  <2>2. Learns(r, p)
    BY <1>1, <1>6, <2>1 DEF Learns, SameClaims
  <2>3. ASSUME NEW q \in Peers(r) \ {p} PROVE Learns(r, q)
    BY <1>1, <1>6, <2>1 DEF Learns, SameOthers
  <2> QED BY <1>1, <1>6, <2>1, <2>2, <2>3, StepIs DEF Heeds, SameState
<1>7. CASE RecvDD(r, p)
  <2> DEFINE n == DDInInit(k, p)
  <2>1. /\ n \in Rec(r) /\ Step(r, n) /\ k.rpc = "loop" /\ k.state # "DOWN"
        /\ rt[p].nbr[r].state = "adj" /\ k.nbr[p].state = "init"
    BY <1>1, <1>7, DDInInitLocal DEF RecvDD, Idle
  <2>2. /\ SameOthers(k, n, p) /\ SameRoles(k, n) /\ SameState(k, n)
        /\ n.neighbors = k.neighbors /\ n.rpc = k.rpc
        /\ n.nbr[p].state \in TwoWay /\ SameClaims(k.nbr[p], n.nbr[p])
    BY <1>1, DDInInitIs
  <2> HIDE DEF n
  <2>3. k.nbr[p].pri = 1 /\ p \in Range(k.neighbors) /\ rt[p].state # "DOWN"
    <3>1. NewNeighbor.state = "down"
      BY DEF NewNeighbor
    <3> QED BY <1>1, <2>1, <3>1 DEF OnceUp, Peers
  <2>4. n.nbr[p].state # "down" /\ n.nbr[p].pri = 1
    BY <2>2, <2>3 DEF TwoWay, SameClaims
  <2> QED BY <1>6, <2>1, <2>2, <2>3, <2>4
<1>8. CASE RecvHello(r, p) /\ Lists(p, r)
  <2> DEFINE n == Hello2Way(k, p, m)
  <2>1. /\ n \in Rec(r) /\ Step(r, n) /\ k.rpc = "loop" /\ k.state # "DOWN"
        /\ rt[p].state # "DOWN"
    BY <1>1, <1>2, <1>8, Hello2WayLocal DEF RecvHello, Idle
  <2>2. PICK s \in TwoWay : HeardBothWays(k, n, p, m, s)
    BY Hello2WayIs
  <2> HIDE DEF n
  <2>3. /\ n.nbr[p].state = s /\ n.nbr[p].pri = 1
        /\ n.nbr[p].dr = rt[p].dr /\ n.nbr[p].bdr = rt[p].bdr
        /\ SameOthers(k, n, p) /\ SameRoles(k, n) /\ SameState(k, n)
        /\ n.neighbors = Lined(k, p)
    BY <1>3, <2>2 DEF HeardBothWays
  <2>4. n.rpc = "loop" \/ Alarms(r, p)
    <3>1. rt'[r] = n
      BY <2>1, StepIs
    <3>2. CASE /\ n.nbr[p].state \in TwoWay
               /\ \/ BackupSeen(k, p, k.nbr[p], n.nbr[p])
                  \/ NeighborChanged(p, k.nbr[p], n.nbr[p]) /\ k.state \in Elected
      BY <1>1, <2>1, <2>3, <3>1, <3>2 DEF Alarms
    <3> QED BY <2>1, <2>2, <2>3, <3>2 DEF HeardBothWays
  <2>5. s \in TwoWay /\ s # "down"
    BY <2>2 DEF TwoWay
  <2> QED BY <1>4, <1>6, <2>1, <2>3, <2>4, <2>5
<1>9. CASE RecvHello(r, p) /\ ~Lists(p, r)
  <2> DEFINE n == Hello1Way(k, p, m)
  <2>1. /\ n \in Rec(r) /\ Step(r, n) /\ k.rpc = "loop" /\ k.state # "DOWN"
        /\ rt[p].state # "DOWN"
    BY <1>1, <1>2, <1>9, Hello1WayLocal DEF RecvHello, Idle
  <2>2. /\ SameOthers(k, n, p) /\ SameRoles(k, n) /\ SameState(k, n)
        /\ n.neighbors = Lined(k, p)
        /\ n.nbr[p] = [state |-> "init", pri |-> m.pri, dr |-> m.dr, bdr |-> m.bdr]
        /\ n.rpc = IF k.nbr[p].state \in TwoWay THEN "hung" ELSE k.rpc
    BY <1>1, <1>2, Hello1WayIs
  <2> HIDE DEF n
  <2>3. /\ n.nbr[p].state = "init" /\ n.nbr[p].pri = 1
        /\ n.nbr[p].dr = rt[p].dr /\ n.nbr[p].bdr = rt[p].bdr
    BY <1>3, <2>2
  <2> QED BY <1>4, <1>6, <2>1, <2>2, <2>3
<1> QED BY <1>5, <1>7, <1>8, <1>9

LEMMA NextHeeds ==
    ASSUME Placed, OnceUp, Orderly, Next
    PROVE  \E r \in Router : Heeds(r)
<1>1. PICK r \in Router :
                    \/ InterfaceUp(r) \/ TimerFires(r) \/ Resume(r) \/ WaitOver(r)
                    \/ Die(r) \/ Return(r)
                    \/ \E p \in Peers(r) :
                          InactivityTimer(r, p) \/ RecvHello(r, p) \/ RecvDD(r, p)
  BY DEF Next, Peers
<1>2. ~Die(r) /\ ~Return(r)
  BY DEF Die, Return, Orderly, OnceUp
<1> QED BY <1>1, <1>2, QuietHeeds, ResumeHeeds, PacketHeeds

LEMMA OnceUpStep ==
    ASSUME Placed, OnceUp, NEW r \in Router, Heeds(r)
    PROVE  OnceUp'
<1>1. /\ dead' = dead /\ start' = start /\ \A q \in Router \ {r} : rt'[q] = rt[q]
      /\ r \in Alive /\ rt'[r].state # "DOWN"
  <2>1. rt'[r].state # "DOWN"
    <3>1. CASE InterfaceUp(r)
      <4>1. Up(rt[r]) \in Rec(r) /\ Up(rt[r]).state = "WAITING"
        BY UpLocal, TimersAre DEF Placed
      <4> QED BY <3>1, <4>1, StepIs DEF InterfaceUp
    <3> QED BY <3>1 DEF Heeds, Elected
  <2> QED BY <2>1 DEF Heeds
<1>2. ASSUME NEW p \in Router, rt'[p].state = "DOWN"
      PROVE  rt'[p] = New(p) /\ \A q \in Router \ {p} : rt'[q].nbr[p] = NewNeighbor
  <2>1. p # r /\ rt'[p] = rt[p] /\ rt[p].state = "DOWN"
    BY <1>1, <1>2
  <2>2. rt[p] = New(p) /\ \A q \in Router \ {p} : rt[q].nbr[p] = NewNeighbor
    BY <2>1 DEF OnceUp
  <2>3. rt'[r].nbr[p] = rt[r].nbr[p]
    BY <2>1 DEF Heeds, Learns, Peers
  <2> QED BY <1>1, <2>1, <2>2, <2>3
<1>3. \A p \in start'.absent : rt'[p].state = "DOWN"
  <2>1. dead' = start'.absent /\ \A p \in start.absent : p # r /\ rt[p].state = "DOWN"
    BY <1>1 DEF OnceUp, Alive
  <2>2. \A p \in start.absent : rt'[p] = rt[p]
    BY <1>1, <2>1 DEF OnceUp
  <2> QED BY <1>1, <2>1, <2>2
<1>4. ASSUME NEW q \in Router, NEW p \in Peers(q), rt'[q].nbr[p].state # "down"
      PROVE  rt'[q].nbr[p].pri = 1 /\ p \in Range(rt'[q].neighbors)
  <2>1. CASE q # r
    BY <1>1, <1>4, <2>1 DEF OnceUp
  <2>2. CASE q = r
    <3>1. Learns(r, p) /\ Range(rt[r].neighbors) \subseteq Range(rt'[r].neighbors)
      BY <2>2 DEF Heeds
    <3>2. CASE rt'[r].nbr[p] = rt[r].nbr[p]
      BY <1>4, <2>2, <3>1, <3>2 DEF OnceUp
    <3> QED BY <2>2, <3>1, <3>2 DEF Learns
  <2> QED BY <2>1, <2>2
<1>5. dead' = start'.absent /\ start'.absent \subseteq Router
  BY <1>1 DEF OnceUp
<1> QED BY <1>2, <1>3, <1>4, <1>5 DEF OnceUp

(* Until the first router joins: as long as one of the others is not up,   *)
(* none of them has stopped waiting, nor claims anything.                  *)
Asleep(r) ==
    /\ rt[r].state = "WAITING" /\ rt[r].rpc = "loop" /\ ~rt[r].waiting_timeout
    /\ rt[r].dr = NoIp /\ rt[r].bdr = NoIp
Before ==
    /\ \A j \in start.late : rt[j].state = "DOWN"
    /\ (\E r \in Firm : rt[r].state = "DOWN") =>
          \A r \in Firm : rt[r].state = "DOWN" \/ Asleep(r)

(* Once j is the last that has joined: d is the DR of the routers that     *)
(* were up before, which hear each other.                                  *)
Settled(j) == {r \in Router \ {j} : rt[r].state # "DOWN"}
KnowsDr(d, j) ==
    /\ \A r \in Settled(j) :
          /\ rt[r].state \in Elected /\ rt[r].dr = d /\ rt[r].nbr[j].dr # j
          /\ \A p \in Settled(j) \ {r} : rt[r].nbr[p].state \in TwoWay /\ rt[r].nbr[p].dr = d
    /\ rt[j].dr # j
    /\ \A p \in Settled(j) : rt[j].nbr[p].state # "down" => rt[j].nbr[p].dr = d

(* As long as j has not heard d both ways, it has elected at most the      *)
(* Backup, and has given the others no reason to elect.                    *)
Frozen(j) ==
    /\ \A r \in Settled(j) :
          /\ rt[r].rpc = "loop" /\ rt[r].nbr[j].bdr # j
          /\ \A p \in Settled(j) \ {r} : rt[r].nbr[p].bdr = rt[p].bdr
    /\ rt[j].bdr # j /\ ~rt[j].waiting_timeout
    /\ \A p \in Settled(j) : rt[j].nbr[p].state # "down" => rt[j].nbr[p].bdr = rt[p].bdr
    /\ rt[j].rpc # "loop" =>
          \E p \in Settled(j) : rt[j].nbr[p].state \in TwoWay /\ rt[j].nbr[p].bdr = p

Joined(j) ==
    /\ rt[j].state # "DOWN" /\ Firm \subseteq Settled(j)
    /\ \E d \in Firm : KnowsDr(d, j) /\ (Frozen(j) \/ rt[j].nbr[d].state \in TwoWay)

JoinInv == start.late # {} =>
              /\ Orderly
              /\ Hung \/ (OnceUp /\ (Before \/ \E j \in start.late : Joined(j)))

LEMMA RouterIp == \A r \in Router : r # NoIp
BY SegmentAssumption DEF NoIp

(* A router comes up when the others agree. *)
LEMMA AgreedJoins ==
    ASSUME Placed, OnceUp, Orderly, NEW j \in start.late, InterfaceUp(j),
           NEW d \in Firm, Agreed(d), Firm \subseteq Voters
    PROVE  Joined(j)'
<1>1. j \in Router /\ rt[j].state = "DOWN" /\ dead = start.absent
  BY DEF Orderly, InterfaceUp, OnceUp
<1>3. Up(rt[j]) \in Rec(j) /\ Step(j, Up(rt[j]))
  BY <1>1, UpLocal DEF Placed, InterfaceUp
<1>4. /\ \A q \in Router \ {j} : rt'[q] = rt[q]
      /\ rt'[j] = Up(rt[j]) /\ start' = start
  BY <1>1, <1>3, StepIs
<1>5. /\ rt'[j].state = "WAITING" /\ ~rt'[j].waiting_timeout /\ rt'[j].rpc = "loop"
      /\ rt'[j].dr = NoIp /\ rt'[j].bdr = NoIp
      /\ \A p \in Peers(j) : rt'[j].nbr[p] = NewNeighbor
  <2>1. rt[j] = New(j) /\ rt[j] \in Rec(j)
    BY <1>1 DEF OnceUp, Placed
  <2> QED BY <1>1, <1>4, <2>1, NewIs, TimersAre DEF SameNbrs, SameRoles
<1>6. NewNeighbor.state = "down" /\ NewNeighbor.dr = NoIp /\ NewNeighbor.bdr = NoIp
  BY DEF NewNeighbor
<1>7. Settled(j)' = Settled(j) /\ Firm' = Firm /\ j # NoIp
  BY <1>1, <1>4, RouterIp DEF Firm, Settled
<1>8. \A r \in Settled(j) : r # j /\ r \in Peers(j) /\ r \in Router /\ r \in Voters
  BY <1>1 DEF Settled, Peers, Agreed, OnceUp, Alive
<1>9. Firm \subseteq Settled(j)
  BY DEF Settled, Voters, Firm, Elected
<1>10. \A r \in Settled(j) :
          /\ rt'[r] = rt[r] /\ rt[r].state \in Elected /\ rt[r].rpc = "loop" /\ rt[r].dr = d
          /\ rt[r].nbr[j] = NewNeighbor
          /\ \A p \in Settled(j) \ {r} : /\ rt[r].nbr[p].state \in TwoWay
                                         /\ rt[r].nbr[p].dr = d /\ rt[r].nbr[p].bdr = rt[p].bdr
  <2> SUFFICES ASSUME NEW r \in Settled(j)
               PROVE  /\ rt'[r] = rt[r] /\ rt[r].state \in Elected /\ rt[r].rpc = "loop"
                      /\ rt[r].dr = d /\ rt[r].nbr[j] = NewNeighbor
                      /\ \A p \in Settled(j) \ {r} :
                            /\ rt[r].nbr[p].state \in TwoWay
                            /\ rt[r].nbr[p].dr = d /\ rt[r].nbr[p].bdr = rt[p].bdr
    OBVIOUS
  <2>1. rt'[r] = rt[r] /\ rt[r].state \in Elected
    BY <1>4, <1>8 DEF Voters
  <2>2. rt[r].rpc = "loop" /\ rt[r].dr = d /\ \A p \in Voters \ {r} : UpToDate(r, p)
    BY <1>8 DEF Agreed
  <2>3. \A p \in Settled(j) \ {r} : /\ rt[r].nbr[p].state \in TwoWay
                                    /\ rt[r].nbr[p].dr = d /\ rt[r].nbr[p].bdr = rt[p].bdr
    <3> SUFFICES ASSUME NEW p \in Settled(j) \ {r}
                 PROVE  /\ rt[r].nbr[p].state \in TwoWay
                        /\ rt[r].nbr[p].dr = d /\ rt[r].nbr[p].bdr = rt[p].bdr
      OBVIOUS
    <3>1. UpToDate(r, p) /\ rt[p].dr = d
      BY <1>8, <2>2 DEF Agreed
    <3> QED BY <3>1 DEF UpToDate, Hello
  <2>4. rt[r].nbr[j] = NewNeighbor
    BY <1>1, <1>8 DEF OnceUp
  <2> QED BY <2>1, <2>2, <2>3, <2>4
<1>11. KnowsDr(d, j)'
  BY <1>5, <1>6, <1>7, <1>8, <1>10 DEF KnowsDr
<1>12. Frozen(j)'
  BY <1>5, <1>6, <1>7, <1>8, <1>10 DEF Frozen
<1> QED BY <1>5, <1>7, <1>9, <1>11, <1>12 DEF Joined

(* As long as one is not up, the others go on sleeping. *)
LEMMA SleepersSleep ==
    ASSUME Placed, OnceUp, Orderly, Before, NEW r \in Firm, Heeds(r)
    PROVE  Hung' \/ Before'
<1>1. /\ Firm' = Firm /\ Alive' = Alive /\ r \in Alive /\ start' = start
      /\ r \in Router /\ r \notin start.late
      /\ \A q \in Router \ {r} : rt'[q] = rt[q]
  BY DEF Heeds, Firm, Alive
<1>2. rt'[r].state # "DOWN"
  <2>1. CASE InterfaceUp(r)
    <3>1. Up(rt[r]) \in Rec(r) /\ Up(rt[r]).state = "WAITING"
      BY <1>1, UpLocal, TimersAre DEF Placed
    <3> QED BY <1>1, <2>1, <3>1, StepIs DEF InterfaceUp
  <2> QED BY <2>1 DEF Heeds, Elected
<1>3. ASSUME NEW q \in Firm, rt'[q].state = "DOWN"
      PROVE  Hung' \/ \A p \in Firm : rt'[p].state = "DOWN" \/ Asleep(p)'
  <2>1. q # r /\ rt[q].state = "DOWN" /\ q \in Router
    BY <1>1, <1>2, <1>3 DEF Firm
  <2>2. \A p \in Firm : rt[p].state = "DOWN" \/ Asleep(p)
    BY <2>1 DEF Before
  <2>3. Asleep(r)' \/ rt'[r].rpc = "hung"
    <3>1. CASE InterfaceUp(r)
      <4>1. rt[r] = New(r) /\ rt[r] \in Rec(r)
        BY <1>1, <3>1 DEF OnceUp, InterfaceUp, Placed
      <4>2. rt'[r] = Up(rt[r])
        BY <1>1, <3>1, <4>1, UpLocal, StepIs DEF InterfaceUp
      <4>3. /\ Up(rt[r]).state = "WAITING" /\ Up(rt[r]).rpc = "loop" /\ ~Up(rt[r]).waiting_timeout
            /\ Up(rt[r]).dr = NoIp /\ Up(rt[r]).bdr = NoIp
        BY <1>1, <4>1, NewIs, TimersAre DEF SameRoles
      <4> QED BY <4>2, <4>3 DEF Asleep
    <3>2. CASE Asleep(r)
      <4>1. /\ rt[r].state = "WAITING" /\ rt[r].rpc = "loop" /\ ~rt[r].waiting_timeout
            /\ rt[r].dr = NoIp /\ rt[r].bdr = NoIp
        BY <3>2 DEF Asleep
      <4>2. rt'[r].state = "WAITING" /\ SameRoles(rt[r], rt'[r])
        BY <4>1 DEF Heeds
      <4>3. ~TimerFires(r)
        <5>1. /\ q \in Alive \ (start.late \cup {r}) /\ r \notin start.early
              /\ rt[r].nbr[q] = NewNeighbor
          <6>1. q \notin start.late
            BY DEF Firm
          <6> QED BY <1>1, <2>1, <6>1 DEF Firm, Alive, OnceUp, Orderly
        <5>2. NewNeighbor.state \notin TwoWay
          BY DEF NewNeighbor, TwoWay
        <5> QED BY <5>1, <5>2 DEF TimerFires
      <4>4. \A p \in Peers(r) : ~Alarms(r, p)
        <5> SUFFICES ASSUME NEW p \in Peers(r), Alarms(r, p) PROVE FALSE
          OBVIOUS
        <5>1. /\ rt[p].state # "DOWN" /\ rt'[r].nbr[p].dr = rt[p].dr
              /\ rt'[r].nbr[p].bdr = rt[p].bdr
              /\ BackupSeen(rt[r], p, rt[r].nbr[p], rt'[r].nbr[p])
          BY <4>1 DEF Alarms, Elected
        <5>2. p \in Firm /\ p # NoIp
          BY <5>1, RouterIp DEF Firm, OnceUp, Peers, Before
        <5>3. rt[p].dr = NoIp /\ rt[p].bdr = NoIp
          BY <2>2, <5>1, <5>2 DEF Asleep
        <5> QED BY <5>1, <5>2, <5>3 DEF BackupSeen
      <4>5. rt'[r].rpc \in {"loop", "hung"} /\ ~rt'[r].waiting_timeout
        BY <4>1, <4>3, <4>4 DEF Heeds, WaitExpired
      <4> QED BY <4>1, <4>2, <4>5 DEF Asleep, SameRoles
    <3> QED BY <2>2, <3>1, <3>2 DEF Heeds
  <2>4. CASE rt'[r].rpc = "hung"
    BY <1>1, <2>4 DEF Hung
  <2>5. CASE Asleep(r)'
    <3>1. \A p \in Firm \ {r} : rt'[p].state = "DOWN" \/ Asleep(p)'
      BY <1>1, <2>2 DEF Asleep, Firm
    <3> QED BY <2>5, <3>1
  <2> QED BY <2>3, <2>4, <2>5
<1>4. \A j \in start.late : rt'[j].state = "DOWN"
  BY <1>1 DEF Before, Orderly
<1> QED BY <1>1, <1>3, <1>4 DEF Before

(* The first that joins does so when all others are up. *)
LEMMA BeforeStep ==
    ASSUME Placed, OnceUp, Orderly, Before, NEW r \in Router, Heeds(r)
    PROVE  Hung' \/ Before' \/ \E j \in start.late : Joined(j)'
<1>1. CASE r \in Firm
  BY <1>1, SleepersSleep
<1>2. CASE r \in start.late
  <2>1. InterfaceUp(r)
    BY <1>2 DEF Heeds, Before
  <2>2. PICK d \in Router : Agreed(d)
    BY <1>2, <2>1 DEF InterfaceUp
  <2>3. d \in Firm /\ rt[d].state \in Elected
    <3>1. d \in Voters
      BY <2>2 DEF Agreed
    <3>2. d \in Alive /\ rt[d].state \in Elected
      BY <3>1 DEF Voters
    <3> QED BY <3>2 DEF Firm, Alive, Elected, Before, OnceUp
  <2>4. Firm \subseteq Voters
    <3>1. rt[d].state # "DOWN" /\ ~Asleep(d)
      BY <2>3 DEF Elected, Asleep
    <3>2. \A p \in Firm : rt[p].state # "DOWN" /\ p \in Alive
      BY <2>3, <3>1 DEF Before, Firm, OnceUp, Alive
    <3> QED BY <2>2, <3>2 DEF Agreed
  <2> QED BY <1>2, <2>1, <2>2, <2>3, <2>4, AgreedJoins
<1>3. r \in Alive
  BY DEF Heeds
<1> QED BY <1>1, <1>2, <1>3 DEF Alive, Firm, OnceUp

(* A step of one of the others: none of them elects another DR, and before *)
(* j has heard it both ways none of them elects at all.                    *)
LEMMA FirmStep ==
    ASSUME Placed, OnceUp, NEW j \in Router, Joined(j), NEW r \in Settled(j), Heeds(r)
    PROVE  Hung' \/ Joined(j)'
<1>1. r \in Router /\ r # j /\ rt[j].state # "DOWN" /\ rt[r].state # "DOWN"
  BY DEF Joined, Settled
<1>2. /\ \A q \in Router \ {r} : rt'[q] = rt[q]
      /\ Firm' = Firm /\ Settled(j)' = Settled(j)
      /\ Alive' = Alive /\ r \in Alive /\ rt'[j] = rt[j]
      /\ \A p \in Settled(j) \ {r} : rt'[p] = rt[p] /\ p \in Peers(r)
      /\ j \in Peers(r)
  BY <1>1 DEF Heeds, Firm, Settled, Alive, Peers, Elected
<1>3. PICK d \in Firm \cap Settled(j) :
        KnowsDr(d, j) /\ (Frozen(j) \/ rt[j].nbr[d].state \in TwoWay)
  BY DEF Joined
<1>4. \A p \in Settled(j) : rt[p].dr = d
  BY <1>3 DEF KnowsDr
<1> SUFFICES ASSUME rt'[r].rpc # "hung"
             PROVE  KnowsDr(d, j)' /\ (Frozen(j)' \/ rt'[j].nbr[d].state \in TwoWay)
  BY <1>1, <1>2, <1>3 DEF Hung, Joined
<1>5. /\ rt[r].state \in Elected /\ rt[r].dr = d /\ rt[r].nbr[j].dr # j
      /\ \A p \in Settled(j) \ {r} : rt[r].nbr[p].state \in TwoWay /\ rt[r].nbr[p].dr = d
  BY <1>3 DEF KnowsDr
<1>6. \A p \in Peers(r) : Learns(r, p)
  BY DEF Heeds
<1>7. ASSUME NEW p \in Settled(j) \ {r}
      PROVE  /\ rt'[r].nbr[p].state \in TwoWay /\ rt'[r].nbr[p].dr = d
             /\ rt[r].nbr[p].bdr = rt[p].bdr => rt'[r].nbr[p].bdr = rt[p].bdr
  BY <1>2, <1>4, <1>5, <1>6 DEF Learns
<1>8. /\ rt'[r].nbr[j].dr # j
      /\ rt[r].nbr[j].bdr # j /\ rt[j].bdr # j => rt'[r].nbr[j].bdr # j
  <2>1. rt[j].dr # j
    BY <1>3 DEF KnowsDr
  <2> QED BY <1>2, <1>5, <1>6, <2>1 DEF Learns
<1>9. rt'[r].state \in Elected
  BY <1>5 DEF Heeds, Elected
<1>10. rt'[r].dr = d
  <2>1. CASE SameRoles(rt[r], rt'[r])
    BY <1>5, <2>1 DEF SameRoles
  <2>2. CASE rt'[r] = ElectionPass(rt[r])
    <3>1. PICK k \in Rec(r) : k = rt[r]
      BY <1>1 DEF Placed
    <3>2. ASSUME NEW p \in Peers(r), k.nbr[p].state \in TwoWay, k.nbr[p].dr = p
          PROVE  p = d
      <4>1. p \in Settled(j) \/ p = j
        <5>1. NewNeighbor.state \notin TwoWay
          BY DEF NewNeighbor, TwoWay
        <5> QED BY <1>1, <3>1, <3>2, <5>1 DEF OnceUp, Peers, Settled
      <4> QED BY <1>5, <3>1, <3>2, <4>1 DEF Peers
    <3>3. CASE d = r
      <4>1. OnlyDr(r, k, d)
        BY <1>5, <3>1, <3>2, <3>3 DEF OnlyDr
      <4> QED BY <1>1, <2>2, <3>1, <4>1, OnlyDrElected
    <3>4. CASE d # r
      <4>1. d \in Peers(r) /\ k.nbr[d].state \in TwoWay /\ k.nbr[d].dr = d /\ k.dr = d
        BY <1>2, <1>3, <1>5, <3>1, <3>4
      <4>2. k.nbr[d].pri = 1 /\ d \in Range(k.neighbors)
        BY <1>1, <3>1, <4>1 DEF OnceUp, TwoWay
      <4>3. OnlyDr(r, k, d)
        BY <3>2, <3>4, <4>1, <4>2 DEF OnlyDr, Eligible
      <4> QED BY <1>1, <2>2, <3>1, <4>3, OnlyDrElected
    <3> QED BY <3>3, <3>4
  <2> QED BY <2>1, <2>2 DEF Heeds
<1>11. KnowsDr(d, j)'
  <2>1. ASSUME NEW q \in Settled(j)
        PROVE  /\ rt'[q].state \in Elected /\ rt'[q].dr = d /\ rt'[q].nbr[j].dr # j
               /\ \A p \in Settled(j) \ {q} :
                     rt'[q].nbr[p].state \in TwoWay /\ rt'[q].nbr[p].dr = d
    <3>1. CASE q = r
      BY <1>7, <1>8, <1>9, <1>10, <3>1
    <3>2. CASE q # r
      BY <1>2, <1>3, <3>2 DEF KnowsDr
    <3> QED BY <3>1, <3>2
  <2>2. /\ rt'[j].dr # j
        /\ \A p \in Settled(j) : rt'[j].nbr[p].state # "down" => rt'[j].nbr[p].dr = d
    BY <1>2, <1>3 DEF KnowsDr
  <2> QED BY <1>2, <2>1, <2>2 DEF KnowsDr
<1>12. CASE Frozen(j)
  <2>1. /\ rt[r].rpc = "loop" /\ rt[r].nbr[j].bdr # j /\ rt[j].bdr # j
        /\ \A p \in Settled(j) \ {r} : rt[r].nbr[p].bdr = rt[p].bdr
    BY <1>12 DEF Frozen
  <2>2. ASSUME NEW p \in Peers(r), Alarms(r, p) PROVE FALSE
    <3> DEFINE was == rt[r].nbr[p]
               is == rt'[r].nbr[p]
    <3>1. /\ rt[p].state # "DOWN" /\ is.pri = 1 /\ is.dr = rt[p].dr /\ is.bdr = rt[p].bdr
          /\ NeighborChanged(p, was, is)
      BY <1>5, <2>2 DEF Alarms, BackupSeen, Elected
    <3>2. was.state # "down" => was.pri = 1
      BY <1>1 DEF OnceUp
    <3>3. p \in Settled(j) \/ p = j
      BY <3>1 DEF Settled, Peers
    <3>4. CASE p = j
      <4>1. rt[j].dr # j
        BY <1>3 DEF KnowsDr
      <4> QED BY <1>5, <2>1, <3>1, <3>2, <3>4, <4>1
              DEF NeighborChanged, PriChanged, DrChanged, BdrChanged, Known
    <3>5. CASE p \in Settled(j)
      <4>1. p \in Settled(j) \ {r}
        BY <3>5 DEF Peers
      <4>2. was.dr = is.dr /\ was.bdr = is.bdr
        BY <1>4, <1>5, <2>1, <3>1, <4>1
      <4> HIDE DEF was, is
      <4> QED BY <3>1, <3>2, <4>2
              DEF NeighborChanged, PriChanged, DrChanged, BdrChanged, Known
    <3> QED BY <3>3, <3>4, <3>5
  <2>3. rt'[r].rpc = "loop" /\ SameRoles(rt[r], rt'[r])
    BY <1>5, <2>1, <2>2 DEF Heeds, WaitExpired, Elected
  <2>4. \A p \in Settled(j) : rt'[p].bdr = rt[p].bdr
    BY <1>2, <2>3 DEF SameRoles
  <2>5. ASSUME NEW q \in Settled(j)
        PROVE  /\ rt'[q].rpc = "loop" /\ rt'[q].nbr[j].bdr # j
               /\ \A p \in Settled(j) \ {q} : rt'[q].nbr[p].bdr = rt'[p].bdr
    <3>1. CASE q = r
      BY <1>7, <1>8, <2>1, <2>3, <2>4, <3>1
    <3>2. CASE q # r
      BY <1>2, <1>12, <2>4, <3>2 DEF Frozen
    <3> QED BY <3>1, <3>2
  <2>6. Frozen(j)'
    BY <1>2, <1>12, <2>4, <2>5 DEF Frozen
  <2> QED BY <1>11, <2>6
<1> QED BY <1>2, <1>3, <1>11, <1>12

(* A step of j. *)
LEMMA JoinerStep ==
    ASSUME Placed, OnceUp, Orderly, NEW j \in start.late, Joined(j), Heeds(j)
    PROVE  Hung' \/ Joined(j)'
<1>1. j \in Router /\ rt[j].state # "DOWN"
  BY DEF Orderly, Joined
<1>2. /\ Firm' = Firm /\ Settled(j)' = Settled(j) /\ Alive' = Alive /\ j \in Alive
      /\ \A p \in Settled(j) : p # j /\ p \in Peers(j) /\ rt'[p] = rt[p] /\ p \in Router
      /\ rt'[j].state # "DOWN"
  BY <1>1 DEF Heeds, Firm, Settled, Alive, Peers, Elected
<1>3. PICK d \in Firm \cap Settled(j) :
        KnowsDr(d, j) /\ (Frozen(j) \/ rt[j].nbr[d].state \in TwoWay)
  BY DEF Joined
<1>4. /\ \A p \in Settled(j) : rt[p].dr = d
      /\ \A p \in Settled(j) : rt[j].nbr[p].state # "down" => rt[j].nbr[p].dr = d
      /\ rt[j].dr # j
  BY <1>3 DEF KnowsDr
<1> SUFFICES ASSUME rt'[j].rpc # "hung"
             PROVE  KnowsDr(d, j)' /\ (Frozen(j)' \/ rt'[j].nbr[d].state \in TwoWay)
  BY <1>2, <1>3 DEF Hung, Joined
<1>5. \A p \in Peers(j) : Learns(j, p)
  BY DEF Heeds
<1>6. ASSUME NEW p \in Settled(j)
      PROVE  /\ rt'[j].nbr[p].state # "down" => rt'[j].nbr[p].dr = d
             /\ rt[j].nbr[p].state \in TwoWay => rt'[j].nbr[p].state \in TwoWay
  BY <1>2, <1>4, <1>5 DEF Learns, TwoWay
<1>7. PICK k \in Rec(j) : k = rt[j]
  BY <1>1 DEF Placed
<1>8. ASSUME NEW p \in Peers(j), k.nbr[p].state \in TwoWay
      PROVE  p \in Settled(j) /\ k.nbr[p].dr = d /\ k.nbr[p].pri = 1 /\ p \in Range(k.neighbors)
  <2>1. NewNeighbor.state \notin TwoWay
    BY DEF NewNeighbor, TwoWay
  <2>2. p \in Settled(j)
    BY <1>1, <1>7, <1>8, <2>1 DEF OnceUp, Peers, Settled
  <2>3. k.nbr[p].state # "down"
    BY <1>8 DEF TwoWay
  <2> QED BY <1>1, <1>4, <1>7, <2>2, <2>3 DEF OnceUp
<1>9. CASE rt[j].nbr[d].state \in TwoWay
  <2>1. rt'[j].nbr[d].state \in TwoWay
    BY <1>6, <1>9
  <2>2. rt'[j].dr # j
    <3>1. CASE SameRoles(rt[j], rt'[j])
      BY <1>4, <3>1 DEF SameRoles
    <3>2. CASE rt'[j] = ElectionPass(rt[j])
      <4>1. OnlyDr(j, k, d)
        BY <1>2, <1>4, <1>7, <1>8, <1>9 DEF OnlyDr, Eligible
      <4> QED BY <1>1, <1>2, <1>7, <3>2, <4>1, OnlyDrElected
    <3> QED BY <3>1, <3>2 DEF Heeds
  <2>3. KnowsDr(d, j)'
    BY <1>2, <1>3, <1>6, <2>2 DEF KnowsDr
  <2> QED BY <2>1, <2>3
<1>10. CASE Frozen(j) /\ rt[j].nbr[d].state \notin TwoWay
  <2>1. /\ rt[j].bdr # j /\ ~rt[j].waiting_timeout
        /\ \A p \in Settled(j) : rt[j].nbr[p].state # "down" => rt[j].nbr[p].bdr = rt[p].bdr
        /\ rt[j].rpc # "loop" =>
             \E p \in Settled(j) : rt[j].nbr[p].state \in TwoWay /\ rt[j].nbr[p].bdr = p
    BY <1>10 DEF Frozen
  <2>2. rt'[j].dr # j /\ rt'[j].bdr # j
    <3>1. CASE SameRoles(rt[j], rt'[j])
      BY <1>4, <2>1, <3>1 DEF SameRoles
    <3>2. CASE rt[j].rpc = "elect" /\ rt'[j] = ElectionPass(rt[j])
      <4>1. PICK q \in Settled(j) : k.nbr[q].state \in TwoWay /\ k.nbr[q].bdr = q
        BY <1>7, <2>1, <3>2
      <4>2. \A p \in Peers(j) : k.nbr[p].state \in TwoWay => k.nbr[p].dr # p
        BY <1>7, <1>8, <1>10
      <4>3. q \in Range(k.neighbors) /\ Eligible(k, q) /\ k.dr # j /\ k.bdr # j
        BY <1>2, <1>4, <1>7, <1>8, <2>1, <4>1 DEF Eligible
      <4> QED BY <1>1, <1>7, <3>2, <4>1, <4>2, <4>3, BackupElected
    <3> QED BY <3>1, <3>2 DEF Heeds
  <2>3. KnowsDr(d, j)'
    BY <1>2, <1>3, <1>6, <2>2 DEF KnowsDr
  <2> SUFFICES ASSUME rt'[j].nbr[d].state \notin TwoWay PROVE Frozen(j)'
    BY <2>3
  <2>4. ~rt'[j].waiting_timeout
    <3>1. ~TimerFires(j)
      <4>1. d \in Alive \ (start.late \cup {j}) /\ j \notin start.early
        BY <1>2 DEF Firm, Alive, OnceUp, Orderly
      <4> QED BY <1>10, <4>1 DEF TimerFires
    <3> QED BY <2>1, <3>1 DEF Heeds
  <2>5. ASSUME NEW p \in Settled(j), rt'[j].nbr[p].state # "down"
        PROVE  rt'[j].nbr[p].bdr = rt[p].bdr
    BY <1>2, <1>5, <2>1, <2>5 DEF Learns
  <2>6. ASSUME NEW p \in Peers(j), Alarms(j, p)
        PROVE  p \in Settled(j) /\ rt'[j].nbr[p].state \in TwoWay /\ rt'[j].nbr[p].bdr = p
    <3> DEFINE was == rt[j].nbr[p]
               is == rt'[j].nbr[p]
    <3>1. /\ rt[p].state # "DOWN" /\ is.state \in TwoWay /\ is.pri = 1
          /\ is.dr = rt[p].dr /\ is.bdr = rt[p].bdr
          /\ BackupSeen(rt[j], p, was, is) \/ NeighborChanged(p, was, is)
      BY <2>6 DEF Alarms
    <3>2. p \in Settled(j)
      BY <3>1 DEF Settled, Peers
    <3>3. p # d /\ is.dr = d
      BY <1>4, <3>1, <3>2
    <3>4. was.state # "down" => was.pri = is.pri /\ was.dr = is.dr /\ was.bdr = is.bdr
      BY <1>1, <1>4, <2>1, <3>1, <3>2 DEF OnceUp
    <3> HIDE DEF was, is
    <3>5. ~NeighborChanged(p, was, is)
      BY <3>4 DEF NeighborChanged, PriChanged, DrChanged, BdrChanged, Known
    <3>6. is.bdr = p
      BY <3>1, <3>3, <3>5 DEF BackupSeen
    <3> QED BY <3>1, <3>2, <3>6 DEF is
  <2>7. ASSUME rt'[j].rpc # "loop"
        PROVE  \E p \in Settled(j) : rt'[j].nbr[p].state \in TwoWay /\ rt'[j].nbr[p].bdr = p
    <3>1. CASE rt[j].rpc # "loop"
      <4>1. PICK p \in Settled(j) : rt[j].nbr[p].state \in TwoWay /\ rt[j].nbr[p].bdr = p
        BY <2>1, <3>1
      <4>2. rt[j].nbr[p].state # "down" /\ rt'[j].nbr[p].state \in TwoWay
        BY <1>6, <4>1 DEF TwoWay
      <4>3. rt'[j].nbr[p].bdr = rt[p].bdr /\ rt[p].bdr = p
        BY <2>1, <2>5, <4>1, <4>2 DEF TwoWay
      <4> QED BY <4>2, <4>3
    <3>2. CASE rt[j].rpc = "loop"
      <4>1. ~WaitExpired(rt[j])
        BY <2>1 DEF WaitExpired
      <4>2. PICK p \in Peers(j) : Alarms(j, p)
        BY <2>7, <3>2, <4>1 DEF Heeds
      <4> QED BY <2>6, <4>2
    <3> QED BY <3>1, <3>2
  <2>8. \A r \in Settled(j) :
          /\ rt'[r].rpc = "loop" /\ rt'[r].nbr[j].bdr # j
          /\ \A p \in Settled(j) \ {r} : rt'[r].nbr[p].bdr = rt'[p].bdr
    BY <1>2, <1>10 DEF Frozen
  <2> QED BY <1>2, <2>2, <2>4, <2>5, <2>7, <2>8 DEF Frozen
<1> QED BY <1>3, <1>9, <1>10

(* Another router joins. *)
LEMMA NextJoins ==
    ASSUME Placed, OnceUp, Orderly, NEW j \in start.late, Joined(j),
           NEW r \in start.late, InterfaceUp(r)
    PROVE  Joined(r)'
<1>1. PICK d \in Firm : KnowsDr(d, j)
  BY DEF Joined
<1>2. PICK e \in Router : Agreed(e)
  BY DEF InterfaceUp
<1>3. Firm \subseteq Voters
  BY <1>2 DEF Joined, Settled, Agreed, OnceUp, Alive, Firm
<1>4. d = e
  <2>1. rt[d].dr = e
    BY <1>2, <1>3 DEF Agreed
  <2>2. rt[d].dr = d
    BY <1>1 DEF KnowsDr, Joined
  <2> QED BY <2>1, <2>2
<1> QED BY <1>2, <1>3, <1>4, AgreedJoins

LEMMA JoinStep ==
    Placed /\ JoinInv /\ [Next]_vars => JoinInv'
<1> SUFFICES ASSUME Placed, JoinInv, [Next]_vars PROVE JoinInv'
  OBVIOUS
<1>1. start' = start
  BY NextLinks DEF vars, Links, Die, Return
<1> SUFFICES ASSUME start.late # {}
             PROVE  /\ Orderly'
                    /\ Hung' \/ (OnceUp' /\ (Before' \/ \E j \in start.late : Joined(j)'))
  BY <1>1 DEF JoinInv
<1>2. Orderly /\ (Hung \/ (OnceUp /\ (Before \/ \E j \in start.late : Joined(j))))
  BY DEF JoinInv
<1>3. Orderly'
  BY <1>1, <1>2 DEF Orderly
<1>4. CASE UNCHANGED vars
  <2>1. /\ rt' = rt /\ dead' = dead /\ start' = start /\ returned' = returned
    BY <1>4 DEF vars
  <2>2. (Hung' <=> Hung) /\ (OnceUp' <=> OnceUp)
    BY <2>1 DEF Hung, Alive, OnceUp
  <2>3. Before' <=> Before
    BY <2>1 DEF Before, Firm, Asleep
  <2>4. Firm' = Firm /\ \A j : Settled(j)' = Settled(j)
    BY <2>1 DEF Firm, Settled
  <2>5. \A j, d : (KnowsDr(d, j)' <=> KnowsDr(d, j)) /\ (Frozen(j)' <=> Frozen(j))
    BY <2>1, <2>4 DEF KnowsDr, Frozen
  <2>6. \A j \in start.late : Joined(j)' <=> Joined(j)
    BY <2>1, <2>4, <2>5 DEF Joined
  <2> QED BY <1>2, <1>3, <2>2, <2>3, <2>6
<1>5. CASE Next /\ Hung
  <2>1. ~Hung
    BY <1>5 DEF Next, InterfaceUp, TimerFires, Resume, WaitOver, Die, Return,
                InactivityTimer, RecvHello, RecvDD, Step
  <2> QED BY <1>5, <2>1
<1>6. CASE Next /\ ~Hung
  <2>1. PICK r \in Router : Heeds(r)
    BY <1>2, <1>6, NextHeeds
  <2>2. OnceUp'
    BY <1>2, <1>6, <2>1, OnceUpStep
  <2>3. CASE Before
    BY <1>2, <1>3, <1>6, <2>1, <2>2, <2>3, BeforeStep
  <2>4. ASSUME NEW j \in start.late, Joined(j)
        PROVE  Hung' \/ \E k \in start.late : Joined(k)'
    <3>1. CASE rt[r].state = "DOWN"
      <4>1. InterfaceUp(r) /\ r \in Alive
        BY <2>1, <3>1 DEF Heeds
      <4>2. r \in start.late
        BY <1>2, <1>6, <2>4, <3>1, <4>1 DEF Joined, Settled, Firm, Alive, OnceUp
      <4> QED BY <1>2, <1>6, <2>4, <4>1, <4>2, NextJoins
    <3>2. CASE rt[r].state # "DOWN"
      <4>1. r = j \/ r \in Settled(j)
        BY <3>2 DEF Settled
      <4> QED BY <1>2, <1>6, <2>1, <2>4, <4>1, FirmStep, JoinerStep DEF Orderly
    <3> QED BY <3>1, <3>2
  <2> QED BY <1>2, <1>3, <1>6, <2>2, <2>3, <2>4
<1> QED BY <1>4, <1>5, <1>6

(* No pre-emption (interface.cpp:192): the routers of a link that have     *)
(* agreed on a DR keep it when others come up, for any number of them, any *)
(* ranks and whatever Hellos the new ones get first, provided that nobody  *)
(* dies and that those who start together wait for each other.             *)
THEOREM NoPreemption ==
    ASSUME \A s \in Start : s.late = {} \/ (s.early = {} /\ s.mortal = {})
    PROVE  Spec => []JoinerKeepsDr
<1>1. Init => Placed /\ JoinInv
  <2> SUFFICES ASSUME Init PROVE JoinInv
    BY InitLocal
  <2>1. start \in Start /\ dead = start.absent /\ start.absent \subseteq Router
        /\ start.late \subseteq Router
    BY SegmentAssumption DEF Init
  <2>2. \A r \in Router : rt[r] = New(r)
    BY DEF Init
  <2>3. NewNeighbor.state = "down"
    BY DEF NewNeighbor
  <2>4. OnceUp
    BY <2>1, <2>2, <2>3, NewIs DEF OnceUp, Peers
  <2>5. start.late # {} => Orderly
    BY <2>1 DEF Orderly
  <2>6. Before
    BY <2>1, <2>2, NewIs DEF Before, Firm
  <2> QED BY <2>4, <2>5, <2>6 DEF JoinInv
<1>2. Placed /\ JoinInv /\ [Next]_vars => (Placed /\ JoinInv)'
  BY NextLocal, JoinStep
<1>3. Placed /\ JoinInv => JoinerKeepsDr
  <2> SUFFICES ASSUME JoinInv, NEW j \in start.late, rt[j].state # "DOWN", ~Hung
               PROVE  \E d \in Router \ start.late :
                         \A r \in Router \ (start.late \cup start.absent) : rt[r].dr = d
    BY DEF JoinerKeepsDr
  <2>1. PICK k \in start.late : Joined(k)
    BY DEF JoinInv, Before
  <2>2. PICK d \in Firm : KnowsDr(d, k)
    BY <2>1 DEF Joined
  <2> QED BY <2>1, <2>2 DEF Joined, KnowsDr, Firm
<1> QED BY <1>1, <1>2, <1>3, PTL DEF Spec
=============================================================================
