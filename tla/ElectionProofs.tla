--------------------------- MODULE ElectionProofs ---------------------------
(***************************************************************************)
(* What election_for_dr_and_ndr returns, for any number of neighbours.     *)
(* The scan is a recursive function over the list: that there is such a    *)
(* function, and what it returns, follow from the least position at which  *)
(* either could fail.                                                      *)
(***************************************************************************)
EXTENDS Election, WellFoundedInduction, TLAPS

(* A set of positions has a first one. *)
LEMMA FirstOf ==
    ASSUME NEW T, T \subseteq Nat, T # {}
    PROVE  \E k \in T : \A l \in T : ~ (l < k)
<1>1. PICK k \in T : \A l \in T : <<l, k>> \notin OpToRel(<, Nat)
  BY WFMin, NatLessThanWellFounded, Zenon
<1> QED BY <1>1, Zenon DEF OpToRel

(* A function that steps through the positions of a list exists: G is the  *)
(* step.                                                                   *)
StepsThrough(f, n, base, G) ==
    f[0] = base /\ \A k \in 1 .. n : f[k] = G[k][f[k - 1]]

LEMMA StepsExist ==
    ASSUME NEW T, NEW base \in T, NEW n \in Nat, NEW G \in [1 .. n -> [T -> T]]
    PROVE  \E f \in [0 .. n -> T] : StepsThrough(f, n, base, G)
<1> DEFINE Good(m) == \E f \in [0 .. m -> T] : StepsThrough(f, m, base, G)
           Bad == {m \in 0 .. n : ~ Good(m)}
<1> SUFFICES ASSUME Bad # {} PROVE FALSE
  BY DEF Good
<1>1. Bad \subseteq Nat
  OBVIOUS
<1>2. PICK m \in Bad : \A l \in Bad : ~ (l < m)
  <2> HIDE DEF Bad
  <2> QED BY <1>1, FirstOf
<1>3. m # 0
  <2>1. [k \in 0 .. 0 |-> base] \in [0 .. 0 -> T]
    OBVIOUS
  <2>2. StepsThrough([k \in 0 .. 0 |-> base], 0, base, G)
    BY DEF StepsThrough
  <2>3. Good(0)
    BY <2>1, <2>2
  <2> QED BY <2>3
<1>4. m - 1 \in 0 .. n /\ m \in 1 .. n /\ ~ Good(m)
  BY <1>3
<1>5. Good(m - 1)
  <2>1. m - 1 \notin Bad
    <3> HIDE DEF Bad
    <3> QED BY <1>2, <1>4
  <2> QED BY <1>4, <2>1, Zenon
<1>6. PICK g \in [0 .. m - 1 -> T] : StepsThrough(g, m - 1, base, G)
  BY <1>5
<1> DEFINE f == [k \in 0 .. m |-> IF k = m THEN G[m][g[m - 1]] ELSE g[k]]
<1>7. f \in [0 .. m -> T]
  <2>1. G[m][g[m - 1]] \in T
    BY <1>4, <1>6
  <2> QED BY <1>4, <1>6, <2>1
<1>8. StepsThrough(f, m, base, G)
  BY <1>4, <1>6 DEF StepsThrough
<1> QED BY <1>4, <1>7, <1>8

LEMMA StepsStay ==
    ASSUME NEW T, NEW n \in Nat, NEW f, f[0] \in T,
           \A k \in 1 .. n : f[k - 1] \in T => f[k] \in T
    PROVE  \A k \in 0 .. n : f[k] \in T
<1> DEFINE Bad == {m \in 0 .. n : f[m] \notin T}
<1> SUFFICES ASSUME Bad # {} PROVE FALSE
  OBVIOUS
<1>1. Bad \subseteq Nat
  OBVIOUS
<1>2. PICK m \in Bad : \A l \in Bad : ~ (l < m)
  <2> HIDE DEF Bad
  <2> QED BY <1>1, FirstOf
<1>3. m \in 1 .. n /\ m - 1 \in 0 .. n /\ f[m] \notin T
  OBVIOUS
<1>4. f[m - 1] \in T
  BY <1>2, <1>3
<1> QED BY <1>3, <1>4
-----------------------------------------------------------------------------
(* One scan: the runners are the candidates in M, and r beats b if <<r, b>> *)
(* is in R.  Its winner so far has beaten every runner so far.             *)
ScanStep(s, M, R, k, w) ==
    IF s[k] \in M /\ (w = Nobody \/ <<s[k], w>> \in R) THEN s[k] ELSE w

Leads(s, M, R, k, w) ==
    \/ w = Nobody /\ \A l \in 1 .. k : s[l] \notin M
    \/ /\ w \in M /\ \E l \in 1 .. k : s[l] = w
       /\ \A l \in 1 .. k : s[l] \in M => s[l] = w \/ <<w, s[l]>> \in R

(* R is a strict total order on C. *)
TotalOrder(C, R) ==
    /\ \A a, b \in C : a = b \/ <<a, b>> \in R \/ <<b, a>> \in R
    /\ \A a, b, c \in C : <<a, b>> \in R /\ <<b, c>> \in R => <<a, c>> \in R

LEMMA ScanLeads ==
    ASSUME NEW C, Nobody \notin C, NEW s \in Seq(C), NEW M, M \subseteq C, NEW R,
           TotalOrder(C, R), NEW w, w[0] = Nobody,
           \A k \in 1 .. Len(s) : w[k] = ScanStep(s, M, R, k, w[k - 1])
    PROVE  Leads(s, M, R, Len(s), w[Len(s)])
<1> DEFINE Bad == {m \in 0 .. Len(s) : ~ Leads(s, M, R, m, w[m])}
<1> SUFFICES ASSUME Bad # {} PROVE FALSE
  OBVIOUS
<1>1. Bad \subseteq Nat
  OBVIOUS
<1>2. PICK m \in Bad : \A l \in Bad : ~ (l < m)
  <2> HIDE DEF Bad
  <2> QED BY <1>1, FirstOf
<1>3. m # 0
  BY DEF Leads
<1>4. m - 1 \in 0 .. Len(s) /\ m \in 1 .. Len(s)
  BY <1>3
<1>5. Leads(s, M, R, m - 1, w[m - 1])
  <2>1. m - 1 \notin Bad
    <3> HIDE DEF Bad
    <3> QED BY <1>2, <1>4
  <2> QED BY <1>4, <2>1, Zenon
<1>6. w[m] = ScanStep(s, M, R, m, w[m - 1])
  BY <1>4
<1>7. /\ \A l \in 1 .. m : s[l] \in C
      /\ \A l \in 1 .. m : l = m \/ l \in 1 .. m - 1
      /\ \A l \in 1 .. m - 1 : l \in 1 .. m
      /\ m \in 1 .. m
  BY <1>4
<1>8. Leads(s, M, R, m, w[m])
  <2> DEFINE v == w[m - 1]
  <2> HIDE DEF v
  <2>1. CASE s[m] \notin M
    BY <1>5, <1>6, <1>7, <2>1 DEF Leads, ScanStep, v
  <2>2. CASE s[m] \in M /\ v = Nobody
    <3>1. w[m] = s[m] /\ \A l \in 1 .. m - 1 : s[l] \notin M
      BY <1>5, <1>6, <1>7, <2>2 DEF Leads, ScanStep, v
    <3> QED BY <2>2, <3>1, <1>7 DEF Leads
  <2>3. CASE s[m] \in M /\ v # Nobody
    <3>1. v \in M /\ \E l \in 1 .. m - 1 : s[l] = v
      BY <1>5, <2>3 DEF Leads, v
    <3>2. \A l \in 1 .. m - 1 : s[l] \in M => s[l] = v \/ <<v, s[l]>> \in R
      BY <1>5, <2>3 DEF Leads, v
    <3>3. CASE <<s[m], v>> \in R
      <4>1. w[m] = s[m]
        BY <1>6, <2>3, <3>3 DEF ScanStep, v
      <4>2. \A l \in 1 .. m - 1 : s[l] \in M => <<s[m], s[l]>> \in R
        BY <3>1, <3>2, <3>3, <1>7 DEF TotalOrder
      <4> QED BY <4>1, <4>2, <1>7, <2>3 DEF Leads
    <3>4. CASE <<s[m], v>> \notin R
      <4>1. w[m] = v
        BY <1>6, <2>3, <3>4 DEF ScanStep, v
      <4>2. s[m] = v \/ <<v, s[m]>> \in R
        BY <3>1, <3>4, <1>7 DEF TotalOrder
      <4> QED BY <4>1, <4>2, <3>1, <3>2, <1>7 DEF Leads
    <3> QED BY <3>3, <3>4
  <2> QED BY <2>1, <2>2, <2>3
<1> QED BY <1>4, <1>8
-----------------------------------------------------------------------------
(* The candidates of one election: no two have the same id. *)
IsField(C) ==
    /\ C \subseteq [ip: Nat \ {NoIp}, id: Nat, pri: Nat, stands: BOOLEAN,
                    dr: Nat, bdr: Nat]
    /\ \A a, b \in C : a.id = b.id => a = b

BdrOrder(C) == {x \in C \X C : BeatsForBdr(x[1], x[2])}
DrOrder(C)  == {x \in C \X C : Outranks(x[1], x[2])}

LEMMA OrdersAreTotal ==
    ASSUME NEW C, IsField(C)
    PROVE  TotalOrder(C, BdrOrder(C)) /\ TotalOrder(C, DrOrder(C))
<1>1. TotalOrder(C, DrOrder(C))
  BY DEF IsField, TotalOrder, DrOrder, Outranks
<1>2. TotalOrder(C, BdrOrder(C))
  BY DEF IsField, TotalOrder, BdrOrder, BeatsForBdr, DeclaresBdr, Outranks
<1> QED BY <1>1, <1>2

LEMMA NobodyRuns == ASSUME NEW C, IsField(C) PROVE Nobody \notin C
BY DEF IsField, Nobody, NoIp

LEMMA BdrScanLeads ==
    ASSUME NEW C, IsField(C), NEW s \in Seq(C)
    PROVE  Leads(s, {c \in C : RunsForBdr(c)}, BdrOrder(C), Len(s),
                 BdrScan(s))
<1> DEFINE T == C \cup {Nobody}
           n == Len(s)
           step(k, v) == IF RunsForBdr(s[k]) /\ (v = Nobody \/ BeatsForBdr(s[k], v))
                         THEN s[k] ELSE v
           body(g) == [k \in 0 .. n |-> IF k = 0 THEN Nobody
                                        ELSE step(k, g[k - 1])]
           w == CHOOSE g : g = body(g)
           G == [k \in 1 .. n |-> [v \in T |-> step(k, v)]]
<1>1. BdrScan(s) = w[n]
  BY DEF BdrScan
<1>2. n \in Nat /\ \A k \in 1 .. n : s[k] \in C
  OBVIOUS
<1>3. \A k \in 1 .. n : \A v \in T : step(k, v) \in T
  BY <1>2
<1>4. w = body(w)
  <2> HIDE DEF step
  <2>1. G \in [1 .. n -> [T -> T]]
    BY <1>3
  <2>2. \A k \in 1 .. n : \A v \in T : G[k][v] = step(k, v)
    OBVIOUS
  <2> HIDE DEF G, T
  <2>3. Nobody \in T
    BY DEF T
  <2>4. PICK f \in [0 .. n -> T] : StepsThrough(f, n, Nobody, G)
    BY <1>2, <2>1, <2>3, StepsExist
  <2>5. \A k \in 1 .. n : f[k] = step(k, f[k - 1])
    BY <1>2, <2>2, <2>4 DEF StepsThrough
  <2>6. f = body(f)
    BY <1>2, <2>4, <2>5 DEF StepsThrough
  <2> HIDE DEF body
  <2> QED BY <2>6, Zenon
<1> HIDE DEF w
<1>5. w[0] = Nobody /\ \A k \in 1 .. n : w[k] = step(k, w[k - 1])
  <2> HIDE DEF step
  <2>1. \A k \in 0 .. n : w[k] = IF k = 0 THEN Nobody ELSE step(k, w[k - 1])
    BY <1>4
  <2> QED BY <1>2, <2>1
<1>6. \A k \in 0 .. n : w[k] \in T
  <2> HIDE DEF step, T
  <2>1. Nobody \in T
    BY DEF T
  <2> QED BY <1>2, <1>3, <1>5, <2>1, StepsStay
<1>7. \A k \in 1 .. n :
        w[k] = ScanStep(s, {c \in C : RunsForBdr(c)}, BdrOrder(C), k, w[k - 1])
  <2> SUFFICES ASSUME NEW k \in 1 .. n
               PROVE  step(k, w[k - 1]) =
                      ScanStep(s, {c \in C : RunsForBdr(c)}, BdrOrder(C), k, w[k - 1])
    BY <1>5
  <2>1. w[k - 1] \in T /\ s[k] \in C
    BY <1>2, <1>6
  <2> QED BY <2>1 DEF ScanStep, BdrOrder
<1> DEFINE M == {c \in C : RunsForBdr(c)}
           R == BdrOrder(C)
<1>8. M \subseteq C /\ TotalOrder(C, R) /\ Nobody \notin C
  BY OrdersAreTotal, NobodyRuns
<1> HIDE DEF M, R, step, n
<1>9. Leads(s, M, R, Len(s), w[Len(s)])
  BY <1>5, <1>7, <1>8, ScanLeads DEF M, R, n
<1> QED BY <1>1, <1>9 DEF M, R, n

LEMMA DrScanLeads ==
    ASSUME NEW C, IsField(C), NEW s \in Seq(C)
    PROVE  Leads(s, {c \in C : RunsForDr(c)}, DrOrder(C), Len(s),
                 DrScan(s))
<1> DEFINE T == C \cup {Nobody}
           n == Len(s)
           step(k, v) == IF RunsForDr(s[k]) /\ (v = Nobody \/ Outranks(s[k], v))
                         THEN s[k] ELSE v
           body(g) == [k \in 0 .. n |-> IF k = 0 THEN Nobody
                                        ELSE step(k, g[k - 1])]
           w == CHOOSE g : g = body(g)
           G == [k \in 1 .. n |-> [v \in T |-> step(k, v)]]
<1>1. DrScan(s) = w[n]
  BY DEF DrScan
<1>2. n \in Nat /\ \A k \in 1 .. n : s[k] \in C
  OBVIOUS
<1>3. \A k \in 1 .. n : \A v \in T : step(k, v) \in T
  BY <1>2
<1>4. w = body(w)
  <2> HIDE DEF step
  <2>1. G \in [1 .. n -> [T -> T]]
    BY <1>3
  <2>2. \A k \in 1 .. n : \A v \in T : G[k][v] = step(k, v)
    OBVIOUS
  <2> HIDE DEF G, T
  <2>3. Nobody \in T
    BY DEF T
  <2>4. PICK f \in [0 .. n -> T] : StepsThrough(f, n, Nobody, G)
    BY <1>2, <2>1, <2>3, StepsExist
  <2>5. \A k \in 1 .. n : f[k] = step(k, f[k - 1])
    BY <1>2, <2>2, <2>4 DEF StepsThrough
  <2>6. f = body(f)
    BY <1>2, <2>4, <2>5 DEF StepsThrough
  <2> HIDE DEF body
  <2> QED BY <2>6, Zenon
<1> HIDE DEF w
<1>5. w[0] = Nobody /\ \A k \in 1 .. n : w[k] = step(k, w[k - 1])
  <2> HIDE DEF step
  <2>1. \A k \in 0 .. n : w[k] = IF k = 0 THEN Nobody ELSE step(k, w[k - 1])
    BY <1>4
  <2> QED BY <1>2, <2>1
<1>6. \A k \in 0 .. n : w[k] \in T
  <2> HIDE DEF step, T
  <2>1. Nobody \in T
    BY DEF T
  <2> QED BY <1>2, <1>3, <1>5, <2>1, StepsStay
<1>7. \A k \in 1 .. n :
        w[k] = ScanStep(s, {c \in C : RunsForDr(c)}, DrOrder(C), k, w[k - 1])
  <2> SUFFICES ASSUME NEW k \in 1 .. n
               PROVE  step(k, w[k - 1]) =
                      ScanStep(s, {c \in C : RunsForDr(c)}, DrOrder(C), k, w[k - 1])
    BY <1>5
  <2>1. w[k - 1] \in T /\ s[k] \in C
    BY <1>2, <1>6
  <2> QED BY <2>1 DEF ScanStep, DrOrder
<1> DEFINE M == {c \in C : RunsForDr(c)}
           R == DrOrder(C)
<1>8. M \subseteq C /\ TotalOrder(C, R) /\ Nobody \notin C
  BY OrdersAreTotal, NobodyRuns
<1> HIDE DEF M, R, step, n
<1>9. Leads(s, M, R, Len(s), w[Len(s)])
  BY <1>5, <1>7, <1>8, ScanLeads DEF M, R, n
<1> QED BY <1>1, <1>9 DEF M, R, n
-----------------------------------------------------------------------------
(* What the two scans return, in terms of sets. *)
BestBdr(b, field) ==
    IF field = {} THEN b = Nobody
    ELSE b \in field /\ \A c \in field : c = b \/ BeatsForBdr(b, c)

BestDr(d, field) ==
    /\ d \in field
    /\ \A c \in field : c = d \/ Outranks(d, c)

(* The list t has exactly the candidates in S. *)
ListOf(t, S, C) ==
    /\ t \in Seq(C)
    /\ \A k \in 1 .. Len(t) : t[k] \in S
    /\ \A c \in S : \E k \in 1 .. Len(t) : t[k] = c

(* The router itself in front of the list, or at its end. *)
LEMMA FrontOf ==
    ASSUME NEW C, NEW x \in C, NEW s \in Seq(C)
    PROVE  /\ ListOf(<<x>> \o s, Range(s) \cup {x}, C)
           /\ ListOf(Append(s, x), Range(s) \cup {x}, C)
           /\ ListOf(s, Range(s), C)
<1>1. Range(s) = {s[k] : k \in 1 .. Len(s)}
  BY DEF Range
<1>2. ASSUME NEW t, t = <<x>> \o s
      PROVE  ListOf(t, Range(s) \cup {x}, C)
  <2>1. /\ t \in Seq(C) /\ Len(t) = Len(s) + 1 /\ t[1] = x
        /\ \A k \in 2 .. Len(t) : k - 1 \in 1 .. Len(s) /\ t[k] = s[k - 1]
        /\ \A k \in 1 .. Len(s) : k + 1 \in 1 .. Len(t) /\ t[k + 1] = s[k]
    BY <1>2
  <2>2. \A k \in 1 .. Len(t) : k = 1 \/ k \in 2 .. Len(t)
    BY <2>1
  <2>3. 1 \in 1 .. Len(t)
    BY <2>1
  <2>4. \A k \in 1 .. Len(t) : t[k] \in Range(s) \cup {x}
    BY <1>1, <2>1, <2>2
  <2>5. \A c \in Range(s) : \E k \in 1 .. Len(t) : t[k] = c
    BY <1>1, <2>1
  <2> QED BY <2>1, <2>3, <2>4, <2>5 DEF ListOf
<1>3. ASSUME NEW t, t = Append(s, x)
      PROVE  ListOf(t, Range(s) \cup {x}, C)
  <2>1. /\ t \in Seq(C) /\ Len(t) = Len(s) + 1 /\ t[Len(t)] = x
        /\ \A k \in 1 .. Len(s) : k \in 1 .. Len(t) /\ t[k] = s[k]
    BY <1>3
  <2>2. \A k \in 1 .. Len(t) : k = Len(t) \/ k \in 1 .. Len(s)
    BY <2>1
  <2> QED BY <1>1, <2>1, <2>2 DEF ListOf
<1>4. ListOf(s, Range(s), C)
  BY <1>1 DEF ListOf
<1> QED BY <1>2, <1>3, <1>4

LEMMA ElectFacts ==
    ASSUME NEW C, IsField(C), NEW self \in C, NEW others \in Seq(C),
           NEW no_bdr \in BOOLEAN
    PROVE  LET e   == Elect(self, others, no_bdr)
               drs == DrField(self, Range(others))
           IN  /\ BestBdr(e.bdr, BdrField(self, Range(others), no_bdr))
               /\ IF drs = {} THEN e.dr = e.bdr ELSE BestDr(e.dr, drs)
<1> DEFINE bs  == BdrCandidates(self, others, no_bdr)
           ds  == DrCandidates(self, others, no_bdr)
           bdr == BdrScan(bs)
           dr  == DrScan(ds)
           nbrs == Range(others)
<1>1. /\ Elect(self, others, no_bdr).bdr = bdr
      /\ Elect(self, others, no_bdr).dr = IF dr = Nobody THEN bdr ELSE dr
  BY DEF Elect
<1> HIDE DEF bdr, dr
<1>2. ListOf(ds, nbrs \cup {self}, C)
  BY FrontOf DEF DrCandidates
<1>3. IF no_bdr THEN ListOf(bs, nbrs, C) ELSE ListOf(bs, nbrs \cup {self}, C)
  BY FrontOf DEF BdrCandidates
<1>4. nbrs \subseteq C
  BY DEF Range
<1>5. Leads(bs, {c \in C : RunsForBdr(c)}, BdrOrder(C), Len(bs), bdr)
  <2>1. bs \in Seq(C)
    BY <1>3 DEF ListOf
  <2> QED BY <2>1, BdrScanLeads DEF bdr
<1>6. Leads(ds, {c \in C : RunsForDr(c)}, DrOrder(C), Len(ds), dr)
  <2>1. ds \in Seq(C)
    BY <1>2 DEF ListOf
  <2> QED BY <2>1, DrScanLeads DEF dr
<1> HIDE DEF bs, ds, nbrs
<1>7. BestBdr(bdr, BdrField(self, nbrs, no_bdr))
  <2> DEFINE F == BdrField(self, nbrs, no_bdr)
             M == {c \in C : RunsForBdr(c)}
  <2>1. \A c : c \in F <=> (/\ c \in nbrs \/ (~no_bdr /\ c = self)
                            /\ RunsForBdr(c))
    BY DEF BdrField
  <2>2. \A c : c \in F <=> (c \in M /\ \E k \in 1 .. Len(bs) : bs[k] = c)
    <3>1. CASE no_bdr
      BY <1>3, <1>4, <2>1, <3>1 DEF ListOf
    <3>2. CASE ~no_bdr
      BY <1>3, <1>4, <2>1, <3>2 DEF ListOf
    <3> QED BY <3>1, <3>2
  <2> HIDE DEF F, M
  <2>3. \A c, d \in M : <<c, d>> \in BdrOrder(C) => BeatsForBdr(c, d)
    BY DEF BdrOrder, M
  <2>4. Nobody \notin M
    BY NobodyRuns DEF M
  <2> QED BY <1>5, <2>2, <2>3, <2>4 DEF Leads, BestBdr, F, M
<1>8. IF DrField(self, nbrs) = {} THEN dr = Nobody
                                  ELSE BestDr(dr, DrField(self, nbrs))
  <2> DEFINE F == DrField(self, nbrs)
             M == {c \in C : RunsForDr(c)}
  <2>1. \A c : c \in F <=> (c \in M /\ \E k \in 1 .. Len(ds) : ds[k] = c)
    BY <1>2, <1>4 DEF DrField, ListOf
  <2> HIDE DEF F, M
  <2>3. \A c, d \in M : <<c, d>> \in DrOrder(C) => Outranks(c, d)
    BY DEF DrOrder, M
  <2>4. Nobody \notin M
    BY NobodyRuns DEF M
  <2> QED BY <1>6, <2>1, <2>3, <2>4 DEF Leads, BestDr, F, M
<1>9. DrField(self, nbrs) # {} => dr # Nobody
  BY <1>4, <1>8, NobodyRuns DEF BestDr, DrField
<1> QED BY <1>1, <1>7, <1>8, <1>9 DEF nbrs
-----------------------------------------------------------------------------
LEMMA BestIs ==
    ASSUME NEW C, IsField(C), NEW S, S \subseteq C, NEW x \in S,
           \A d \in S : d = x \/ Outranks(x, d)
    PROVE  Best(S) = x
<1> DEFINE Wins(c) == \A d \in S \ {c} : Outranks(c, d)
<1>1. Wins(x)
  OBVIOUS
<1>2. \A c \in S : Wins(c) => c = x
  <2>1. \A a, b \in C : ~ (Outranks(a, b) /\ Outranks(b, a))
    BY DEF IsField, Outranks
  <2> QED BY <2>1
<1>3. Best(S) = CHOOSE c \in S : Wins(c)
  BY DEF Best
<1> HIDE DEF Wins
<1> QED BY <1>1, <1>2, <1>3, Zenon

(* The election chooses by rank and claim alone, for any number of         *)
(* neighbours with distinct ids, in whatever order they were added to      *)
(* Interface::neighbors (the two scans of election_for_dr_and_ndr).        *)
THEOREM ElectionIsBest ==
    ASSUME NEW C, IsField(C), NEW self \in C, NEW others \in Seq(C),
           NEW no_bdr \in BOOLEAN
    PROVE  ChoosesBest(self, others, no_bdr)
<1> DEFINE e      == Elect(self, others, no_bdr)
           field  == BdrField(self, Range(others), no_bdr)
           claim  == {c \in field : DeclaresBdr(c)}
           backup == Best(IF claim # {} THEN claim ELSE field)
           drs    == DrField(self, Range(others))
<1>1. BestBdr(e.bdr, field) /\ IF drs = {} THEN e.dr = e.bdr ELSE BestDr(e.dr, drs)
  BY ElectFacts
<1>2. field \subseteq C /\ drs \subseteq C
  BY DEF BdrField, DrField, Range
<1>3. e = [dr |-> e.dr, bdr |-> e.bdr]
  BY DEF Elect
<1> HIDE DEF e, field, drs
<1>4. e.bdr = backup
  <2>1. CASE field = {}
    BY <1>1, <2>1 DEF BestBdr, Best
  <2>2. CASE claim # {}
    <3>1. e.bdr \in claim /\ \A c \in claim : c = e.bdr \/ Outranks(e.bdr, c)
      BY <1>1, <2>2 DEF BestBdr, BeatsForBdr
    <3> QED BY <1>2, <2>2, <3>1, BestIs
  <2>3. CASE field # {} /\ claim = {}
    <3>1. e.bdr \in field /\ \A c \in field : c = e.bdr \/ Outranks(e.bdr, c)
      BY <1>1, <2>3 DEF BestBdr, BeatsForBdr
    <3> QED BY <1>2, <2>3, <3>1, BestIs
  <2> QED BY <2>1, <2>2, <2>3
<1>5. drs # {} => e.dr = Best(drs)
  BY <1>1, <1>2, BestIs DEF BestDr
<1> QED
  BY <1>1, <1>3, <1>4, <1>5 DEF ChoosesBest, e, field, drs
-----------------------------------------------------------------------------
(* Whoever is elected is a candidate. *)
LEMMA ElectedAreCandidates ==
    ASSUME NEW C, IsField(C), NEW self \in C, NEW others \in Seq(C),
           NEW no_bdr \in BOOLEAN
    PROVE  LET e == Elect(self, others, no_bdr)
           IN  {e.dr, e.bdr} \subseteq C \cup {Nobody}
<1> DEFINE e == Elect(self, others, no_bdr)
           field == BdrField(self, Range(others), no_bdr)
           drs == DrField(self, Range(others))
<1>1. BestBdr(e.bdr, field) /\ IF drs = {} THEN e.dr = e.bdr ELSE BestDr(e.dr, drs)
  BY ElectFacts
<1>2. field \subseteq C /\ drs \subseteq C
  BY DEF BdrField, DrField, Range
<1> HIDE DEF e, field, drs
<1>3. {e.dr, e.bdr} \subseteq C \cup {Nobody}
  BY <1>1, <1>2 DEF BestBdr, BestDr
<1> QED BY <1>3 DEF e

(* The election looks only at rank, willingness and the two claims. *)
Alike(a, b) ==
    /\ b.ip = a.ip /\ b.id = a.id /\ b.pri = a.pri /\ b.stands = a.stands
    /\ DeclaresDr(b) = DeclaresDr(a) /\ DeclaresBdr(b) = DeclaresBdr(a)

LEMMA AlikeBeat ==
    ASSUME NEW a, NEW b, NEW c, NEW d, Alike(a, b), Alike(c, d)
    PROVE  /\ Outranks(a, c) <=> Outranks(b, d)
           /\ BeatsForBdr(a, c) <=> BeatsForBdr(b, d)
BY DEF Alike, Outranks, BeatsForBdr

(* Two fields alike have winners alike. *)
LEMMA AlikeBest ==
    ASSUME NEW C, IsField(C), NEW D, IsField(D),
           NEW S, S \subseteq C, NEW T, T \subseteq D,
           \A a \in S : \E b \in T : Alike(a, b),
           \A b \in T : \E a \in S : Alike(a, b),
           NEW v, NEW w
    PROVE  /\ BestBdr(v, S) /\ BestBdr(w, T) => Alike(v, w)
           /\ BestDr(v, S) /\ BestDr(w, T) => Alike(v, w)
<1>1. /\ \A a, b \in C : ~ (Outranks(a, b) /\ Outranks(b, a))
      /\ \A a, b \in C : ~ (BeatsForBdr(a, b) /\ BeatsForBdr(b, a))
  BY DEF IsField, Outranks, BeatsForBdr
<1>2. \A a \in C : \A b, c \in D : Alike(a, b) /\ Alike(a, c) => b = c
  BY DEF IsField, Alike
<1>3. ASSUME BestBdr(v, S), BestBdr(w, T)
      PROVE  Alike(v, w)
  <2>1. CASE S = {}
    BY <1>3, <2>1 DEF BestBdr, Alike
  <2>2. CASE S # {}
    <3>1. v \in S /\ w \in T
      BY <1>3, <2>2 DEF BestBdr
    <3>2. PICK b \in T : Alike(v, b)
      BY <3>1
    <3>3. PICK a \in S : Alike(a, w)
      BY <3>1
    <3>4. b = w \/ BeatsForBdr(w, b)
      BY <1>3, <3>1 DEF BestBdr
    <3>5. a = v \/ BeatsForBdr(v, a)
      BY <1>3, <3>1 DEF BestBdr
    <3>6. BeatsForBdr(w, b) <=> BeatsForBdr(a, v)
      BY <3>2, <3>3, AlikeBeat
    <3> QED BY <1>1, <3>1, <3>2, <3>3, <3>4, <3>5, <3>6
  <2> QED BY <2>1, <2>2
<1>4. ASSUME BestDr(v, S), BestDr(w, T)
      PROVE  Alike(v, w)
  <2>1. v \in S /\ w \in T
    BY <1>4 DEF BestDr
  <2>2. PICK b \in T : Alike(v, b)
    BY <2>1
  <2>3. PICK a \in S : Alike(a, w)
    BY <2>1
  <2>4. b = w \/ Outranks(w, b)
    BY <1>4, <2>1 DEF BestDr
  <2>5. a = v \/ Outranks(v, a)
    BY <1>4, <2>1 DEF BestDr
  <2>6. Outranks(w, b) <=> Outranks(a, v)
    BY <2>2, <2>3, AlikeBeat
  <2> QED BY <1>1, <2>1, <2>2, <2>3, <2>4, <2>5, <2>6
<1> QED BY <1>3, <1>4

LEMMA AlikeElections ==
    ASSUME NEW C, IsField(C), NEW x \in C, NEW s \in Seq(C),
           NEW D, IsField(D), NEW y \in D, NEW t \in Seq(D),
           Alike(x, y), Len(t) = Len(s),
           \A k \in 1 .. Len(s) : Alike(s[k], t[k]),
           NEW n \in BOOLEAN
    PROVE  LET e == Elect(x, s, n)
               f == Elect(y, t, n)
           IN  /\ f.dr.ip = e.dr.ip /\ f.bdr.ip = e.bdr.ip
               /\ f.dr = Nobody <=> e.dr = Nobody
<1> DEFINE e  == Elect(x, s, n)
           f  == Elect(y, t, n)
           S  == BdrField(x, Range(s), n)
           T  == BdrField(y, Range(t), n)
           SD == DrField(x, Range(s))
           TD == DrField(y, Range(t))
<1>1. /\ BestBdr(e.bdr, S) /\ IF SD = {} THEN e.dr = e.bdr ELSE BestDr(e.dr, SD)
      /\ BestBdr(f.bdr, T) /\ IF TD = {} THEN f.dr = f.bdr ELSE BestDr(f.dr, TD)
  BY ElectFacts
<1>2. /\ \A a \in Range(s) : \E b \in Range(t) : Alike(a, b)
      /\ \A b \in Range(t) : \E a \in Range(s) : Alike(a, b)
      /\ Range(s) \subseteq C /\ Range(t) \subseteq D
  BY DEF Range
<1>3. \A a, b : Alike(a, b) => /\ RunsForBdr(a) = RunsForBdr(b)
                               /\ RunsForDr(a) = RunsForDr(b)
  BY DEF Alike, RunsForBdr, RunsForDr
<1>4. /\ S \subseteq C /\ T \subseteq D
      /\ \A a \in S : \E b \in T : Alike(a, b)
      /\ \A b \in T : \E a \in S : Alike(a, b)
  BY <1>2, <1>3 DEF BdrField
<1>5. /\ SD \subseteq C /\ TD \subseteq D
      /\ \A a \in SD : \E b \in TD : Alike(a, b)
      /\ \A b \in TD : \E a \in SD : Alike(a, b)
  BY <1>2, <1>3 DEF DrField
<1> HIDE DEF e, f, S, T, SD, TD
<1>6. Alike(e.bdr, f.bdr)
  BY <1>1, <1>4, AlikeBest
<1>7. Alike(e.dr, f.dr)
  <2>1. CASE SD = {}
    BY <1>1, <1>5, <1>6, <2>1
  <2>2. CASE SD # {}
    <3>1. BestDr(e.dr, SD) /\ BestDr(f.dr, TD)
      BY <1>1, <1>5, <2>2
    <3> QED BY <1>5, <3>1, AlikeBest
  <2> QED BY <2>1, <2>2
<1>8. /\ e.dr = Nobody <=> e.dr.ip = NoIp
      /\ f.dr = Nobody <=> f.dr.ip = NoIp
  <2>1. Nobody.ip = NoIp /\ (\A c \in C \cup D : c.ip # NoIp)
    BY DEF Nobody, IsField
  <2> QED BY <1>1, <1>4, <1>5, <2>1 DEF BestBdr, BestDr
<1> QED BY <1>6, <1>7, <1>8 DEF Alike, e, f
=============================================================================
