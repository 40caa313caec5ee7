----------------------------- MODULE LsdbProofs -----------------------------
(***************************************************************************)
(* What the operations on the database do to the LSAs of other routers,    *)
(* for any number of LSAs and any use malloc makes of deleted memory.      *)
(***************************************************************************)
EXTENDS Lsdb, LsaHeaderProofs

(* A database in which no deleted memory passes for another router's LSA,  *)
(* and each of those has one copy.                                         *)
Heap(db) ==
    /\ db \in Database
    /\ \A c \in db.freed : db.mem[c] = Junk \/ db.mem[c].key \notin Others
    /\ \A k \in Others : \A c, d \in Matching(db, k) : c = d

(* e holds what d does of LSA k. *)
SameOf(d, e, k) ==
    /\ Matching(e, k) = Matching(d, k)
    /\ \A c \in Matching(d, k) : e.mem[c] = d.mem[c]
SameOthers(d, e) == \A k \in Others : SameOf(d, e, k)

(* The comparison of id and adv identifies an LSA. *)
LEMMA IsOfKey ==
    ASSUME NEW i \in Lsa \cup {Junk}, NEW k \in Key
    PROVE  IsOf(i, k) <=> i \in Lsa /\ i.key = k
BY LsdbAssumption, JunkAssumption DEF IsOf, Lsa

LEMMA MatchingIs ==
    ASSUME NEW db \in Database, NEW k \in Key
    PROVE  /\ Matching(db, k) \subseteq Chunk
           /\ k.type \in Type
           /\ \A c \in Chunk : c \in Matching(db, k) <=>
                  /\ c \in db.list[k.type]
                  /\ db.mem[c] \in Lsa /\ db.mem[c].key = k
<1>1. k.type \in Type
  BY LsdbAssumption
<1>2. db.list[k.type] \subseteq Chunk /\ \A c \in Chunk : db.mem[c] \in Lsa \cup {Junk}
  BY <1>1 DEF Database
<1> QED BY <1>1, <1>2, IsOfKey DEF Matching

LEMMA ForgetFields ==
    ASSUME NEW db \in Database
    PROVE  /\ Forget(db) \in Database
           /\ Forget(db).list = db.list
           /\ Forget(db).freed = db.freed \cap Listed(db)
           /\ \A c \in Listed(db) : Forget(db).mem[c] = db.mem[c]
           /\ Listed(db) \subseteq Chunk
<1>1. Listed(db) \subseteq Chunk
  BY DEF Listed, Database, Type
<1> QED BY <1>1 DEF Forget, Database

LEMMA NewFields ==
    ASSUME NEW db \in Database, NEW i \in Lsa, NEW c \in Chunk
    PROVE  /\ New(db, i, c) \in Database
           /\ New(db, i, c).list = db.list
           /\ New(db, i, c).freed = db.freed \ {c}
           /\ New(db, i, c).mem[c] = i
           /\ \A d \in Chunk \ {c} : New(db, i, c).mem[d] = db.mem[d]
BY DEF New, Database

LEMMA SetListFields ==
    ASSUME NEW db \in Database, NEW t \in Type, NEW cs \in SUBSET Chunk
    PROVE  /\ SetList(db, t, cs) \in Database
           /\ SetList(db, t, cs).list[t] = cs
           /\ \A u \in Type \ {t} : SetList(db, t, cs).list[u] = db.list[u]
           /\ SetList(db, t, cs).mem = db.mem
           /\ SetList(db, t, cs).freed = db.freed
BY DEF SetList, Database
-----------------------------------------------------------------------------
(* Memory that malloc may return holds no LSA of another router.           *)
LEMMA UnusedIsFree ==
    ASSUME NEW db, Heap(db), NEW c \in Unused(db), NEW k \in Others
    PROVE  c \in Chunk /\ c \notin Matching(db, k)
<1>1. db \in Database /\ k \in Key /\ c \in Chunk
  BY DEF Heap, Others, Unused, Database
<1>2. ASSUME c \in Matching(db, k) PROVE FALSE
  <2>1. c \in db.list[k.type] /\ db.mem[c] \in Lsa /\ db.mem[c].key = k
        /\ k.type \in Type
    BY <1>1, <1>2, MatchingIs
  <2>2. c \in Listed(db)
    BY <2>1 DEF Listed, Type
  <2>3. db.mem[c] # Junk
    BY <2>1, JunkAssumption
  <2> QED BY <2>1, <2>2, <2>3 DEF Heap, Unused
<1> QED BY <1>1, <1>2

(* What leaves the memory and the places of the others' LSAs alone.        *)
LEMMA SameIf ==
    ASSUME NEW d \in Database, NEW e \in Database, NEW k \in Key,
           \A c \in Chunk :
               c \in Matching(d, k) <=> c \in Matching(e, k),
           \A c \in Matching(d, k) : e.mem[c] = d.mem[c]
    PROVE  SameOf(d, e, k)
<1>1. Matching(d, k) \subseteq Chunk /\ Matching(e, k) \subseteq Chunk
  BY MatchingIs
<1> QED BY <1>1 DEF SameOf

LEMMA SameHeap ==
    ASSUME NEW d, Heap(d), NEW e \in Database, SameOthers(d, e),
           \A c \in e.freed : e.mem[c] = Junk \/ e.mem[c].key \notin Others
    PROVE  Heap(e)
BY DEF Heap, SameOthers, SameOf

LEMMA SameTransitive ==
    ASSUME NEW d, NEW e, NEW f, SameOthers(d, e), SameOthers(e, f)
    PROVE  SameOthers(d, f)
BY DEF SameOthers, SameOf

LEMMA ForgetSame ==
    ASSUME NEW db, Heap(db)
    PROVE  Heap(Forget(db)) /\ SameOthers(db, Forget(db))
<1> DEFINE e == Forget(db)
<1>1. db \in Database
  BY DEF Heap
<1>2. /\ e \in Database /\ e.list = db.list /\ e.freed = db.freed \cap Listed(db)
      /\ \A c \in Listed(db) : e.mem[c] = db.mem[c]
      /\ Listed(db) \subseteq Chunk
  BY <1>1, ForgetFields
<1> HIDE DEF e
<1>3. ASSUME NEW k \in Others PROVE SameOf(db, e, k)
  <2>1. k \in Key
    BY DEF Others
  <2>2. k.type \in Type /\ db.list[k.type] \subseteq Listed(db)
    BY <2>1, LsdbAssumption DEF Listed, Type
  <2>3. \A c \in Chunk : c \in Matching(db, k) <=> c \in Matching(e, k)
    BY <1>1, <1>2, <2>1, <2>2, MatchingIs
  <2>4. Matching(db, k) \subseteq db.list[k.type]
    BY DEF Matching
  <2> QED BY <1>1, <1>2, <2>1, <2>2, <2>3, <2>4, SameIf
<1>4. SameOthers(db, e)
  BY <1>3 DEF SameOthers
<1>5. \A c \in e.freed : e.mem[c] = Junk \/ e.mem[c].key \notin Others
  BY <1>2 DEF Heap
<1>6. Heap(e)
  BY <1>2, <1>4, <1>5, SameHeap
<1> QED BY <1>4, <1>6 DEF e

(* A new LSA of this router's, in memory that malloc may return. *)
LEMMA NewSame ==
    ASSUME NEW db, Heap(db), NEW i \in Lsa, i.key \notin Others,
           NEW c \in Unused(db)
    PROVE  Heap(New(db, i, c)) /\ SameOthers(db, New(db, i, c))
<1> DEFINE e == New(db, i, c)
<1>1. db \in Database /\ c \in Chunk
  BY DEF Heap, Unused, Database
<1>2. /\ e \in Database /\ e.list = db.list /\ e.freed = db.freed \ {c}
      /\ e.mem[c] = i /\ \A d \in Chunk \ {c} : e.mem[d] = db.mem[d]
  BY <1>1, NewFields
<1> HIDE DEF e
<1>3. ASSUME NEW k \in Others PROVE SameOf(db, e, k)
  <2>1. k \in Key
    BY DEF Others
  <2>2. c \notin Matching(db, k)
    BY UnusedIsFree
  <2>3. \A d \in Chunk : d \in Matching(db, k) <=> d \in Matching(e, k)
    BY <1>1, <1>2, <2>1, <2>2, MatchingIs
  <2>4. Matching(db, k) \subseteq Chunk
    BY <1>1, <2>1, MatchingIs
  <2> QED BY <1>1, <1>2, <2>1, <2>2, <2>3, <2>4, SameIf
<1>4. SameOthers(db, e)
  BY <1>3 DEF SameOthers
<1>5. \A d \in e.freed : e.mem[d] = Junk \/ e.mem[d].key \notin Others
  BY <1>1, <1>2 DEF Heap, Database
<1>6. Heap(e)
  BY <1>2, <1>4, <1>5, SameHeap
<1> QED BY <1>4, <1>6 DEF e

(* Whatever is done to a list, if what comes or goes is not another's.     *)
LEMMA SetListSame ==
    ASSUME NEW db, Heap(db), NEW t \in Type, NEW cs \in SUBSET Chunk,
           \A c \in Chunk : db.mem[c] \in Lsa /\ db.mem[c].key \in Others
                                => (c \in cs <=> c \in db.list[t])
    PROVE  Heap(SetList(db, t, cs)) /\ SameOthers(db, SetList(db, t, cs))
<1> DEFINE e == SetList(db, t, cs)
<1>1. db \in Database
  BY DEF Heap
<1>2. /\ e \in Database /\ e.list[t] = cs
      /\ \A u \in Type \ {t} : e.list[u] = db.list[u]
      /\ e.mem = db.mem /\ e.freed = db.freed
  BY <1>1, SetListFields
<1> HIDE DEF e
<1>3. ASSUME NEW k \in Others PROVE SameOf(db, e, k)
  <2>1. k \in Key
    BY DEF Others
  <2>2. \A c \in Chunk : c \in Matching(db, k) <=> c \in Matching(e, k)
    BY <1>1, <1>2, <2>1, MatchingIs
  <2> QED BY <1>1, <1>2, <2>1, <2>2, SameIf
<1>4. SameOthers(db, e)
  BY <1>3 DEF SameOthers
<1>5. Heap(e)
  BY <1>2, <1>4, SameHeap DEF Heap
<1> QED BY <1>4, <1>5 DEF e
LEMMA PushSame ==
    ASSUME NEW db, Heap(db), NEW k \in Key, NEW c \in Chunk,
           db.mem[c] \in Lsa, db.mem[c].key \notin Others
    PROVE  Heap(Push(db, k, c)) /\ SameOthers(db, Push(db, k, c))
<1>1. k.type \in Type
  BY LsdbAssumption
<1>2. db.list[k.type] \cup {c} \in SUBSET Chunk
  BY <1>1 DEF Heap, Database
<1> QED BY <1>1, <1>2, SetListSame DEF Push

LEMMA RemoveSame ==
    ASSUME NEW db, Heap(db), NEW k \in Key, k \notin Others
    PROVE  Heap(Remove(db, k)) /\ SameOthers(db, Remove(db, k))
<1>1. db \in Database /\ k.type \in Type
  BY LsdbAssumption DEF Heap
<1>2. db.list[k.type] \in SUBSET Chunk
  BY <1>1 DEF Database
<1>3. \A c \in Matching(db, k) : db.mem[c].key = k
  BY <1>1, MatchingIs
<1> QED BY <1>1, <1>2, <1>3, SetListSame DEF Remove

LEMMA DeleteSame ==
    ASSUME NEW db, Heap(db), NEW c \in Chunk, db.mem[c].key \notin Others
    PROVE  Heap(Delete(db, c)) /\ SameOthers(db, Delete(db, c))
<1> DEFINE e == Delete(db, c)
<1>1. /\ db \in Database /\ e \in Database /\ e.list = db.list
      /\ e.mem = db.mem /\ e.freed = db.freed \cup {c}
  BY DEF Heap, Database, Delete
<1> HIDE DEF e
<1>2. SameOthers(db, e)
  BY <1>1 DEF SameOthers, SameOf, Matching
<1>3. Heap(e)
  BY <1>1, <1>2, SameHeap DEF Heap
<1> QED BY <1>2, <1>3 DEF e

(* Deleted memory may be written to.                                       *)
LEMMA OverwriteSame ==
    ASSUME NEW db, Heap(db), NEW c \in db.freed
    PROVE  Heap(Overwrite(db, c)) /\ SameOthers(db, Overwrite(db, c))
<1> DEFINE e == Overwrite(db, c)
<1>1. db \in Database /\ c \in Chunk /\ c \in Unused(db)
  BY DEF Heap, Database, Unused
<1>2. /\ e \in Database /\ e.list = db.list /\ e.freed = db.freed
      /\ e.mem[c] = Junk /\ \A d \in Chunk \ {c} : e.mem[d] = db.mem[d]
  BY <1>1 DEF Database, Overwrite
<1> HIDE DEF e
<1>3. ASSUME NEW k \in Others PROVE SameOf(db, e, k)
  <2>1. k \in Key
    BY DEF Others
  <2>2. c \notin Matching(db, k)
    BY <1>1, UnusedIsFree
  <2>3. \A d \in Chunk : d \in Matching(db, k) <=> d \in Matching(e, k)
    BY <1>1, <1>2, <2>1, <2>2, MatchingIs, JunkAssumption
  <2>4. Matching(db, k) \subseteq Chunk
    BY <1>1, <2>1, MatchingIs
  <2> QED BY <1>1, <1>2, <2>1, <2>2, <2>3, <2>4, SameIf
<1>4. SameOthers(db, e)
  BY <1>3 DEF SameOthers
<1>5. Heap(e)
  BY <1>1, <1>2, <1>4, SameHeap DEF Heap, Database
<1> QED BY <1>4, <1>5 DEF e

(* update_lsas deletes LSAs that are in the database, and malloc may place *)
(* the next there: no other router's LSA is touched.                       *)
LEMMA OriginateSame ==
    ASSUME NEW db, Heap(db), NEW i \in Lsa, i.key \notin Others,
           NEW c \in Unused(db), NEW r \in Originate(db, i, c)
    PROVE  /\ Heap(r.lsdb) /\ SameOthers(db, r.lsdb)
           /\ r.flooded \subseteq {i}
<1> DEFINE fresh == New(db, i, c)
           k     == i.key
           Good(d) == Heap(d) /\ SameOthers(db, d)
                          /\ d.mem[c] \in Lsa /\ d.mem[c].key \notin Others
<1>1. c \in Chunk /\ k \in Key /\ k.type \in Type /\ db \in Database
  BY LsdbAssumption DEF Heap, Unused, Database, Lsa
<1>2. Good(fresh)
  BY <1>1, NewSame, NewFields
<1>3. ASSUME NEW d, Good(d) PROVE Good(Push(d, k, c))
  <2>1. Push(d, k, c).mem = d.mem
    BY DEF Push, SetList
  <2> QED BY <1>1, <1>3, <2>1, PushSame, SameTransitive
<1>4. ASSUME NEW d, Good(d) PROVE Good(Remove(d, k))
  <2>1. Remove(d, k).mem = d.mem
    BY DEF Remove, SetList
  <2> QED BY <1>1, <1>4, <2>1, RemoveSame, SameTransitive
<1>5. ASSUME NEW d, Good(d)
      PROVE  Heap(Forget(Delete(d, c))) /\ SameOthers(db, Forget(Delete(d, c)))
  <2>1. Heap(Delete(d, c)) /\ SameOthers(d, Delete(d, c))
    BY <1>1, <1>5, DeleteSame
  <2>2. SameOthers(db, Delete(d, c))
    BY <1>5, <2>1, SameTransitive
  <2> QED BY <2>1, <2>2, ForgetSame, SameTransitive
<1>6. \E d : Good(d) /\ r.lsdb = Forget(Delete(d, c)) /\ r.flooded \subseteq {i}
  <2>1. Good(Push(fresh, k, c)) /\ Good(Remove(fresh, k))
        /\ Good(Push(Remove(fresh, k), k, c))
    BY <1>2, <1>3, <1>4
  <2> HIDE DEF Good
  <2>2. \/ r = [lsdb |-> Forget(Delete(Push(fresh, k, c), c)), flooded |-> {i}]
        \/ r = [lsdb |-> Forget(Delete(Push(Remove(fresh, k), k, c), c)),
                flooded |-> {i}]
        \/ r = [lsdb |-> Forget(Delete(Remove(fresh, k), c)), flooded |-> {i}]
        \/ r = [lsdb |-> Forget(Delete(fresh, c)), flooded |-> {}]
    BY DEF Originate
  <2> HIDE DEF fresh, k
  <2> QED BY <1>2, <2>1, <2>2
<1> QED BY <1>5, <1>6

(* install_*: the one copy of this LSA is i, and no other is touched.      *)
LEMMA InstallFacts ==
    ASSUME NEW db, Heap(db), NEW i \in Lsa, NEW c \in Unused(db)
    PROVE  LET e == Install(db, i, c) IN
           /\ Heap(e)
           /\ \A k \in Others \ {i.key} : SameOf(db, e, k)
           /\ i.key \in Others => Matching(e, i.key) = {c} /\ e.mem[c] = i
<1> DEFINE k == i.key
           r == Remove(db, k)
           n == New(r, i, c)
           q == Push(n, k, c)
           e == Install(db, i, c)
<1>1. c \in Chunk /\ k \in Key /\ k.type \in Type /\ db \in Database
  BY LsdbAssumption DEF Heap, Unused, Database, Lsa
<1>2. /\ r \in Database /\ r.mem = db.mem /\ r.freed = db.freed
      /\ r.list[k.type] = db.list[k.type] \ Matching(db, k)
      /\ \A t \in Type \ {k.type} : r.list[t] = db.list[t]
  <2> DEFINE cs == db.list[k.type] \ Matching(db, k)
  <2>1. cs \in SUBSET Chunk
    BY <1>1 DEF Database
  <2>2. r = SetList(db, k.type, cs)
    BY DEF Remove
  <2> HIDE DEF cs, r, k
  <2>3. /\ r \in Database /\ r.mem = db.mem /\ r.freed = db.freed
        /\ r.list[k.type] = cs
        /\ \A t \in Type \ {k.type} : r.list[t] = db.list[t]
    BY <1>1, <2>1, <2>2, SetListFields
  <2> QED BY <2>3 DEF cs
<1> HIDE DEF r
<1>3. /\ n \in Database /\ n.list = r.list /\ n.freed = db.freed \ {c}
      /\ n.mem[c] = i /\ \A d \in Chunk \ {c} : n.mem[d] = db.mem[d]
  BY <1>1, <1>2, NewFields
<1> HIDE DEF n
<1>4. /\ q \in Database /\ q.mem = n.mem /\ q.freed = n.freed
      /\ q.list[k.type] = (db.list[k.type] \ Matching(db, k)) \cup {c}
      /\ \A t \in Type \ {k.type} : q.list[t] = db.list[t]
  <2> DEFINE cs == n.list[k.type] \cup {c}
  <2>1. cs \in SUBSET Chunk
    BY <1>1, <1>3 DEF Database
  <2>2. q = SetList(n, k.type, cs)
    BY DEF Push
  <2> HIDE DEF cs, q, k
  <2>3. /\ q \in Database /\ q.mem = n.mem /\ q.freed = n.freed
        /\ q.list[k.type] = cs
        /\ \A t \in Type \ {k.type} : q.list[t] = n.list[t]
    BY <1>1, <1>3, <2>1, <2>2, SetListFields
  <2> QED BY <1>2, <1>3, <2>3 DEF cs
<1> HIDE DEF q
<1>5. ASSUME NEW l \in Others \ {k} PROVE SameOf(db, q, l)
  <2>1. l \in Key /\ l # k
    BY DEF Others
  <2>2. c \notin Matching(db, l)
    BY UnusedIsFree
  <2>3. \A d \in Chunk : d \in Matching(db, k) => db.mem[d].key # l
    BY <1>1, <2>1, MatchingIs
  <2>4. \A d \in Chunk : d \in Matching(db, l) <=> d \in Matching(q, l)
    BY <1>1, <1>3, <1>4, <2>1, <2>2, <2>3, MatchingIs
  <2>5. Matching(db, l) \subseteq Chunk
    BY <1>1, <2>1, MatchingIs
  <2> QED BY <1>1, <1>3, <1>4, <2>1, <2>2, <2>4, <2>5, SameIf
<1>6. k \in Others => Matching(q, k) = {c} /\ q.mem[c] = i
  <2>1. \A d \in Chunk : d \in Matching(q, k) <=> d = c
    BY <1>1, <1>3, <1>4, MatchingIs
  <2> QED BY <1>1, <1>3, <1>4, <2>1, MatchingIs
<1>7. Heap(q)
  <2>1. \A d \in q.freed : q.mem[d] = Junk \/ q.mem[d].key \notin Others
    BY <1>1, <1>3, <1>4 DEF Heap, Database
  <2>2. ASSUME NEW l \in Others, NEW a \in Matching(q, l), NEW b \in Matching(q, l)
        PROVE  a = b
    BY <1>5, <1>6, <2>2 DEF SameOf, Heap
  <2> QED BY <1>4, <2>1, <2>2 DEF Heap
<1>8. e = Forget(q)
  BY DEF Install, q, n, r
<1>9. Heap(e) /\ SameOthers(q, e)
  BY <1>7, <1>8, ForgetSame
<1> HIDE DEF e
<1>10. \A l \in Others \ {k} : SameOf(db, e, l)
  BY <1>5, <1>9 DEF SameOthers, SameOf
<1>11. k \in Others => Matching(e, k) = {c} /\ e.mem[c] = i
  BY <1>6, <1>9 DEF SameOthers, SameOf
<1> QED BY <1>9, <1>10, <1>11 DEF e
-----------------------------------------------------------------------------
(* What is found in a database after an LSA i has been written somewhere:  *)
(* nothing that was not found before, but i.                               *)
Only(d, e, i) ==
    /\ e \in Database
    /\ \A k \in Key \ {i.key} : Found(e, k) \subseteq Found(d, k)
    /\ Found(e, i.key) \subseteq Found(d, i.key) \cup {i}

LEMMA OnlyIf ==
    ASSUME NEW d \in Database, NEW e \in Database, NEW i \in Lsa,
           \A k \in Key : \A c \in Chunk :
               c \in Matching(e, k) =>
                   \/ c \in Matching(d, k) /\ e.mem[c] = d.mem[c]
                   \/ k = i.key /\ e.mem[c] = i
    PROVE  Only(d, e, i)
<1>1. i.key \in Key
  BY DEF Lsa
<1>2. ASSUME NEW k \in Key, NEW j \in Found(e, k)
      PROVE  j \in Found(d, k) \/ (k = i.key /\ j = i)
  <2>1. PICK c \in Matching(e, k) : j = e.mem[c]
    BY DEF Found
  <2>2. c \in Chunk
    BY <2>1, MatchingIs
  <2> QED BY <2>1, <2>2 DEF Found
<1> QED BY <1>1, <1>2 DEF Only

LEMMA OnlyTransitive ==
    ASSUME NEW d, NEW e, NEW f, NEW i, Only(d, e, i), Only(e, f, i)
    PROVE  Only(d, f, i)
BY DEF Only

LEMMA ForgetOnly ==
    ASSUME NEW d \in Database, NEW i \in Lsa
    PROVE  /\ Only(d, Forget(d), i)
           /\ \A k \in Key : Found(Forget(d), k) \subseteq Found(d, k)
<1> DEFINE e == Forget(d)
<1>1. /\ e \in Database /\ e.list = d.list
      /\ \A c \in Listed(d) : e.mem[c] = d.mem[c]
  BY ForgetFields
<1> HIDE DEF e
<1>2. ASSUME NEW k \in Key, NEW c \in Chunk, c \in Matching(e, k)
      PROVE  c \in Matching(d, k) /\ e.mem[c] = d.mem[c]
  <2>1. k.type \in Type /\ c \in d.list[k.type]
    BY <1>1, <1>2, MatchingIs
  <2>2. c \in Listed(d)
    BY <2>1 DEF Listed, Type
  <2> QED BY <1>1, <1>2, <2>1, <2>2, MatchingIs
<1>3. Only(d, e, i)
  BY <1>1, <1>2, OnlyIf
<1>4. ASSUME NEW k \in Key PROVE Found(e, k) \subseteq Found(d, k)
  <2>1. Matching(e, k) \subseteq Chunk
    BY <1>1, MatchingIs
  <2> QED BY <1>2, <2>1 DEF Found
<1> QED BY <1>3, <1>4 DEF e

LEMMA NewOnly ==
    ASSUME NEW d \in Database, NEW i \in Lsa, NEW c \in Chunk
    PROVE  Only(d, New(d, i, c), i)
<1> DEFINE e == New(d, i, c)
<1>1. /\ e \in Database /\ e.list = d.list
      /\ e.mem[c] = i /\ \A b \in Chunk \ {c} : e.mem[b] = d.mem[b]
  BY NewFields
<1> HIDE DEF e
<1>2. ASSUME NEW k \in Key, NEW b \in Chunk, b \in Matching(e, k)
      PROVE  \/ b \in Matching(d, k) /\ e.mem[b] = d.mem[b]
             \/ k = i.key /\ e.mem[b] = i
  BY <1>1, <1>2, MatchingIs
<1> QED BY <1>1, <1>2, OnlyIf DEF e

LEMMA PushOnly ==
    ASSUME NEW d \in Database, NEW i \in Lsa, NEW c \in Chunk, d.mem[c] = i
    PROVE  Only(d, Push(d, i.key, c), i)
<1> DEFINE e == Push(d, i.key, c)
           t == i.key.type
           cs == d.list[t] \cup {c}
<1>1. t \in Type /\ cs \in SUBSET Chunk
  BY LsdbAssumption DEF Lsa, Database
<1>2. e = SetList(d, t, cs)
  BY DEF Push
<1> HIDE DEF cs, t, e
<1>3. /\ e \in Database /\ e.mem = d.mem /\ e.list[t] = cs
      /\ \A u \in Type \ {t} : e.list[u] = d.list[u]
  BY <1>1, <1>2, SetListFields
<1>4. ASSUME NEW k \in Key, NEW b \in Chunk, b \in Matching(e, k)
      PROVE  \/ b \in Matching(d, k) /\ e.mem[b] = d.mem[b]
             \/ k = i.key /\ e.mem[b] = i
  <2>1. k.type \in Type /\ b \in e.list[k.type] /\ d.mem[b] \in Lsa /\ d.mem[b].key = k
    BY <1>3, <1>4, MatchingIs
  <2>2. b \in d.list[k.type] \/ b = c
    BY <1>3, <2>1 DEF cs
  <2> QED BY <1>3, <2>1, <2>2, MatchingIs
<1> QED BY <1>3, <1>4, OnlyIf DEF e

LEMMA RemoveOnly ==
    ASSUME NEW d \in Database, NEW i \in Lsa, NEW l \in Key
    PROVE  /\ Only(d, Remove(d, l), i)
           /\ Remove(d, l).mem = d.mem
           /\ Found(Remove(d, l), l) = {}
<1> DEFINE e == Remove(d, l)
           t == l.type
           cs == d.list[t] \ Matching(d, l)
<1>1. t \in Type /\ cs \in SUBSET Chunk
  BY LsdbAssumption DEF Database
<1>2. e = SetList(d, t, cs)
  BY DEF Remove
<1> HIDE DEF cs, t, e
<1>3. /\ e \in Database /\ e.mem = d.mem /\ e.list[t] = cs
      /\ \A u \in Type \ {t} : e.list[u] = d.list[u]
  BY <1>1, <1>2, SetListFields
<1>4. ASSUME NEW k \in Key, NEW b \in Chunk, b \in Matching(e, k)
      PROVE  k # l /\ b \in Matching(d, k) /\ e.mem[b] = d.mem[b]
  <2>1. k.type \in Type /\ b \in e.list[k.type] /\ d.mem[b] \in Lsa /\ d.mem[b].key = k
    BY <1>3, <1>4, MatchingIs
  <2>2. b \in d.list[k.type]
    BY <1>3, <2>1 DEF cs
  <2>3. b \in Matching(d, k)
    BY <2>1, <2>2, MatchingIs
  <2> QED BY <1>3, <2>1, <2>3 DEF cs, t
<1>5. Only(d, e, i)
  BY <1>3, <1>4, OnlyIf
<1>6. Found(e, l) = {}
  <2>1. Matching(e, l) \subseteq Chunk
    BY <1>3, MatchingIs
  <2> QED BY <1>4, <2>1 DEF Found
<1> QED BY <1>3, <1>5, <1>6 DEF e

LEMMA DeleteOnly ==
    ASSUME NEW d \in Database, NEW c \in Chunk
    PROVE  /\ Delete(d, c) \in Database
           /\ \A k : Found(Delete(d, c), k) = Found(d, k)
BY DEF Delete, Database, Found, Matching

(* Overwritten memory is found no more. *)
LEMMA OverwriteOnly ==
    ASSUME NEW d \in Database, NEW c \in Chunk
    PROVE  \A k \in Key : Found(Overwrite(d, c), k) \subseteq Found(d, k)
<1> DEFINE e == Overwrite(d, c)
<1>1. /\ e \in Database /\ e.list = d.list
      /\ e.mem[c] = Junk /\ \A b \in Chunk \ {c} : e.mem[b] = d.mem[b]
  BY DEF Database, Overwrite
<1> HIDE DEF e
<1>2. ASSUME NEW k \in Key, NEW j \in Found(e, k) PROVE j \in Found(d, k)
  <2>1. PICK b \in Matching(e, k) : j = e.mem[b]
    BY DEF Found
  <2>2. b \in Chunk /\ b # c /\ b \in Matching(d, k)
    BY <1>1, <2>1, MatchingIs, JunkAssumption
  <2> QED BY <1>1, <2>1, <2>2 DEF Found
<1> QED BY <1>2 DEF e

LEMMA InstallOnly ==
    ASSUME NEW d \in Database, NEW i \in Lsa, NEW c \in Unused(d)
    PROVE  Only(d, Install(d, i, c), i)
<1> DEFINE r == Remove(d, i.key)
           n == New(r, i, c)
           q == Push(n, i.key, c)
<1>1. c \in Chunk /\ i.key \in Key
  BY DEF Unused, Database, Lsa
<1>2. Only(d, r, i)
  BY <1>1, RemoveOnly
<1>3. r \in Database
  BY <1>2 DEF Only
<1> HIDE DEF r
<1>4. Only(r, n, i) /\ n \in Database /\ n.mem[c] = i
  BY <1>1, <1>3, NewOnly, NewFields
<1> HIDE DEF n
<1>5. Only(n, q, i) /\ q \in Database
  BY <1>1, <1>4, PushOnly DEF Only
<1>6. Install(d, i, c) = Forget(q)
  BY DEF Install, q, n, r
<1> HIDE DEF q
<1>7. Only(q, Forget(q), i)
  BY <1>5, ForgetOnly
<1>8. Only(d, q, i)
  BY <1>2, <1>4, <1>5, OnlyTransitive
<1> QED BY <1>6, <1>7, <1>8, OnlyTransitive

(* What update_lsas floods takes the place of all that was found, and what *)
(* it does not flood may be found all the same.                            *)
LEMMA OriginateOnly ==
    ASSUME NEW d \in Database, NEW i \in Lsa, NEW c \in Unused(d),
           NEW r \in Originate(d, i, c)
    PROVE  /\ Only(d, r.lsdb, i)
           /\ r.flooded = {} \/ (r.flooded = {i} /\ Found(r.lsdb, i.key) \subseteq {i})
<1> DEFINE fresh == New(d, i, c)
           k == i.key
           gone == Remove(fresh, k)
           Last(e) == Forget(Delete(e, c))
<1>1. c \in Chunk /\ k \in Key
  BY DEF Unused, Database, Lsa
<1>2. Only(d, fresh, i) /\ fresh \in Database /\ fresh.mem[c] = i
  BY <1>1, NewOnly, NewFields
<1>3. \/ /\ Matching(fresh, k) = {}
         /\ r = [lsdb |-> Last(Push(fresh, k, c)), flooded |-> {i}]
      \/ r = [lsdb |-> Last(Push(gone, k, c)), flooded |-> {i}]
      \/ r = [lsdb |-> Last(gone), flooded |-> {i}]
      \/ r = [lsdb |-> Last(fresh), flooded |-> {}]
  BY DEF Originate
<1> HIDE DEF fresh, k
<1>4. Only(fresh, gone, i) /\ gone \in Database /\ gone.mem[c] = i /\ Found(gone, k) = {}
  BY <1>1, <1>2, RemoveOnly DEF Only
<1>5. Only(d, gone, i)
  BY <1>2, <1>4, OnlyTransitive
<1> HIDE DEF gone
<1>6. ASSUME NEW e, e \in Database, Only(d, e, i)
      PROVE  /\ Only(d, Last(e), i)
             /\ Found(Last(e), k) \subseteq Found(e, k)
  <2> DEFINE x == Delete(e, c)
  <2>1. x \in Database /\ \A l : Found(x, l) = Found(e, l)
    BY <1>1, <1>6, DeleteOnly
  <2> HIDE DEF x
  <2>2. Only(d, x, i)
    BY <1>6, <2>1 DEF Only
  <2>3. Only(x, Forget(x), i) /\ Found(Forget(x), k) \subseteq Found(x, k)
    BY <1>1, <2>1, ForgetOnly
  <2>4. Only(d, Forget(x), i)
    BY <2>2, <2>3, OnlyTransitive
  <2> QED BY <2>1, <2>3, <2>4 DEF x
<1>7. ASSUME NEW e, e \in Database, Only(d, e, i), e.mem[c] = i
      PROVE  /\ Push(e, k, c) \in Database /\ Only(d, Push(e, k, c), i)
             /\ Found(Push(e, k, c), k) \subseteq Found(e, k) \cup {i}
  <2>1. Only(e, Push(e, k, c), i)
    BY <1>1, <1>7, PushOnly DEF k
  <2>2. Only(d, Push(e, k, c), i)
    BY <1>7, <2>1, OnlyTransitive
  <2> QED BY <2>1, <2>2 DEF Only, k
<1>8. Matching(fresh, k) = {} => Found(fresh, k) = {}
  BY DEF Found
<1>9. CASE r = [lsdb |-> Last(fresh), flooded |-> {}]
  BY <1>2, <1>6, <1>9
<1>10. CASE r = [lsdb |-> Last(gone), flooded |-> {i}]
  <2>1. /\ Only(d, Last(gone), i)
        /\ Found(Last(gone), k) = {}
    BY <1>4, <1>5, <1>6
  <2> HIDE DEF Last
  <2> QED BY <1>10, <2>1 DEF k
<1>11. ASSUME NEW e, e \in Database, Only(d, e, i), e.mem[c] = i, Found(e, k) = {},
              r = [lsdb |-> Last(Push(e, k, c)), flooded |-> {i}]
       PROVE  /\ Only(d, r.lsdb, i)
              /\ r.flooded = {i} /\ Found(r.lsdb, k) \subseteq {i}
  <2> DEFINE x == Push(e, k, c)
  <2>1. x \in Database /\ Only(d, x, i) /\ Found(x, k) \subseteq {i}
    BY <1>7, <1>11
  <2> HIDE DEF x
  <2>2. /\ Only(d, Last(x), i)
        /\ Found(Last(x), k) \subseteq {i}
    BY <1>6, <2>1
  <2> HIDE DEF Last
  <2> QED BY <1>11, <2>2 DEF x
<1> QED BY <1>2, <1>3, <1>4, <1>5, <1>8, <1>9, <1>10, <1>11 DEF k
=============================================================================
