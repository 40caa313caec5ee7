-------------------------- MODULE LsaHeaderProofs ---------------------------
(***************************************************************************)
(* lsa_header_cmp orders the instances of an LSA, for all widths and       *)
(* limits of the fields.                                                   *)
(***************************************************************************)
EXTENDS LsaHeader, TLAPS

(* The age comparison alone is antisymmetric and transitive. *)
LEMMA AgeAntisymmetric ==
    ASSUME NEW a \in Header, NEW b \in Header
    PROVE  CmpAge(a, b) = -CmpAge(b, a)
BY LsaHeaderAssumption DEF Header, CmpAge, Abs

LEMMA AgeTransitive ==
    ASSUME NEW a \in Header, NEW b \in Header, NEW c \in Header,
           CmpAge(a, b) < 0, CmpAge(b, c) < 0
    PROVE  CmpAge(a, c) < 0
BY LsaHeaderAssumption DEF Header, CmpAge, Abs

(* lsa_header_cmp gives both routers the same verdict. *)
THEOREM Antisymmetric == CmpIsAntisymmetric(Header)
<1> SUFFICES ASSUME NEW a \in Header, NEW b \in Header
             PROVE  Cmp(a, b) = -Cmp(b, a)
  BY DEF CmpIsAntisymmetric
<1>1. CASE a.seq # b.seq \/ a.checksum # b.checksum
  BY <1>1, LsaHeaderAssumption DEF Header, Cmp
<1>2. CASE a.seq = b.seq /\ a.checksum = b.checksum
  BY <1>2, AgeAntisymmetric DEF Cmp
<1> QED BY <1>1, <1>2

(* No chain of instances, each newer than the one before, comes back to    *)
(* where it started.                                                       *)
THEOREM Transitive == NewerIsTransitive(Header)
<1> SUFFICES ASSUME NEW a \in Header, NEW b \in Header, NEW c \in Header,
                    Cmp(a, b) < 0, Cmp(b, c) < 0
             PROVE  Cmp(a, c) < 0
  BY DEF NewerIsTransitive, Newer
<1>1. CASE /\ a.seq = b.seq /\ a.checksum = b.checksum
           /\ b.seq = c.seq /\ b.checksum = c.checksum
  BY <1>1, AgeTransitive DEF Cmp
<1>2. CASE ~(/\ a.seq = b.seq /\ a.checksum = b.checksum
             /\ b.seq = c.seq /\ b.checksum = c.checksum)
  BY <1>2, LsaHeaderAssumption DEF Header, Cmp
<1> QED BY <1>1, <1>2

(* Of the ages that a header may have when it is compared with a database  *)
(* copy only MAX_AGE decides, and only in the DD handler, which keeps the  *)
(* age: lsdb_aging_thread stops before MAX_AGE_DIFF, so a header of any    *)
(* other age is at most older, and ntoh leaves none to compare.            *)
THEOREM MaxAgeDecides == OnlyMaxAgeDecides(Header)
<1> SUFFICES ASSUME NEW h \in Header, NEW d \in DatabaseCopy
             PROVE  /\ Cmp(Ntoh(h), d) = 0 <=> SameInstance(h, d)
                    /\ Newer(h, d) <=> \/ Newer(Ntoh(h), d)
                                       \/ SameInstance(h, d) /\ h.age = MAX_AGE
  BY DEF OnlyMaxAgeDecides, DatabaseCopy
<1>1. /\ Ntoh(h) \in Header /\ Ntoh(h).age = 0
      /\ Ntoh(h).seq = h.seq /\ Ntoh(h).checksum = h.checksum
  BY LsaHeaderAssumption DEF Header, Ntoh
<1>2. d \in Header /\ d.age <= AgeCap
  BY DEF DatabaseCopy
<1>3. CmpAge(Ntoh(h), d) = 0
  BY <1>1, <1>2, LsaHeaderAssumption DEF Header, CmpAge, Abs
<1>4. CmpAge(h, d) < 0 <=> h.age = MAX_AGE
  BY <1>2, LsaHeaderAssumption DEF Header, CmpAge, Abs
<1>5. CASE ~SameInstance(h, d)
  <2>1. Cmp(Ntoh(h), d) # 0 /\ Cmp(Ntoh(h), d) = Cmp(h, d)
    BY <1>1, <1>2, <1>5 DEF Header, Cmp, SameInstance
  <2> QED BY <2>1, <1>5 DEF Newer
<1>6. CASE SameInstance(h, d)
  <2>1. Cmp(Ntoh(h), d) = 0 /\ Cmp(h, d) = CmpAge(h, d)
    BY <1>1, <1>3, <1>6 DEF Cmp, SameInstance
  <2> QED BY <2>1, <1>4, <1>6 DEF Newer
<1> QED BY <1>5, <1>6
=============================================================================
