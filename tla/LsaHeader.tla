----------------------------- MODULE LsaHeader ------------------------------
(***************************************************************************)
(* Which of two instances of an LSA is the newer: lsa_header_cmp, and what *)
(* LSAHeader::ntoh leaves of a header that comes in an LSU                 *)
(* (link_state.cpp).  The DD handler does not use it: there the header is  *)
(* converted field by field, and the age is what it was (ospf.cpp:493).    *)
(* A header is the three fields that are compared.                         *)
(***************************************************************************)
EXTENDS Integers

CONSTANTS
    SeqMod,                    \* ls_seq_num is uint32_t: 2^32
    ChecksumMod, AgeMod,       \* ls_checksum and ls_age are uint16_t: 2^16
    MAX_AGE, MAX_AGE_DIFF,     \* 3600 and 900
    AgeCap                     \* where lsdb_aging_thread stops: 0xff

ASSUME LsaHeaderAssumption ==
    /\ SeqMod \in Nat \ {0} /\ ChecksumMod \in Nat \ {0}
    /\ AgeMod \in Nat /\ MAX_AGE \in 1 .. AgeMod - 1
    /\ MAX_AGE_DIFF \in 1 .. AgeMod - 1
    /\ AgeCap \in Nat /\ AgeCap < MAX_AGE_DIFF /\ AgeCap < MAX_AGE

Header == [seq: 0 .. SeqMod - 1, checksum: 0 .. ChecksumMod - 1,
           age: 0 .. AgeMod - 1]

Abs(x) == IF x < 0 THEN -x ELSE x

(* lsa_header_cmp: -1 when a is the newer, 1 when b is, 0 when they are    *)
(* taken for the same instance.  Mutant of lsa_header_cmp: sequence        *)
(* numbers are compared in a circle.                                       *)
CmpAge(a, b) ==
    IF a.age = MAX_AGE /\ b.age = MAX_AGE THEN 0
    ELSE IF a.age = MAX_AGE THEN -1
    ELSE IF b.age = MAX_AGE THEN 1
    ELSE IF Abs(a.age - b.age) < MAX_AGE_DIFF THEN 0
    ELSE IF a.age > b.age THEN 1 ELSE -1

Cmp_Circular(a, b) ==
    IF a.seq # b.seq
    THEN IF (b.seq - a.seq) % SeqMod < SeqMod \div 2 THEN 1 ELSE -1
    ELSE CmpAge(a, b)
Cmp(a, b) ==
    IF a.seq # b.seq THEN (IF a.seq < b.seq THEN 1 ELSE -1)
    ELSE IF a.checksum # b.checksum
         THEN (IF a.checksum < b.checksum THEN 1 ELSE -1)
         ELSE CmpAge(a, b)

(* ntoh and hton pass the 16-bit age through a 32-bit swap: what is left   *)
(* in its low half is 0, whatever the age was.  Mutant: the age survives.  *)
Ntoh_KeepsAge(h) == h
Ntoh(h) == [h EXCEPT !.age = 0]

(* A database copy (that update_lsas has not deleted): its age is 0 from   *)
(* ntoh, or 1 from generate_router_lsa or generate_network_lsa, and goes   *)
(* up to the cap.                                                          *)
DatabaseCopy == {h \in Header : h.age <= AgeCap}
-----------------------------------------------------------------------------
Newer(a, b) == Cmp(a, b) < 0

(* Two routers that compare the same two instances agree which is newer,   *)
(* whichever of them is the received one.                                  *)
CmpIsAntisymmetric(H) == \A a, b \in H : Cmp(a, b) = -Cmp(b, a)

(* No cycle of instances, each newer than the one before: flooding and the *)
(* database exchange cannot chase newer copies for ever.                   *)
NewerIsTransitive(H) ==
    \A a, b, c \in H : Newer(a, b) /\ Newer(b, c) => Newer(a, c)

SameInstance(a, b) == a.seq = b.seq /\ a.checksum = b.checksum

(* The one thing that the age of h decides against a copy d of the         *)
(* database.  When h came in an LSU, nothing: it is the instance of d      *)
(* exactly when sequence number and checksum are the same.  When a DD      *)
(* packet describes h, it is newer if the LSU that would bring it is, and  *)
(* also if it is the instance of d at MAX_AGE, which that LSU is not.  The *)
(* other ages make no header newer, whatever MAX_AGE_DIFF.                 *)
OnlyMaxAgeDecides(H) ==
    \A h \in H, d \in H \cap DatabaseCopy :
        /\ Cmp(Ntoh(h), d) = 0 <=> SameInstance(h, d)
        /\ Newer(h, d) <=> \/ Newer(Ntoh(h), d)
                           \/ SameInstance(h, d) /\ h.age = MAX_AGE
=============================================================================
