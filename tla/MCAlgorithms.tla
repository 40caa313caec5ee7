---------------------------- MODULE MCAlgorithms ----------------------------
(* The two pure algorithms, over all small inputs.  The election: every    *)
(* list of up to MaxOthers candidates with distinct ids, grown one at a    *)
(* time, against a definition by sets.  The comparison of LSAs: every      *)
(* three headers over a 2-bit sequence number, one after the other.        *)
EXTENDS Election, LsaHeader

CONSTANTS MaxOthers

MyIp == 2
OtherIp == 1 .. 4 \ {MyIp}

VARIABLES
    self, others, no_bdr,   \* self is Nobody while headers are compared
    seen                    \* the headers of one LSA seen so far

Candidates(ips, pris) ==
    {[ip |-> i, id |-> i, pri |-> p, stands |-> p # 0, dr |-> d, bdr |-> b] :
        i \in ips, p \in pris, d, b \in {NoIp} \cup ips}

Init ==
    /\ self \in {c \in Candidates({MyIp}, 0 .. 2) : c.dr = NoIp \/ c.bdr = NoIp}
                   \cup {Nobody}
    /\ others = <<>> /\ no_bdr = FALSE
    /\ seen = <<>>

(* One more neighbour stands for election. *)
Add ==
    \E i \in OtherIp : \E c \in Candidates({i}, 0 .. 2) :
        /\ self # Nobody /\ Len(others) < MaxOthers
        /\ \A k \in DOMAIN others : others[k].ip # i
        /\ others' = Append(others, c)
        /\ UNCHANGED <<self, no_bdr, seen>>

(* The pass after the router became DR. *)
SecondPass ==
    /\ self # Nobody /\ no_bdr' = TRUE
    /\ self' = [self EXCEPT !.dr = MyIp]
    /\ UNCHANGED <<others, seen>>

See ==
    /\ self = Nobody
    /\ \E h \in Header : Len(seen) < 3 /\ seen' = Append(seen, h)
    /\ UNCHANGED <<self, others, no_bdr>>

Spec == Init /\ [][Add \/ SecondPass \/ See]_<<self, others, no_bdr, seen>>

(* What the election returns does not depend on the order in which the     *)
(* neighbours were heard (interface.cpp:162-207).                          *)
ElectionChoosesBest == self # Nobody => ChoosesBest(self, others, no_bdr)

(* Newer is a strict order of the instances of an LSA: it does not depend *)
(* on the order the two are given in, and of three none is newer than one  *)
(* that is newer than it (lsa_header_cmp).                                 *)
SeenOrdered == CmpIsAntisymmetric(Range(seen)) /\ NewerIsTransitive(Range(seen))

(* The DD handler, which keeps the age of a header, and the LSU handler,   *)
(* which loses it, agree on whether a header is newer than a database copy *)
(* unless the age is MAX_AGE (ospf.cpp:506, 735).                          *)
SeenAtMaxAge == OnlyMaxAgeDecides(Range(seen))
=============================================================================
