------------------------------ MODULE Election ------------------------------
(***************************************************************************)
(* election_for_dr_and_ndr (interface.cpp:137-213): which of the           *)
(* candidates on the link becomes Designated Router and which Backup.      *)
(* A candidate is what the election reads of a Neighbor; the router itself *)
(* is one more candidate, built from the Interface.  Neighbours are        *)
(* scanned in the order of Interface::neighbors; those that stand are the  *)
(* ones that get into the list of candidates (lines 141-154).              *)
(***************************************************************************)
EXTENDS Integers, Sequences, Functions

(* ip 0 stands for no router, as in a Hello packet. *)
NoIp == 0
Nobody == [ip |-> NoIp, id |-> 0, pri |-> 0, stands |-> FALSE,
           dr |-> NoIp, bdr |-> NoIp]

(* Mutant: it is enough to know a DR. *)
DeclaresDr_Any(c) == c.dr # NoIp
DeclaresDr(c)  == c.dr = c.ip
DeclaresBdr(c) == c.bdr = c.ip

Outranks(c, d) == c.pri > d.pri \/ (c.pri = d.pri /\ c.id > d.id)

(* Lines 162-181: a candidate that declares itself Backup beats any that   *)
(* does not, and rank decides among equals.  Mutant: rank decides alone.   *)
BeatsForBdr_ByRank(c, b) == Outranks(c, b)
BeatsForBdr(c, b) ==
    IF DeclaresBdr(b)
    THEN DeclaresBdr(c) /\ Outranks(c, b)
    ELSE DeclaresBdr(c) \/ Outranks(c, b)

(* Who takes part in the scan for Backup, and in the one for DR. *)
RunsForBdr(c) == c.stands /\ ~DeclaresDr(c)
RunsForDr(c)  == c.stands /\ DeclaresDr(c)

(* The two scans: the winner so far against the next candidate. *)
BdrScan(cands) ==
    LET bdr[k \in 0 .. Len(cands)] ==
            IF k = 0 THEN Nobody
            ELSE LET best == bdr[k - 1] IN
                 IF /\ RunsForBdr(cands[k])
                    /\ best = Nobody \/ BeatsForBdr(cands[k], best)
                 THEN cands[k] ELSE best
    IN  bdr[Len(cands)]

DrScan(cands) ==
    LET dr[k \in 0 .. Len(cands)] ==
            IF k = 0 THEN Nobody
            ELSE LET best == dr[k - 1] IN
                 IF /\ RunsForDr(cands[k])
                    /\ best = Nobody \/ Outranks(cands[k], best)
                 THEN cands[k] ELSE best
    IN  dr[Len(cands)]

(* The router itself stands in front of the others; kept out of the Backup *)
(* scan (no_bdr), it is added for the second scan at the end.              *)
(* Mutant: it is not added again.                                          *)
BdrCandidates(self, others, no_bdr) ==
    IF no_bdr THEN others ELSE <<self>> \o others
DrCandidates_NotAgain(self, others, no_bdr) ==
    BdrCandidates(self, others, no_bdr)
DrCandidates(self, others, no_bdr) ==
    IF no_bdr THEN Append(others, self) ELSE <<self>> \o others

(* Backup is one of those that do not declare themselves DR; DR is one of  *)
(* those that do, or else the new Backup.                                  *)
Elect(self, others, no_bdr) ==
    LET bdr == BdrScan(BdrCandidates(self, others, no_bdr))
        dr  == DrScan(DrCandidates(self, others, no_bdr))
    IN  [dr |-> IF dr = Nobody THEN bdr ELSE dr, bdr |-> bdr]
-----------------------------------------------------------------------------
(* The same without the scans. *)
BdrField(self, nbrs, no_bdr) ==
    {c \in nbrs \cup (IF no_bdr THEN {} ELSE {self}) : RunsForBdr(c)}
DrField(self, nbrs) == {c \in nbrs \cup {self} : RunsForDr(c)}

Best(S) == IF S = {} THEN Nobody
           ELSE CHOOSE c \in S : \A d \in S \ {c} : Outranks(c, d)

(* The scans choose, whatever the order of the list: as Backup the highest *)
(* ranked of those that claim Backup, or else of all that do not claim DR; *)
(* as DR the highest ranked of those that claim it, or else the Backup.    *)
ChoosesBest(self, others, no_bdr) ==
    LET field  == BdrField(self, Range(others), no_bdr)
        claim  == {c \in field : DeclaresBdr(c)}
        backup == Best(IF claim # {} THEN claim ELSE field)
        drs    == DrField(self, Range(others))
    IN  Elect(self, others, no_bdr) =
            [dr |-> IF drs # {} THEN Best(drs) ELSE backup, bdr |-> backup]
=============================================================================
