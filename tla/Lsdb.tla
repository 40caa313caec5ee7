-------------------------------- MODULE Lsdb --------------------------------
(***************************************************************************)
(* The link state database as what it is: two lists of pointers.  What is  *)
(* found under a pointer is what the heap holds there, and update_lsas     *)
(* deletes LSAs whose pointers stay in the lists.  The order within a list *)
(* is left out: where it decides, "the first" is any.                      *)
(*                                                                         *)
(* Both kinds of LSA have the size of one malloc chunk (48 bytes), so one  *)
(* may be allocated where the other was deleted.                           *)
(***************************************************************************)
EXTENDS LsaHeader

CONSTANTS
    Me,        \* router_id
    Key,       \* (ls_type, link_state_id, advertising_router)
    Chunk,     \* addresses of LSAs; bounds those in the lists at once
    Junk       \* a deleted LSA that free() or another object has overwritten

Type == {"router", "network"}

(* The functions below compare id and adv only; no router id is taken for  *)
(* the address of an interface.                                            *)
ASSUME LsdbAssumption ==
    /\ Key \subseteq [type: Type, id: Nat, adv: Nat]
    /\ \A k, l \in Key : k.id = l.id /\ k.adv = l.adv => k = l

Lsa == [key: Key, seq: 0 .. SeqMod - 1, checksum: 0 .. ChecksumMod - 1,
        age: 0 .. AgeMod - 1]

ASSUME JunkAssumption == Junk \notin Lsa

Others == {k \in Key : k.adv # Me}

Database == [list: [Type -> SUBSET Chunk], mem: [Chunk -> Lsa \cup {Junk}],
             freed: SUBSET Chunk]

EmptyDb == [list |-> [t \in Type |-> {}], mem |-> [c \in Chunk |-> Junk],
            freed |-> {}]

Listed(db) == db.list["router"] \cup db.list["network"]

(* find_router_lsa, find_network_lsa: the pointers they may return, and    *)
(* what is there.                                                          *)
IsOf(i, k) == i # Junk /\ i.key.id = k.id /\ i.key.adv = k.adv
Matching(db, k) == {c \in db.list[k.type] : IsOf(db.mem[c], k)}
Found(db, k)    == {db.mem[c] : c \in Matching(db, k)}

(* What malloc may return: memory that is not in use.  (What left the      *)
(* lists without being deleted is leaked: nobody refers to it.)            *)
Unused(db) == (Chunk \ Listed(db)) \cup db.freed

(* Memory outside the lists does not matter. *)
Forget(db) ==
    [db EXCEPT !.mem   = [c \in Chunk |-> IF c \in Listed(db)
                                          THEN db.mem[c] ELSE Junk],
               !.freed = @ \cap Listed(db)]

SetList(db, t, cs) ==
    [db EXCEPT !.list = [u \in Type |-> IF u = t THEN cs ELSE @[u]]]

(* new LSARouter or new LSANetwork at c, filled with i *)
New(db, i, c) == [db EXCEPT !.mem   = [d \in Chunk |-> IF d = c THEN i ELSE @[d]],
                            !.freed = @ \ {c}]

(* remove_router_lsa, remove_network_lsa: the pointers, not the memory.    *)
Remove(db, k) == SetList(db, k.type, db.list[k.type] \ Matching(db, k))
Push(db, k, c) == SetList(db, k.type, db.list[k.type] \cup {c})

(* install_router_lsa, install_network_lsa.  Mutants: the old copy stays;  *)
(* it stays although it is deleted.                                        *)
Install_KeepsOld(db, i, c) == Forget(Push(New(db, i, c), i.key, c))
Install_DeletesOld(db, i, c) ==
    Forget(Push(New([db EXCEPT !.freed = @ \cup Matching(db, i.key)], i, c),
                i.key, c))
Install(db, i, c) == Forget(Push(New(Remove(db, i.key), i, c), i.key, c))

(* update_lsas, for one LSA i at c: flooded if nothing, or something older *)
(* (at old, the first found), is in the database; a network LSA that       *)
(* replaces another is not pushed (line 111).  The LSA is then deleted.    *)
(* Mutant: the older one is not removed.                                   *)
Delete(db, c) == [db EXCEPT !.freed = @ \cup {c}]

Originate_KeepsOld(db, i, c) ==
    {[lsdb |-> Forget(Delete(Push(New(db, i, c), i.key, c), c)),
      flooded |-> {i}]}
Originate(db, i, c) ==
    LET fresh == New(db, i, c)
        k     == i.key
        kept  == IF k.type = "router" THEN Push(Remove(fresh, k), k, c)
                 ELSE Remove(fresh, k)
    IN  IF Matching(fresh, k) = {}
        THEN {[lsdb |-> Forget(Delete(Push(fresh, k, c), c)), flooded |-> {i}]}
        ELSE {IF Cmp(i, fresh.mem[old]) < 0
              THEN [lsdb |-> Forget(Delete(kept, c)), flooded |-> {i}]
              ELSE [lsdb |-> Forget(Delete(fresh, c)), flooded |-> {}] :
                 old \in Matching(fresh, k)}

(* free() writes into what it is given, and later allocations do. *)
Overwrite(db, c) ==
    [db EXCEPT !.mem = [d \in Chunk |-> IF d = c THEN Junk ELSE @[d]]]
=============================================================================
