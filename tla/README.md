# OSPF-LITE in TLA+

TLA+ modules for the OSPF router in `src/src`, TLC configurations that check
them on small instances, and proofs that TLAPS checks. `PROJECT.json` relates
every definition to the lines it models, every run to its properties, and the
hazards of the code to the properties that are about them.

## 1. The program

One process, one broadcast interface in use. After `main.cpp` has built the
interface and its area, these threads share all state:

| thread | code | what it does |
|---|---|---|
| receive | `recv_ospf_packet_thread`, ospf.cpp:209 | the only thread that runs events: it looks at the timers, blocks in `recv`, handles one packet |
| Hello sender | `send_ospf_hello_packet_thread`, ospf.cpp:136 | reads `dr`, `bdr`, the neighbours and their states |
| waiting timer | `waiting_timer_thread`, interface.cpp:11 | sets `waiting_timeout` once |
| empty DD sender | `send_empty_dd_packet_thread`, ospf.cpp:883 | one per adjacency attempt, while the neighbour is in ExStart |
| retransmission | `retrans_sender_thread`, ospf.cpp:963 | one per neighbour, until it is Down; reads its list and the database |
| LSDB aging | `lsdb_aging_thread`, link_state.cpp:221 | increments ages |

There are two mutexes per neighbour, and most accesses take neither. Events are
methods that change fields and then `pthread_join` other threads; a join that
does not return stops the only receive thread, and with it the router.

### Components

* **Neighbor** (neighbor.h, neighbor.cpp; the DD, LSR, LSU and LSAck handlers).
  State: the state from Down to Full, who is master, the DD sequence number,
  the last DD packet in each direction, three lists of LSA headers, two thread
  handles and the flags `empty_dd_sender_stop`, `is_empty_dd_sender_running`.
  Hard: threads that are created and joined from eight places, packets that
  are lost and repeated, timeouts in the middle of an exchange. Correct means:
  every join has a thread and returns, lists do not survive an adjacency,
  headers are acknowledged once, an adjacency exists where it is wanted, a
  silent peer goes Down.
* **Interface** (interface.cpp; the Hello handler). State: the interface state,
  `dr`, `bdr`, the list of neighbours, the waiting timer. Calls
  `event_adj_ok` on neighbours; the Hello handler and the inactivity timer
  call it. Hard: which Hello triggers an election, the repeated passes, roles
  that change while a timer fires, and several routers that elect because of
  each other. Correct means: one role per router, an elected router that exists
  and is willing, adjacencies that follow the roles, no pre-emption, an end to
  waiting and to electing, one DR on the link.
* **Election** (`election_for_dr_and_ndr`): pure; must not depend on the order
  of neighbours.
* **LSA comparison** (`lsa_header_cmp`, `LSAHeader::ntoh`): pure; must be an
  order on which two routers agree.
* **LSDB, update_lsas, flooding** (link_state.cpp, lsa.cpp, ospf.cpp:648-874,
  963-1096). State: two lists of pointers to LSAs, the memory behind them,
  the counter of sequence numbers, retransmission and request lists of the
  neighbours. Hard: `update_lsas` deletes what the database points to; an LSA is
  queued and sent before it is installed; the retransmission threads look
  at both in between; entries are removed by key, whatever their sequence number.
  Correct means: another router's LSA is kept once, whole, and replaced by a newer
  one only; what is acknowledged is stored; what is requested is worth
  requesting; what is queued is there to be sent.
* **Rest**: startup, configuration, checksums, logging: no state of interest.
  `send_lsr_packet_thread` and `event_loading_done` are dead code.

## 2. The modules

| module | models | composed with |
|---|---|---|
| `NeighborEvents` | the fields of `Neighbor` and what each event and DD packet does to them, as operators on records | used by the next two |
| `Neighbor` | one neighbour and the threads that share it, against any peer | extends `NeighborEvents` |
| `Adjacency` | two routers running this code over a lossy link | instantiates `NeighborEvents` per router; each router is shown to implement `Neighbor` |
| `Election` | `election_for_dr_and_ndr` | used by `InterfaceEvents` |
| `InterfaceEvents` | the fields of `Interface` and what its events, the passes of an election and a Hello do to them, as operators on a record | extends `Election`; used by the next two |
| `Interface` | one interface and its threads, against any peers | extends `InterfaceEvents` |
| `Segment` | the routers of one link that exchange Hellos and elect | one record of `InterfaceEvents` per router; each router is shown to implement `Interface` |
| `LsaHeader` | `lsa_header_cmp` and what `ntoh` leaves of the age of a header in an LSU | used by the next three |
| `Lsdb` | the database: lists of pointers and the heap behind them; `install_*`, `find_*`, `remove_*`, `update_lsas` | extends `LsaHeader` |
| `LsaStore` | abstract: what a database and an acknowledgement promise | extends `LsaHeader` |
| `Flooding` | one router's LSAs: the packet handlers, flooding and the retransmission threads on the database and the neighbours' lists | extends `Lsdb`; shown to implement `LsaStore` |
| `NeighborProofs`, `AdjacencyProofs`, `ElectionProofs`, `InterfaceProofs`, `SegmentProofs`, `LsaHeaderProofs`, `LsdbProofs`, `FloodingProofs` | the theorems | each extends its module and `TLAPS` |
| `MC*` | instances for TLC; `MCAlgorithms` enumerates the inputs of the two pure algorithms | |

Operators named `Definition_Something` next to a definition are deliberately
wrong variants of it. No run uses them as they stand: each is put in place of
its definition to see that the property it is paired with in `PROJECT.json`
fails, so that no property holds by the shape of the model alone.

### Neighbor

`n` is the object, `rpc` the place of the receive thread: `loop` (between
packets), `dd` (at `goto DD_BEGIN`), `elect` (an election follows), `join_retrans`
and `join_sender` (in a `pthread_join`), `finish` (after it), `stuck` (blocked in
an event of another neighbour), `aborted`. A handler is one step, cut at every
join, because that is where the other threads get to see a half-done event:
`TearDown` publishes the lower state, `JoinRetrans` and `JoinSender` are the
joins, `Finish` is the rest. `sender[i]` are the empty DD senders, `handle` is
`Neighbor::empty_dd_sender`, which a new sender overwrites; `retrans` is the
retransmission thread. The four events that tear an adjacency down share `Lower`;
`event_seq_number_mismatch` and `event_bad_ls_req` are the same code in the
source. LSAs are names here: what a DD packet requests, what `update_lsas`
queues and whether flooding serves a request are free choices; `Flooding` has
what decides them. `lsr_sender_created` is never true, so its joins are left out.

An invalid `ls_type` (ospf.cpp:480) is followed by `continue` of the inner loop,
so the code would go on with a packet it has rejected; it does not come to that,
because the event before it does not return.

### Adjacency

`chan[r]` holds the packets on their way to `r`. `SendHello` and `SenderSend` are
driven by timers and wait for room (`Capacity`); answers never wait. `ByteSwap`
is the missing `htonl` of ospf.cpp:896. A header has an LSA and a sequence number,
and `Lacks` is line 501, so `Requested` is the real request list of a router
whose database does not change. `RouterImplementsNeighbor` maps one router to
`Neighbor` with a single sender, `pkt` being the packet in front and
`retrans` "check" while the neighbour is not Down. `MappingAssumption` says that
the DD packets of `Neighbor` include those that the routers can send.

### Interface

`i` is the object, with the place of the receive thread in `i.rpc`. A neighbour
is what the election and the adjacency decision read: state (Down, Init, 2-Way,
or adjacent: ExStart and up), priority, the DR and Backup it declares.
`call_election` is a step per pass (`ElectionPass`), then `AdjOk`, then
`SetRole`, since the Hello sender and the waiting timer run between: `Resume`
takes them in turn. A neighbour that must give up an adjacency blocks the
thread (`hung`), as `Neighbor` shows (`HangIsPermanent`). `Hello2Way` is the
whole branch of a Hello that lists the router: the new fields,
`event_2way_received`, then the chain of conditions at ospf.cpp:343-357.

The candidate that stands for the router itself is read through a pointer to a
variable whose block has ended (interface.cpp:148, 190). The model has its
values intact, which is what a build that does not reuse the stack slot reads.

### Segment

`rt[r]` is the interface of router `r`; `RecvHello(r, p)` reads what `p` would say
at this moment (`dr`, `bdr`, and whether it lists `r`) and lets `r` handle it, so a
Hello may fall between two passes of an election of its sender. `Start` is the set
of ways to begin: who is never there (`absent`), who comes up after the others
have agreed (`late`), who may stop waiting before it has heard the others
(`early`), and who may die and come back with nothing remembered (`mortal`).
The waiting timer of 40 s against a Hello every 10 s is the guard of
`TimerFires`; `early` drops it. A behaviour goes no further than the first
receive thread that hangs: what the others do then is what they do when a
router dies.

`View(r)` keeps of what a Hello said only the claims (`Claims`): whether the
sender is its own DR, and whether its Backup is nobody, itself, or another one.
`Interface` has no more than that. Every step of a router is a step of
`Interface` on its view, until the process ends and a new one begins
(`RoutersAreInterfaces`): the election and the Hello handler look at nothing else.

What the runs of this module show that no sentence of the sources denies:

* Joining is no change: `new_neighbor` suppresses the events at ospf.cpp:343.
  Two routers that stop waiting before they hear each other are both DR, for
  good. A router that joins and hears the Backup before the DR finds
  `bdr == p` and no DR, elects the Backup as DR, and stays with it.
* Three routers that start together may lose one for ever. If the roles move
  after two have become adjacent, `event_adj_ok` gives an adjacency up, which
  never returns (neighbor.cpp:137).
* A router that is back before its inactivity timer fires elsewhere sends
  Hellos that list nobody, and hangs every neighbour (neighbor.cpp:66). Apart
  from a return only an adjacency given up after an election hangs a router, and
  between two routers that does not happen (`HangsHaveCause`).
* Two routers that join others, both late, may both remain Backup. Each hears
  the other claim the role before it hears it both ways; then it joins, which is
  no change, and nobody elects again.

`EventuallyAgree` names exactly these exceptions: it asks for one DR otherwise,
and for one Backup only of routers that start together.

### Lsdb and Flooding

`lsdb` is two sets of addresses (`list`), what memory holds there (`mem`), and
which of it was deleted (`freed`). `update_lsas` deletes an LSA right after it
has put its address into the database (lsa.cpp:135, 183), so `HeapWrites` may
turn it into `Junk` at any time, and `Unused` has it for the next `malloc`.
An LSA found at such an address is then another one, possibly of the other
type, since both objects have the size of one chunk. What leaves a list without
being deleted is leaked and forgotten. The order within a list is left out:
where the code takes the first match, the model takes any.

A neighbour is `below` (any state below Exchange, where its lists are empty:
`Neighbor!ListsEmptyBelowExchange`), EXCHANGE, or FULL. The LSU handler is two
steps: `RecvNewLsa` compares, queues and floods, `InstallLsa` removes the LSA
from every retransmission list, installs and acknowledges it; `RecvOldLsa` is
the branch for a copy that is as new. `Election` is free in what it chooses (the
roles are `Interface`'s) but has its effect on adjacencies. `ExchangeDone`
generates the router's own LSAs with wrapping sequence numbers. Wherever an
event would not return, the thread is `hung`; where the retransmission thread
reads the null pointer of an LSA that is not there, the process has `crashed`;
`Restart` begins again with nothing.

`LsaStore` is the abstract database of the LSAs of other routers: at most one
instance each, replaced by a newer one only, acknowledged when it has been
stored. `Replace` is the exception the code makes for network LSAs. Under the
mapping `store <- Stored`, `ack <- Acked`, `Flooding` implements it: the reuse of
deleted memory never shows in another router's LSA.

## 3. Runs

| run | configuration | shows |
|---|---|---|
| neighbor | MCNeighbor.cfg | the invariants of one neighbour, and that the hang is permanent |
| neighbor_live | MCNeighborLive.cfg | the inactivity timer's joins return; a silent peer goes Down unless a thread hung |
| interface | MCInterface.cfg | the properties of roles and adjacencies, no pre-emption, an election takes at most two passes, waiting ends |
| segment | MCSegment.cfg | a router that joins does not move the DR; a thread hangs only on a return or where an adjacency is given up, which two routers never do; elections cease; all agree on one DR, and those that start together on one Backup, but for the named exceptions; each router implements `Interface` |
| algorithms | MCAlgorithms.cfg | the election's scans find the maximum, whatever the order; newer is antisymmetric and transitive (`SeenOrdered`); of the ages only MAX_AGE makes a header newer, and only in a DD packet (`SeenAtMaxAge`) |
| adjacency | MCAdjacency.cfg | master and slave stay in step, Full means both databases were described, only an empty DD packet makes a thread hang, each router implements `Neighbor` |
| adjacency_live | MCAdjacencyLive.cfg | without loss both become Full or one hangs |
| flooding | MCFlooding.cfg | deleted memory shows only in place of the router's own LSAs, one copy of each other LSA, only own LSAs await acknowledgement, requests stay open and, but at MAX_AGE, can be answered, a resent router LSA is current; the database implements `LsaStore` |

Four runs look for a violation and find it: each checks one sentence of the
sources' comments that the code does not keep.

| run | sentence | what happens |
|---|---|---|
| neighbor_silent | neighbor.h:66, a silent neighbour is forced Down | the receive thread waits in `pthread_join(retrans_sender)` of another event, for ever |
| adjacency_network | neighbor.h:36-40, after the exchange the outdated parts are known | ospf.cpp:510 tests `ls_age` for `ls_type` |
| flooding_unacked | neighbor.h:99 and ospf.cpp:910, what was flooded and not acknowledged is sent again | `update_lsas` queues an LSA and deletes it, or does not add it at all (lsa.cpp:111, 135, 183); the thread that would send it finds none |
| flooding_older | ospf.cpp:705 and 816, an LSA is installed if there is no copy or an older one | ospf.cpp:827 installs a network LSA over a newer copy |

Sentences that a single line contradicts, without any sequence of steps, have no
run: Full "when the request list is empty" (neighbor.cpp:215 reads `true || ...`),
other options "are a mismatch" (ospf.cpp:378 overwrites what line 427 compares),
and the assertion at ospf.cpp:574, 654 and 853 that the sender is known.

Deadlock is checked in `flooding`, where a router that stops can be started
again. It is not checked elsewhere: a router whose receive thread hangs and
whose other threads sleep or have ended does stop (a segment with one ends
there), and so does an instance whose bounds are used up, or one whose routers
have nothing new to tell each other.

## 4. Bounds

* `Senders = {t1, t2}`: two empty DD senders alive at once, the current one and
  one of an earlier attempt that has not looked at the state since. A sender
  that has ended can be created again, so attempts are not bounded. The proofs
  are for any set.
* `MaxHdrs = 1`, databases of up to two headers: an exchange takes several
  packets and both sides' lengths differ. The code packs (1024 - 8) / 20 = 50.
* `SeqMod = 2` in Neighbor, `Byte = 2` (4 numbers) in Adjacency: the numbers
  wrap, and a byte swap changes some of them and not others.
* `MyRouterId = 2`, peers 1 and 3: both outcomes of the negotiation.
* `Capacity = 3` packets before a timer sends another: a retransmission of the
  empty DD packet can be behind the packets of the exchange.
* `Peer = {1, 3}`, `Priority = {0, 1}` in Interface: with one priority above 0
  the ids decide, both ways; the election alone is checked with three neighbours
  and the priorities 0 to 2. `MyPriority = 1` is what the program has.
* `Router = {1, 2, 3}` in Segment: a DR, a Backup and one that is neither. Six
  starts: three together; the lowest or the highest joins two; both of them join
  one, one after the other; two that are both early, one of them mortal.
  `MaxElecting = 1`: while a router elects it handles no packet, so two elections at once differ from one after the other
  only in what a third router hears in between.
* LSA headers in `algorithms`: a 2-bit sequence number, three headers at a time
  (transitivity speaks of three); ages around MAX_AGE, MAX_AGE_DIFF and the cap.
* Flooding: two peers; the router's own router and network LSA and one of each
  of another router. Two instances of the others' LSAs can arrive, and one of
  the router's own network LSA, from an earlier life. `MaxOriginated = 2`:
  once two LSAs have been generated there are no more (a DR generates two in a
  step); `InitialSeq = 5` of 8 numbers, so that the counter wraps. `Chunk` has three
  addresses, symmetric: the database of another router's LSA, an own one, and
  one to allocate; where memory is used up nothing new arrives, and the proofs
  are for any set. One peer describes its LSA with the age 0 or at MAX_AGE; a
  peer describes an LSA only while no request for it is open. `MCOutcome`: this
  router is DR, or a peer is and the other adjacency is given up.

## 5. Fairness

* The receive thread goes on while it need not wait for a packet (`Resume`),
  and so do the other threads: they only sleep.
* The inactivity timer of a peer that is dead, and the waiting timer's turn in
  the loop, are weakly fair: `recv` blocks, so this assumes that frames of any
  host keep arriving on the link. The receive socket takes every IP frame, so
  this is a modest assumption, but on a silent link neither timer is ever
  looked at.
* No packet of a particular peer has to arrive in `neighbor_live` and
  `interface`. In `segment` the Hello sender never ends, and a Hello that stays
  possible is handled at some time (weak fairness per pair of routers); in
  `adjacency_live` the link loses nothing, timers send again and again (strong
  fairness, since room on the link comes and goes) and handlers run.
* The properties that end in "or hung" say so because the code may hang; the
  alternative is never reached by a fairness that the code does not have.

## 6. Proofs

**Neighbor.** `NeighborProofs` proves `Spec => []IInv` for every value of the
constants that the two named assumptions allow (`NeighborAssumption`,
`ThreadAssumption`), and from it each invariant of run `neighbor` and the action
property `HangIsPermanent`. `IInv` adds to the invariants what they leave out:
at which `rpc` which event can be under way, that the receive thread at
`join_retrans` has already cleared the retransmission list (`ControlInv`), and
that the flag `is_empty_dd_sender_running`, when set, is about the last sender
created, which has not ended (`RunningInv`). Without them `JoinsHaveTargets`
and `ExstartHasSender` are not inductive: what holds at one place of the
receive thread depends on how it came there. The proof has one case per action;
`AcceptDDFacts`, `TwoWayFacts`, `EventFacts` and `LowerFacts` are the lemmas on
the operators the actions share. The heart of several cases is that an event
which leaves the neighbour above Down never gets past `join_retrans`, so the
joins of `empty_dd_sender` behind it, which would be unsafe, are not reached.

**Election.** `ElectionProofs` proves that the two scans choose by rank and claim
alone, for a list of any length in any order (`ElectionIsBest`): the definition
by sets that run `algorithms` compares them with. A scan is a recursive
function over the list. The library's induction theorems cannot be used, since
they take an operator; but a set of positions at which something fails has a
least one (`FirstOf`), and from it both the existence of the function
(`StepsExist`) and what it returns (`ScanLeads`) follow. The only assumptions
are that ids are distinct and ip addresses are not 0 (`IsField`).

**Interface.** `InterfaceProofs` proves every invariant and every action
property of run `interface`, for any neighbours, ids and priorities
(`InterfaceAssumption`). `Good` says what the
adjacencies follow while the receive thread is between its loop and the end of
an election: still the roles before it (`old`), until `event_adj_ok` has been
through the list; and that whoever has been heard is in that list (`Listed`),
without which the loop could miss one. `AdjOkGood` is its central lemma: the
loop reaches every neighbour or ends at the first that hangs it. `Sound` is
about the roles. An election works on lists of records; `ElectChooses` restates
what it returns in terms of ip addresses (`Chosen`), `OneChoice` that there is one
such choice, and `SameVoteSameChoice` that it depends on nothing but the
router's own roles and the eligibility, priorities and claims of the others. The
inductive parts are: the router is kept out of the Backup scan only as a DR it
has just become, which nobody else claims to be (`KeptOut`); when the passes
end, one more would choose the same, or the router has resigned (`Settled`); and
before the first election nobody has a role (`RolesShow`). `ElectionPassSound`
has the argument why two passes are enough: becoming DR or Backup changes no
claim but the router's own, and a router that loses its claim to be Backup lost
to one that claims it too. `ElectionIsStable` needs no bound on the number of
neighbours. `TwoPassesAtMost` says it as an action property, the part of
`WaitingEnds` that does not speak of fairness. `SecondPass` is what it needs
beyond `Sound`: the second pass follows a first one that made the router DR, and
then stays out of the scan for the Backup, or one that made it Backup, beside a DR
that claims to be one (`PassFollowed`); from either the router comes out as it
went in.

**LSA comparison.** `LsaHeaderProofs` proves that `lsa_header_cmp` is
antisymmetric and transitive for any widths and limits. `MaxAgeDecides` says what
the age can do when a header meets a database copy, whose own age is at most
0xff. In an LSU, where `ntoh` leaves 0 of it, nothing: the two are the same
instance exactly when sequence number and checksum are the same. In a DD packet,
whose headers keep their age (ospf.cpp:493), MAX_AGE makes the same instance the
newer one; no other age makes a header newer.

**Database and flooding.** `LsdbProofs` has what each operation on the lists and
the heap leaves alone: `InstallFacts` (after an install exactly one entry has
this key, and the other keys are as before), `OriginateSame` and
`OverwriteSame` (`update_lsas` and writes to deleted memory do not touch
another router's LSA). `FloodingProofs` proves `Spec => []IInv` from
`FloodingAssumption` and `LsdbAssumption`, for any peers, LSAs, elections and
any amount of memory, and from it `TypeOK`, `DeletedAreOwn`, `OneCopy`,
`QueuedAreOwn`, `RequestsAreOpen` and the refinement `DatabaseImplementsStore`.
`IInv` adds: the LSA between the two steps of the LSU handler is new to the
database (`ControlInv`); every copy of another router's LSA came in an LSU, so
its age is 0 (`WireInv`); below Exchange the lists are empty
(`BelowInv`); and what the lists may hold between the two steps (`QueueInv`,
`RequestInv`). `RequestsAreOpen` needs that last part: a newer copy is about to
be installed while the request for it is still compared with the old one. Its
second half, that the LSU which answers a request is new and so no error
(ospf.cpp:796), follows from `MaxAgeDecides` (`AnswerIsNewer`), with the exception
that the code has: what was requested because a DD packet described it at MAX_AGE
arrives with the age 0, and if the database has that instance, the receive thread
hangs on the answer.

`ResendsAreCurrent` needs a part of its own (`Queued`). A queued LSA that is not
the one being installed was generated by this router, with a number that has not
come round (`SentInv`); and as long as the numbers have not come round, the copy
in the database under the key of a queued router LSA is no older (`CurrentInv`).
The theorem has the hypothesis `MaxOriginated < SeqMod - 1` (2 < 7 in the
run): after 2^32 originations "older" has no meaning that could be proved.

**Two routers.** `AdjacencyProofs` proves `Spec => []IInv` for any databases,
header limit, width of the numbers, capacity and loss (`AdjacencyAssumption`),
and from it the three invariants of run `adjacency`. They are far from
inductive: whether a packet is taken for the right one depends on everything
that is still on the link. `IInv` has four parts. `TypeInv` is the only place
where the two routers need not be told apart. `ControlInv` is about one router:
what its receive thread waits for, and that before it accepts a packet its
sequence number is 0 and it has sent nothing. `HelloInv` is the order of the
link: after a Hello or DD packet that shows the sender has heard this router
nothing shows the opposite, so nobody falls back to Init. `PhaseInv` is the
exchange. Before the master accepts a packet (`BeforeInv`) the slave may have
begun, and says the same thing again and again; afterwards either the slave has
not received what the master said last (`Ahead`), or the master has not received
what the slave said last (`Level`). Each phase says what packets of the exchange
are in flight in each direction, which of them the receiver takes for
duplicates, and that a router needs of the other's database only what it
requests or is still to be sent (`Knows`); `FullInv` is what is left of that
at the end. A step of one router (`Local`, `Frame`) is either quiet (`Keeps`):
nothing is accepted, and only the slave says something of the exchange, which it
has said before; or it accepts a packet: `SlaveBegins`, `MasterAccepts`,
`SlaveAdvances` go from one phase to the next. The empty DD packets, with their
swapped numbers, may arrive in any phase: nothing else can be unexpected, so
nothing else makes a thread hang.

`NeighborsImplemented` is the refinement: each step of either router is one
step of `Neighbor` or none. What is needed of `IInv` is that there is a sender to
create or none to wait for (`ControlInv`), and that the packets received are
packets that `Neighbor` expects (`PeerPacket`, from `MappingAssumption`). A
router sees of the other one's steps only what is appended to its link, and the
packet in front stays there (`Elsewhere`).

**One link.** `SegmentProofs` proves `RoutersAreInterfaces`, for any number of
routers and any way to start (`SegmentAssumption`). It is a chain of equations:
each operator of `InterfaceEvents`, applied to the record of a router and then
abstracted, is the same operator of `Interface` applied to the view. The
election runs over lists; by `ElectionIsBest` its result depends on rank and
claims alone, and the view keeps those (`AlikeElections`). The invariant is small
(`Placed`): the records have their types, a neighbour's DR and Backup are ip
addresses, and a router comes back only once.

`HangsExplained` proves `HangsHaveCause`, for any number of routers. A receive
thread hangs in two ways, and `PairInv` has what excludes each. A Hello that does
not list the receiver would have to come from a router that the receiver hears
both ways; but such a neighbour has heard this router, and as long as nobody
forgets by coming back its Hellos say so (`HeardBack`). And an adjacency is given
up only if neither end is DR or Backup; but whoever is elected is present
(`PresentInv`), so where two routers are present it is one of the two. That leaves
three routers or more that give up an adjacency. `PairNeverHangs` is the
invariant that follows for two, whatever the ranks. `Links` is what a step
does to adjacencies, once for all actions, so that the invariant is proved of
one kind of step and not of each. Counting routers needs `IsFiniteSet(Router)`, which
is part of `SegmentAssumption`.

`ContentAgree` is the safety part of `EventuallyAgree`. Routers that are in touch
(`InTouch`: each hears the others both ways and knows their claims) hold the
election over the same set of candidates, though each finds its
own entry in the `Interface` object and the others' in its list (`SameField`); by
`ElectionIsBest` the result is the same (`SameVerdict`). So those that are content
with their roles have the same DR and the same Backup, and where two differ one
has not held an election that would change its roles; `ChangesAreNoticed` and
`ElectionSettles` say how it comes to that: a neighbour joined, or the router
has just resigned as DR. It takes one inductive fact, that the id and
the priority of whoever has been heard are known (`AllIntroduced`). That routers get
in touch at all is liveness, and stays with TLC.

`NoPreemption` proves `JoinerKeepsDr` for any number of routers that agree and
any number that join them, whatever their ranks and the Hellos they get first.
`JoinInv` has two parts. Until the first one joins (`Before`), as long as one of
the others is not up, those that are sleep and claim nothing: this is why
"those who agree" are all of them. Once `j` has joined (`Joined`) there is a `d` that
all routers up before `j` have as DR and know to be DR, and nobody knows `j` to
claim it (`KnowsDr`). Then either `j` hears `d` both ways, and whoever elects
finds `d` as the one candidate that claims to be DR (`OnlyDrElected`), so rank
decides nothing; or it does not, and is `Frozen`: it holds an election only
after a Hello of the Backup, which it then elects as DR (`BackupElected`), so it
never names itself, and no Hello of its own gives the others a reason to elect.
`Heeds` says of any step when a router elects and what it learns. The theorem
has a hypothesis on the starts: where routers join, none dies and none of the
others is `early`. With an early router the property is false for a reason that has
nothing to do with joining: it may be DR alone before the others are up, and the
one that comes up next does not have it as DR yet.

**Only model-checked**: the invariants of `MCAlgorithms` (`ElectionChoosesBest`,
`SeenOrdered`, `SeenAtMaxAge`), which are about inputs that the run enumerates;
`ElectionProofs` and `LsaHeaderProofs` prove the definitions
they state (`ElectionIsBest`, `Antisymmetric`, `Transitive`, `MaxAgeDecides`) for every
input. All liveness (`WaitingEnds`, `ElectionsCease`, `EventuallyAgree`,
`AdjacencyForms` and the others), which is out of the prover's reach.

## 7. Not modelled, and why

* `send_lsr_packet_thread` is never created (the call in `event_exchange_done` is
  commented out), so `event_loading_done`, the Loading state and the joins of
  that thread are unreachable.
* `lsdb_aging_thread` reads the database it is given as the area around it, while
  the receive thread writes: what it increments is undefined. `LsaHeader` has its
  cap on ages, and `SeenAtMaxAge` that no age up to it makes a header newer.
* Data races on the lists themselves (ospf.cpp:977 walks a `std::list` that
  others change): undefined. What the lists may hold at that moment is modelled.
* LSUs with several LSAs are several LSUs with one; DD packets bring their
  headers one at a time in `Flooding` (`Neighbor` and `Adjacency` have packets).
  The order within a list of the database is left out. LSA types other than
  router and network have no list.
* Packets sent are state only where someone receives them: DD packets and Hellos
  in `Adjacency`, Hellos in `Segment`. LSUs between two databases of this code
  would meet `ospf.cpp:1041` first: a Full neighbour is not flooded to.
* Elections, inactivity timers and a restart inside `Adjacency`; a return after
  death is in `Segment`, a restart of the process in `Flooding`.
* Point-to-point and NBMA links (the program sets the type to broadcast), the
  loopback interface (it has no neighbours), several interfaces and areas
  (main.cpp uses one), startup and configuration.
* Checksums, encoding and logging. Where a byte order is wrong and it matters
  (the empty DD packet, `ls_age`), the model has the wrong value.
* Routing: there is none.
