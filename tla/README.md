# A verification project for ecmh

ecmh ("Easy Cast du Multi Hub") is a daemon that joins the multicast of the
links of a host: it listens for MLD messages on every interface, keeps a list
of the groups that listeners on each link want, copies multicast packets to
the links that want them, reports the groups to the other links and queries
the links every 125 seconds. These modules model its core as one state
machine, show that it implements an abstract relay, and look at three parts more
closely: the linked lists under interrupting signal handlers, the packing of
MLDv2 reports, and the interface array as it follows the kernel. TLC checks them
on small instances, and TLAPS proves the safety invariants of all four models and
the refinement of the relay for every value of the constants.

What is modelled is the default Linux build (`ECMH_SUPPORT_MLD2` and
`ECMH_GETIFADDR` defined in the Makefile, no `ECMH_BPF`). Paths below are relative to the repository.

## 1. Inventory

| Component | Source | State | Operations | What makes it correct |
|---|---|---|---|---|
| MLD handlers | `src/ecmh.c` 1473-1843 | locals of the record loop (`isnew`, the position) | MLDv1 report and reduction, MLDv2 report, query | a report changes the tables only for the group and interface it names; a malformed report leaves consistent tables |
| Group tables | `src/groups.c`, `grpint.c`, `subscr.c` | `g_conf->groups`, per group `lastforward` and a list of interfaces, per interface a list of subscriptions with mode and refresh time | `groupint_get`, `grpint_refresh`, `subscr_unsub`, the destroy functions | the levels agree; live subscriptions stay, dead ones go |
| Lists | `src/linklist.c` | head, tail, `count`, the nodes | add, delete, walk, empty | `count` is the length, or the negative mark of a list its last listener left; a reader finds a sound list at any moment |
| Interfaces | `src/interfaces.c`, `update_interfaces` | `g_conf->ints[]`: mtu (0 = free), MLD version, time of MLDv1, addresses | create, destroy, find, `int_set_mld_version`, rediscovery | version and time agree; a lost device is noticed and found again; an interface has its own addresses; the upstream follows its name |
| Timer and loop | `main`, `timeout`, `timeout_signal` | `g_needs_timeout`, the alarm | sweep, periodic queries, receive | the timeout runs again and again; the sweep removes what is stale and nothing else |
| Senders | `src/ecmh.c` 576-1316, 2490-2517 | none of their own | reports in both versions, queries, `sendpacket6` | the right links are told the right groups in a version they know; what does not fit one packet goes into the next |
| Forwarding | `l4_ipv6_multicast` | statistics | forward | copies go to the subscribed links and never back |
| Parsing | `l2_ethtype` .. `l4_ipv6_icmpv6` | none | dispatch | only well-formed packets reach the handlers |
| Signals | `sigusr1`, `sigusr2`, `sighup`, `cleanpid` | none of their own | dump, report to the upstream, exit | a handler sees consistent lists |
| mtrace6 | `tools/mtrace6` | separate program | | not part of the daemon |

How they interact. There is one thread. `main` looks at `g_needs_timeout`, runs
`timeout()` if it is set, and blocks in `recvfrom`; a packet is dispatched to a
handler, which runs to its end and may call the senders, and the senders may
destroy the interface they send on (ENXIO). `SIGALRM` only sets the flag, so the
timeout waits for the next packet. `SIGUSR1` and `SIGUSR2` read the tables inside
the signal handler.

What is hard here: the delay between alarm and timeout, during which any
packets can be handled; the count that is both a length and a mark; state that
survives from one group record to the next; interfaces that are destroyed under
a handler's feet and created again by the next packet; the mix of MLDv1 and
MLDv2 speakers on a link. `PROJECT.json` lists these hazards line by line, each
with the properties that would notice it going wrong or the reason none does yet.

## 2. The modules

| Module | What it is |
|---|---|
| `Hub` | the daemon as one state machine: handlers, tables, interfaces, timer, senders, forwarding; its properties |
| `MulticastRelay` | abstract specification: which link wants what, and to whom a packet is copied |
| `HubRelay` | the refinement mapping from `Hub` to `MulticastRelay` |
| `HubClaims`, `HubHistory` | statements of the source's comments that the code does not satisfy; the second adds a history variable |
| `HubProofs`, `HubRelayProofs` | the theorems about `Hub`, and that it implements the relay |
| `AtomicList` | abstract specification of a list as its readers should find it |
| `LinkList` | the lists store by store, with deletion, sweep, shutdown and interrupting readers |
| `Mld2Report` | `mld2_send_report` packing wishes into packets, and the receiver of these |
| `Interfaces` | `g_conf->ints[]`, `update_interfaces` and the kernel's devices |
| `LinkListProofs`, `Mld2ReportProofs`, `InterfacesProofs` | the theorems about these three |
| `SetInduction` | induction over numbers, in the form the provers can use |
| `MCHub`, `MCHistory`, `MCLists`, `MCReport`, `MCInterfaces` | the instances TLC checks |

`Hub` treats lists, the layout of reports and addresses as data, and the three
detailed modules each take one of these apart. They meet at the operations they
share: `listnode_add` and `list_delete_node` are one function update in `Hub`
and a set of stores in `LinkList`; a report is the set of groups it names in
`Hub` and a buffer in `Mld2Report`; `update_interfaces` may or may not find a
device in `Hub` and does so by its rules in `Interfaces`.

### State of Hub and the code's state

| Variable | Code |
|---|---|
| `pc` | `"check"`: the top of the loop in `main`; `"recv"`: in `recvfrom`; `"grec"`: between two records of an MLDv2 report |
| `g_needs_timeout`, `alarm` | the flag, and the time to the pending `SIGALRM` (0: none) |
| `dev` | the devices the kernel has (environment) |
| `ints` | `g_conf->ints[]`; `up` is `mtu != 0` |
| `group` | `g_conf->groups`, address to age of `lastforward` |
| `grpint` | the interfaces of the groups, `<<address, ifindex>>` to count and subscriptions |
| `work` | the MLDv2 report being handled: interface, remaining records, `isnew` |
| `out` | the packets the last step handed to the kernel (only observed) |

Times. The code compares the age of a timestamp with the interval (`lastforward`,
`mld_last_v1`) or with twice the interval (`refreshtime`). A timestamp is kept
as its age in ticks, saturating at one above the larger limit (`AgeCap`), where
every comparison has reached its final value. `Tick` is one unit of time; it can
happen between any two steps, so a timeout can be arbitrarily late.

Actions. Each handler is one action that includes the sends it makes and the
interface destruction a failing send causes. The MLDv2 report is split: one
action for its arrival, one per group record, so that signals, ticks and device
losses happen between records as they can in the code. Packets are records of kind,
interface and group; which kinds a link sends is left to the environment. A
packet that reaches no handler (`ReceiveOther`) can still create the interface.
`update_interfaces` may or may not find each device that is not configured (its
address lines and the five-minute limit are the subject of `Interfaces`).

Abstractions to know about. A report record carries whether its source list fits
the packet (`fits`), a record outside the packet counts as one of unknown type.
Memory allocation does not fail. Transmission errors other than ENXIO lose a
packet, which no property depends on. Loopback devices are never interfaces, and
the upstream keeps its index. Signal handlers run between steps, not in the
middle of a list operation (`LinkList` has them there).

### MulticastRelay and HubRelay

The abstract relay knows three things: the wishes (`want`, a group, a link and a
source or `Any`, with the time since it was renewed), the links a packet can be
sent on (`ready`) and the copies the last step sent. A message (a report, a BLOCK record, a reduction)
changes wishes of one link for one group; a timeout forgets exactly the wishes beyond their
lifetime; a packet is copied to exactly the ready links, other than its own,
that want it. In `HubRelay` a wish is an including subscription in the tables, for a
source or for any source, with its refresh time. As in `l4_ipv6_multicast` it counts
until a message or the sweep ends it, so beyond its lifetime if the sweep is late, and a wish
for any source stands beside an exclusion of one. A link is ready while its
interface is configured and its device exists. Excluding subscriptions, counts, marks, versions, lists of
groups, reports and the main loop have no counterpart: the refinement
says that none of them leaks into whom a packet reaches.

### LinkList and AtomicList

One list (`head`, `tail`, `count`) over a small memory of nodes that are reused
after a free. An operation reads what it needs and leaves a sequence of sets
of effects: the effects of one set happen one per step in any order, the sets
one after the other. The stores of an operation are unordered because the program is compiled
with -O3 and nothing (no `volatile`, no barrier) orders them for a handler; the calls of
`calloc`, `free` and the destroy functions stay where they are. A handler is not an action: every state is one it can interrupt,
and `Visible` is the list as its `LIST_LOOP` would find it. An item
stands for a group, an interface of a group or a subscription, with all below
it. A sweep may take any node for expired. `subscr_unsub` and the sweep exist
for lists of subscriptions; groups and interfaces use the same operations.

### Mld2Report

The state is the buffer word by word, the locals of the function (`grec`, `src`,
`any`) and the packets sent. A step is one subscription met by the three nested
loops; their order over groups, interfaces and sources is free, as the order of
the lists is the order of arrival. A store behind the end of the buffer is kept like any
other: the program goes on after it, counts on, and hands `sendpacket6` a packet that is
larger than the MTU, which the kernel refuses. From the first such store on the
program may also be ended at any step (`Crash`), by the allocator or by what was
overwritten; that the foreign memory behind the buffer changes by itself is not modelled. The receiver walks
the records as the hub's own MLDv2 handler does, with its length checks. The count of
auxiliary words, which the sender never writes, is what the memory at that place held (`StaleAux`); behind a
record where it is not zero the receiver goes on from a place that depends on the
bytes of an address, and the model gives it none of the records that follow. Two addresses are taken to differ in every
word. A split whose send destroys the interface (ENXIO) is not modelled: its packets reach nobody.

### Interfaces

The kernel's devices are created with a new index, deleted, and get and lose
kinds of addresses; `ints` is the hub's array. `Updated` is the array after
`update_interfaces(NULL)`, `Borrowed` the address an update for a single
interface gives it: by the test at `ecmh.c:418` it skips the addresses of that
interface and copies those of the others. `since` is the clock minus
`last_update`, cut off at the limit; the clock can be set back to before the last
update. Packets can still arrive from a device that was deleted. One thing is
assumed of the kernel: a device is not renamed while its index is configured.
`int_create` reads the name once (`interfaces.c:330`) and an update leaves an
interface that is already there alone, so the hub would never see the new name
and `UpstreamFollowed` would fail.

### Names

A definition has the name of the C function it models. Where there is none it
names the idea: `FindOrCreate` (the receive path), `Wanted` and `Subscribed` (the
inner loops of `mld2_send_report` and `l4_ipv6_multicast`), `Expired`,
`Surviving`, `KeptGroups` (the three levels of `timeout`), `Grec...` (the branches
of the record loop). A definition such as `Expired_early`, just before `Expired`, is a
plausible slip in that code; replacing the one by the other must make a property
fail, which shows that the property depends on that code.

## 3. What the runs check

The instances of `Hub` have two interfaces, one routable group (one instance has a second
group besides), an interval of one or two ticks and the code's robustness factor 2. Two interfaces are what
forwarding and reporting "to all others" needs; handlers treat groups
independently except for `isnew`, which the link-local second group exercises; an
interval of one tick gives ages 0 to 3, that is fresh, at the interval, at the
lifetime, beyond it. No symmetry is used: the interfaces play different parts.

`LinkList` has three nodes and three items, which gives lists with a first, a middle and
a last node and a node that is reused; nodes and items are symmetric.

`Mld2Report` has buffers of 33 to 36 words of 4 bytes. The real ones have at least
1280 bytes, since `int_create` refuses less; the small ones hold the fixed header
and two to four records, so that a packet is full at a record, at a source and one word to
either side, and seven subscriptions reach a third packet. In these small buffers, too, the
place of a record behind swapped counts is kilobytes away, behind the buffer. `SwapAssumption` keeps
the buffer of a little-endian host below 1043 words (an MTU of up to 4171 bytes):
in a larger one the byte-swapped place of a next record can be inside the buffer
again, behind a gap that the receiver takes for records, and the properties need
not hold. The code accepts such an MTU; neither runs nor proofs say anything of it.
On a big-endian host any MTU is covered. Groups and sources are symmetric.

`Interfaces` has three indexes for two names, so that the upstream can be deleted and
created again, an interval of one tick, a limit of two (in the code 125 and 300
seconds: the limit is longer than the interval, so a timeout can pass without an
update) and a clock that is set back by one tick below the last update, any number of times.

### Properties that hold

| Run | Instance | Properties | States |
|---|---|---|---|
| `tables` | upstream, a link-local group, a source, six kinds of MLDv2 report including malformed ones | `TypeOK`, `ListsAgree`, `CountExact`, `LiveSubscriptionsKept`, `ImplementsRelay` | 572 thousand |
| `devices` | the device of the upstream comes and goes, joins of both versions | `VersionStamped`, `LiveSubscriptionsKept`, `ImplementsRelay` | 434 thousand |
| `mld1only` | option `-1`, no upstream, traffic of both versions, and a second listed address that is not multicast, which only MLDv2 reports refresh | `VersionStamped`, `ListsAgree` | 497 thousand |
| `live` | no upstream, one device comes and goes, MLDv1 traffic, fairness | `SubscriptionsExpire`, `LeaversRemoved`, `QueriesRepeat`, `GoneDevicesNoticed` | 43 thousand |
| `lists` | three nodes, three items | `TypeOK`, `HandlerSafe`, `ListSound`, `CursorValid`, `FreedOnce`, `AllFreed`, `AtomicToHandlers` | 42 thousand |
| `report` | three groups, two sources, two other interfaces, both byte orders | `PackOK`, `NothingUnwanted`, `GroupsNamed`, `SourcesExact` | 595 thousand |
| `addresses` | three device indexes, two names, three kinds of configuration | `TypeOK`, `UpstreamGenuine`, `AddressesLearnt`, `UpstreamFollowed` | 570 thousand |

* `ListsAgree`: interfaces of a group are kept only under a listed group, and
  no listed group is without one.
* `CountExact`: the count is the length of the list or, on an empty list, the
  mark `-2`. It depends on `listnode_add` lifting a negative count: without
  this a rejoin after a reduction would leave a list whose count the timeout
  takes for "everybody left".
* `LiveSubscriptionsKept`: no step loses a subscription that was refreshed within
  its lifetime, except the MLDv1 reduction for it. The timeout, late or not, the
  destruction of the interface and malformed reports do not.
* `VersionStamped`: an interface is in MLDv1 mode exactly while the time of it is
  stored, and `-1`/`-2` keep the other version out of `ints` (TLC runs it for `-1`
  and the default, the theorem covers `-2` as well).
* `SubscriptionsExpire`, `LeaversRemoved`: what is not refreshed or was left is dropped.
* `QueriesRepeat`, `GoneDevicesNoticed`: every lasting link is queried again and
  again; the interface of a device that stays away is destroyed in the end.
* `ImplementsRelay`: `Hub` implements `MulticastRelay`. It is the statement that
  forwarding is right over every history: a packet goes to exactly the other
  ready links with an including subscription for its source or for any, however it came about.
* `HandlerSafe`, `AtomicToHandlers`: a handler that interrupts an addition, a
  deletion or a sweep at any store touches only allocated memory, terminates,
  meets no destroyed or half-made item, and sees each operation happen at once.
  This holds with the stores in any order; it rests on the node being cleared
  by `calloc`, on `LIST_LOOP` skipping a node without data, and on the node being
  freed after it is unlinked.
* `ListSound`, `CursorValid`, `FreedOnce`, `AllFreed`: between operations the two
  directions, tail and count agree and every linked item is listed once, also when
  an allocation failed; the deleting loops never stand on a freed node; nothing is
  freed twice; the shutdown frees all nodes and items of the list.
* `PackOK`: the count of records, the current record and the buffer agree; the
  first record of each packet that goes out is read; and, where counts are not swapped, no packet
  exceeds the MTU by more than one record with one source (36 bytes), over any
  series of wishes. That it does exceed it is what `mtu` shows; without the IPv6 header in
  the fit test the excess would be larger, and the bound would break.
* `NothingUnwanted`, `GroupsNamed`, `SourcesExact`: the receiver of the reports
  subscribes to nothing nobody wants, also after overruns and from what is left in the
  buffer; if every packet was accepted and read to its end (`Readable`) it learns of every group, and is told "any
  source" where somebody wants this; and one packet within the MTU, when nobody wants any source,
  is read to its end and says exactly what is wanted. Their premises are where the code does
  worse: packets that are too large (the run `mtu`), and sources lost and counts of auxiliary
  words left by an earlier record (among the disagreements below). The model has all of these; without the premises TLC finds them.
* `UpstreamGenuine`: the interface that gets the reports for the upstream is one recognised as the
  upstream, and the latest one.
* `AddressesLearnt`, `UpstreamFollowed`: once the devices stop changing and the
  clock is no longer set back, every device with a link-local address is
  configured with its own address, and the upstream is the device that
  carries its name now, whatever happened before and whatever packets arrive meanwhile.

### Fairness

`Spec` assumes weak fairness of the loop's own steps (`Check`, `Timeout`,
`GroupRecord`): there is one process, it is scheduled, and nothing else disables
these steps. `Tick`: time passes. `Traffic`: while the program waits in
`recvfrom`, a packet of some kind arrives in the end. This last one is an
assumption about the network: `recvfrom` is restarted after `SIGALRM`
(`signal()` sets `SA_RESTART` in glibc) and has no timeout, so on a host on which no packet
is ever seen the timeout never runs. Packets the host itself sends are enough
(`ReceiveOwn`). No fairness is assumed for MLD messages, devices or `SIGUSR2`.

`IfSpec` assumes that time passes (`Tick`) and that the timeout runs when it is
due (`timeout`), which for the daemon is what the run `live` shows under the
assumptions above. Packets, failing sends and the kernel have no fairness; that the
devices settle is a premise of the two properties.

### Statements of the repository that do not hold

Each of these runs finds a counterexample to one statement, quoted in
`PROJECT.json`.

| Run | Statement | What happens |
|---|---|---|
| `stuckgroup` | "Timeout all the groups that didn't refresh yet" | expiry leaves count 0, removal needs -2: the group stays for ever |
| `linklocal` | "Ignore node and link local multicast addresses" | `isnew` of the record before it announces a link-local group |
| `querier` | "report all the groups we are subscribed for" | an MLDv1 querier is told the groups of its own link only |
| `forward` | "Forward it if we haven't done so for quite some time" | every report resets `lastforward`, so frequent reports suppress the forwarding |
| `mtu` | "we need to watch the MTU size [...] thus we split it when needed" | the fit test leaves out a record that has to be started behind another one: the last one is stored behind the buffer and the packet, larger than the MTU, is handed to `sendpacket6` (at an MTU of 1500 the 73rd record ends at 1516) |

`forward` needs to know when a report was really forwarded; `HubHistory`
records it in `forwarded`, which no action of `Hub` reads.

More disagreements are plain from the definitions of the models and have no run
of their own:

* `-2` "ignores MLDv1 reports completely" (`ecmh.c:2903`), but the guard is compiled
  under `ECMH_SUPPORT_MLDV2` (`ecmh.c:1480`), which nothing defines, so the report joins the group.
* `int_set_mld_version` never lowers a version, although its comment says it is
  stored "if it is lower than the old one" (`interfaces.c:399`).
* `mld_last_v1` is the time of the first MLDv1 message, not "The last v1 we have
  seen" (`interfaces.h:20`), so a link is upgraded while MLDv1 is still spoken.
* `sigusr2` sends an MLDv2 report under `-1`, although "only MLDv1 Queries and
  Reports will be sent" (`ecmh.c:2977`).
* The MLDv2 handler lists addresses that are not multicast, although the
  changelog (line 122) says these are filtered.
* A leave for an unknown group creates it and has it announced as wanted (`ecmh.c:1299`).
* "The source address must be the link-local address of the interface we are
  sending on" (`ecmh.c:1018`): an interface created by a packet has none, or
  another interface's (`Borrowed`), until the next full update.
* "Don't add sources twice" (`ecmh.c:1110`): the comparison looks behind the sources of
  the record and not at them. A source that is there is added twice (harmless to a receiver,
  which keeps a set); after a split that place holds what the packet before had there, and a
  source that is new is taken for a duplicate and in no packet.
* "Remove former sources" (`ecmh.c:1099`) resets their count and leaves the words. The next
  record starts on them, its `grec_auxwords` is never written, and a byte of an old
  address is sent as its count of auxiliary words; a receiver misses the records behind it. The same happens after a split.
* The place of the next record is computed after `htons` (`ecmh.c:1186-1189`): on a
  little-endian host a record behind one with a source is put 4 kilobytes too far, behind the buffer,
  and the packet is sent with that length. `WithinMtu` fails by this too; the
  counterexample of `mtu` is the shorter one, without sources.
* "Next grec, also skip the auxwords" (`ecmh.c:1751`) skips bytes where the field counts words.
* "CORRUPT->DROP" (`ecmh.c:2008`): a packet with a wrong ICMPv6 checksum is logged as
  dropped and then handled like any other; there is no return in that branch.
* `group_destroy` and `grpint_destroy` empty their lists and do not free the
  `struct list` itself, so each group leaks a few bytes; `LinkList` is about nodes and items only.
* A handler that interrupts the shutdown reads freed memory; nothing claims otherwise.

## 4. What is proved

Every invariant that a passing run checks is also a theorem, and so are the
action property of `Hub` and its refinement of the relay.

| Module | Theorems |
|---|---|
| `HubProofs` | `TypeCorrect`, `ListsAlwaysAgree`, `CountAlwaysExact`, `VersionAlwaysStamped`: `Safety => []` `TypeOK`, `ListsAgree`, `CountExact`, `VersionStamped`; `SubscriptionsSafe`: `Safety => LiveSubscriptionsKept` |
| `HubRelayProofs` | `RelayImplemented`: `Safety => ImplementsRelay` |
| `LinkListProofs` | `ListTypeCorrect`, `HandlersAlwaysSafe`, `ListAlwaysSound`, `CursorAlwaysValid`, `NeverFreedTwice`, `ShutdownFreesAll`: `LinkSpec => []` `TypeOK`, `HandlerSafe`, `ListSound`, `CursorValid`, `FreedOnce`, `AllFreed` |
| `Mld2ReportProofs` | `PackingAlwaysSound`, `ReportsNothingUnwanted`, `ReportsNameGroups`, `OnePacketExact`: `ReportSpec => []` `PackOK`, `NothingUnwanted`, `GroupsNamed`, `SourcesExact` |
| `InterfacesProofs` | `ArrayTypeCorrect`, `UpstreamAlwaysGenuine`: `IfSafety => []` `TypeOK`, `UpstreamGenuine` |

### Hub

For any sets of interfaces, addresses and reports, any positive interval and
robustness factor and any mode. The assumptions are the named `ASSUME`s of `Hub`: the two numbers are positive,
the source addresses are finitely many (so that lengths of lists are numbers),
the kinds of addresses do not overlap, `Any` is none of them, `Reports` consists
of sequences of records.

None of the invariants but the type invariant is inductive alone:
the count can only be shown exact if the lists have their type, the type of
`work` is needed for a record to name an interface, and `ListsAgree` rests on
the sweep removing groups by the same set of survivors as interfaces. The
inductive invariant `IInv` is their conjunction, regrouped by variable:
`LoopOK` (loop, `work`), `IntsOK` (each interface `Stamped`), `TablesOK` (each list
`Counted`, `ListsAgree`) and the type of `out`. Lemmas establish what each
operator keeps (`RefreshCounted`, `WithoutCounted`, `MarkCounted`,
`SetVersionStamped`, `SendOK`, `PutTables`, `SweepTables`, ...), and `ReceiveIInv`,
`GroupRecordIInv` and `NextIInv` put them together action by action. `SubscriptionsSafe`
then needs, for the timeout, that a list with a live subscription has a
positive count after the sweep, which is `CountExact` again: the mark cannot be on a list
that is not empty (`TimeoutKeeps`).

`RelayImplemented` goes through the actions from a state with `IInv`. Reports,
records and reductions are `Learn` steps of the relay or change nothing it sees
(`LearnStep`, `QuietStep`), a tick is its `Pass` (`PassStep`), forwarding its `Relay`
(`RelayStep`) and the timeout its `Forget` (`ForgetStep`). The timeout is
where the invariant is needed: the interfaces it drops have no
subscriptions, and what `Surviving` leaves out of a list is beyond its lifetime.

### LinkList

For any finite memory of nodes (`MemoryAssumption`), any items and any
robustness factor. The invariant `LInv` says that there is a chain of different nodes, and what the program
is doing with it: nothing (`Idle`), an addition, a deletion, the free, destroy and mark that
follow one, or the shutdown. In the middle of an operation each of its stores is
either still in `todo`, and its place is as it was before, or no
longer there, and its place is as it will be after (`AddState`, `DelState`). That
is inductive whatever the order of the stores, and when the last one is done it
is `Sound` for the longer or shorter chain (`AddDone`, `DelDone`). What
a handler meets follows from `WalkChain`: a walk along `next` from the head of a
chain visits exactly the chain, which is an induction over its length.

### Mld2Report

For any groups, sources and interfaces, any number of subscriptions, and any
sizes of the buffer that `MtuAssumption` and `SwapAssumption` allow (33 words and
more, which is less than the 1280 bytes of the code; on a little-endian host up
to 4171 bytes). The invariant `RInv` has three cases: nothing was packed yet (`Fresh`), a packet is
being filled (`Filling`), or a swapped count put the last record behind the buffer
(`Astray`), in which case the packet will be refused. While it is filled, the packet has a record at each of
some places, one behind the other and the last one at most one record with a source
behind the MTU (`Laid`); what these records tell and what the packets sent told is
wanted (`Holds`); every group walked over so far is named if what was sent is read (`Names`); while
`src` is set the last record is one of the current group with sources
(`Current`); and before the first split the buffer is clean behind the last
record (`Clean`) and no count of auxiliary words is stale (`NoAux`), so that nothing is taken for a duplicate. The receiver has no
places, only counts: `PlacesLaid` shows by induction that it finds the
same ones, and `PacketFacts` that its length checks accept all of them up to a stale count.
`FitsFacts` is what the fit test is worth: if it succeeds the last record ends within the
MTU, so one more record with a source is the excess `PackOK` bounds, and the next
wish is sent in a new packet. `NextFacts` is the byte swap: a next place is the end of the last
record or behind the buffer. `WithinMtu` itself is refuted by the run `mtu`.

### Interfaces

For any number of indexes, any names and kinds of addresses and any limits. The invariant
`IfInv` relates the two sides: in the kernel an index is not given out
twice and a name belongs to one device at a time (`KernOK`); in the hub
`upstream_id` is the index of the last device of that name it met, so slots marked
as the upstream are not above it, and a device that carries the name is not below it (`UpstreamOK`).

### Induction

The library's induction theorems take the predicate as an operator, which the
provers cannot instantiate. `SetInduction` states induction with a set instead
(`NatMin`, from the well-foundedness of `<`, and `UpTo`): the predicate becomes
the set of numbers that satisfy it. `WalkChain` and `PlacesLaid` use it, and the
recursive functions `At` and `Places` of the models are what they are about.

### Only model-checked

The liveness properties (`SubscriptionsExpire`, `LeaversRemoved`, `QueriesRepeat`,
`GoneDevicesNoticed`, `AddressesLearnt`, `UpstreamFollowed`): fairness and
`ENABLED` are outside what the provers handle. `AtomicToHandlers`: the list as a handler sees it is a
`SelectSeq` of the walk, about which the provers know nothing. The violations, which are single behaviours.

## 5. Not modelled

* The statistics dump, logging, option parsing, the pid file and the tables of
  names are I/O or text. `mtrace6` is a separate tool that shares no state with the daemon.
* The BPF build with its proto-41 tunnels and the list of local interfaces: another program than
  the default one, selected at compile time.
* The chain of extension headers: it decides whether a packet
  reaches a handler, which is a free choice of the environment in `Hub`. The checksum
  decides nothing: a mismatch is logged and the packet is handled.
* Renaming a device whose index is configured (see `Interfaces` in section 2).
* The memory of the interface array and of the C library (a handler inside `malloc` or `stdio`).
* A wall clock set back under the ages of subscriptions (`ecmh.c:2567`); it is modelled for the
  five-minute limit only.
* Lost and delayed messages between hosts and hub need no module of their own:
  the environment of `Hub` sends any message at any time, or none.

## 6. Plan

What is left is proof:

1. `AtomicToHandlers` of `LinkList`: each store changes the list a handler sees by
   at most the one step of `AtomicList`, from `LInv`, with `Visible` described
   by the chain and the node that is being added or removed.
2. What can be said of a little-endian host with an MTU above 4171 bytes, where
   `SwapAssumption` does not hold.
