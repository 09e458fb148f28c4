----------------------------- MODULE Interfaces ----------------------------
(***************************************************************************)
(* The interface array of ecmh and how it follows the kernel: devices are  *)
(* created, deleted, created again under the same name with a new index    *)
(* and readdressed, while the hub learns of this from the periodic         *)
(* update_interfaces(NULL), from packets that arrive on an index it does   *)
(* not know, and from sends that fail.  Updates are limited to one in five *)
(* minutes of a clock that can be set back.                                *)
(*                                                                         *)
(* Of the addresses the link-local one is kept, which every query and      *)
(* report is sent from; the global one is copied by the same statements    *)
(* and only matters here for whether an interface is kept.                 *)
(***************************************************************************)
EXTENDS Integers, FiniteSets

CONSTANTS
    MaxIndex,       \* bound: how many devices are ever created
    Names,          \* the names of the devices
    Configs,        \* the kinds of addresses a device can have at a time
    Upstream,       \* the name given with -i
    None,
    Period,         \* ECMH_SUBSCRIPTION_TIMEOUT, in ticks
    Limit,          \* five minutes, in ticks
    MaxBack         \* bound: how far the clock is set back

ASSUME IndexAssumption == MaxIndex \in Nat \ {0}

ASSUME TimeAssumption == Period \in Nat \ {0} /\ Limit \in Nat \ {0} /\ MaxBack \in Nat \ {0}

ASSUME NameAssumption == Upstream \in Names /\ None \notin Names

Index == 1 .. MaxIndex

\* The link-local addresses a device can have, one after the other.
LinkLocal(i) == {<<i, 0>>, <<i, 1>>}
Addresses == UNION {LinkLocal(i) : i \in Index}
Unset == <<0, 0>>

\* "link" and "global" are IPv6 addresses, "inet" is an IPv4 one.
ASSUME ConfigAssumption == Configs \subseteq SUBSET {"inet", "link", "global"}

VARIABLES
    born,         \* how many indexes the kernel has given out
    kern,         \* the kernel's devices: name, kinds of addresses, link-local
    ints,         \* g_conf->ints
    upstream_id,  \* g_conf->upstream_id, 0 before it is set
    since,        \* the time minus last_update, up to the limit
    alarm         \* ticks to the next timeout

ivars == <<born, kern, ints, upstream_id, since, alarm>>

Device == [name : Names \cup {None}, kinds : Configs \cup {{}}, linklocal : Addresses \cup {Unset}]

Absent == [name |-> None, kinds |-> {}, linklocal |-> Unset]

There(i) == kern[i].name # None
HasLink(i) == "link" \in kern[i].kinds

\* A cleared slot of the array; up is mtu # 0.
Slot == [up |-> FALSE, upstream |-> FALSE, linklocal |-> Unset]

TypeOK ==
    /\ born \in 0 .. MaxIndex
    /\ kern \in [Index -> Device]
    /\ \A i \in Index : There(i) => i <= born
    /\ \A i \in Index : kern[i].linklocal \in (IF HasLink(i) THEN LinkLocal(i) ELSE {Unset})
    /\ ints \in [Index -> [up : BOOLEAN, upstream : BOOLEAN, linklocal : Addresses \cup {Unset}]]
    /\ upstream_id \in 0 .. born
    /\ since \in -MaxBack .. Limit
    /\ alarm \in 0 .. Period

----------------------------------------------------------------------------
(* The kernel.                                                             *)

DeviceCreated(n, kinds) ==
    /\ born < MaxIndex /\ \A i \in Index : kern[i].name # n
    /\ "link" \notin kinds
    /\ born' = born + 1
    /\ kern' = [kern EXCEPT ![born + 1] = [name |-> n, kinds |-> kinds, linklocal |-> Unset]]
    /\ UNCHANGED <<ints, upstream_id, since, alarm>>

DeviceDeleted(i) ==
    /\ There(i)
    /\ kern' = [kern EXCEPT ![i] = Absent]
    /\ UNCHANGED <<born, ints, upstream_id, since, alarm>>

\* The addresses of a device change: it gets a link-local address (a while
\* after it was created), another one, or loses it.
DeviceReaddressed(i, kinds) ==
    /\ There(i)
    /\ \E a \in (IF "link" \in kinds THEN LinkLocal(i) ELSE {Unset}) :
          kern' = [kern EXCEPT ![i].kinds = kinds, ![i].linklocal = a]
    /\ UNCHANGED <<born, ints, upstream_id, since, alarm>>

----------------------------------------------------------------------------
(* The interface array.                                                    *)

\* The slot is cleared, then filled if the device exists; the upstream is
\* recognised by its name.
int_create(i) == [Slot EXCEPT !.up = There(i), !.upstream = There(i) /\ kern[i].name = Upstream]

int_destroy(intn) == [intn EXCEPT !.up = FALSE]

\* The slot of every new upstream takes the place of the old one.
NewUpstream_first(created) ==
    IF upstream_id # 0 \/ ~\E i \in created : kern[i].name = Upstream
    THEN upstream_id ELSE CHOOSE i \in created : kern[i].name = Upstream
NewUpstream_size(created) ==
    IF \E i \in created : kern[i].name = Upstream
    THEN 1 + CHOOSE i \in created : kern[i].name = Upstream ELSE upstream_id
NewUpstream(created) ==
    IF \E i \in created : kern[i].name = Upstream
    THEN CHOOSE i \in created : kern[i].name = Upstream ELSE upstream_id

\* A full update walks the addresses of all devices that are up.  A device
\* that is not configured is created at its first address, destroyed again
\* when that is an IPv4 one, and created again at the next.
Found == {i \in Index : There(i) /\ kern[i].kinds # {}}
Kept_ipv6only == {i \in Found : "inet" \notin kern[i].kinds}
Kept  == {i \in Found : kern[i].kinds # {"inet"}}

\* The slots after a full update.
Updated_oncelearnt ==
    [i \in Index |->
        LET intn == IF i \in Found /\ ~ints[i].up THEN int_create(i) ELSE ints[i]
        IN IF i \in Found \ Kept /\ ~ints[i].up THEN int_destroy(intn)
           ELSE IF i \in Found /\ HasLink(i) /\ intn.linklocal = Unset
                THEN [intn EXCEPT !.linklocal = kern[i].linklocal]
                ELSE intn]
Updated ==
    [i \in Index |->
        LET intn == IF i \in Found /\ ~ints[i].up THEN int_create(i) ELSE ints[i]
        IN IF i \in Found \ Kept /\ ~ints[i].up THEN int_destroy(intn)
           ELSE IF i \in Found /\ HasLink(i)
                THEN [intn EXCEPT !.linklocal = kern[i].linklocal]
                ELSE intn]

\* An update for one interface passes over the addresses of that interface
\* and takes those of the others; the last one before it has both kinds
\* stays.
Borrowed(i) ==
    LET others == {kern[j].linklocal : j \in {k \in Found \ {i} : HasLink(k)}}
    IN IF others = {} THEN {Unset} ELSE others

\* Only one update in five minutes of the clock; the difference is what
\* last_update + 5*60 > t compares.
MayUpdate == since >= Limit

\* send_mld_querys: a query on the interface of a device that is gone
\* destroys it; upstreams are not queried.
Queried(I) == [i \in Index |-> IF I[i].up /\ ~I[i].upstream /\ ~There(i) THEN int_destroy(I[i]) ELSE I[i]]

\* The periodic timeout.
timeout ==
    /\ alarm = 0 /\ alarm' = Period
    /\ IF MayUpdate
       THEN /\ ints' = Queried(Updated)
            /\ upstream_id' = NewUpstream({i \in Found : ~ints[i].up})
            /\ since' = 0
       ELSE /\ ints' = Queried(ints)
            /\ UNCHANGED <<upstream_id, since>>
    /\ UNCHANGED <<born, kern>>

\* A packet arrives on an index that is not configured: the interface is
\* created and an update made for it alone.  Packets of a device that was
\* deleted meanwhile can still be queued.
handleinterfaces(i) ==
    /\ i <= born /\ ~ints[i].up
    /\ IF There(i) /\ MayUpdate
       THEN /\ \E a \in Borrowed(i) : ints' = [ints EXCEPT ![i] = [int_create(i) EXCEPT !.linklocal = a]]
            /\ since' = 0
       ELSE /\ ints' = [ints EXCEPT ![i] = int_create(i)]
            /\ UNCHANGED since
    /\ upstream_id' = NewUpstream({i})
    /\ UNCHANGED <<born, kern, alarm>>

\* A report, an answer or a forwarded packet is sent on an interface whose
\* device is gone.
sendpacket6(i) ==
    /\ ints[i].up /\ ~There(i)
    /\ ints' = [ints EXCEPT ![i] = int_destroy(@)]
    /\ UNCHANGED <<born, kern, upstream_id, since, alarm>>

----------------------------------------------------------------------------
(* Time.                                                                   *)

Tick ==
    /\ alarm' = IF alarm > 0 THEN alarm - 1 ELSE 0
    /\ since' = IF since < Limit THEN since + 1 ELSE Limit
    /\ UNCHANGED <<born, kern, ints, upstream_id>>

\* The clock is set back to before the last update.
ClockSetBack ==
    /\ since' \in -MaxBack .. -1
    /\ UNCHANGED <<born, kern, ints, upstream_id, alarm>>

\* The program starts with some devices and makes a first full update.
IfInit ==
    /\ born \in {0, 1}
    /\ \E n \in Names, kinds \in Configs :
          /\ "link" \in kinds
          /\ kern = [i \in Index |-> IF i <= born THEN [name |-> n, kinds |-> kinds, linklocal |-> <<1, 0>>]
                                                ELSE Absent]
    /\ ints = [i \in Index |-> [int_create(i) EXCEPT !.linklocal = kern[i].linklocal]]
    /\ upstream_id = (IF kern[1].name = Upstream THEN 1 ELSE 0)
    /\ since = 0 /\ alarm = Period

\* A device keeps its name while its index is configured.  This is assumed: the
\* name is read once, by int_create, and an interface that is already there is
\* never compared with the device again, so the hub would not notice that
\* another device was renamed to the upstream's name, or the upstream away.
Kernel ==
    \/ \E n \in Names, kinds \in Configs : DeviceCreated(n, kinds)
    \/ \E i \in Index : DeviceDeleted(i)
    \/ \E i \in Index, kinds \in Configs : DeviceReaddressed(i, kinds)

IfNext ==
    \/ Kernel
    \/ timeout
    \/ \E i \in Index : handleinterfaces(i) \/ sendpacket6(i)
    \/ Tick
    \/ ClockSetBack

IfSafety == IfInit /\ [][IfNext]_ivars

\* Time passes and the timeout is run when it is due; that the main loop
\* gets there is a matter of Hub.
IfSpec == IfSafety /\ WF_ivars(Tick) /\ WF_ivars(timeout)

----------------------------------------------------------------------------
(* Properties.                                                             *)

\* The upstream that reports are sent to (int_find of upstream_id) is an
\* interface that was recognised as the upstream, and the latest one: not
\* the slot of a device of that name that was replaced.
UpstreamGenuine ==
    /\ upstream_id # 0 /\ ints[upstream_id].up => ints[upstream_id].upstream
    /\ \A i \in Index : ints[i].up /\ ints[i].upstream => i <= upstream_id

Settled == <>[][kern' = kern /\ (since' < since => since' = 0)]_ivars

\* However the devices came and went, were readdressed or replaced, whichever
\* packets used up the one update in five minutes, and however often the
\* clock was set back: once this stops, every device with a link-local
\* address is configured and its interface has the device's own address.
AddressesLearnt ==
    Settled => <>[](\A i \in Index : There(i) /\ HasLink(i) =>
                        ints[i].up /\ ints[i].linklocal = kern[i].linklocal)

\* The reports for the upstream go to the device that carries its name now,
\* also after it was deleted and created again with another index.
UpstreamFollowed ==
    Settled => <>[](\A i \in Index : kern[i].name = Upstream /\ HasLink(i) =>
                        upstream_id = i /\ ints[i].up)
=============================================================================
