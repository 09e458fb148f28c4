-------------------------------- MODULE Hub --------------------------------
(***************************************************************************)
(* The core of ecmh: the tables it keeps (interfaces, groups, the          *)
(* interfaces of a group, the subscriptions of such an interface), the     *)
(* handlers of the MLD messages that change them, the forwarding of        *)
(* multicast packets, the periodic timeout and the main loop that calls    *)
(* these, in a world whose links send any packet at any time and whose     *)
(* devices may disappear and come back.                                    *)
(*                                                                         *)
(* Time.  The code only compares differences of timestamps with the two    *)
(* limits below, so a timestamp is kept as its age in ticks, saturating    *)
(* just above the largest limit.                                           *)
(*                                                                         *)
(* A definition whose name ends in an underscore and a word, placed before *)
(* the one it is named after, is a slip of that code that a property is    *)
(* shown to notice; the specification does not use it.                     *)
(***************************************************************************)
EXTENDS Integers, FiniteSets, Sequences

CONSTANTS
    Ifs,                  \* interface indexes
    Volatile,             \* the interfaces whose device can disappear
    Null,                 \* no interface
    Upstream,             \* the interface named with -i, or Null
    Routable,             \* multicast addresses wider than link-local
    Local,                \* node-local and link-local multicast addresses
    Unicast,              \* addresses that are not multicast
    Sources,              \* source addresses of streams
    Any,                  \* the unspecified address ::
    SubscriptionTimeout,  \* ECMH_SUBSCRIPTION_TIMEOUT, in ticks
    RobustnessFactor,     \* ECMH_ROBUSTNESS_FACTOR
    Mode,                 \* "both", or the option -1 or -2
    Reports               \* the MLDv2 reports the links can send

Mca    == Routable \cup Local \cup Unicast
Listed == Routable \cup Unicast
Addr   == Sources \cup {Any}

\* MODE_IS_EXCLUDE, CHANGE_TO_EXCLUDE and BLOCK_OLD_SOURCES are told apart
\* from the other record types; "UNKNOWN" is any value outside the six.
Excluding == {"IS_EX", "TO_EX", "BLOCK"}
GrecType  == Excluding \cup {"IS_IN", "TO_IN", "ALLOW", "UNKNOWN"}

\* A group record; fits is FALSE when its source list overruns the packet.
Grec == [type : GrecType, mca : Mca, srcs : SUBSET Addr, fits : BOOLEAN]

ASSUME TimerAssumption ==
    /\ SubscriptionTimeout \in Nat \ {0}
    /\ RobustnessFactor \in Nat \ {0}

ASSUME InterfaceAssumption ==
    /\ Volatile \subseteq Ifs
    /\ Null \notin Ifs
    /\ Upstream \in Ifs \cup {Null}

ASSUME AddressAssumption ==
    /\ IsFiniteSet(Sources)
    /\ Any \notin Sources \cup Mca
    /\ Routable \cap Local = {}
    /\ Unicast \cap (Routable \cup Local) = {}

ASSUME ModeAssumption == Mode \in {"both", "mld1only", "mld2only"}

ASSUME ReportsAssumption == Reports \subseteq Seq(Grec)

\* A subscription older than this is dropped by the timeout.
Lifetime == SubscriptionTimeout * RobustnessFactor
AgeCap   == Lifetime + 1
Age      == 0 .. AgeCap
Unset    == -1
Older(a) == IF a < AgeCap THEN a + 1 ELSE AgeCap

----------------------------------------------------------------------------
VARIABLES
    pc,               \* where the main loop is
    g_needs_timeout,  \* set by timeout_signal, read at the top of the loop
    alarm,            \* ticks to the next SIGALRM, 0 when none is pending
    dev,              \* the devices the kernel has
    ints,             \* g_conf->ints
    group,            \* g_conf->groups: address -> age of lastforward
    grpint,           \* <<address, ifindex>> -> interface of a group
    work,             \* the MLDv2 report being handled
    out               \* the packets the last step handed to the kernel

vars == <<pc, g_needs_timeout, alarm, dev, ints, group, grpint, work, out>>

Intnode == [up : BOOLEAN, mld_version : 0 .. 2, mld_last_v1 : Age \cup {Unset}]

Subscrnode == [mode : {"INCLUDE", "EXCLUDE"}, refreshtime : Age]

Grpintnode == [count : Int,
               subscriptions : UNION {[A -> Subscrnode] : A \in SUBSET Addr}]

Work == [ifindex : Ifs \cup {Null}, recs : Seq(Grec), isnew : BOOLEAN]

Packet == [kind : {"report1", "report2", "query", "data", "error"},
           ifindex : Ifs, mca : Mca \cup {Any}]

\* The tables, the queue position and the packets have the shape the code
\* gives them; the tables only hold addresses the handlers may list.
TypeOK ==
    /\ pc \in {"check", "recv", "grec"}
    /\ g_needs_timeout \in BOOLEAN
    /\ alarm \in 0 .. SubscriptionTimeout
    /\ dev \in SUBSET Ifs
    /\ ints \in [Ifs -> Intnode]
    /\ DOMAIN group \in SUBSET Listed
    /\ group \in [DOMAIN group -> Age]
    /\ DOMAIN grpint \in SUBSET (Listed \X Ifs)
    /\ grpint \in [DOMAIN grpint -> Grpintnode]
    /\ work \in Work
    /\ pc = "grec" <=> work.recs # <<>>
    /\ pc = "grec" => work.ifindex \in Ifs
    /\ out \in SUBSET Packet

----------------------------------------------------------------------------
(* Interfaces.                                                             *)

\* int_create clears the slot and int_destroy clears the mtu in it: up is
\* mtu # 0.
int_create == [up |-> TRUE, mld_version |-> 0, mld_last_v1 |-> Unset]
int_destroy_noop(intn) == intn
int_destroy(intn) == [intn EXCEPT !.up = FALSE]

\* The receive path finds the interface of a packet or creates it, which
\* fails for a device that is gone.
Reachable(i) == ints[i].up \/ i \in dev
FindOrCreate(i) == IF ints[i].up THEN ints[i] ELSE int_create

\* The modes keep the version they do not speak out of the interfaces.
Barred_unguarded(newversion) == FALSE
Barred(newversion) == Mode = (IF newversion = 1 THEN "mld2only" ELSE "mld1only")

ForgetV1_halfway(intn) == [intn EXCEPT !.mld_version = 0]
ForgetV1(intn) == [intn EXCEPT !.mld_version = 0, !.mld_last_v1 = Unset]

\* MLDv1 is only noted on an interface without a version; a later version
\* first forgets an MLDv1 that was noted long ago.
int_set_mld_version(intn, newversion) ==
    LET stale == newversion # 1 /\ intn.mld_last_v1 > SubscriptionTimeout
        base  == IF stale THEN ForgetV1(intn) ELSE intn
    IN IF base.mld_version # 0 \/ Barred(newversion)
       THEN base
       ELSE [base EXCEPT !.mld_version = newversion,
                         !.mld_last_v1 = IF newversion = 1 THEN 0 ELSE @]

\* The interfaces once a packet from i has been received, and once it
\* turned out to be MLD of version v.
Received(i)     == [ints EXCEPT ![i] = FindOrCreate(i)]
Versioned(i, v) == [ints EXCEPT ![i] = int_set_mld_version(FindOrCreate(i), v)]

\* The kernel takes the packets of existing devices; the interface of a
\* device that is gone (ENXIO) is destroyed.
sendpacket6(I, msgs) ==
    /\ out' = {p \in msgs : p.ifindex \in dev}
    /\ ints' = [j \in Ifs |-> IF j \notin dev /\ \E p \in msgs : p.ifindex = j
                             THEN int_destroy(I[j]) ELSE I[j]]

----------------------------------------------------------------------------
(* Reports and queries ecmh sends.  gi stands for the grpint table.        *)

msg(kind, j, m) == [kind |-> kind, ifindex |-> j, mca |-> m]

mld1_send_report(j, m) == {msg("report1", j, m)}

icmp6_send(j) == {msg("error", j, Any)}

\* mld2_send_report walks the subscriptions of the other interfaces and
\* skips the excluding ones: these are the groups it puts in records.
Wanted(gi, m, j) ==
    \E k \in Ifs \ {j} :
        /\ <<m, k>> \in DOMAIN gi
        /\ \E a \in DOMAIN gi[<<m, k>>].subscriptions :
              gi[<<m, k>>].subscriptions[a].mode # "EXCLUDE"

mld2_send_report(gi, j, M) == {msg("report2", j, m) : m \in {x \in M : Wanted(gi, x, j)}}

mld_send_report(I, gi, j, m) ==
    LET v1 == /\ Mode # "mld2only"
              /\ \/ Mode = "mld1only"
                 \/ I[j].mld_version = 0 /\ j # Upstream
                 \/ I[j].mld_version = 1
        v2 == /\ Mode # "mld1only"
              /\ Mode = "mld2only" \/ I[j].mld_version \in {0, 2}
    IN (IF v1 THEN mld1_send_report(j, m) ELSE {})
         \cup (IF v2 THEN mld2_send_report(gi, j, {m}) ELSE {})

mld_send_report_all(I, gi, i, m) ==
    UNION {mld_send_report(I, gi, j, m) : j \in {k \in Ifs : I[k].up /\ k # i}}

mld_send_query(j, m) == IF j = Upstream THEN {} ELSE {msg("query", j, m)}

send_mld_querys_unversioned(I) ==
    UNION {mld_send_query(j, Any) : j \in {k \in Ifs : I[k].up /\ I[k].mld_version = 0}}
send_mld_querys(I) == UNION {mld_send_query(j, Any) : j \in {k \in Ifs : I[k].up}}

----------------------------------------------------------------------------
(* The tables of groups.                                                   *)

Put(f, k, v) == [x \in DOMAIN f \cup {k} |-> IF x = k THEN v ELSE f[x]]

NoSubscriptions == [a \in {} |-> 0]

\* groupint_get: the group is new when it is not listed or was forwarded
\* long ago; the time is stored on every call.
IsNew(m) == m \in DOMAIN group => group[m] >= SubscriptionTimeout

grpint_get(m, i) == IF <<m, i>> \in DOMAIN grpint
                    THEN grpint[<<m, i>>]
                    ELSE [count |-> 0, subscriptions |-> NoSubscriptions]

\* n more nodes: a negative count is lifted to zero first.
listnode_add_unlifted(count, n) == count + n
listnode_add(count, n) ==
    IF n = 0 THEN count ELSE (IF count < 0 THEN 0 ELSE count) + n

\* grpint_refresh for every address of srcs.  Excluding everything
\* refreshes nothing.
grpint_refresh(gi, srcs, mode) ==
    LET kept == IF mode = "EXCLUDE" THEN srcs \ {Any} ELSE srcs
        subs == gi.subscriptions
    IN [count |-> listnode_add(gi.count, Cardinality(kept \ DOMAIN subs)),
        subscriptions |-> [a \in kept \cup DOMAIN subs |->
                             IF a \in kept THEN [mode |-> mode, refreshtime |-> 0]
                                           ELSE subs[a]]]

\* The list without the addresses A, each of which it holds.
Without(gi, A) ==
    [count |-> gi.count - Cardinality(A),
     subscriptions |-> [a \in DOMAIN gi.subscriptions \ A |-> gi.subscriptions[a]]]

groupint_get(m, i, gi) ==
    /\ group' = Put(group, m, 0)
    /\ grpint' = Put(grpint, <<m, i>>, gi)

----------------------------------------------------------------------------
(* The handlers.  Each runs to its end before the loop goes on, except the *)
(* MLDv2 report, which is handled one group record at a time.              *)

loopvars == <<g_needs_timeout, alarm, dev>>

Handled == pc = "recv" /\ pc' = "check" /\ UNCHANGED <<loopvars, work>>

\* An MLDv1 report for a group that is listed.
l4_ipv6_icmpv6_mld1_report_unfiltered(i, m) ==
    /\ Handled /\ Reachable(i)
    /\ groupint_get(m, i, grpint_refresh(grpint_get(m, i), {Any}, "INCLUDE"))
    /\ sendpacket6(Versioned(i, 1), {})
l4_ipv6_icmpv6_mld1_report(i, m) ==
    /\ Handled /\ Reachable(i) /\ m \in Routable
    /\ groupint_get(m, i, grpint_refresh(grpint_get(m, i), {Any}, "INCLUDE"))
    /\ sendpacket6(Versioned(i, 1),
                   IF IsNew(m) THEN mld_send_report_all(Versioned(i, 1), grpint', i, m) ELSE {})

\* An MLDv1 reduction that ends the any-source subscription of i.  When it
\* was the last one, the count is set so that the next timeout removes the
\* interface from the group, unless somebody answers the query.
l4_ipv6_icmpv6_mld1_reduction(i, m) ==
    /\ Handled /\ Reachable(i) /\ <<m, i>> \in DOMAIN grpint /\ m \in Routable
    /\ Any \in DOMAIN grpint[<<m, i>>].subscriptions
    /\ LET gi   == Without(grpint[<<m, i>>], {Any})
           last == gi.count <= 0
       IN /\ grpint' = Put(grpint, <<m, i>>,
                           IF last THEN [gi EXCEPT !.count = -RobustnessFactor] ELSE gi)
          /\ sendpacket6(Versioned(i, 1), IF last THEN mld_send_query(i, m) ELSE {})
    /\ UNCHANGED group

\* An MLDv1 report for an address the handler does not list, or a reduction
\* that ends nothing: only the version is noted.
mld1_ignored(i) ==
    /\ Handled /\ Reachable(i)
    /\ ints' = Versioned(i, 1) /\ out' = {}
    /\ UNCHANGED <<group, grpint>>

\* An MLDv2 report arrives; without a record (or with more of them than the
\* packet can hold) only the version is noted.
l4_ipv6_icmpv6_mld2_report(i, recs) ==
    /\ pc = "recv" /\ Reachable(i)
    /\ ints' = Versioned(i, 2) /\ out' = {}
    /\ IF recs = <<>>
       THEN pc' = "check" /\ UNCHANGED work
       ELSE pc' = "grec" /\ work' = [ifindex |-> i, recs |-> recs, isnew |-> FALSE]
    /\ UNCHANGED <<loopvars, group, grpint>>

Idle == [ifindex |-> Null, recs |-> <<>>, isnew |-> FALSE]

NextGrec(isnew) ==
    IF Tail(work.recs) = <<>>
    THEN pc' = "check" /\ work' = Idle
    ELSE pc' = "grec" /\ work' = [work EXCEPT !.recs = Tail(@), !.isnew = isnew]

AbandonReport == pc' = "check" /\ work' = Idle

\* Zero sources: excluding nobody is a subscription to everything, anything
\* else is an unsubscription.
GrecRefresh(gi, r) ==
    LET excl == r.type \in Excluding
    IN IF r.srcs = {}
       THEN grpint_refresh(gi, {Any}, IF excl THEN "INCLUDE" ELSE "EXCLUDE")
       ELSE grpint_refresh(gi, r.srcs, IF excl THEN "EXCLUDE" ELSE "INCLUDE")

\* A record for a group that is listed.
GrecApplied ==
    LET i == work.ifindex
        r == Head(work.recs)
    IN /\ pc = "grec" /\ r.type # "UNKNOWN" /\ r.mca \in Listed
       /\ r.srcs = {} \/ r.fits
       /\ groupint_get(r.mca, i, GrecRefresh(grpint_get(r.mca, i), r))
       /\ sendpacket6(ints, IF IsNew(r.mca) THEN mld_send_report_all(ints, grpint', i, r.mca) ELSE {})
       /\ NextGrec(IsNew(r.mca))
       /\ UNCHANGED loopvars

\* A record for a node-local or link-local group is not applied, but isnew
\* still has the value the previous record gave it.
GrecLocal ==
    LET i == work.ifindex
        r == Head(work.recs)
    IN /\ pc = "grec" /\ r.type # "UNKNOWN" /\ r.mca \in Local
       /\ r.srcs = {} \/ r.fits
       /\ sendpacket6(ints, IF work.isnew THEN mld_send_report_all(ints, grpint, i, r.mca) ELSE {})
       /\ NextGrec(work.isnew)
       /\ UNCHANGED <<loopvars, group, grpint>>

\* A source list that overruns the packet ends the report, but the group and
\* its interface have been created by then.
GrecOverrun ==
    LET i == work.ifindex
        r == Head(work.recs)
    IN /\ pc = "grec" /\ r.type # "UNKNOWN" /\ r.srcs # {} /\ ~r.fits
       /\ IF r.mca \in Listed
          THEN groupint_get(r.mca, i, grpint_get(r.mca, i))
          ELSE UNCHANGED <<group, grpint>>
       /\ out' = {} /\ AbandonReport
       /\ UNCHANGED <<loopvars, ints>>

\* An unknown record type ends the report, and so does a record that starts
\* outside the packet, which is counted as one of unknown type.
GrecUnknown ==
    /\ pc = "grec" /\ Head(work.recs).type = "UNKNOWN"
    /\ out' = {} /\ AbandonReport
    /\ UNCHANGED <<loopvars, ints, group, grpint>>

GroupRecord == GrecApplied \/ GrecLocal \/ GrecOverrun \/ GrecUnknown

\* A query of version v: MLDv1 is answered group by group, MLDv2 with
\* everything the other interfaces want.
l4_ipv6_icmpv6_mld_query(i, v) ==
    /\ Handled /\ Reachable(i)
    /\ LET I == Versioned(i, v)
       IN sendpacket6(I,
            CASE Mode # "mld2only" /\ (Mode = "mld1only" \/ I[i].mld_version < 2) ->
                   UNION {mld_send_report(I, grpint, i, m) :
                            m \in {x \in DOMAIN group : <<x, i>> \in DOMAIN grpint}}
              [] Mode # "mld1only" /\ (Mode = "mld2only" \/ I[i].mld_version = 2) ->
                   mld2_send_report(grpint, i, DOMAIN group)
              [] OTHER -> {})
    /\ UNCHANGED <<group, grpint>>

\* A packet from source s to group m goes to the other interfaces with an
\* including subscription for anybody or for s.
Subscribed_anymode(m, j, s) ==
    <<m, j>> \in DOMAIN grpint /\ {Any, s} \cap DOMAIN grpint[<<m, j>>].subscriptions # {}
Subscribed(m, j, s) ==
    /\ <<m, j>> \in DOMAIN grpint
    /\ LET subs == grpint[<<m, j>>].subscriptions
       IN \E a \in {Any, s} \cap DOMAIN subs : subs[a].mode = "INCLUDE"

l4_ipv6_multicast_down(i, s, m) ==
    /\ Handled /\ Reachable(i)
    /\ sendpacket6(Received(i), {msg("data", j, m) : j \in {k \in Ifs \ {i} : Subscribed(m, k, s)}})
    /\ UNCHANGED <<group, grpint>>
l4_ipv6_multicast(i, s, m) ==
    /\ Handled /\ Reachable(i)
    /\ sendpacket6(Received(i),
                   {msg("data", j, m) : j \in {k \in Ifs \ {i} :
                                                 m \in DOMAIN group /\ Subscribed(m, k, s) /\ ints[k].up}})
    /\ UNCHANGED <<group, grpint>>

\* An echo request whose hop limit runs out is answered with an error.
HopLimitExceeded(i) ==
    /\ Handled /\ Reachable(i)
    /\ sendpacket6(Received(i), icmp6_send(i))
    /\ UNCHANGED <<group, grpint>>

\* Any other packet changes nothing but can create the interface it came
\* from, which leaves a cleared slot when the device is gone; packets of this
\* host and of the loopback do not even do that.
ReceiveOther(i) ==
    /\ Handled
    /\ ints' = (IF Reachable(i) THEN Received(i)
                                ELSE [ints EXCEPT ![i] = int_destroy(int_create)])
    /\ out' = {}
    /\ UNCHANGED <<group, grpint>>

ReceiveOwn ==
    /\ Handled /\ out' = {}
    /\ UNCHANGED <<ints, group, grpint>>

\* SIGUSR2 reports everything to the upstream, between any two steps.
sigusr2 ==
    /\ Upstream # Null
    /\ sendpacket6(ints, IF ints[Upstream].up THEN mld2_send_report(grpint, Upstream, DOMAIN group) ELSE {})
    /\ UNCHANGED <<pc, loopvars, group, grpint, work>>

----------------------------------------------------------------------------
(* The main loop, its timer and the world around it.                       *)

\* The top of the loop without a pending timeout: on to recvfrom.
Check ==
    /\ pc = "check" /\ ~g_needs_timeout
    /\ pc' = "recv" /\ out' = {}
    /\ UNCHANGED <<loopvars, ints, group, grpint, work>>

Expired_early(gi) == {a \in DOMAIN gi.subscriptions : gi.subscriptions[a].refreshtime >= Lifetime}
Expired(gi) == {a \in DOMAIN gi.subscriptions : gi.subscriptions[a].refreshtime > Lifetime}

Sweep(gi) == Without(gi, Expired(gi))

\* The interfaces of groups that outlive the timeout.
Surviving_marked == {p \in DOMAIN grpint : Sweep(grpint[p]).count >= -RobustnessFactor}
Surviving_up == {p \in DOMAIN grpint : ints[p[2]].up /\ Sweep(grpint[p]).count > -RobustnessFactor}
Surviving == {p \in DOMAIN grpint : Sweep(grpint[p]).count > -RobustnessFactor}

\* The groups that still have an interface then.
KeptGroups_all == DOMAIN group
KeptGroups == {m \in DOMAIN group : \E i \in Ifs : <<m, i>> \in Surviving}

\* main takes the flag back and arms the next alarm.
ResetAlarm_once == g_needs_timeout' = FALSE /\ alarm' = 0
ResetAlarm == g_needs_timeout' = FALSE /\ alarm' = SubscriptionTimeout

\* The devices found that are not configured yet are created; which ones
\* have an address to be found by, and whether the last update was five
\* minutes ago, is left open.
update_interfaces(found) == [i \in Ifs |-> IF i \in found THEN int_create ELSE ints[i]]

timeout(found) ==
    /\ pc = "check" /\ g_needs_timeout
    /\ found \subseteq {i \in dev : ~ints[i].up}
    /\ grpint' = [p \in Surviving |-> Sweep(grpint[p])]
    /\ group' = [m \in KeptGroups |-> group[m]]
    /\ sendpacket6(update_interfaces(found), send_mld_querys(update_interfaces(found)))
    /\ ResetAlarm /\ pc' = "recv"
    /\ UNCHANGED <<dev, work>>

Aged(gi) ==
    LET subs == gi.subscriptions
    IN [count |-> gi.count,
        subscriptions |-> [a \in DOMAIN subs |->
                             [mode |-> subs[a].mode, refreshtime |-> Older(subs[a].refreshtime)]]]

\* One tick of the clock.  The tick that ends the alarm runs timeout_signal;
\* a blocked recvfrom is restarted by the kernel and goes on waiting.
Tick ==
    /\ alarm' = (IF alarm > 0 THEN alarm - 1 ELSE 0)
    /\ g_needs_timeout' = (g_needs_timeout \/ alarm = 1)
    /\ ints' = [i \in Ifs |-> [ints[i] EXCEPT !.mld_last_v1 = IF @ = Unset THEN Unset ELSE Older(@)]]
    /\ group' = [m \in DOMAIN group |-> Older(group[m])]
    /\ grpint' = [p \in DOMAIN grpint |-> Aged(grpint[p])]
    /\ out' = {}
    /\ UNCHANGED <<pc, dev, work>>

DeviceGone(i) ==
    /\ i \in Volatile \cap dev
    /\ dev' = dev \ {i} /\ out' = {}
    /\ UNCHANGED <<pc, g_needs_timeout, alarm, ints, group, grpint, work>>

DeviceBack(i) ==
    /\ i \in Volatile \ dev
    /\ dev' = dev \cup {i} /\ out' = {}
    /\ UNCHANGED <<pc, g_needs_timeout, alarm, ints, group, grpint, work>>

\* main has armed the alarm, found the devices that exist and queried them.
Init ==
    /\ pc = "check" /\ g_needs_timeout = FALSE
    /\ alarm = SubscriptionTimeout
    /\ dev \in {d \in SUBSET Ifs : Ifs \ Volatile \subseteq d}
    /\ ints = [i \in Ifs |-> IF i \in dev THEN int_create ELSE int_destroy(int_create)]
    /\ group = [m \in {} |-> 0]
    /\ grpint = [p \in {} |-> 0]
    /\ work = Idle
    /\ out = send_mld_querys(ints)

Receive(i) ==
    \/ \E m \in Mca : l4_ipv6_icmpv6_mld1_report(i, m)
    \/ \E m \in Mca : l4_ipv6_icmpv6_mld1_reduction(i, m)
    \/ mld1_ignored(i)
    \/ \E recs \in Reports : l4_ipv6_icmpv6_mld2_report(i, recs)
    \/ \E v \in {1, 2} : l4_ipv6_icmpv6_mld_query(i, v)
    \/ \E s \in Sources, m \in Routable : l4_ipv6_multicast(i, s, m)
    \/ HopLimitExceeded(i)
    \/ ReceiveOther(i)

Traffic == ReceiveOwn \/ \E i \in Ifs : Receive(i)

Timeout == \E found \in SUBSET Ifs : timeout(found)

\* A step of the program, or of the devices, in which no time passes.
Step ==
    \/ Check
    \/ Timeout
    \/ Traffic
    \/ GroupRecord
    \/ sigusr2
    \/ \E i \in Ifs : DeviceGone(i) \/ DeviceBack(i)

Next == Step \/ Tick

\* The process gets the processor, time passes, and packets keep coming.
Fairness ==
    /\ WF_vars(Check)
    /\ WF_vars(Timeout)
    /\ WF_vars(GroupRecord)
    /\ WF_vars(Traffic)
    /\ WF_vars(Tick)

Safety == Init /\ [][Next]_vars
Spec == Safety /\ Fairness
----------------------------------------------------------------------------
(* Properties.                                                             *)

\* The two levels of lists agree: an interface is only kept under a group
\* that is listed (groupint_get creates the group first, the timeout and
\* group_destroy drop the interfaces with it), and no group stays listed
\* without an interface, as the timeout deletes a group whose list is empty.
ListsAgree ==
    /\ \A p \in DOMAIN grpint : p[1] \in DOMAIN group
    /\ \A m \in DOMAIN group : \E i \in Ifs : <<m, i>> \in DOMAIN grpint

\* subscriptions->count is both the length of the list and, negative, the
\* mark "left, remove at the next timeout": the mark is only ever on an empty
\* list, and a report that arrives after a reduction takes it away again
\* (listnode_add), so the timeout never destroys an interface that somebody
\* rejoined.
CountExact ==
    \A p \in DOMAIN grpint :
        LET gi == grpint[p]
        IN \/ gi.count = Cardinality(DOMAIN gi.subscriptions)
           \/ gi.count = -RobustnessFactor /\ DOMAIN gi.subscriptions = {}

\* An interface is in MLDv1 mode exactly while the time of the MLDv1 message
\* that put it there is stored (int_set_mld_version writes and clears the
\* two together over any mix of versions, timeouts and device losses), and a
\* hub started with -1 or -2 never enters the other version.
VersionStamped ==
    \A i \in Ifs :
        /\ ints[i].mld_version = 1 <=> ints[i].mld_last_v1 # Unset
        /\ Mode = "mld1only" => ints[i].mld_version # 2
        /\ Mode = "mld2only" => ints[i].mld_version # 1

Held(gi, p, a) == p \in DOMAIN gi /\ a \in DOMAIN gi[p].subscriptions

\* A subscription that was refreshed within its lifetime is never lost,
\* whatever timeouts, late ticks, reductions of other groups, malformed
\* reports or device losses happen: only an MLDv1 reduction for this group on
\* this interface ends it early.
LiveSubscriptionsKept ==
    [][\A p \in DOMAIN grpint : \A a \in DOMAIN grpint[p].subscriptions :
          \/ Held(grpint', p, a)
          \/ grpint[p].subscriptions[a].refreshtime > Lifetime
          \/ a = Any /\ l4_ipv6_icmpv6_mld1_reduction(p[2], p[1])]_vars

\* A subscription that is no longer refreshed is dropped in the end, although
\* SIGALRM only sets a flag that is looked at after the next packet.
SubscriptionsExpire ==
    \A m \in Listed, i \in Ifs, a \in Addr :
        []<>(Held(grpint, <<m, i>>, a) => grpint[<<m, i>>].subscriptions[a].refreshtime = 0)

Left(m, i) == <<m, i>> \in DOMAIN grpint /\ grpint[<<m, i>>].count < 0

\* An interface whose last listener sent a reduction is taken out of the
\* group, unless somebody there subscribes again first.
LeaversRemoved ==
    \A m \in Listed, i \in Ifs : Left(m, i) ~> ~Left(m, i)

\* Every lasting interface that is not the upstream is queried again and
\* again: the alarm is armed again after each timeout.
QueriesRepeat ==
    \A i \in Ifs \ (Volatile \cup {Upstream}) : []<>(msg("query", i, Any) \in out)

\* The interface of a device that stays away is destroyed in the end,
\* because a query to it fails with ENXIO (the upstream is never queried).
GoneDevicesNoticed ==
    \A i \in Volatile \ {Upstream} :
        (<>[](i \notin dev)) => <>[](~ints[i].up)
=============================================================================
