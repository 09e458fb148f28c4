----------------------------- MODULE HubProofs -----------------------------
(***************************************************************************)
(* Proofs about Hub, for any interfaces, addresses, reports, timeout and   *)
(* robustness.  The inductive invariant is the conjunction of the type     *)
(* invariant and the three safety invariants, cut along the variables:     *)
(* the loop, the interfaces, the tables and the packets.                   *)
(***************************************************************************)
EXTENDS Hub, FiniteSetTheorems, TLAPS

LoopOK ==
    /\ pc \in {"check", "recv", "grec"}
    /\ g_needs_timeout \in BOOLEAN
    /\ alarm \in 0 .. SubscriptionTimeout
    /\ dev \in SUBSET Ifs
    /\ work \in Work
    /\ pc = "grec" <=> work.recs # <<>>
    /\ pc = "grec" => work.ifindex \in Ifs

Stamped(intn) ==
    /\ intn \in Intnode
    /\ intn.mld_version = 1 <=> intn.mld_last_v1 # Unset
    /\ Mode = "mld1only" => intn.mld_version # 2
    /\ Mode = "mld2only" => intn.mld_version # 1

IntsOK == ints = [i \in Ifs |-> ints[i]] /\ \A i \in Ifs : Stamped(ints[i])

Counted(gi) ==
    /\ gi \in Grpintnode
    /\ \/ gi.count = Cardinality(DOMAIN gi.subscriptions)
       \/ gi.count = -RobustnessFactor /\ DOMAIN gi.subscriptions = {}

TablesOK ==
    /\ DOMAIN group \in SUBSET Listed
    /\ group \in [DOMAIN group -> Age]
    /\ DOMAIN grpint \in SUBSET (Listed \X Ifs)
    /\ grpint = [p \in DOMAIN grpint |-> grpint[p]]
    /\ \A p \in DOMAIN grpint : Counted(grpint[p])
    /\ ListsAgree

IInv == LoopOK /\ IntsOK /\ TablesOK /\ out \in SUBSET Packet

----------------------------------------------------------------------------
(* Subscriptions.                                                          *)

\* The lists hold addresses of a finite set, so their lengths are numbers.
LEMMA AddrFinite == IsFiniteSet(Addr)
  BY AddressAssumption, FS_AddElement DEF Addr

\* Membership in the set of subscription lists, without the union.
LEMMA GrpintnodeIntro ==
  ASSUME NEW c \in Int, NEW f, DOMAIN f \subseteq Addr, f \in [DOMAIN f -> Subscrnode]
  PROVE  [count |-> c, subscriptions |-> f] \in Grpintnode
  BY DEF Grpintnode

\* Its converse, with what a list of finitely many addresses gives.
LEMMA GrpintnodeElim ==
  ASSUME NEW gi \in Grpintnode
  PROVE  /\ gi.count \in Int
         /\ DOMAIN gi.subscriptions \subseteq Addr
         /\ gi.subscriptions \in [DOMAIN gi.subscriptions -> Subscrnode]
         /\ gi = [count |-> gi.count, subscriptions |-> gi.subscriptions]
         /\ IsFiniteSet(DOMAIN gi.subscriptions)
         /\ Cardinality(DOMAIN gi.subscriptions) \in Nat
  <1>1. PICK A \in SUBSET Addr : gi.subscriptions \in [A -> Subscrnode]
    BY DEF Grpintnode
  <1>2. IsFiniteSet(A)
    BY AddrFinite, FS_Subset
  <1> QED
    BY <1>1, <1>2, FS_CardinalityType DEF Grpintnode

\* The product in the lifetime is only ever used through these facts.
LEMMA AgeFacts ==
  /\ Lifetime \in Nat /\ AgeCap \in Nat /\ AgeCap = Lifetime + 1
  /\ Age = 0 .. AgeCap
  /\ SubscriptionTimeout < AgeCap
  <1>1. Lifetime \in Nat /\ SubscriptionTimeout <= Lifetime
    BY TimerAssumption, Z3 DEF Lifetime
  <1> QED BY <1>1, TimerAssumption DEF AgeCap, Age

\* A time in the code's range stays in it as the clock ticks.
LEMMA OlderType == ASSUME NEW a \in Age PROVE Older(a) \in Age
  BY AgeFacts DEF Older

\* An interface that groupint_get has just created has no subscriptions.
LEMMA GetCounted ==
  ASSUME TablesOK, NEW m, NEW i
  PROVE  Counted(grpint_get(m, i))
  <1>1. Counted([count |-> 0, subscriptions |-> NoSubscriptions])
    <2>1. DOMAIN NoSubscriptions = {} /\ NoSubscriptions \in [DOMAIN NoSubscriptions -> Subscrnode]
      BY DEF NoSubscriptions
    <2>2. [count |-> 0, subscriptions |-> NoSubscriptions] \in Grpintnode
      <3>1. {} \in SUBSET Addr /\ NoSubscriptions \in [{} -> Subscrnode] /\ 0 \in Int
        BY <2>1
      <3> QED BY <3>1 DEF Grpintnode
    <2>3. Cardinality({}) = 0
      BY FS_EmptySet
    <2> QED BY <2>1, <2>2, <2>3 DEF Counted
  <1> QED BY <1>1 DEF grpint_get, TablesOK

\* Refreshing subscriptions loses none and keeps the count exact.
LEMMA RefreshCounted ==
  ASSUME NEW gi, Counted(gi), NEW srcs \in SUBSET Addr, NEW mode \in {"INCLUDE", "EXCLUDE"}
  PROVE  /\ Counted(grpint_refresh(gi, srcs, mode))
         /\ DOMAIN gi.subscriptions \subseteq DOMAIN grpint_refresh(gi, srcs, mode).subscriptions
  <1> DEFINE kept == IF mode = "EXCLUDE" THEN srcs \ {Any} ELSE srcs
             D    == DOMAIN gi.subscriptions
             f    == [a \in kept \cup D |-> IF a \in kept THEN [mode |-> mode, refreshtime |-> 0]
                                                         ELSE gi.subscriptions[a]]
             n    == Cardinality(kept \ D)
             c    == listnode_add(gi.count, n)
  <1>1. grpint_refresh(gi, srcs, mode) = [count |-> c, subscriptions |-> f]
    BY DEF grpint_refresh
  <1>2. /\ gi.count \in Int /\ D \subseteq Addr /\ gi.subscriptions \in [D -> Subscrnode]
        /\ IsFiniteSet(D) /\ Cardinality(D) \in Nat
    BY GrpintnodeElim DEF Counted
  <1>3. kept \subseteq Addr
    OBVIOUS
  <1>4. IsFiniteSet(kept \ D) /\ n \in Nat
    BY <1>3, AddrFinite, FS_Subset, FS_CardinalityType
  <1>5. f \in [kept \cup D -> Subscrnode]
    <2>1. [mode |-> mode, refreshtime |-> 0] \in Subscrnode
      BY AgeFacts DEF Subscrnode
    <2> QED BY <1>2, <2>1
  <1>6. [count |-> c, subscriptions |-> f] \in Grpintnode
    <2>1. c \in Int
      BY <1>2, <1>4 DEF listnode_add
    <2>2. DOMAIN f = kept \cup D
      OBVIOUS
    <2> HIDE DEF c, f, kept, D
    <2> QED BY <1>2, <1>3, <1>5, <2>1, <2>2, GrpintnodeIntro
  <1>7. Cardinality(kept \cup D) = Cardinality(D) + n
    <2>1. /\ kept \cup D = (kept \ D) \cup D
          /\ (kept \ D) \cap D = {}
      OBVIOUS
    <2>2. Cardinality((kept \ D) \cup D) = n + Cardinality(D) - Cardinality((kept \ D) \cap D)
      BY <1>2, <1>4, FS_Union
    <2>3. Cardinality((kept \ D) \cap D) = 0
      BY <2>1, FS_EmptySet
    <2>4. n + Cardinality(D) - 0 = Cardinality(D) + n
      BY <1>2, <1>4
    <2> HIDE DEF kept, D, n
    <2> QED BY <2>1, <2>2, <2>3, <2>4
  <1>8. c = Cardinality(kept \cup D) \/ (c = -RobustnessFactor /\ kept \cup D = {})
    <2>1. CASE n = 0
      <3>1. kept \ D = {}
        BY <2>1, <1>4, FS_EmptySet
      <3>2. kept \cup D = D
        BY <3>1
      <3> QED BY <2>1, <3>2 DEF Counted, listnode_add
    <2>2. CASE n # 0 /\ gi.count = Cardinality(D)
      BY <2>2, <1>2, <1>4, <1>7 DEF listnode_add
    <2>3. CASE n # 0 /\ gi.count = -RobustnessFactor /\ D = {}
      <3>1. Cardinality(D) = 0
        BY <2>3, FS_EmptySet
      <3>2. gi.count < 0
        BY <2>3, TimerAssumption
      <3> QED BY <2>3, <3>1, <3>2, <1>4, <1>7 DEF listnode_add
    <2> QED BY <2>1, <2>2, <2>3 DEF Counted
  <1>9. DOMAIN f = kept \cup D
    OBVIOUS
  <1> HIDE DEF c, f, kept, D
  <1>10. /\ grpint_refresh(gi, srcs, mode).count = c
         /\ grpint_refresh(gi, srcs, mode).subscriptions = f
    BY <1>1
  <1>11. D \subseteq DOMAIN f
    BY <1>9
  <1> QED BY <1>1, <1>6, <1>8, <1>9, <1>10, <1>11 DEF Counted, D

\* Deleting nodes of the list keeps the count exact.
LEMMA WithoutCounted ==
  ASSUME NEW gi, Counted(gi), NEW A \in SUBSET (DOMAIN gi.subscriptions)
  PROVE  /\ Counted(Without(gi, A))
         /\ DOMAIN Without(gi, A).subscriptions = DOMAIN gi.subscriptions \ A
         /\ \A a \in DOMAIN gi.subscriptions \ A : Without(gi, A).subscriptions[a] = gi.subscriptions[a]
         /\ Without(gi, A).count = gi.count - Cardinality(A)
  <1> DEFINE D == DOMAIN gi.subscriptions
             f == [a \in D \ A |-> gi.subscriptions[a]]
             c == gi.count - Cardinality(A)
  <1>1. Without(gi, A) = [count |-> c, subscriptions |-> f]
    BY DEF Without
  <1>2. /\ gi.count \in Int /\ D \subseteq Addr /\ gi.subscriptions \in [D -> Subscrnode]
        /\ IsFiniteSet(D) /\ Cardinality(D) \in Nat
    BY GrpintnodeElim DEF Counted
  <1>3. IsFiniteSet(A) /\ Cardinality(A) \in Nat
    BY <1>2, FS_Subset, FS_CardinalityType
  <1>4. /\ Cardinality(D \ A) = Cardinality(D) - Cardinality(A)
    <2>1. IsFiniteSet(D \ A) /\ Cardinality(D \ A) \in Nat
      BY <1>2, FS_Subset, FS_CardinalityType
    <2>2. Cardinality((D \ A) \cup A) = Cardinality(D \ A) + Cardinality(A) - Cardinality((D \ A) \cap A)
      BY <2>1, <1>3, FS_Union
    <2>3. (D \ A) \cup A = D /\ (D \ A) \cap A = {}
      OBVIOUS
    <2>4. Cardinality((D \ A) \cap A) = 0
      BY <2>3, FS_EmptySet
    <2>5. Cardinality(D) = Cardinality(D \ A) + Cardinality(A) - 0
      BY <2>2, <2>3, <2>4
    <2> HIDE DEF D
    <2> QED BY <2>1, <2>5, <1>2, <1>3
  <1>5. /\ c \in Int /\ DOMAIN f = D \ A /\ f \in [D \ A -> Subscrnode]
        /\ \A a \in D \ A : f[a] = gi.subscriptions[a]
    BY <1>2, <1>3
  <1>6. c = Cardinality(D \ A) \/ (c = -RobustnessFactor /\ D \ A = {})
    <2>1. CASE gi.count = Cardinality(D)
      BY <2>1, <1>4
    <2>2. CASE gi.count = -RobustnessFactor /\ D = {}
      <3>1. A = {} /\ Cardinality(A) = 0
        BY <2>2, FS_EmptySet
      <3> QED BY <2>2, <3>1, TimerAssumption
    <2> QED BY <2>1, <2>2 DEF Counted
  <1> HIDE DEF c, f, D
  <1>7. [count |-> c, subscriptions |-> f] \in Grpintnode
    BY <1>2, <1>5, GrpintnodeIntro
  <1>8. Without(gi, A).count = c /\ Without(gi, A).subscriptions = f
    BY <1>1
  <1>9. Counted(Without(gi, A))
    BY <1>1, <1>5, <1>6, <1>7, <1>8 DEF Counted
  <1> QED BY <1>5, <1>8, <1>9 DEF c, D

\* The mark on an empty list is a legal count.
LEMMA MarkCounted ==
  ASSUME NEW gi, Counted(gi), gi.count <= 0
  PROVE  Counted([gi EXCEPT !.count = -RobustnessFactor])
  <1>1. /\ gi.count \in Int /\ IsFiniteSet(DOMAIN gi.subscriptions)
        /\ Cardinality(DOMAIN gi.subscriptions) \in Nat
        /\ DOMAIN gi.subscriptions \subseteq Addr
        /\ gi.subscriptions \in [DOMAIN gi.subscriptions -> Subscrnode]
        /\ gi = [count |-> gi.count, subscriptions |-> gi.subscriptions]
    BY GrpintnodeElim DEF Counted
  <1>2. DOMAIN gi.subscriptions = {}
    <2>1. CASE gi.count = Cardinality(DOMAIN gi.subscriptions)
      <3>1. Cardinality(DOMAIN gi.subscriptions) = 0
        BY <2>1, <1>1
      <3> QED BY <3>1, <1>1, FS_EmptySet
    <2> QED BY <2>1 DEF Counted
  <1>3. -RobustnessFactor \in Int
    BY TimerAssumption
  <1>4. [gi EXCEPT !.count = -RobustnessFactor]
          = [count |-> -RobustnessFactor, subscriptions |-> gi.subscriptions]
    BY <1>1
  <1>5. [count |-> -RobustnessFactor, subscriptions |-> gi.subscriptions] \in Grpintnode
    BY <1>1, <1>3, GrpintnodeIntro
  <1> QED BY <1>2, <1>4, <1>5 DEF Counted

\* Ticks do not add or drop subscriptions.
LEMMA AgedCounted ==
  ASSUME NEW gi, Counted(gi)
  PROVE  Counted(Aged(gi)) /\ DOMAIN Aged(gi).subscriptions = DOMAIN gi.subscriptions
  <1> DEFINE subs == gi.subscriptions
             f == [a \in DOMAIN subs |->
                     [mode |-> subs[a].mode, refreshtime |-> Older(subs[a].refreshtime)]]
  <1>1. Aged(gi) = [count |-> gi.count, subscriptions |-> f]
    BY DEF Aged
  <1>2. gi.count \in Int /\ DOMAIN subs \subseteq Addr /\ subs \in [DOMAIN subs -> Subscrnode]
    BY GrpintnodeElim DEF Counted
  <1>3. f \in [DOMAIN subs -> Subscrnode]
    <2>1. ASSUME NEW a \in DOMAIN subs
          PROVE  [mode |-> subs[a].mode, refreshtime |-> Older(subs[a].refreshtime)] \in Subscrnode
      BY <1>2, OlderType DEF Subscrnode
    <2> QED BY <2>1
  <1>4. DOMAIN f = DOMAIN subs
    OBVIOUS
  <1> HIDE DEF f
  <1>5. [count |-> gi.count, subscriptions |-> f] \in Grpintnode
    BY <1>2, <1>3, <1>4, GrpintnodeIntro
  <1>6. Aged(gi).count = gi.count /\ Aged(gi).subscriptions = f
    BY <1>1
  <1> QED BY <1>1, <1>4, <1>5, <1>6 DEF Counted

\* A group record refreshes or adds subscriptions and ends none.
LEMMA GrecRefreshCounted ==
  ASSUME NEW gi, Counted(gi), NEW r \in Grec
  PROVE  /\ Counted(GrecRefresh(gi, r))
         /\ DOMAIN gi.subscriptions \subseteq DOMAIN GrecRefresh(gi, r).subscriptions
  <1>1. {Any} \in SUBSET Addr /\ r.srcs \in SUBSET Addr
    BY DEF Addr, Grec
  <1> DEFINE mz == IF r.type \in Excluding THEN "INCLUDE" ELSE "EXCLUDE"
             ms == IF r.type \in Excluding THEN "EXCLUDE" ELSE "INCLUDE"
  <1>2. mz \in {"INCLUDE", "EXCLUDE"} /\ ms \in {"INCLUDE", "EXCLUDE"}
    OBVIOUS
  <1>3. GrecRefresh(gi, r) = IF r.srcs = {} THEN grpint_refresh(gi, {Any}, mz)
                                            ELSE grpint_refresh(gi, r.srcs, ms)
    BY DEF GrecRefresh
  <1> HIDE DEF mz, ms
  <1>4. CASE r.srcs = {}
    BY <1>1, <1>2, <1>3, <1>4, RefreshCounted
  <1>5. CASE r.srcs # {}
    BY <1>1, <1>2, <1>3, <1>5, RefreshCounted
  <1> QED BY <1>4, <1>5

----------------------------------------------------------------------------
(* Interfaces and packets.                                                 *)

\* A fresh interface has neither a version nor a time of MLDv1.
LEMMA CreateStamped == Stamped(int_create)
  BY DEF int_create, Stamped, Intnode, Unset

\* The interface a packet came from, found or created, is consistent.
LEMMA FindStamped == ASSUME IntsOK, NEW i \in Ifs PROVE Stamped(FindOrCreate(i))
  BY CreateStamped DEF FindOrCreate, IntsOK

\* int_set_mld_version writes the version and the time of MLDv1 together.
LEMMA SetVersionStamped ==
  ASSUME NEW intn, Stamped(intn), NEW v \in {1, 2}
  PROVE  Stamped(int_set_mld_version(intn, v))
  <1> DEFINE stale == v # 1 /\ intn.mld_last_v1 > SubscriptionTimeout
             base  == IF stale THEN ForgetV1(intn) ELSE intn
             next == [base EXCEPT !.mld_version = v, !.mld_last_v1 = IF v = 1 THEN 0 ELSE @]
  <1>1. int_set_mld_version(intn, v) = IF base.mld_version # 0 \/ Barred(v) THEN base ELSE next
    BY DEF int_set_mld_version
  <1>2. 0 \in Age /\ 0 # Unset
    BY AgeFacts DEF Unset
  <1>3. intn \in Intnode /\ 0 \in 0 .. 2 /\ v \in 0 .. 2 /\ Unset \in Age \cup {Unset}
    BY DEF Stamped
  <1>4. Stamped(base)
    <2>1. CASE stale
      <3>1. base = [intn EXCEPT !.mld_version = 0, !.mld_last_v1 = Unset]
        BY <2>1 DEF ForgetV1
      <3> HIDE DEF base
      <3>2. base \in Intnode /\ base.mld_version = 0 /\ base.mld_last_v1 = Unset
        BY <1>3, <3>1 DEF Intnode
      <3> QED BY <3>2 DEF Stamped
    <2> QED BY <2>1
  <1>5. ASSUME base.mld_version = 0, ~Barred(v) PROVE Stamped(next)
    <2>1. base \in Intnode /\ base.mld_last_v1 = Unset
      BY <1>4, <1>5 DEF Stamped
    <2> HIDE DEF base
    <2> DEFINE t == IF v = 1 THEN 0 ELSE Unset
    <2>2. next = [base EXCEPT !.mld_version = v, !.mld_last_v1 = t] /\ t \in Age \cup {Unset}
      BY <1>2, <2>1
    <2> HIDE DEF next
    <2>3. next \in Intnode /\ next.mld_version = v /\ next.mld_last_v1 = t
      BY <1>3, <2>1, <2>2 DEF Intnode
    <2> QED BY <1>2, <1>5, <2>3 DEF Stamped, Barred
  <1> HIDE DEF base, next
  <1> QED BY <1>1, <1>4, <1>5

\* Receiving a packet keeps the interfaces consistent.
LEMMA ReceivedOK ==
  ASSUME IntsOK, NEW i \in Ifs
  PROVE  \A j \in Ifs : Stamped(Received(i)[j])
  BY FindStamped DEF Received, IntsOK

\* So does noting the MLD version of the packet.
LEMMA VersionedOK ==
  ASSUME IntsOK, NEW i \in Ifs, NEW v \in {1, 2}
  PROVE  \A j \in Ifs : Stamped(Versioned(i, v)[j])
  BY FindStamped, SetVersionStamped DEF Versioned, IntsOK

\* Sending can only destroy interfaces.
LEMMA SendOK ==
  ASSUME NEW I, \A j \in Ifs : Stamped(I[j]), NEW msgs \in SUBSET Packet, sendpacket6(I, msgs)
  PROVE  IntsOK' /\ out' \in SUBSET Packet
  <1>1. ASSUME NEW j \in Ifs PROVE Stamped(int_destroy(I[j]))
    BY DEF int_destroy, Stamped, Intnode
  <1> QED BY <1>1 DEF sendpacket6, IntsOK, Stamped

\* The reports to one interface are packets of the model.
LEMMA SendReportPackets ==
  ASSUME NEW I, NEW gi, NEW j \in Ifs, NEW m \in Mca
  PROVE  mld_send_report(I, gi, j, m) \in SUBSET Packet
  BY DEF mld_send_report, mld1_send_report, mld2_send_report, msg, Packet

\* So are the reports to all the others.
LEMMA SendReportAllPackets ==
  ASSUME NEW I, NEW gi, NEW i, NEW m \in Mca
  PROVE  mld_send_report_all(I, gi, i, m) \in SUBSET Packet
  BY SendReportPackets DEF mld_send_report_all

\* A query to one interface is a packet of the model.
LEMMA QueryPackets ==
  ASSUME NEW j \in Ifs, NEW m \in Mca \cup {Any}
  PROVE  mld_send_query(j, m) \in SUBSET Packet
  BY DEF mld_send_query, msg, Packet

\* So are the periodic queries.
LEMMA QuerysPackets ==
  ASSUME NEW I
  PROVE  send_mld_querys(I) \in SUBSET Packet
  BY QueryPackets DEF send_mld_querys

----------------------------------------------------------------------------
(* The tables.                                                             *)

\* A group that is looked up for an interface ends up in both lists.
LEMMA PutTables ==
  ASSUME TablesOK, NEW m \in Listed, NEW i \in Ifs, NEW gi, Counted(gi), groupint_get(m, i, gi)
  PROVE  TablesOK'
  <1>1. /\ DOMAIN group' = DOMAIN group \cup {m}
        /\ DOMAIN grpint' = DOMAIN grpint \cup {<<m, i>>}
    BY DEF groupint_get, Put
  <1>2. group' \in [DOMAIN group' -> Age]
    <2>1. 0 \in Age
      BY AgeFacts
    <2> QED BY <2>1 DEF groupint_get, Put, TablesOK
  <1>3. grpint' = [p \in DOMAIN grpint' |-> grpint'[p]]
    BY DEF groupint_get, Put
  <1>4. ASSUME NEW p \in DOMAIN grpint' PROVE Counted(grpint'[p])
    BY DEF groupint_get, Put, TablesOK
  <1>5. ListsAgree'
    <2>1. ASSUME NEW p \in DOMAIN grpint' PROVE p[1] \in DOMAIN group'
      BY <1>1 DEF TablesOK, ListsAgree
    <2>2. ASSUME NEW x \in DOMAIN group' PROVE \E k \in Ifs : <<x, k>> \in DOMAIN grpint'
      BY <1>1 DEF TablesOK, ListsAgree
    <2> QED BY <2>1, <2>2 DEF ListsAgree
  <1>6. DOMAIN group' \in SUBSET Listed /\ DOMAIN grpint' \in SUBSET (Listed \X Ifs)
    BY <1>1 DEF TablesOK
  <1> QED BY <1>2, <1>3, <1>4, <1>5, <1>6 DEF TablesOK, Counted

\* The reduction changes one entry that is already there.
LEMMA ReplaceTables ==
  ASSUME TablesOK, NEW p \in DOMAIN grpint, NEW gi, Counted(gi),
         grpint' = Put(grpint, p, gi), UNCHANGED group
  PROVE  TablesOK'
  <1>1. DOMAIN grpint' = DOMAIN grpint
    BY DEF Put
  <1>2. ASSUME NEW q \in DOMAIN grpint' PROVE Counted(grpint'[q])
    BY DEF Put, TablesOK
  <1>3. grpint' = [q \in DOMAIN grpint' |-> grpint'[q]]
    BY DEF Put
  <1> QED BY <1>1, <1>2, <1>3 DEF TablesOK, ListsAgree, Counted

\* The timeout drops the expired subscriptions, then the interfaces that are
\* marked, then the groups that have none.
LEMMA SweepTables ==
  ASSUME TablesOK, NEW found, timeout(found)
  PROVE  TablesOK'
  <1>1. /\ DOMAIN grpint' = Surviving /\ Surviving \subseteq DOMAIN grpint
        /\ grpint' = [p \in DOMAIN grpint' |-> grpint'[p]]
        /\ \A p \in Surviving : grpint'[p] = Sweep(grpint[p])
    BY DEF timeout, Surviving
  <1>2. ASSUME NEW p \in DOMAIN grpint' PROVE Counted(grpint'[p])
    <2>1. Counted(grpint[p]) /\ grpint'[p] = Sweep(grpint[p])
      BY <1>1 DEF TablesOK
    <2>2. Expired(grpint[p]) \in SUBSET (DOMAIN grpint[p].subscriptions)
      BY DEF Expired
    <2> QED BY <2>1, <2>2, WithoutCounted DEF Sweep
  <1>3. /\ DOMAIN group' = {x \in DOMAIN group : \E i \in Ifs : <<x, i>> \in Surviving}
        /\ \A x \in DOMAIN group' : group'[x] = group[x]
        /\ group' = [x \in DOMAIN group' |-> group'[x]]
    BY DEF timeout, KeptGroups
  <1>4. group' \in [DOMAIN group' -> Age]
    BY <1>3 DEF TablesOK
  <1>5. ListsAgree'
    <2>1. ASSUME NEW p \in DOMAIN grpint' PROVE p[1] \in DOMAIN group'
      <3>1. p \in DOMAIN grpint /\ p \in Surviving /\ p \in Listed \X Ifs
        BY <1>1 DEF TablesOK
      <3>2. p[1] \in DOMAIN group /\ p[2] \in Ifs /\ p = <<p[1], p[2]>>
        BY <3>1 DEF TablesOK, ListsAgree
      <3> QED BY <1>3, <3>1, <3>2
    <2>2. ASSUME NEW x \in DOMAIN group' PROVE \E k \in Ifs : <<x, k>> \in DOMAIN grpint'
      BY <1>1, <1>3
    <2> QED BY <2>1, <2>2 DEF ListsAgree
  <1>6. DOMAIN group' \in SUBSET Listed /\ DOMAIN grpint' \in SUBSET (Listed \X Ifs)
    BY <1>1, <1>3 DEF TablesOK
  <1> QED BY <1>1, <1>2, <1>4, <1>5, <1>6 DEF TablesOK, Counted

\* The passing of time keeps the tables consistent.
LEMMA TickTables ==
  ASSUME TablesOK, Tick
  PROVE  TablesOK'
  <1>1. /\ DOMAIN grpint' = DOMAIN grpint
        /\ grpint' = [p \in DOMAIN grpint' |-> grpint'[p]]
        /\ \A p \in DOMAIN grpint : grpint'[p] = Aged(grpint[p])
    BY DEF Tick
  <1>2. ASSUME NEW p \in DOMAIN grpint' PROVE Counted(grpint'[p])
    BY <1>1, AgedCounted DEF TablesOK
  <1>3. DOMAIN group' = DOMAIN group /\ group' \in [DOMAIN group' -> Age]
    BY OlderType DEF Tick, TablesOK
  <1> QED BY <1>1, <1>2, <1>3 DEF TablesOK, ListsAgree, Counted

\* A handler that leaves the tables alone keeps them consistent.
LEMMA KeepTables ==
  ASSUME TablesOK, UNCHANGED <<group, grpint>>
  PROVE  TablesOK'
  BY DEF TablesOK, ListsAgree, Counted

----------------------------------------------------------------------------
(* The loop.                                                               *)

\* No report is being handled in the idle state.
LEMMA IdleWork == Idle \in Work /\ Idle.recs = <<>>
  BY DEF Idle, Work

\* A handler that runs to its end returns to the top of the loop.
LEMMA HandledLoop ==
  ASSUME LoopOK, Handled
  PROVE  LoopOK'
  BY DEF LoopOK, Handled, loopvars

\* The record at hand, and the loop after it.
LEMMA GrecHead ==
  ASSUME LoopOK, pc = "grec"
  PROVE  /\ work.ifindex \in Ifs /\ Head(work.recs) \in Grec /\ Head(work.recs).mca \in Mca
         /\ Tail(work.recs) \in Seq(Grec)
  <1>1. work.recs \in Seq(Grec) /\ work.recs # <<>> /\ work.ifindex \in Ifs
    BY DEF LoopOK, Work
  <1>2. Head(work.recs) \in Grec /\ Tail(work.recs) \in Seq(Grec)
    BY <1>1
  <1> QED BY <1>1, <1>2 DEF Grec

\* The loop goes on with the next record or with the next packet.
LEMMA NextGrecLoop ==
  ASSUME LoopOK, pc = "grec", NEW b \in BOOLEAN, NextGrec(b), UNCHANGED loopvars
  PROVE  LoopOK'
  <1>1. CASE Tail(work.recs) = <<>>
    BY <1>1, IdleWork DEF LoopOK, NextGrec, loopvars
  <1>2. CASE Tail(work.recs) # <<>>
    <2>1. pc' = "grec" /\ work' = [work EXCEPT !.recs = Tail(@), !.isnew = b]
      BY <1>2 DEF NextGrec
    <2>2. work \in Work /\ work.ifindex \in Ifs /\ Tail(work.recs) \in Seq(Grec)
      BY GrecHead DEF LoopOK
    <2>3. work' \in Work /\ work'.recs = Tail(work.recs) /\ work'.ifindex = work.ifindex
      BY <2>1, <2>2 DEF Work
    <2> QED BY <1>2, <2>1, <2>2, <2>3 DEF LoopOK, loopvars
  <1> QED BY <1>1, <1>2

\* An abandoned report returns to the top of the loop.
LEMMA AbandonLoop ==
  ASSUME LoopOK, AbandonReport, UNCHANGED loopvars
  PROVE  LoopOK'
  BY IdleWork DEF LoopOK, AbandonReport, loopvars

----------------------------------------------------------------------------
(* The inductive invariant.                                                *)

\* IInv says what the type invariant and the safety invariants say.
LEMMA IInvImplies == IInv => TypeOK /\ ListsAgree /\ CountExact /\ VersionStamped
  <1> SUFFICES ASSUME IInv PROVE TypeOK /\ ListsAgree /\ CountExact /\ VersionStamped
    OBVIOUS
  <1>1. ints \in [Ifs -> Intnode] /\ VersionStamped
    BY DEF IInv, IntsOK, Stamped, VersionStamped
  <1>2. grpint \in [DOMAIN grpint -> Grpintnode] /\ CountExact
    BY DEF IInv, TablesOK, Counted, CountExact
  <1>3. ListsAgree
    BY DEF IInv, TablesOK
  <1> QED BY <1>1, <1>2, <1>3 DEF IInv, LoopOK, TablesOK, TypeOK

\* The state main is in when it enters its loop.
LEMMA InitIInv == Init => IInv
  <1> SUFFICES ASSUME Init PROVE IInv
    OBVIOUS
  <1>1. LoopOK
    <2>1. alarm \in 0 .. SubscriptionTimeout /\ dev \in SUBSET Ifs
      BY TimerAssumption DEF Init
    <2>2. g_needs_timeout \in BOOLEAN
      BY DEF Init
    <2> QED BY <2>1, <2>2, IdleWork DEF Init, LoopOK
  <1>2. IntsOK
    <2>1. Stamped(int_destroy(int_create))
      BY CreateStamped DEF int_destroy, Stamped, Intnode
    <2> QED BY <2>1, CreateStamped DEF Init, IntsOK
  <1>3. TablesOK
    BY DEF Init, TablesOK, ListsAgree
  <1>4. out \in SUBSET Packet
    BY QuerysPackets DEF Init
  <1> QED BY <1>1, <1>2, <1>3, <1>4 DEF IInv

\* Every message handler preserves the invariant.
LEMMA ReceiveIInv ==
  ASSUME IInv, NEW i \in Ifs, Receive(i)
  PROVE  IInv'
  <1> USE DEF IInv
  <1>0. Mca \subseteq Mca \cup {Any} /\ Routable \subseteq Mca /\ Routable \subseteq Listed
        /\ Listed \subseteq Mca
    BY DEF Mca, Listed
  <1>1. ASSUME NEW m \in Mca, l4_ipv6_icmpv6_mld1_report(i, m) PROVE IInv'
    <2> DEFINE gi == grpint_refresh(grpint_get(m, i), {Any}, "INCLUDE")
               msgs == IF IsNew(m) THEN mld_send_report_all(Versioned(i, 1), grpint', i, m) ELSE {}
    <2>1. Counted(gi)
      <3>1. {Any} \in SUBSET Addr
        BY DEF Addr
      <3> QED BY <3>1, GetCounted, RefreshCounted
    <2>2. /\ Handled /\ m \in Routable /\ groupint_get(m, i, gi)
          /\ sendpacket6(Versioned(i, 1), msgs)
      BY <1>1 DEF l4_ipv6_icmpv6_mld1_report
    <2>3. msgs \in SUBSET Packet
      BY SendReportAllPackets
    <2> HIDE DEF gi, msgs
    <2>4. TablesOK'
      BY <1>0, <2>1, <2>2, PutTables
    <2>5. IntsOK' /\ out' \in SUBSET Packet
      BY <2>2, <2>3, VersionedOK, SendOK
    <2> QED BY <2>2, <2>4, <2>5, HandledLoop
  <1>2. ASSUME NEW m \in Mca, l4_ipv6_icmpv6_mld1_reduction(i, m) PROVE IInv'
    <2> DEFINE p == <<m, i>>
               gi == Without(grpint[p], {Any})
               ni == IF gi.count <= 0 THEN [gi EXCEPT !.count = -RobustnessFactor] ELSE gi
               msgs == IF gi.count <= 0 THEN mld_send_query(i, m) ELSE {}
    <2>1. /\ Handled /\ p \in DOMAIN grpint /\ {Any} \in SUBSET (DOMAIN grpint[p].subscriptions)
          /\ grpint' = Put(grpint, p, ni) /\ UNCHANGED group
          /\ sendpacket6(Versioned(i, 1), msgs)
      BY <1>2 DEF l4_ipv6_icmpv6_mld1_reduction
    <2>2. Counted(gi)
      BY <2>1, WithoutCounted DEF TablesOK
    <2>3. msgs \in SUBSET Packet
      BY <1>0, QueryPackets
    <2> HIDE DEF gi, msgs, p
    <2>4. Counted(ni)
      BY <2>2, MarkCounted
    <2> HIDE DEF ni
    <2>5. TablesOK'
      BY <2>1, <2>4, ReplaceTables
    <2>6. IntsOK' /\ out' \in SUBSET Packet
      BY <2>1, <2>3, VersionedOK, SendOK
    <2> QED BY <2>1, <2>5, <2>6, HandledLoop
  <1>3. ASSUME mld1_ignored(i) PROVE IInv'
    <2>1. IntsOK'
      BY <1>3, VersionedOK DEF mld1_ignored, IntsOK, Versioned, Stamped
    <2> QED BY <1>3, <2>1, HandledLoop, KeepTables DEF mld1_ignored
  <1>4. ASSUME NEW recs \in Reports, l4_ipv6_icmpv6_mld2_report(i, recs) PROVE IInv'
    <2>1. IntsOK'
      BY <1>4, VersionedOK DEF l4_ipv6_icmpv6_mld2_report, IntsOK, Versioned, Stamped
    <2>2. recs \in Seq(Grec)
      BY ReportsAssumption
    <2>3. LoopOK'
      <3>1. CASE recs = <<>>
        BY <1>4, <3>1 DEF l4_ipv6_icmpv6_mld2_report, LoopOK, loopvars
      <3>2. CASE recs # <<>>
        <4>1. [ifindex |-> i, recs |-> recs, isnew |-> FALSE] \in Work
          BY <2>2 DEF Work
        <4>2. /\ pc' = "grec" /\ work' = [ifindex |-> i, recs |-> recs, isnew |-> FALSE]
              /\ UNCHANGED loopvars
          BY <1>4, <3>2 DEF l4_ipv6_icmpv6_mld2_report
        <4>3. work' \in Work /\ work'.recs # <<>> /\ work'.ifindex \in Ifs
          BY <3>2, <4>1, <4>2
        <4> QED BY <4>2, <4>3 DEF LoopOK, loopvars
      <3> QED BY <3>1, <3>2
    <2> QED BY <1>4, <2>1, <2>3, KeepTables DEF l4_ipv6_icmpv6_mld2_report
  <1>5. ASSUME NEW v \in {1, 2}, l4_ipv6_icmpv6_mld_query(i, v) PROVE IInv'
    <2> DEFINE I == Versioned(i, v)
               v1 == Mode # "mld2only" /\ (Mode = "mld1only" \/ I[i].mld_version < 2)
               v2 == Mode # "mld1only" /\ (Mode = "mld2only" \/ I[i].mld_version = 2)
               m1 == UNION {mld_send_report(I, grpint, i, m) :
                              m \in {x \in DOMAIN group : <<x, i>> \in DOMAIN grpint}}
               m2 == mld2_send_report(grpint, i, DOMAIN group)
               msgs == CASE v1 -> m1 [] v2 -> m2 [] OTHER -> {}
    <2>1. Handled /\ sendpacket6(I, msgs) /\ UNCHANGED <<group, grpint>>
      BY <1>5 DEF l4_ipv6_icmpv6_mld_query
    <2>2. DOMAIN group \subseteq Mca
      BY <1>0 DEF TablesOK
    <2>3. m1 \in SUBSET Packet
      <3>1. \A m \in DOMAIN group : mld_send_report(I, grpint, i, m) \in SUBSET Packet
        BY <2>2, SendReportPackets
      <3> QED BY <3>1
    <2>4. m2 \in SUBSET Packet
      BY <2>2 DEF mld2_send_report, msg, Packet
    <2> HIDE DEF m1, m2, v1, v2
    <2>5. msgs \in SUBSET Packet
      BY <2>3, <2>4
    <2> HIDE DEF msgs
    <2>6. IntsOK' /\ out' \in SUBSET Packet
      BY <2>1, <2>5, VersionedOK, SendOK
    <2> QED BY <2>1, <2>6, HandledLoop, KeepTables
  <1>6. ASSUME NEW s \in Sources, NEW m \in Routable, l4_ipv6_multicast(i, s, m) PROVE IInv'
    <2> DEFINE msgs == {msg("data", j, m) : j \in {k \in Ifs \ {i} :
                          m \in DOMAIN group /\ Subscribed(m, k, s) /\ ints[k].up}}
    <2>1. Handled /\ sendpacket6(Received(i), msgs) /\ UNCHANGED <<group, grpint>>
      BY <1>6 DEF l4_ipv6_multicast
    <2>2. msgs \in SUBSET Packet
      BY <1>0 DEF msg, Packet
    <2> HIDE DEF msgs
    <2>3. IntsOK' /\ out' \in SUBSET Packet
      BY <2>1, <2>2, ReceivedOK, SendOK
    <2> QED BY <2>1, <2>3, HandledLoop, KeepTables
  <1>7. ASSUME HopLimitExceeded(i) PROVE IInv'
    <2>1. Handled /\ sendpacket6(Received(i), icmp6_send(i)) /\ UNCHANGED <<group, grpint>>
      BY <1>7 DEF HopLimitExceeded
    <2>2. icmp6_send(i) \in SUBSET Packet
      BY DEF icmp6_send, msg, Packet
    <2>3. IntsOK' /\ out' \in SUBSET Packet
      BY <2>1, <2>2, ReceivedOK, SendOK
    <2> QED BY <2>1, <2>3, HandledLoop, KeepTables
  <1>8. ASSUME ReceiveOther(i) PROVE IInv'
    <2>1. IntsOK'
      <3>1. CASE ints' = Received(i)
        BY <3>1, ReceivedOK DEF IntsOK, Received, Stamped
      <3>2. CASE ints' = [ints EXCEPT ![i] = int_destroy(int_create)]
        <4>1. Stamped(int_destroy(int_create))
          BY CreateStamped DEF Stamped, Intnode, int_destroy, int_create
        <4> QED BY <3>2, <4>1 DEF IntsOK
      <3> QED BY <1>8, <3>1, <3>2 DEF ReceiveOther
    <2> QED BY <1>8, <2>1, HandledLoop, KeepTables DEF ReceiveOther
  <1> QED BY <1>1, <1>2, <1>3, <1>4, <1>5, <1>6, <1>7, <1>8 DEF Receive

\* So does every group record of an MLDv2 report.
LEMMA GroupRecordIInv ==
  ASSUME IInv, GroupRecord
  PROVE  IInv'
  <1> USE DEF IInv
  <1> DEFINE i == work.ifindex
             r == Head(work.recs)
  <1>0. pc = "grec" /\ i \in Ifs /\ r \in Grec /\ r.mca \in Mca /\ work.isnew \in BOOLEAN
    <2>1. pc = "grec"
      BY DEF GroupRecord, GrecApplied, GrecLocal, GrecOverrun, GrecUnknown
    <2> QED BY <2>1, GrecHead DEF LoopOK, Work
  <1>1. ASSUME GrecApplied PROVE IInv'
    <2> DEFINE gi == GrecRefresh(grpint_get(r.mca, i), r)
               msgs == IF IsNew(r.mca) THEN mld_send_report_all(ints, grpint', i, r.mca) ELSE {}
    <2>1. /\ r.mca \in Listed /\ groupint_get(r.mca, i, gi) /\ sendpacket6(ints, msgs)
          /\ NextGrec(IsNew(r.mca)) /\ UNCHANGED loopvars
      BY <1>1 DEF GrecApplied
    <2>2. Counted(gi)
      BY <1>0, GetCounted, GrecRefreshCounted
    <2>3. msgs \in SUBSET Packet
      BY <1>0, SendReportAllPackets
    <2>4. IsNew(r.mca) \in BOOLEAN
      BY DEF IsNew
    <2> HIDE DEF gi, msgs
    <2>5. TablesOK'
      BY <1>0, <2>1, <2>2, PutTables
    <2>6. IntsOK' /\ out' \in SUBSET Packet
      BY <2>1, <2>3, SendOK DEF IntsOK
    <2> QED BY <1>0, <2>1, <2>4, <2>5, <2>6, NextGrecLoop
  <1>2. ASSUME GrecLocal PROVE IInv'
    <2> DEFINE msgs == IF work.isnew THEN mld_send_report_all(ints, grpint, i, r.mca) ELSE {}
    <2>1. /\ sendpacket6(ints, msgs) /\ NextGrec(work.isnew)
          /\ UNCHANGED loopvars /\ UNCHANGED <<group, grpint>>
      BY <1>2 DEF GrecLocal
    <2>2. msgs \in SUBSET Packet
      BY <1>0, SendReportAllPackets
    <2> HIDE DEF msgs
    <2>3. IntsOK' /\ out' \in SUBSET Packet
      BY <2>1, <2>2, SendOK DEF IntsOK
    <2> QED BY <1>0, <2>1, <2>3, NextGrecLoop, KeepTables
  <1>3. ASSUME GrecOverrun PROVE IInv'
    <2>1. AbandonReport /\ UNCHANGED loopvars /\ out' = {} /\ UNCHANGED ints
      BY <1>3 DEF GrecOverrun
    <2>2. TablesOK'
      <3>1. CASE r.mca \in Listed
        BY <1>0, <1>3, <3>1, GetCounted, PutTables DEF GrecOverrun
      <3>2. CASE r.mca \notin Listed
        BY <1>3, <3>2, KeepTables DEF GrecOverrun
      <3> QED BY <3>1, <3>2
    <2> QED BY <2>1, <2>2, AbandonLoop DEF IntsOK, Stamped
  <1>4. ASSUME GrecUnknown PROVE IInv'
    BY <1>4, AbandonLoop, KeepTables DEF GrecUnknown, IntsOK, Stamped
  <1> QED BY <1>1, <1>2, <1>3, <1>4 DEF GroupRecord

\* And every other step: the loop, its timer, signals and devices.
LEMMA NextIInv ==
  ASSUME IInv, [Next]_vars
  PROVE  IInv'
  <1> USE DEF IInv
  <1>1. CASE Check
    <2>1. LoopOK'
      BY <1>1 DEF Check, LoopOK, loopvars
    <2> QED BY <1>1, <2>1, KeepTables DEF Check, IntsOK, Stamped
  <1>2. ASSUME NEW found \in SUBSET Ifs, timeout(found) PROVE IInv'
    <2> DEFINE I == update_interfaces(found)
    <2>1. sendpacket6(I, send_mld_querys(I))
      BY <1>2 DEF timeout
    <2>2. \A j \in Ifs : Stamped(I[j])
      BY CreateStamped DEF update_interfaces, IntsOK
    <2>3. send_mld_querys(I) \in SUBSET Packet
      BY QuerysPackets
    <2> HIDE DEF I
    <2>4. IntsOK' /\ out' \in SUBSET Packet
      BY <2>1, <2>2, <2>3, SendOK
    <2>5. LoopOK'
      <3>1. /\ pc = "check" /\ pc' = "recv" /\ alarm' = SubscriptionTimeout /\ g_needs_timeout' = FALSE
            /\ UNCHANGED <<dev, work>>
        BY <1>2 DEF timeout, ResetAlarm
      <3>2. alarm' \in 0 .. SubscriptionTimeout
        BY <3>1, TimerAssumption
      <3> QED BY <3>1, <3>2 DEF LoopOK
    <2> QED BY <1>2, <2>4, <2>5, SweepTables
  <1>3. CASE ReceiveOwn
    BY <1>3, HandledLoop, KeepTables DEF ReceiveOwn, IntsOK, Stamped
  <1>4. CASE GroupRecord
    BY <1>4, GroupRecordIInv
  <1>5. CASE sigusr2
    <2> DEFINE msgs == IF ints[Upstream].up THEN mld2_send_report(grpint, Upstream, DOMAIN group) ELSE {}
    <2>1. /\ Upstream \in Ifs /\ sendpacket6(ints, msgs)
          /\ UNCHANGED <<pc, loopvars, group, grpint, work>>
      BY <1>5, InterfaceAssumption DEF sigusr2
    <2>2. msgs \in SUBSET Packet
      BY <2>1 DEF mld2_send_report, msg, Packet, TablesOK, Listed, Mca
    <2> HIDE DEF msgs
    <2>3. IntsOK' /\ out' \in SUBSET Packet
      BY <2>1, <2>2, SendOK DEF IntsOK
    <2> QED BY <2>1, <2>3, KeepTables DEF LoopOK, loopvars
  <1>6. CASE Tick
    <2>1. LoopOK'
      BY <1>6, TimerAssumption DEF Tick, LoopOK
    <2>2. IntsOK'
      <3>1. ASSUME NEW j \in Ifs
            PROVE  Stamped([ints[j] EXCEPT !.mld_last_v1 = IF @ = Unset THEN Unset ELSE Older(@)])
        <4>1. Stamped(ints[j])
          BY DEF IntsOK
        <4> DEFINE t == IF ints[j].mld_last_v1 = Unset THEN Unset ELSE Older(ints[j].mld_last_v1)
        <4>2. t \in Age \cup {Unset} /\ (t = Unset <=> ints[j].mld_last_v1 = Unset)
          BY <4>1, OlderType, AgeFacts DEF Stamped, Intnode, Unset
        <4> HIDE DEF t
        <4>3. Stamped([ints[j] EXCEPT !.mld_last_v1 = t])
          BY <4>1, <4>2 DEF Stamped, Intnode
        <4> QED BY <4>3 DEF t
      <3> QED BY <1>6, <3>1 DEF Tick, IntsOK
    <2> QED BY <1>6, <2>1, <2>2, TickTables DEF Tick
  <1>7. ASSUME NEW i \in Ifs, DeviceGone(i) \/ DeviceBack(i) PROVE IInv'
    <2>1. LoopOK'
      BY <1>7 DEF DeviceGone, DeviceBack, LoopOK
    <2> QED BY <1>7, <2>1, KeepTables DEF DeviceGone, DeviceBack, IntsOK, Stamped
  <1>8. CASE UNCHANGED vars
    BY <1>8, KeepTables DEF vars, LoopOK, IntsOK, Stamped
  <1> QED
    BY <1>1, <1>2, <1>3, <1>4, <1>5, <1>6, <1>7, <1>8, ReceiveIInv DEF Next, Step, Traffic, Timeout

\* The inductive invariant holds in every state of the hub.
LEMMA Invariance == Safety => []IInv
  <1>1. Init => IInv
    BY InitIInv
  <1>2. IInv /\ [Next]_vars => IInv'
    BY NextIInv
  <1> QED BY <1>1, <1>2, PTL DEF Safety

----------------------------------------------------------------------------
(* What a step may do to a subscription.                                   *)

Kept(p, a) ==
    \/ Held(grpint', p, a)
    \/ grpint[p].subscriptions[a].refreshtime > Lifetime
    \/ a = Any /\ l4_ipv6_icmpv6_mld1_reduction(p[2], p[1])

\* Looking up a group keeps all of the table, apart from the one entry.
LEMMA PutKeeps ==
  ASSUME NEW q, NEW gi, grpint' = Put(grpint, q, gi),
         q \in DOMAIN grpint => DOMAIN grpint[q].subscriptions \subseteq DOMAIN gi.subscriptions,
         NEW p \in DOMAIN grpint, NEW a \in DOMAIN grpint[p].subscriptions
  PROVE  Held(grpint', p, a)
  <1>1. p \in DOMAIN grpint' /\ grpint'[p] = IF p = q THEN gi ELSE grpint[p]
    BY DEF Put
  <1> QED BY <1>1 DEF Held

\* The interface of a subscription that is not expired survives a timeout:
\* its list is not empty, so its count is positive.
LEMMA TimeoutKeeps ==
  ASSUME IInv, NEW found, timeout(found),
         NEW p \in DOMAIN grpint, NEW a \in DOMAIN grpint[p].subscriptions
  PROVE  Held(grpint', p, a) \/ grpint[p].subscriptions[a].refreshtime > Lifetime
  <1> SUFFICES ASSUME ~(grpint[p].subscriptions[a].refreshtime > Lifetime)
               PROVE  Held(grpint', p, a)
    OBVIOUS
  <1> DEFINE gi == grpint[p]
             E  == Expired(gi)
             S  == DOMAIN Sweep(gi).subscriptions
  <1>1. Counted(gi)
    BY DEF IInv, TablesOK
  <1>2. E \in SUBSET (DOMAIN gi.subscriptions) /\ a \notin E
    BY DEF Expired
  <1>3. Counted(Sweep(gi)) /\ S = DOMAIN gi.subscriptions \ E
    BY <1>1, <1>2, WithoutCounted DEF Sweep
  <1>4. a \in S
    BY <1>2, <1>3
  <1>5. Sweep(gi).count = Cardinality(S) /\ IsFiniteSet(S) /\ Cardinality(S) \in Nat
    BY <1>3, <1>4, GrpintnodeElim DEF Counted
  <1>6. Cardinality(S) # 0
    BY <1>4, <1>5, FS_EmptySet
  <1>7. Sweep(gi).count > -RobustnessFactor
    BY <1>5, <1>6, TimerAssumption
  <1>8. p \in Surviving
    BY <1>7 DEF Surviving
  <1>9. p \in DOMAIN grpint' /\ grpint'[p] = Sweep(gi)
    BY <1>8 DEF timeout
  <1> QED BY <1>4, <1>9 DEF Held

\* No other step drops a subscription, except a reduction that names it.
LEMMA StepKeeps ==
  ASSUME IInv, [Next]_vars, NEW p \in DOMAIN grpint, NEW a \in DOMAIN grpint[p].subscriptions
  PROVE  Kept(p, a)
  <1>0. /\ LoopOK /\ TablesOK
        /\ \A m, i : Counted(grpint_get(m, i))
        /\ \A m, i : <<m, i>> \in DOMAIN grpint => grpint_get(m, i) = grpint[<<m, i>>]
    BY GetCounted DEF IInv, grpint_get
  <1>1. CASE UNCHANGED grpint
    BY <1>1 DEF Kept, Held
  <1>2. ASSUME NEW found, timeout(found) PROVE Kept(p, a)
    BY <1>2, TimeoutKeeps DEF Kept
  <1>3. CASE Tick
    <2>1. p \in DOMAIN grpint' /\ grpint'[p] = Aged(grpint[p])
      BY <1>3 DEF Tick
    <2>2. DOMAIN Aged(grpint[p]).subscriptions = DOMAIN grpint[p].subscriptions
      BY <1>0, AgedCounted DEF TablesOK
    <2> QED BY <2>1, <2>2 DEF Kept, Held
  <1>4. ASSUME NEW i \in Ifs, NEW m \in Mca, l4_ipv6_icmpv6_mld1_report(i, m) PROVE Kept(p, a)
    <2> DEFINE gi == grpint_refresh(grpint_get(m, i), {Any}, "INCLUDE")
    <2>1. grpint' = Put(grpint, <<m, i>>, gi)
      BY <1>4 DEF l4_ipv6_icmpv6_mld1_report, groupint_get
    <2>2. DOMAIN grpint_get(m, i).subscriptions \subseteq DOMAIN gi.subscriptions
      <3>1. {Any} \in SUBSET Addr
        BY DEF Addr
      <3> QED BY <1>0, <3>1, RefreshCounted
    <2> HIDE DEF gi
    <2> QED BY <1>0, <2>1, <2>2, PutKeeps DEF Kept
  <1>5. ASSUME NEW i \in Ifs, NEW m \in Mca, l4_ipv6_icmpv6_mld1_reduction(i, m) PROVE Kept(p, a)
    <2> DEFINE q == <<m, i>>
               gi == Without(grpint[q], {Any})
               ni == IF gi.count <= 0 THEN [gi EXCEPT !.count = -RobustnessFactor] ELSE gi
    <2>1. /\ q \in DOMAIN grpint /\ {Any} \in SUBSET (DOMAIN grpint[q].subscriptions)
          /\ grpint' = Put(grpint, q, ni)
      BY <1>5 DEF l4_ipv6_icmpv6_mld1_reduction
    <2>2. CASE p # q
      BY <2>1, <2>2 DEF Put, Kept, Held
    <2>3. CASE p = q /\ a = Any
      <3>1. p[1] = m /\ p[2] = i
        BY <2>3
      <3> QED BY <1>5, <2>3, <3>1 DEF Kept
    <2>4. CASE p = q /\ a # Any
      <3>1. Counted(gi) /\ a \in DOMAIN gi.subscriptions
        BY <1>0, <2>1, <2>4, WithoutCounted DEF TablesOK
      <3>2. ni.subscriptions = gi.subscriptions
        <4> HIDE DEF gi
        <4> QED BY <3>1 DEF Counted, Grpintnode
      <3>3. p \in DOMAIN grpint' /\ grpint'[p] = ni
        BY <2>1, <2>4 DEF Put
      <3> HIDE DEF ni, gi, q
      <3> QED BY <3>1, <3>2, <3>3 DEF Kept, Held
    <2> QED BY <2>2, <2>3, <2>4
  <1>6. CASE GrecApplied
    <2> DEFINE i == work.ifindex
               r == Head(work.recs)
               gi == GrecRefresh(grpint_get(r.mca, i), r)
    <2>1. pc = "grec" /\ grpint' = Put(grpint, <<r.mca, i>>, gi)
      BY <1>6 DEF GrecApplied, groupint_get
    <2>2. r \in Grec
      BY <1>0, <2>1, GrecHead
    <2>3. DOMAIN grpint_get(r.mca, i).subscriptions \subseteq DOMAIN gi.subscriptions
      BY <1>0, <2>2, GrecRefreshCounted
    <2> HIDE DEF gi, r, i
    <2> QED BY <1>0, <2>1, <2>3, PutKeeps DEF Kept
  <1>7. CASE GrecOverrun
    <2> DEFINE i == work.ifindex
               r == Head(work.recs)
    <2>1. CASE r.mca \in Listed
      <3>1. grpint' = Put(grpint, <<r.mca, i>>, grpint_get(r.mca, i))
        BY <1>7, <2>1 DEF GrecOverrun, groupint_get
      <3> HIDE DEF r, i
      <3> QED BY <1>0, <3>1, PutKeeps DEF Kept
    <2>2. CASE r.mca \notin Listed
      BY <1>7, <2>2, <1>1 DEF GrecOverrun
    <2> QED BY <2>1, <2>2
  <1>8. ASSUME NEW i \in Ifs, Receive(i),
               ~\E m \in Mca : l4_ipv6_icmpv6_mld1_report(i, m) \/ l4_ipv6_icmpv6_mld1_reduction(i, m)
        PROVE  UNCHANGED grpint
    BY <1>8 DEF Receive, mld1_ignored, l4_ipv6_icmpv6_mld2_report, l4_ipv6_icmpv6_mld_query,
                l4_ipv6_multicast, HopLimitExceeded, ReceiveOther
  <1>9. ASSUME NEW i \in Ifs, Receive(i) PROVE Kept(p, a)
    BY <1>1, <1>4, <1>5, <1>8, <1>9
  <1>10. CASE Check \/ ReceiveOwn \/ GrecLocal \/ GrecUnknown \/ sigusr2 \/ UNCHANGED vars
              \/ \E i \in Ifs : DeviceGone(i) \/ DeviceBack(i)
    BY <1>1, <1>10 DEF Check, ReceiveOwn, GrecLocal, GrecUnknown, sigusr2, vars, DeviceGone, DeviceBack
  <1> QED
    BY <1>2, <1>3, <1>6, <1>7, <1>9, <1>10 DEF Next, Step, Traffic, Timeout, GroupRecord

----------------------------------------------------------------------------
(* The theorems.                                                           *)

\* In every run of the hub the tables, the loop and the packets keep their
\* shape: no address that a handler ignores is ever listed, and no entry
\* names an interface the hub does not have.
THEOREM TypeCorrect == Safety => []TypeOK
  BY Invariance, IInvImplies, PTL

\* The lists of groups and of their interfaces always agree: groupint_get
\* and the timeout never leave an interface without its group, or a group
\* that no interface holds.
THEOREM ListsAlwaysAgree == Safety => []ListsAgree
  BY Invariance, IInvImplies, PTL

\* The count of a subscription list is its length, or the mark of a reduction
\* on an empty list, whatever reports, reductions and timeouts come.
THEOREM CountAlwaysExact == Safety => []CountExact
  BY Invariance, IInvImplies, PTL

\* The MLD version of an interface and the time of its MLDv1 message are set
\* and cleared together, and -1 and -2 keep the other version out.
THEOREM VersionAlwaysStamped == Safety => []VersionStamped
  BY Invariance, IInvImplies, PTL

\* No step of the hub loses a subscription that was refreshed within its
\* lifetime, except the MLDv1 reduction that ends it: the theorem needs the
\* exact counts, because the timeout decides by the count alone.
THEOREM SubscriptionsSafe == Safety => LiveSubscriptionsKept
  <1> DEFINE A == \A p \in DOMAIN grpint : \A a \in DOMAIN grpint[p].subscriptions :
                    \/ Held(grpint', p, a)
                    \/ grpint[p].subscriptions[a].refreshtime > Lifetime
                    \/ a = Any /\ l4_ipv6_icmpv6_mld1_reduction(p[2], p[1])
  <1>1. IInv /\ [Next]_vars => [A]_vars
    BY StepKeeps DEF Kept
  <1>2. Safety => [][A]_vars
    <2> HIDE DEF A
    <2> QED BY <1>1, Invariance, PTL DEF Safety
  <1> QED BY <1>2 DEF LiveSubscriptionsKept
=============================================================================
