-------------------------- MODULE InterfacesProofs -------------------------
(***************************************************************************)
(* Proofs about Interfaces, for any number of devices, names, kinds of     *)
(* addresses and limits.  That reports go to a genuine upstream rests on   *)
(* what the kernel guarantees (a name belongs to one device at a time, an  *)
(* index is not given out twice) and on how these relate to upstream_id.   *)
(***************************************************************************)
EXTENDS Interfaces, TLAPS

Intnode == [up : BOOLEAN, upstream : BOOLEAN, linklocal : Addresses \cup {Unset}]

\* The kernel's side: the devices exist below the next index, own their
\* link-local addresses and have different names.
KernOK ==
    /\ born \in 0 .. MaxIndex
    /\ kern \in [Index -> Device]
    /\ \A i \in Index : There(i) => i <= born
    /\ \A i \in Index : kern[i].linklocal \in (IF HasLink(i) THEN LinkLocal(i) ELSE {Unset})
    /\ \A i, j \in Index : There(i) /\ kern[i].name = kern[j].name => i = j

TimeOK == since \in -MaxBack .. Limit /\ alarm \in 0 .. Period

\* The hub's side: upstream_id is the index of the last device of that name
\* the hub met, which no slot and no device of this name contradicts.
UpstreamOK ==
    /\ ints \in [Index -> Intnode]
    /\ upstream_id \in 0 .. born
    /\ \A i \in Index : ints[i].upstream => i <= upstream_id
    /\ \A i \in Index : kern[i].name = Upstream => upstream_id <= i
    /\ upstream_id # 0 /\ There(upstream_id) => kern[upstream_id].name = Upstream
    /\ upstream_id # 0 /\ ints[upstream_id].up => ints[upstream_id].upstream

IfInv == KernOK /\ TimeOK /\ UpstreamOK

----------------------------------------------------------------------------
(* The kernel.                                                             *)

\* A cleared slot and an absent device are well formed.
LEMMA Absence ==
  /\ Absent \in Device /\ Absent.name = None /\ Absent.linklocal = Unset /\ "link" \notin Absent.kinds
  /\ Absent.kinds = {}
  BY DEF Absent, Device

\* Every device has one of its own link-local addresses, or none.
LEMMA LinkLocalType == \A i \in Index : LinkLocal(i) \subseteq Addresses
  BY DEF Addresses

\* A new device gets an index that was never used and a name that is free.
LEMMA CreatedKern ==
  ASSUME IfInv, NEW n \in Names, NEW kinds \in Configs, DeviceCreated(n, kinds)
  PROVE  IfInv'
  <1> USE DEF IfInv
  <1> DEFINE b == born + 1
             d == [name |-> n, kinds |-> kinds, linklocal |-> Unset]
  <1>1. /\ b \in Index /\ born' = b /\ born \in Nat /\ b \in 0 .. MaxIndex
        /\ kern' = [kern EXCEPT ![b] = d]
        /\ UNCHANGED <<ints, upstream_id, since, alarm>>
        /\ \A i \in Index : kern[i].name # n
        /\ "link" \notin kinds
    BY IndexAssumption DEF DeviceCreated, KernOK, Index
  <1>2. d \in Device /\ d.name = n /\ d.kinds = kinds /\ d.linklocal = Unset /\ n # None
    BY NameAssumption DEF Device
  <1> HIDE DEF d
  <1>3. /\ kern' \in [Index -> Device] /\ kern'[b] = d
        /\ \A i \in Index : i # b => kern'[i] = kern[i]
    BY <1>1, <1>2 DEF KernOK
  <1>4. \A i \in Index : There(i)' => i <= born'
    BY <1>1, <1>3 DEF KernOK, There, Index
  <1>5. \A i \in Index : kern'[i].linklocal \in (IF HasLink(i)' THEN LinkLocal(i) ELSE {Unset})
    BY <1>1, <1>2, <1>3 DEF KernOK, HasLink
  <1>6. \A i, j \in Index : There(i)' /\ kern'[i].name = kern'[j].name => i = j
    BY <1>1, <1>2, <1>3 DEF KernOK, There
  <1>7. KernOK'
    BY <1>1, <1>3, <1>4, <1>5, <1>6 DEF KernOK
  <1>8. upstream_id \in 0 .. born /\ upstream_id \in Nat /\ upstream_id < b /\ upstream_id # b
    BY <1>1 DEF UpstreamOK
  <1>9. \A i \in Index : kern'[i].name = Upstream => upstream_id <= i
    <2>1. upstream_id <= b
      BY <1>1, <1>8
    <2> HIDE DEF b
    <2> QED BY <1>3, <2>1 DEF UpstreamOK
  <1>10. upstream_id # 0 /\ There(upstream_id)' => kern'[upstream_id].name = Upstream
    <2>1. upstream_id # 0 => upstream_id \in Index
      BY <1>1, <1>8, IndexAssumption DEF Index
    <2> HIDE DEF b
    <2> QED BY <1>1, <1>3, <1>8, <2>1 DEF UpstreamOK, There
  <1>11. UpstreamOK'
    BY <1>1, <1>8, <1>9, <1>10 DEF UpstreamOK
  <1> QED BY <1>1, <1>7, <1>11 DEF TimeOK

\* A device that goes away, or changes its addresses, keeps its index from
\* other devices and its name while it has one.
LEMMA ChangedKern ==
  ASSUME IfInv, NEW i \in Index, NEW d \in Device, kern' = [kern EXCEPT ![i] = d],
         There(i), d.name = kern[i].name \/ d.name = None,
         d.linklocal \in (IF "link" \in d.kinds THEN LinkLocal(i) ELSE {Unset}),
         UNCHANGED <<born, ints, upstream_id, since, alarm>>
  PROVE  IfInv'
  <1> USE DEF IfInv
  <1>1. /\ kern' \in [Index -> Device] /\ kern'[i] = d
        /\ \A j \in Index : j # i => kern'[j] = kern[j]
    BY DEF KernOK
  <1>2. KernOK'
    <2>1. \A j \in Index : There(j)' => j <= born'
      BY <1>1 DEF KernOK, There
    <2>2. \A j \in Index : kern'[j].linklocal \in (IF HasLink(j)' THEN LinkLocal(j) ELSE {Unset})
      BY <1>1 DEF KernOK, HasLink
    <2>3. \A j, k \in Index : There(j)' /\ kern'[j].name = kern'[k].name => j = k
      BY <1>1 DEF KernOK, There
    <2> QED BY <1>1, <2>1, <2>2, <2>3 DEF KernOK
  <1>3. UpstreamOK'
    <2>1. \A j \in Index : kern'[j].name = Upstream => kern[j].name = Upstream
      BY <1>1, NameAssumption
    <2>2. \A j \in Index : There(j)' => There(j) /\ kern'[j].name = kern[j].name
      BY <1>1 DEF There
    <2>3. upstream_id # 0 => upstream_id \in Index
      BY IndexAssumption DEF UpstreamOK, KernOK, Index
    <2> QED BY <2>1, <2>2, <2>3 DEF UpstreamOK
  <1> QED BY <1>2, <1>3 DEF TimeOK

\* The kernel's steps.
LEMMA KernelStep ==
  ASSUME IfInv, Kernel
  PROVE  IfInv'
  <1>1. ASSUME NEW i \in Index, DeviceDeleted(i) PROVE IfInv'
    BY <1>1, Absence, ChangedKern DEF DeviceDeleted
  <1>2. ASSUME NEW i \in Index, NEW kinds \in Configs, DeviceReaddressed(i, kinds) PROVE IfInv'
    <2>1. PICK a \in (IF "link" \in kinds THEN LinkLocal(i) ELSE {Unset}) :
                 kern' = [kern EXCEPT ![i].kinds = kinds, ![i].linklocal = a]
      BY <1>2 DEF DeviceReaddressed
    <2> DEFINE d == [kern[i] EXCEPT !.kinds = kinds, !.linklocal = a]
    <2>2. kern[i] \in Device /\ a \in Addresses \cup {Unset}
      BY LinkLocalType DEF IfInv, KernOK
    <2>3. d \in Device /\ d.name = kern[i].name /\ d.kinds = kinds /\ d.linklocal = a
      BY <2>2 DEF Device
    <2>4. kern' = [kern EXCEPT ![i] = d]
      BY <2>1
    <2> HIDE DEF d
    <2> QED BY <1>2, <2>1, <2>3, <2>4, ChangedKern DEF DeviceReaddressed
  <1> QED BY <1>1, <1>2, CreatedKern DEF Kernel

----------------------------------------------------------------------------
(* The interface array.                                                    *)

\* The slot of a device the hub has just met.
LEMMA CreateSlot ==
  ASSUME NEW i \in Index
  PROVE  /\ int_create(i) \in Intnode
         /\ int_create(i).up = There(i)
         /\ int_create(i).upstream = (There(i) /\ kern[i].name = Upstream)
         /\ int_create(i).linklocal = Unset
  <1> DEFINE t == There(i)
             c == There(i) /\ kern[i].name = Upstream
  <1>1. t \in BOOLEAN /\ c \in BOOLEAN
    BY DEF There
  <1>2. int_create(i) = [Slot EXCEPT !.up = t, !.upstream = c]
    BY Zenon DEF int_create
  <1> HIDE DEF t, c
  <1>3. int_create(i) \in Intnode /\ int_create(i).up = t /\ int_create(i).upstream = c
        /\ int_create(i).linklocal = Unset
    BY <1>1, <1>2 DEF Slot, Intnode
  <1> QED BY <1>3, Zenon DEF t, c

\* Destroying an interface only takes it down.
LEMMA DestroySlot ==
  ASSUME NEW x \in Intnode
  PROVE  /\ int_destroy(x) \in Intnode /\ ~int_destroy(x).up
         /\ int_destroy(x).upstream = x.upstream
  BY DEF int_destroy, Intnode

\* The devices that carry the upstream's name are one at most, so the update
\* has no choice, and it never goes back to an older index.
LEMMA NewUpstreamFacts ==
  ASSUME IfInv, NEW C \in SUBSET Index
  PROVE  /\ upstream_id <= NewUpstream(C) /\ NewUpstream(C) \in 0 .. born
         /\ \A i \in C : kern[i].name = Upstream => NewUpstream(C) = i
         /\ NewUpstream(C) = upstream_id \/ (NewUpstream(C) \in C /\ kern[NewUpstream(C)].name = Upstream)
  <1> USE DEF IfInv
  <1>0. upstream_id \in 0 .. born /\ born \in Nat /\ upstream_id \in Nat
    BY DEF UpstreamOK, KernOK
  <1>1. CASE ~\E i \in C : kern[i].name = Upstream
    <2>1. NewUpstream(C) = upstream_id
      BY <1>1 DEF NewUpstream
    <2> QED BY <1>0, <1>1, <2>1
  <1>2. CASE \E i \in C : kern[i].name = Upstream
    <2> DEFINE u == NewUpstream(C)
    <2>1. u \in C /\ kern[u].name = Upstream
      BY <1>2 DEF NewUpstream
    <2> HIDE DEF u
    <2>2. There(u) /\ u \in Index
      BY <2>1, NameAssumption DEF There
    <2>3. upstream_id <= u /\ u <= born /\ u \in Nat
      BY <2>1, <2>2, IndexAssumption DEF UpstreamOK, KernOK, Index
    <2>4. \A i \in C : kern[i].name = Upstream => u = i
      BY <2>1, <2>2 DEF KernOK
    <2> QED BY <1>0, <2>1, <2>3, <2>4 DEF u
  <1> QED BY <1>1, <1>2

\* A slot is up, flagged and addressed as before, taken down, or made anew
\* for the device that has its index.
Follows(i, x) ==
    /\ x \in Intnode
    /\ x.upstream => ints[i].upstream \/ kern[i].name = Upstream
    /\ x.up => \/ ints[i].up /\ x.upstream = ints[i].upstream
               \/ There(i) /\ (x.upstream <=> kern[i].name = Upstream)

\* Whatever the hub does to its slots, the upstream stays genuine.
LEMMA SlotsStep ==
  ASSUME IfInv, NEW C \in SUBSET Index, upstream_id' = NewUpstream(C), UNCHANGED <<born, kern>>, TimeOK',
         ints' \in [Index -> Intnode],
         \A i \in Index : Follows(i, ints'[i]),
         \A i \in Index \ C : ints'[i].upstream => ints[i].upstream,
         \A i \in C : kern[i].name = Upstream => ints'[i].upstream,
         \A i \in Index : ints'[i].up /\ ~ints[i].up => i \in C
  PROVE  IfInv'
  <1> USE DEF IfInv
  <1> DEFINE u == upstream_id'
  <1>1. /\ upstream_id <= u /\ u \in 0 .. born /\ upstream_id \in Nat /\ born \in Nat /\ u \in Nat
        /\ \A i \in C : kern[i].name = Upstream => u = i
        /\ u = upstream_id \/ (u \in C /\ kern[u].name = Upstream)
    BY NewUpstreamFacts DEF UpstreamOK, KernOK
  <1>2. u # 0 => u \in Index
    BY <1>1, IndexAssumption DEF KernOK, Index
  <1>3. KernOK'
    BY DEF KernOK, There, HasLink
  <1>4. ASSUME NEW i \in Index, ints'[i].upstream PROVE i <= u
    <2>1. CASE ints[i].upstream
      BY <1>1, <2>1 DEF UpstreamOK, Index
    <2>2. CASE ~ints[i].upstream
      <3>1. i \in C /\ kern[i].name = Upstream
        BY <1>4, <2>2 DEF Follows
      <3> QED BY <1>1, <3>1 DEF Index
    <2> QED BY <2>1, <2>2
  <1>5. ASSUME NEW i \in Index, kern'[i].name = Upstream PROVE u <= i
    <2>1. CASE u = upstream_id
      BY <1>5, <2>1 DEF UpstreamOK
    <2>2. CASE u \in C /\ kern[u].name = Upstream
      <3>1. There(u) /\ u \in Index
        BY <2>2, NameAssumption DEF There
      <3>2. u = i
        BY <1>5, <2>2, <3>1 DEF KernOK
      <3> QED BY <1>1, <3>2
    <2> QED BY <1>1, <2>1, <2>2
  <1>6. ASSUME u # 0, kern'[u].name # None PROVE kern'[u].name = Upstream
    BY <1>1, <1>6 DEF UpstreamOK, There
  <1>7. ASSUME u # 0, ints'[u].up PROVE ints'[u].upstream
    <2>1. CASE u \in C /\ kern[u].name = Upstream
      BY <2>1
    <2>2. CASE u = upstream_id /\ ~(u \in C /\ kern[u].name = Upstream)
      <3>1. Follows(u, ints'[u]) /\ u \in Index
        BY <1>2, <1>7
      <3>2. CASE ints[u].up /\ ints'[u].upstream = ints[u].upstream
        BY <1>7, <2>2, <3>2 DEF UpstreamOK
      <3>3. CASE There(u) /\ (ints'[u].upstream <=> kern[u].name = Upstream)
        BY <1>7, <2>2, <3>3 DEF UpstreamOK
      <3> QED BY <1>7, <3>1, <3>2, <3>3 DEF Follows
    <2> QED BY <1>1, <2>1, <2>2
  <1>8. UpstreamOK'
    BY <1>1, <1>4, <1>5, <1>6, <1>7 DEF UpstreamOK, There
  <1> QED BY <1>3, <1>8

\* The devices that a full update finds exist.
LEMMA FoundThere == ASSUME NEW i \in Found PROVE i \in Index /\ There(i)
  BY DEF Found

\* A slot after a full update.
LEMMA UpdatedSlot ==
  ASSUME IfInv, NEW i \in Index
  PROVE  /\ Follows(i, Updated[i])
         /\ (i \notin Found \/ ints[i].up) => Updated[i].up = ints[i].up /\ Updated[i].upstream = ints[i].upstream
         /\ i \in Found /\ ~ints[i].up /\ kern[i].name = Upstream => Updated[i].upstream
  <1> DEFINE intn == IF i \in Found /\ ~ints[i].up THEN int_create(i) ELSE ints[i]
             new == IF i \in Found \ Kept /\ ~ints[i].up THEN int_destroy(intn)
                    ELSE IF i \in Found /\ HasLink(i) THEN [intn EXCEPT !.linklocal = kern[i].linklocal]
                    ELSE intn
  <1>1. Updated[i] = new
    BY DEF Updated
  <1>2. /\ ints[i] \in Intnode /\ kern[i].linklocal \in Addresses \cup {Unset}
        /\ i \in Found => There(i)
    BY LinkLocalType, FoundThere DEF IfInv, UpstreamOK, KernOK, Device
  <1>3. /\ intn \in Intnode
        /\ i \in Found /\ ~ints[i].up => (intn.up /\ (intn.upstream <=> kern[i].name = Upstream))
        /\ i \notin Found \/ ints[i].up => intn = ints[i]
    BY <1>2, CreateSlot
  <1> HIDE DEF intn
  <1>4. /\ int_destroy(intn) \in Intnode /\ ~int_destroy(intn).up
        /\ int_destroy(intn).upstream = intn.upstream
    BY <1>3, DestroySlot
  <1>5. /\ [intn EXCEPT !.linklocal = kern[i].linklocal] \in Intnode
        /\ [intn EXCEPT !.linklocal = kern[i].linklocal].up = intn.up
        /\ [intn EXCEPT !.linklocal = kern[i].linklocal].upstream = intn.upstream
    BY <1>2, <1>3 DEF Intnode
  <1>6. /\ new \in Intnode /\ new.upstream = intn.upstream
        /\ new.up => intn.up
        /\ ~(i \in Found /\ ~ints[i].up) => new.up = intn.up
    BY <1>3, <1>4, <1>5
  <1> HIDE DEF new
  <1>7. /\ intn.up \in BOOLEAN /\ intn.upstream \in BOOLEAN /\ ints[i].up \in BOOLEAN
        /\ ints[i].upstream \in BOOLEAN /\ new.up \in BOOLEAN /\ new.upstream \in BOOLEAN
    BY <1>2, <1>3, <1>6 DEF Intnode
  <1> QED BY <1>1, <1>2, <1>3, <1>6, <1>7 DEF Follows

\* A query that fails takes the interface down and changes nothing else.
LEMMA QueriedSlot ==
  ASSUME IfInv, NEW I, NEW i \in Index, Follows(i, I[i])
  PROVE  /\ Follows(i, Queried(I)[i]) /\ Queried(I)[i].upstream = I[i].upstream
         /\ Queried(I)[i].up => I[i].up
  <1>1. Queried(I)[i] = IF I[i].up /\ ~I[i].upstream /\ ~There(i) THEN int_destroy(I[i]) ELSE I[i]
    BY DEF Queried
  <1>2. int_destroy(I[i]) \in Intnode /\ ~int_destroy(I[i]).up /\ int_destroy(I[i]).upstream = I[i].upstream
    BY DestroySlot DEF Follows
  <1> QED BY <1>1, <1>2 DEF Follows

\* The periodic timeout.
LEMMA TimeoutStep ==
  ASSUME IfInv, timeout
  PROVE  IfInv'
  <1>1. UNCHANGED <<born, kern>> /\ TimeOK'
    BY TimeAssumption DEF timeout, TimeOK, IfInv
  <1>2. \A i \in Index : Follows(i, ints[i])
    BY DEF Follows, IfInv, UpstreamOK
  <1>3. CASE MayUpdate
    <2> DEFINE C == {i \in Found : ~ints[i].up}
    <2>1. ints' = Queried(Updated) /\ upstream_id' = NewUpstream(C)
      BY <1>3 DEF timeout
    <2>2. C \in SUBSET Index
      BY FoundThere
    <2>3. ASSUME NEW i \in Index
          PROVE  /\ Follows(i, ints'[i])
                 /\ i \notin C => (ints'[i].upstream => ints[i].upstream)
                 /\ i \in C => (kern[i].name = Upstream => ints'[i].upstream)
                 /\ ints'[i].up /\ ~ints[i].up => i \in C
      <3>1. Follows(i, Updated[i])
        BY UpdatedSlot
      <3>2. /\ Follows(i, ints'[i]) /\ ints'[i].upstream = Updated[i].upstream
            /\ ints'[i].up => Updated[i].up
        BY <2>1, <3>1, QueriedSlot
      <3> QED BY <3>2, UpdatedSlot
    <2>4. ints' \in [Index -> Intnode]
      <3>1. ints' = [i \in Index |-> ints'[i]]
        BY <2>1 DEF Queried
      <3>2. \A i \in Index : ints'[i] \in Intnode
        BY <2>3 DEF Follows
      <3> QED BY <3>1, <3>2
    <2> HIDE DEF C
    <2> QED BY <1>1, <2>1, <2>2, <2>3, <2>4, SlotsStep
  <1>4. CASE ~MayUpdate
    <2>1. ints' = Queried(ints) /\ upstream_id' = upstream_id
      BY <1>4 DEF timeout
    <2>2. upstream_id' = NewUpstream({})
      BY <2>1 DEF NewUpstream
    <2>3. ASSUME NEW i \in Index
          PROVE  /\ Follows(i, ints'[i]) /\ ints'[i].upstream = ints[i].upstream
                 /\ ints'[i].up => ints[i].up
      BY <1>2, <2>1, QueriedSlot
    <2>4. ints' \in [Index -> Intnode]
      <3>1. ints' = [i \in Index |-> ints'[i]]
        BY <2>1 DEF Queried
      <3>2. \A i \in Index : ints'[i] \in Intnode
        BY <2>3 DEF Follows
      <3> QED BY <3>1, <3>2
    <2>5. {} \in SUBSET Index
      OBVIOUS
    <2> QED BY <1>1, <2>2, <2>3, <2>4, <2>5, SlotsStep
  <1> QED BY <1>3, <1>4

\* A packet on an index that is not configured.
LEMMA HandleStep ==
  ASSUME IfInv, NEW i \in Index, handleinterfaces(i)
  PROVE  IfInv'
  <1>1. UNCHANGED <<born, kern>> /\ TimeOK' /\ upstream_id' = NewUpstream({i}) /\ ~ints[i].up
    BY TimeAssumption DEF handleinterfaces, TimeOK, IfInv
  <1>2. \E a \in Addresses \cup {Unset} : ints' = [ints EXCEPT ![i] = [int_create(i) EXCEPT !.linklocal = a]]
    <2>1. CASE There(i) /\ MayUpdate
      <3>1. \A k \in Found : kern[k].linklocal \in Addresses \cup {Unset}
        BY FoundThere DEF IfInv, KernOK, Device
      <3>2. Borrowed(i) \subseteq Addresses \cup {Unset}
        BY <3>1 DEF Borrowed
      <3>3. \E a \in Borrowed(i) : ints' = [ints EXCEPT ![i] = [int_create(i) EXCEPT !.linklocal = a]]
        BY <2>1 DEF handleinterfaces
      <3> QED BY <3>2, <3>3
    <2>2. CASE ~(There(i) /\ MayUpdate)
      <3>1. ints' = [ints EXCEPT ![i] = int_create(i)]
        BY <2>2 DEF handleinterfaces
      <3>2. int_create(i) = [int_create(i) EXCEPT !.linklocal = Unset]
        BY CreateSlot DEF Intnode
      <3> QED BY <3>1, <3>2
    <2> QED BY <2>1, <2>2
  <1>3. PICK a \in Addresses \cup {Unset} : ints' = [ints EXCEPT ![i] = [int_create(i) EXCEPT !.linklocal = a]]
    BY <1>2
  <1> DEFINE x == [int_create(i) EXCEPT !.linklocal = a]
  <1>4. /\ x \in Intnode /\ x.up = int_create(i).up /\ x.upstream = int_create(i).upstream
    BY CreateSlot DEF Intnode
  <1>5. /\ x.up = There(i) /\ x.upstream = (There(i) /\ kern[i].name = Upstream)
    BY <1>4, CreateSlot
  <1> HIDE DEF x
  <1>6. /\ ints' \in [Index -> Intnode] /\ ints'[i] = x
        /\ \A j \in Index : j # i => ints'[j] = ints[j]
    BY <1>3, <1>4 DEF IfInv, UpstreamOK, x
  <1>7. \A j \in Index : Follows(j, ints'[j])
    BY <1>4, <1>5, <1>6 DEF Follows, IfInv, UpstreamOK
  <1>8. kern[i].name = Upstream => ints'[i].upstream
    BY <1>5, <1>6, NameAssumption DEF There
  <1>9. {i} \in SUBSET Index
    OBVIOUS
  <1> QED BY <1>1, <1>6, <1>7, <1>8, <1>9, SlotsStep

\* A send that fails.
LEMMA SendStep ==
  ASSUME IfInv, NEW i \in Index, sendpacket6(i)
  PROVE  IfInv'
  <1>1. UNCHANGED <<born, kern>> /\ TimeOK' /\ upstream_id' = upstream_id
        /\ ints' = [ints EXCEPT ![i] = int_destroy(ints[i])]
    BY DEF sendpacket6, TimeOK, IfInv
  <1>2. /\ int_destroy(ints[i]) \in Intnode /\ ~int_destroy(ints[i]).up
        /\ int_destroy(ints[i]).upstream = ints[i].upstream
    BY DestroySlot DEF IfInv, UpstreamOK
  <1>3. /\ ints' \in [Index -> Intnode] /\ ints'[i] = int_destroy(ints[i])
        /\ \A j \in Index : j # i => ints'[j] = ints[j]
    BY <1>1, <1>2 DEF IfInv, UpstreamOK
  <1>4. \A j \in Index : Follows(j, ints'[j]) /\ (ints'[j].upstream => ints[j].upstream) /\ (ints'[j].up => ints[j].up)
    BY <1>2, <1>3 DEF Follows, IfInv, UpstreamOK
  <1>5. upstream_id' = NewUpstream({}) /\ {} \in SUBSET Index
    BY <1>1 DEF NewUpstream
  <1> QED BY <1>1, <1>3, <1>4, <1>5, SlotsStep

----------------------------------------------------------------------------
(* The theorems.                                                           *)

\* The state after the first full update.
LEMMA IfInitInv == IfInit => IfInv
  <1> SUFFICES ASSUME IfInit PROVE IfInv
    OBVIOUS
  <1>1. PICK n \in Names, kinds \in Configs :
          /\ "link" \in kinds
          /\ kern = [i \in Index |-> IF i <= born THEN [name |-> n, kinds |-> kinds, linklocal |-> <<1, 0>>]
                                                ELSE Absent]
    BY DEF IfInit
  <1> DEFINE d == [name |-> n, kinds |-> kinds, linklocal |-> <<1, 0>>]
  <1>2. 1 \in Index /\ Index \subseteq Nat \ {0} /\ born \in {0, 1} /\ born \in 0 .. MaxIndex
    BY IndexAssumption DEF IfInit, Index
  <1>3. d \in Device /\ d.name = n /\ d.kinds = kinds /\ d.linklocal = <<1, 0>> /\ <<1, 0>> \in LinkLocal(1)
    <2>1. <<1, 0>> \in LinkLocal(1)
      BY DEF LinkLocal
    <2>2. <<1, 0>> \in Addresses
      BY <1>2, <2>1, LinkLocalType
    <2> QED BY <2>1, <2>2 DEF Device
  <1> HIDE DEF d
  <1>4. /\ kern \in [Index -> Device]
        /\ \A i \in Index : kern[i] = IF i <= born THEN d ELSE Absent
    BY <1>1, <1>3, Absence DEF d
  <1>5. \A i \in Index : There(i) => i = 1 /\ born = 1 /\ kern[i] = d
    BY <1>2, <1>4, Absence DEF There
  <1>6. KernOK
    <2>1. \A i \in Index : kern[i].linklocal \in (IF HasLink(i) THEN LinkLocal(i) ELSE {Unset})
      BY <1>1, <1>2, <1>3, <1>4, Absence DEF HasLink
    <2>2. \A i, j \in Index : There(i) /\ kern[i].name = kern[j].name => i = j
      BY <1>5 DEF There
    <2> QED BY <1>2, <1>4, <1>5, <2>1, <2>2 DEF KernOK
  <1>7. TimeOK
    BY TimeAssumption DEF IfInit, TimeOK
  <1>8. upstream_id = (IF kern[1].name = Upstream THEN 1 ELSE 0)
    BY DEF IfInit
  <1>9. \A i \in Index : kern[i].name = Upstream => i = 1 /\ born = 1 /\ There(i)
    BY <1>5, NameAssumption DEF There
  <1>10. ASSUME NEW i \in Index
         PROVE  /\ ints[i] \in Intnode /\ ints[i].up = There(i)
                /\ ints[i].upstream = (There(i) /\ kern[i].name = Upstream)
    <2> DEFINE x == [int_create(i) EXCEPT !.linklocal = kern[i].linklocal]
    <2>1. ints[i] = x
      BY DEF IfInit
    <2>2. kern[i].linklocal \in Addresses \cup {Unset}
      BY <1>4 DEF Device
    <2>3. x \in Intnode /\ x.up = int_create(i).up /\ x.upstream = int_create(i).upstream
      BY <2>2, CreateSlot DEF Intnode
    <2> QED BY <2>1, <2>3, CreateSlot
  <1>11. ints \in [Index -> Intnode]
    <2>1. ints = [i \in Index |-> ints[i]]
      BY DEF IfInit
    <2> QED BY <1>10, <2>1
  <1>12. UpstreamOK
    <2>1. upstream_id \in 0 .. born
      BY <1>2, <1>8, <1>9
    <2>2. \A i \in Index : ints[i].upstream => i <= upstream_id
      <3>1. \A i \in Index : ints[i].upstream => kern[i].name = Upstream
        BY <1>10, Zenon
      <3> QED BY <1>2, <1>8, <1>9, <3>1
    <2>3. \A i \in Index : kern[i].name = Upstream => upstream_id <= i
      BY <1>2, <1>8, <1>9
    <2>4. upstream_id # 0 => upstream_id = 1 /\ kern[1].name = Upstream /\ ints[1].upstream
      BY <1>2, <1>8, <1>9, <1>10
    <2> QED BY <1>11, <2>1, <2>2, <2>3, <2>4 DEF UpstreamOK
  <1> QED BY <1>6, <1>7, <1>12 DEF IfInv

\* Every step preserves the invariant.
LEMMA IfNextInv ==
  ASSUME IfInv, [IfNext]_ivars
  PROVE  IfInv'
  <1>1. CASE Tick
    <2>1. TimeOK'
      BY <1>1, TimeAssumption DEF Tick, IfInv, TimeOK
    <2> QED BY <1>1, <2>1 DEF Tick, IfInv, KernOK, UpstreamOK, There, HasLink
  <1>2. CASE ClockSetBack
    <2>1. TimeOK'
      BY <1>2, TimeAssumption DEF ClockSetBack, IfInv, TimeOK
    <2> QED BY <1>2, <2>1 DEF ClockSetBack, IfInv, KernOK, UpstreamOK, There, HasLink
  <1>3. CASE UNCHANGED ivars
    BY <1>3 DEF ivars, IfInv, KernOK, TimeOK, UpstreamOK, There, HasLink
  <1> QED BY <1>1, <1>2, <1>3, KernelStep, TimeoutStep, HandleStep, SendStep DEF IfNext

\* The inductive invariant holds in every state.
LEMMA IfInvariance == IfSafety => []IfInv
  <1>1. IfInit => IfInv
    BY IfInitInv
  <1>2. IfInv /\ [IfNext]_ivars => IfInv'
    BY IfNextInv
  <1> QED BY <1>1, <1>2, PTL DEF IfSafety

\* The interface array keeps its shape however the devices come and go, and
\* upstream_id never names an index the kernel did not give out.
THEOREM ArrayTypeCorrect == IfSafety => []TypeOK
  <1>1. IfInv => TypeOK
    BY DEF IfInv, KernOK, TimeOK, UpstreamOK, TypeOK, Intnode
  <1> QED BY <1>1, IfInvariance, PTL

\* The interface that reports for the upstream go to was recognised as the
\* upstream and is the latest such interface, for any number of devices that
\* take over its name: an index that is met again under another device would
\* break this, and the kernel's indexes and names rule that out.
THEOREM UpstreamAlwaysGenuine == IfSafety => []UpstreamGenuine
  <1>1. IfInv => UpstreamGenuine
    BY DEF IfInv, UpstreamOK, UpstreamGenuine
  <1> QED BY <1>1, IfInvariance, PTL
=============================================================================
