--------------------------- MODULE HubRelayProofs --------------------------
(***************************************************************************)
(* The hub implements MulticastRelay, for any interfaces, addresses,       *)
(* reports and timers: every step of the hub, from a state that satisfies  *)
(* the invariant of HubProofs, is a step of the relay or changes nothing   *)
(* the relay can see.                                                      *)
(***************************************************************************)
EXTENDS HubRelay, HubProofs

----------------------------------------------------------------------------
(* The wishes of a table.                                                  *)

\* A wish is an including subscription of an interface of a group, and its
\* age is the one the subscription has.
LEMMA WishFacts ==
  ASSUME NEW tab, DOMAIN tab \subseteq Listed \X Ifs
  PROVE  /\ \A m, i, a : <<m, i, a>> \in DOMAIN WantedBy(tab)
                           <=> <<m, i>> \in DOMAIN tab /\ a \in Includes(tab[<<m, i>>])
         /\ \A w \in DOMAIN WantedBy(tab) :
               /\ w = <<w[1], w[2], w[3]>>
               /\ WantedBy(tab)[w] = tab[<<w[1], w[2]>>].subscriptions[w[3]].refreshtime
         /\ WantedBy(tab) = [w \in DOMAIN WantedBy(tab) |-> WantedBy(tab)[w]]
  <1> DEFINE W == UNION {{<<p[1], p[2], a>> : a \in Includes(tab[p])} : p \in DOMAIN tab}
  <1>1. WantedBy(tab) = [w \in W |-> tab[<<w[1], w[2]>>].subscriptions[w[3]].refreshtime]
    BY DEF WantedBy
  <1>2. ASSUME NEW m, NEW i, NEW a
        PROVE  <<m, i, a>> \in W <=> <<m, i>> \in DOMAIN tab /\ a \in Includes(tab[<<m, i>>])
    <2>1. ASSUME <<m, i, a>> \in W PROVE <<m, i>> \in DOMAIN tab /\ a \in Includes(tab[<<m, i>>])
      <3>1. PICK p \in DOMAIN tab : <<m, i, a>> \in {<<p[1], p[2], b>> : b \in Includes(tab[p])}
        BY <2>1
      <3>2. PICK b \in Includes(tab[p]) : <<m, i, a>> = <<p[1], p[2], b>>
        BY <3>1
      <3>3. m = p[1] /\ i = p[2] /\ a = b /\ p = <<p[1], p[2]>>
        BY <3>2
      <3> QED BY <3>2, <3>3
    <2>2. ASSUME <<m, i>> \in DOMAIN tab, a \in Includes(tab[<<m, i>>]) PROVE <<m, i, a>> \in W
      <3> DEFINE p == <<m, i>>
      <3>1. <<m, i, a>> \in {<<p[1], p[2], b>> : b \in Includes(tab[p])}
        BY <2>2
      <3> QED BY <2>2, <3>1
    <2> QED BY <2>1, <2>2
  <1>3. \A w \in W : w = <<w[1], w[2], w[3]>>
    OBVIOUS
  <1> HIDE DEF W
  <1> QED BY <1>1, <1>2, <1>3

----------------------------------------------------------------------------
(* Steps that copy nothing.                                                *)

NoData(msgs) == \A p \in msgs : p.kind # "data"

\* Reports to one interface are not copies of a packet.
LEMMA SendReportNoData ==
  ASSUME NEW I, NEW gi, NEW j, NEW m
  PROVE  NoData(mld_send_report(I, gi, j, m))
  BY DEF mld_send_report, mld1_send_report, mld2_send_report, msg, NoData

\* Nor are reports to all the others, MLDv2 reports or queries.
LEMMA MessagesNoData ==
  /\ \A I, gi, i, m : NoData(mld_send_report_all(I, gi, i, m))
  /\ \A gi, j, M : NoData(mld2_send_report(gi, j, M))
  /\ \A j, m : NoData(mld_send_query(j, m))
  /\ \A I : NoData(send_mld_querys(I))
  /\ \A j : NoData(icmp6_send(j))
  /\ NoData({})
  <1>1. ASSUME NEW I, NEW gi, NEW i, NEW m PROVE NoData(mld_send_report_all(I, gi, i, m))
    BY SendReportNoData DEF mld_send_report_all, NoData
  <1>2. \A gi, j, M : NoData(mld2_send_report(gi, j, M))
    BY DEF mld2_send_report, msg, NoData
  <1>3. \A j, m : NoData(mld_send_query(j, m))
    BY DEF mld_send_query, msg, NoData
  <1>4. ASSUME NEW I PROVE NoData(send_mld_querys(I))
    BY <1>3 DEF send_mld_querys, NoData
  <1>5. (\A j : NoData(icmp6_send(j))) /\ NoData({})
    BY DEF icmp6_send, msg, NoData
  <1> QED BY <1>1, <1>2, <1>3, <1>4, <1>5

\* A step that sends no copies is silent to the relay.
LEMMA SilentStep ==
  ASSUME IInv', NoData(out')
  PROVE  R!Silent
  <1>1. ReadyIfs' \in SUBSET Ifs
    BY DEF ReadyIfs, IInv, LoopOK
  <1>2. Copies' = {}
    BY DEF Copies, NoData
  <1> QED BY <1>1, <1>2 DEF R!Silent

\* What sendpacket6 hands to the kernel is some of what it was given.
LEMMA SendNoData ==
  ASSUME NEW I, NEW msgs, NoData(msgs), sendpacket6(I, msgs)
  PROVE  NoData(out')
  BY DEF NoData, sendpacket6

\* A step that leaves the tables alone and copies nothing.
LEMMA QuietStep ==
  ASSUME IInv', NoData(out'), UNCHANGED grpint
  PROVE  R!RNext
  <1>1. WantedBy(grpint)' = WantedBy(grpint)
    BY DEF WantedBy, Includes
  <1> QED BY <1>1, SilentStep DEF R!Quiet, R!RNext

----------------------------------------------------------------------------
(* Steps that change what a link wants.                                    *)

\* The including subscriptions of an interface are those of before with
\* their ages, or have just been refreshed.
Renews(old, new) ==
    \A a \in Includes(new) :
        \/ new.subscriptions[a].refreshtime = 0
        \/ /\ a \in Includes(old)
           /\ new.subscriptions[a].refreshtime = old.subscriptions[a].refreshtime

\* A handler that stores one entry changes the wishes of one link for one
\* group, and makes none of them older or younger unless it renews it.
LEMMA LearnStep ==
  ASSUME IInv, IInv', NoData(out'), NEW m \in Listed, NEW i \in Ifs, NEW gi,
         grpint' = Put(grpint, <<m, i>>, gi), Renews(grpint_get(m, i), gi)
  PROVE  R!RNext
  <1> DEFINE was == WantedBy(grpint)
             now == WantedBy(grpint')
             q   == <<m, i>>
  <1>1. DOMAIN grpint \subseteq Listed \X Ifs /\ DOMAIN grpint' \subseteq Listed \X Ifs
    BY DEF IInv, TablesOK
  <1>2. /\ DOMAIN grpint' = DOMAIN grpint \cup {q} /\ grpint'[q] = gi
        /\ \A p \in DOMAIN grpint : p # q => grpint'[p] = grpint[p]
    BY DEF Put
  <1>3. Includes([count |-> 0, subscriptions |-> NoSubscriptions]) = {}
    BY DEF Includes, NoSubscriptions
  <1>4. ASSUME NEW a \in Includes(grpint_get(m, i)) PROVE q \in DOMAIN grpint /\ grpint_get(m, i) = grpint[q]
    BY <1>3 DEF grpint_get
  <1>5. /\ \A x, j, a : <<x, j, a>> \in DOMAIN was <=> <<x, j>> \in DOMAIN grpint /\ a \in Includes(grpint[<<x, j>>])
        /\ \A w \in DOMAIN was : /\ w = <<w[1], w[2], w[3]>>
                                 /\ was[w] = grpint[<<w[1], w[2]>>].subscriptions[w[3]].refreshtime
    BY <1>1, WishFacts
  <1>6. /\ \A x, j, a : <<x, j, a>> \in DOMAIN now <=> <<x, j>> \in DOMAIN grpint' /\ a \in Includes(grpint'[<<x, j>>])
        /\ \A w \in DOMAIN now : /\ w = <<w[1], w[2], w[3]>>
                                 /\ now[w] = grpint'[<<w[1], w[2]>>].subscriptions[w[3]].refreshtime
    BY <1>1, WishFacts
  <1> HIDE DEF was, now
  <1>7. ASSUME NEW w \in DOMAIN now PROVE w \in R!Wishes
    <2>1. w = <<w[1], w[2], w[3]>> /\ <<w[1], w[2]>> \in DOMAIN grpint' /\ w[3] \in Includes(grpint'[<<w[1], w[2]>>])
      BY <1>6
    <2>2. grpint'[<<w[1], w[2]>>] \in Grpintnode
      BY <2>1 DEF IInv, TablesOK, Counted
    <2>3. w[3] \in Addr
      BY <2>1, <2>2, GrpintnodeElim DEF Includes
    <2> QED BY <1>1, <2>1, <2>3 DEF R!Wishes, Addr
  <1>8. ASSUME NEW w \in DOMAIN was \cup DOMAIN now, ~(w[1] = m /\ w[2] = i)
        PROVE  w \in DOMAIN was /\ w \in DOMAIN now /\ now[w] = was[w]
    <2>1. w = <<w[1], w[2], w[3]>>
      BY <1>5, <1>6
    <2>2. <<w[1], w[2]>> # q
      BY <1>8
    <2>3. <<w[1], w[2]>> \in DOMAIN grpint /\ grpint'[<<w[1], w[2]>>] = grpint[<<w[1], w[2]>>]
      <3>1. CASE w \in DOMAIN was
        BY <1>2, <1>5, <2>1, <2>2, <3>1
      <3>2. CASE w \in DOMAIN now
        BY <1>2, <1>6, <2>1, <2>2, <3>2
      <3> QED BY <3>1, <3>2
    <2>4. w \in DOMAIN was /\ w \in DOMAIN now
      BY <1>2, <1>5, <1>6, <2>1, <2>3
    <2> QED BY <1>5, <1>6, <2>3, <2>4
  <1>9. ASSUME NEW w \in DOMAIN now PROVE now[w] = 0 \/ (w \in DOMAIN was /\ now[w] = was[w])
    <2>1. CASE w[1] = m /\ w[2] = i
      <3>1. /\ w = <<m, i, w[3]>> /\ w[3] \in Includes(gi)
            /\ now[w] = gi.subscriptions[w[3]].refreshtime
        BY <1>2, <1>6, <2>1
      <3>2. CASE gi.subscriptions[w[3]].refreshtime = 0
        BY <3>1, <3>2
      <3>3. CASE /\ w[3] \in Includes(grpint_get(m, i))
                 /\ gi.subscriptions[w[3]].refreshtime = grpint_get(m, i).subscriptions[w[3]].refreshtime
        <4>1. q \in DOMAIN grpint /\ grpint_get(m, i) = grpint[q]
          BY <1>4, <3>3
        <4>2. w \in DOMAIN was
          BY <1>5, <3>1, <3>3, <4>1
        <4>3. was[w] = grpint[q].subscriptions[w[3]].refreshtime
          BY <1>5, <2>1, <4>2
        <4> QED BY <3>1, <3>3, <4>1, <4>2, <4>3
      <3> QED BY <3>1, <3>2, <3>3 DEF Renews
    <2>2. CASE ~(w[1] = m /\ w[2] = i)
      BY <1>8, <2>2
    <2> QED BY <2>1, <2>2
  <1>10. R!Learn(m, i)
    <2>1. R!Silent
      BY SilentStep
    <2> QED BY <2>1, <1>7, <1>8, <1>9 DEF R!Learn, was, now
  <1> QED BY <1>10 DEF R!RNext

\* grpint_refresh renews what it is told to and touches nothing else.
LEMMA RefreshRenews ==
  ASSUME NEW gi, NEW srcs, NEW mode
  PROVE  Renews(gi, grpint_refresh(gi, srcs, mode))
  <1> DEFINE kept == IF mode = "EXCLUDE" THEN srcs \ {Any} ELSE srcs
             D    == DOMAIN gi.subscriptions
             f    == [a \in kept \cup D |-> IF a \in kept THEN [mode |-> mode, refreshtime |-> 0]
                                                         ELSE gi.subscriptions[a]]
  <1>1. grpint_refresh(gi, srcs, mode).subscriptions = f
    BY DEF grpint_refresh
  <1>2. ASSUME NEW a \in DOMAIN f, f[a].mode = "INCLUDE"
        PROVE  \/ f[a].refreshtime = 0
               \/ /\ a \in Includes(gi)
                  /\ f[a].refreshtime = gi.subscriptions[a].refreshtime
    <2>1. CASE a \in kept
      BY <2>1
    <2>2. CASE a \notin kept
      <3>1. a \in D /\ f[a] = gi.subscriptions[a]
        BY <2>2
      <3> QED BY <1>2, <3>1 DEF Includes
    <2> QED BY <2>1, <2>2
  <1> HIDE DEF f
  <1> QED BY <1>1, <1>2 DEF Renews, Includes

\* So does a group record, with or without sources.
LEMMA GrecRenews ==
  ASSUME NEW gi, NEW r
  PROVE  Renews(gi, GrecRefresh(gi, r))
  BY RefreshRenews DEF GrecRefresh

\* The list of a reduction is the one of before without the any-source
\* subscription, whether its count is turned into the mark or not.
LEMMA ReductionRenews ==
  ASSUME NEW gi, Counted(gi), Any \in DOMAIN gi.subscriptions, NEW new,
         \/ new = Without(gi, {Any})
         \/ new = [Without(gi, {Any}) EXCEPT !.count = -RobustnessFactor]
  PROVE  Renews(gi, new)
  <1> DEFINE less == Without(gi, {Any})
  <1>1. /\ Counted(less) /\ DOMAIN less.subscriptions \subseteq DOMAIN gi.subscriptions
        /\ \A a \in DOMAIN less.subscriptions : less.subscriptions[a] = gi.subscriptions[a]
    BY WithoutCounted
  <1> HIDE DEF less
  <1>2. new.subscriptions = less.subscriptions
    BY <1>1 DEF Counted, Grpintnode, less
  <1> QED BY <1>1, <1>2 DEF Renews, Includes

----------------------------------------------------------------------------
(* The timeout and the clock.                                              *)

\* The sweep of timeout() forgets exactly the wishes that outlived their
\* lifetime: it removes no interface that still has a subscription.
LEMMA ForgetStep ==
  ASSUME IInv, IInv', NEW found, timeout(found)
  PROVE  R!RNext
  <1> DEFINE was == WantedBy(grpint)
             now == WantedBy(grpint')
  <1>1. DOMAIN grpint \subseteq Listed \X Ifs /\ DOMAIN grpint' \subseteq Listed \X Ifs
    BY DEF IInv, TablesOK
  <1>2. /\ \A x, j, a : <<x, j, a>> \in DOMAIN was <=> <<x, j>> \in DOMAIN grpint /\ a \in Includes(grpint[<<x, j>>])
        /\ \A w \in DOMAIN was : /\ w = <<w[1], w[2], w[3]>>
                                 /\ was[w] = grpint[<<w[1], w[2]>>].subscriptions[w[3]].refreshtime
    BY <1>1, WishFacts
  <1>3. /\ \A x, j, a : <<x, j, a>> \in DOMAIN now <=> <<x, j>> \in DOMAIN grpint' /\ a \in Includes(grpint'[<<x, j>>])
        /\ \A w \in DOMAIN now : /\ w = <<w[1], w[2], w[3]>>
                                 /\ now[w] = grpint'[<<w[1], w[2]>>].subscriptions[w[3]].refreshtime
        /\ now = [w \in DOMAIN now |-> now[w]]
    BY <1>1, WishFacts
  <1>4. DOMAIN grpint' \subseteq DOMAIN grpint /\ \A p \in DOMAIN grpint' : grpint'[p] = Sweep(grpint[p])
    BY DEF timeout, Surviving
  <1>5. ASSUME NEW p \in DOMAIN grpint
        PROVE  /\ DOMAIN Sweep(grpint[p]).subscriptions = DOMAIN grpint[p].subscriptions \ Expired(grpint[p])
               /\ \A a \in DOMAIN Sweep(grpint[p]).subscriptions :
                     Sweep(grpint[p]).subscriptions[a] = grpint[p].subscriptions[a]
    <2>1. Counted(grpint[p]) /\ Expired(grpint[p]) \in SUBSET (DOMAIN grpint[p].subscriptions)
      BY DEF IInv, TablesOK, Expired
    <2> QED BY <2>1, WithoutCounted DEF Sweep
  <1>6. ASSUME NEW p \in DOMAIN grpint, NEW a \in Includes(grpint[p])
        PROVE  grpint[p].subscriptions[a].refreshtime \in Age
    BY GrpintnodeElim DEF IInv, TablesOK, Counted, Includes, Subscrnode
  <1> HIDE DEF was, now
  <1>7. ASSUME NEW w \in DOMAIN now PROVE w \in DOMAIN was /\ now[w] = was[w] /\ was[w] <= Lifetime
    <2> DEFINE p == <<w[1], w[2]>>
               a == w[3]
    <2>1. w = <<w[1], w[2], a>> /\ p \in DOMAIN grpint' /\ a \in Includes(grpint'[p])
      BY <1>3
    <2>2. p \in DOMAIN grpint /\ grpint'[p] = Sweep(grpint[p])
      BY <1>4, <2>1
    <2>3. /\ a \in DOMAIN grpint[p].subscriptions \ Expired(grpint[p])
          /\ grpint'[p].subscriptions[a] = grpint[p].subscriptions[a]
      BY <1>5, <2>1, <2>2 DEF Includes
    <2>4. a \in Includes(grpint[p])
      BY <2>1, <2>3 DEF Includes
    <2>5. w \in DOMAIN was /\ was[w] = now[w]
      BY <1>2, <1>3, <2>1, <2>2, <2>3, <2>4
    <2>6. was[w] \in Age /\ ~(was[w] > Lifetime)
      BY <1>2, <1>6, <2>2, <2>3, <2>4, <2>5 DEF Expired
    <2> QED BY <2>5, <2>6, AgeFacts
  <1>8. ASSUME NEW w \in DOMAIN was, was[w] <= Lifetime PROVE w \in DOMAIN now
    <2> DEFINE p == <<w[1], w[2]>>
               a == w[3]
    <2>1. w = <<w[1], w[2], a>> /\ p \in DOMAIN grpint /\ a \in Includes(grpint[p])
      BY <1>2
    <2>2. was[w] = grpint[p].subscriptions[a].refreshtime /\ was[w] \in Age
      BY <1>2, <1>6, <2>1
    <2>3. ~(grpint[p].subscriptions[a].refreshtime > Lifetime)
      BY <1>8, <2>2, AgeFacts
    <2>4. a \in DOMAIN grpint[p].subscriptions
      BY <2>1 DEF Includes
    <2>5. p \in DOMAIN grpint' /\ a \in DOMAIN grpint'[p].subscriptions
      BY <2>1, <2>3, <2>4, TimeoutKeeps DEF Held
    <2>6. grpint'[p].subscriptions[a] = grpint[p].subscriptions[a]
      BY <1>4, <1>5, <2>1, <2>5
    <2>7. a \in Includes(grpint'[p])
      BY <2>1, <2>5, <2>6 DEF Includes
    <2> QED BY <1>3, <2>1, <2>5, <2>7
  <1>9. now = R!Lasting(was)
    <2> DEFINE D == {v \in DOMAIN was : was[v] <= Lifetime}
    <2>1. DOMAIN now = D
      BY <1>7, <1>8
    <2>2. now = [w \in D |-> was[w]]
      <3>1. now = [w \in DOMAIN now |-> now[w]]
        BY <1>3
      <3>2. \A w \in D : now[w] = was[w]
        BY <1>7, <2>1
      <3> HIDE DEF D
      <3> QED BY <2>1, <3>1, <3>2
    <2> QED BY <2>2 DEF R!Lasting
  <1>10. R!Silent
    <2> DEFINE I == update_interfaces(found)
    <2>1. sendpacket6(I, send_mld_querys(I))
      BY DEF timeout
    <2> HIDE DEF I
    <2> QED BY <2>1, MessagesNoData, SendNoData, SilentStep
  <1>11. R!Forget
    BY <1>9, <1>10 DEF R!Forget, was, now
  <1> QED BY <1>11 DEF R!RNext

\* A tick makes every wish older, until its lifetime is over.
LEMMA PassStep ==
  ASSUME IInv, IInv', Tick
  PROVE  R!RNext
  <1> DEFINE was == WantedBy(grpint)
             now == WantedBy(grpint')
  <1>1. DOMAIN grpint \subseteq Listed \X Ifs /\ DOMAIN grpint' \subseteq Listed \X Ifs
    BY DEF IInv, TablesOK
  <1>2. /\ \A x, j, a : <<x, j, a>> \in DOMAIN was <=> <<x, j>> \in DOMAIN grpint /\ a \in Includes(grpint[<<x, j>>])
        /\ \A w \in DOMAIN was : /\ w = <<w[1], w[2], w[3]>>
                                 /\ was[w] = grpint[<<w[1], w[2]>>].subscriptions[w[3]].refreshtime
    BY <1>1, WishFacts
  <1>3. /\ \A x, j, a : <<x, j, a>> \in DOMAIN now <=> <<x, j>> \in DOMAIN grpint' /\ a \in Includes(grpint'[<<x, j>>])
        /\ \A w \in DOMAIN now : /\ w = <<w[1], w[2], w[3]>>
                                 /\ now[w] = grpint'[<<w[1], w[2]>>].subscriptions[w[3]].refreshtime
        /\ now = [w \in DOMAIN now |-> now[w]]
    BY <1>1, WishFacts
  <1>4. DOMAIN grpint' = DOMAIN grpint /\ \A p \in DOMAIN grpint : grpint'[p] = Aged(grpint[p])
    BY DEF Tick
  <1>5. ASSUME NEW p \in DOMAIN grpint
        PROVE  /\ Includes(grpint'[p]) = Includes(grpint[p])
               /\ \A a \in Includes(grpint[p]) :
                     /\ grpint[p].subscriptions[a].refreshtime \in Age
                     /\ grpint'[p].subscriptions[a].refreshtime = Older(grpint[p].subscriptions[a].refreshtime)
    <2> DEFINE subs == grpint[p].subscriptions
               f == [a \in DOMAIN subs |-> [mode |-> subs[a].mode, refreshtime |-> Older(subs[a].refreshtime)]]
    <2>1. grpint'[p].subscriptions = f
      BY <1>4 DEF Aged
    <2>2. \A a \in DOMAIN subs : subs[a].refreshtime \in Age
      BY GrpintnodeElim DEF IInv, TablesOK, Counted, Subscrnode
    <2> QED BY <2>1, <2>2 DEF Includes
  <1>6. ASSUME NEW n \in Age PROVE Older(n) = IF n <= Lifetime THEN n + 1 ELSE n
    BY AgeFacts DEF Older
  <1> HIDE DEF was, now
  <1>7. DOMAIN now = DOMAIN was
    <2>1. ASSUME NEW w \in DOMAIN now PROVE w \in DOMAIN was
      <3>1. w = <<w[1], w[2], w[3]>> /\ <<w[1], w[2]>> \in DOMAIN grpint' /\ w[3] \in Includes(grpint'[<<w[1], w[2]>>])
        BY <1>3
      <3> QED BY <1>2, <1>4, <1>5, <3>1
    <2>2. ASSUME NEW w \in DOMAIN was PROVE w \in DOMAIN now
      <3>1. w = <<w[1], w[2], w[3]>> /\ <<w[1], w[2]>> \in DOMAIN grpint /\ w[3] \in Includes(grpint[<<w[1], w[2]>>])
        BY <1>2
      <3> QED BY <1>3, <1>4, <1>5, <3>1
    <2> QED BY <2>1, <2>2
  <1>8. ASSUME NEW w \in DOMAIN was PROVE now[w] = IF was[w] <= Lifetime THEN was[w] + 1 ELSE was[w]
    <2> DEFINE p == <<w[1], w[2]>>
               n == grpint[p].subscriptions[w[3]].refreshtime
    <2>1. p \in DOMAIN grpint /\ w[3] \in Includes(grpint[p])
      BY <1>2
    <2>2. was[w] = n /\ n \in Age /\ now[w] = Older(n)
      BY <1>2, <1>3, <1>5, <1>7, <2>1
    <2> HIDE DEF n
    <2> QED BY <1>6, <2>2
  <1>9. now = R!Aging(was)
    <2>1. now = [w \in DOMAIN now |-> now[w]]
      BY <1>3
    <2>2. now = [w \in DOMAIN was |-> IF was[w] <= Lifetime THEN was[w] + 1 ELSE was[w]]
      BY <1>7, <1>8, <2>1
    <2> QED BY <2>2 DEF R!Aging
  <1>10. R!Silent
    <2>1. out' = {}
      BY DEF Tick
    <2> QED BY <2>1, MessagesNoData, SilentStep
  <1>11. R!Pass
    BY <1>9, <1>10 DEF R!Pass, was, now
  <1> QED BY <1>11 DEF R!RNext

----------------------------------------------------------------------------
(* Forwarding.                                                             *)

\* The copies of a packet are those of the relay: the interfaces the code
\* picks are the ready links, other than the one it came from, that want it.
LEMMA RelayStep ==
  ASSUME IInv, IInv', NEW i \in Ifs, NEW s \in Sources, NEW m \in Routable, l4_ipv6_multicast(i, s, m)
  PROVE  R!RNext
  <1> DEFINE was    == WantedBy(grpint)
             goes   == {k \in Ifs \ {i} : m \in DOMAIN group /\ Subscribed(m, k, s) /\ ints[k].up}
             msgs   == {msg("data", j, m) : j \in goes}
             takers == {w \in DOMAIN was : w[1] = m /\ w[2] \in ReadyIfs \ {i} /\ w[3] \in {Any, s}}
  <1>1. /\ out' = {p \in msgs : p.ifindex \in dev} /\ UNCHANGED grpint
        /\ dev \subseteq Ifs
    BY DEF l4_ipv6_multicast, sendpacket6, IInv, LoopOK
  <1>2. DOMAIN grpint \subseteq Listed \X Ifs /\ \A p \in DOMAIN grpint : p[1] \in DOMAIN group
    BY DEF IInv, TablesOK, ListsAgree
  <1>3. /\ \A x, j, a : <<x, j, a>> \in DOMAIN was <=> <<x, j>> \in DOMAIN grpint /\ a \in Includes(grpint[<<x, j>>])
        /\ \A w \in DOMAIN was : w = <<w[1], w[2], w[3]>>
    BY <1>2, WishFacts
  <1> HIDE DEF was
  <1>4. Copies' = {<<j, m>> : j \in goes \cap dev}
    <2>1. \A p \in out' : \E j \in goes \cap dev : p.kind = "data" /\ p.ifindex = j /\ p.mca = m
      BY <1>1 DEF msg
    <2>2. ASSUME NEW j \in goes \cap dev
          PROVE  \E p \in out' : p.kind = "data" /\ p.ifindex = j /\ p.mca = m
      <3>1. msg("data", j, m) \in out'
        BY <1>1 DEF msg
      <3> QED BY <3>1 DEF msg
    <2> HIDE DEF goes
    <2> QED BY <2>1, <2>2 DEF Copies
  <1>5. ASSUME NEW j \in goes \cap dev PROVE \E w \in takers : w[2] = j
    <2>1. <<m, j>> \in DOMAIN grpint /\ j \in ReadyIfs \ {i}
      BY DEF Subscribed, ReadyIfs
    <2>2. PICK a \in {Any, s} : a \in Includes(grpint[<<m, j>>])
      BY DEF Subscribed, Includes
    <2>3. <<m, j, a>> \in takers
      BY <1>3, <2>1, <2>2
    <2> QED BY <2>3
  <1>6. ASSUME NEW w \in takers PROVE w[2] \in goes \cap dev
    <2>1. <<m, w[2]>> \in DOMAIN grpint /\ w[3] \in Includes(grpint[<<m, w[2]>>]) /\ w[3] \in {Any, s}
      BY <1>3
    <2>2. m \in DOMAIN group
      BY <1>2, <2>1
    <2>3. Subscribed(m, w[2], s)
      BY <2>1 DEF Subscribed, Includes
    <2>4. w[2] \in dev /\ w[2] # i /\ ints[w[2]].up
      BY DEF ReadyIfs
    <2> QED BY <1>1, <2>2, <2>3, <2>4
  <1> HIDE DEF goes, takers
  <1>7. Copies' = {<<w[2], m>> : w \in takers}
    BY <1>4, <1>5, <1>6
  <1>8. ReadyIfs' \in SUBSET Ifs
    BY DEF ReadyIfs, IInv, LoopOK
  <1>9. WantedBy(grpint)' = WantedBy(grpint)
    BY <1>1 DEF WantedBy, Includes
  <1>10. R!Relay(i, s, m)
    BY <1>7, <1>8, <1>9 DEF R!Relay, takers, was
  <1> QED BY <1>10 DEF R!RNext, Listed

----------------------------------------------------------------------------
(* The refinement.                                                         *)

\* When main enters its loop it remembers no wish and has sent queries only.
LEMMA InitRelay == Init => R!RInit
  <1> SUFFICES ASSUME Init PROVE R!RInit
    OBVIOUS
  <1>1. WantedBy(grpint) = [w \in {} |-> 0]
    <2>1. DOMAIN grpint = {}
      BY DEF Init
    <2>2. UNION {{<<p[1], p[2], a>> : a \in Includes(grpint[p])} : p \in DOMAIN grpint} = {}
      BY <2>1
    <2> QED BY <2>2 DEF WantedBy
  <1>2. ReadyIfs \in SUBSET Ifs
    BY DEF Init, ReadyIfs
  <1>3. Copies = {}
    BY MessagesNoData DEF Init, Copies, NoData
  <1> QED BY <1>1, <1>2, <1>3 DEF R!RInit

\* Every packet that is handled is a step of the relay.
LEMMA ReceiveRelay ==
  ASSUME IInv, IInv', NEW i \in Ifs, Receive(i)
  PROVE  R!RNext
  <1>0. Routable \subseteq Listed /\ TablesOK /\ NoData({})
    BY MessagesNoData DEF Listed, IInv
  <1>1. ASSUME NEW m \in Mca, l4_ipv6_icmpv6_mld1_report(i, m) PROVE R!RNext
    <2> DEFINE gi   == grpint_refresh(grpint_get(m, i), {Any}, "INCLUDE")
               msgs == IF IsNew(m) THEN mld_send_report_all(Versioned(i, 1), grpint', i, m) ELSE {}
    <2>1. m \in Routable /\ grpint' = Put(grpint, <<m, i>>, gi) /\ sendpacket6(Versioned(i, 1), msgs)
      BY <1>1 DEF l4_ipv6_icmpv6_mld1_report, groupint_get
    <2>2. NoData(msgs)
      BY <1>0, MessagesNoData
    <2>3. Renews(grpint_get(m, i), gi)
      BY RefreshRenews
    <2> HIDE DEF gi, msgs
    <2>4. NoData(out')
      BY <2>1, <2>2, SendNoData
    <2> QED BY <1>0, <2>1, <2>3, <2>4, LearnStep
  <1>2. ASSUME NEW m \in Mca, l4_ipv6_icmpv6_mld1_reduction(i, m) PROVE R!RNext
    <2> DEFINE p == <<m, i>>
               gi == Without(grpint[p], {Any})
               ni == IF gi.count <= 0 THEN [gi EXCEPT !.count = -RobustnessFactor] ELSE gi
               msgs == IF gi.count <= 0 THEN mld_send_query(i, m) ELSE {}
    <2>1. /\ m \in Routable /\ p \in DOMAIN grpint /\ Any \in DOMAIN grpint[p].subscriptions
          /\ grpint' = Put(grpint, p, ni) /\ sendpacket6(Versioned(i, 1), msgs)
      BY <1>2 DEF l4_ipv6_icmpv6_mld1_reduction
    <2>2. NoData(msgs)
      BY <1>0, MessagesNoData
    <2>3. grpint_get(m, i) = grpint[p] /\ Counted(grpint[p])
      BY <1>0, <2>1 DEF grpint_get, TablesOK
    <2> HIDE DEF msgs
    <2>4. NoData(out')
      BY <2>1, <2>2, SendNoData
    <2>5. Renews(grpint[p], ni)
      <3>1. ni = gi \/ ni = [gi EXCEPT !.count = -RobustnessFactor]
        OBVIOUS
      <3> HIDE DEF ni, p
      <3> QED BY <2>1, <2>3, <3>1, ReductionRenews
    <2> HIDE DEF ni
    <2> QED BY <1>0, <2>1, <2>3, <2>4, <2>5, LearnStep
  <1>3. ASSUME mld1_ignored(i) \/ (\E recs \in Reports : l4_ipv6_icmpv6_mld2_report(i, recs)) \/ ReceiveOther(i)
        PROVE  R!RNext
    <2>1. out' = {} /\ UNCHANGED grpint
      BY <1>3 DEF mld1_ignored, l4_ipv6_icmpv6_mld2_report, ReceiveOther
    <2> QED BY <1>0, <2>1, QuietStep
  <1>4. ASSUME NEW v \in {1, 2}, l4_ipv6_icmpv6_mld_query(i, v) PROVE R!RNext
    <2> DEFINE I == Versioned(i, v)
               v1 == Mode # "mld2only" /\ (Mode = "mld1only" \/ I[i].mld_version < 2)
               v2 == Mode # "mld1only" /\ (Mode = "mld2only" \/ I[i].mld_version = 2)
               m1 == UNION {mld_send_report(I, grpint, i, m) :
                              m \in {x \in DOMAIN group : <<x, i>> \in DOMAIN grpint}}
               m2 == mld2_send_report(grpint, i, DOMAIN group)
               msgs == CASE v1 -> m1 [] v2 -> m2 [] OTHER -> {}
    <2>1. sendpacket6(I, msgs) /\ UNCHANGED grpint
      BY <1>4 DEF l4_ipv6_icmpv6_mld_query
    <2>2. NoData(m1)
      <3>1. \A m : NoData(mld_send_report(I, grpint, i, m))
        BY SendReportNoData
      <3> HIDE DEF I
      <3> QED BY <3>1 DEF NoData
    <2>3. NoData(m2)
      BY MessagesNoData
    <2> HIDE DEF m1, m2, v1, v2, I
    <2>4. NoData(msgs)
      BY <1>0, <2>2, <2>3
    <2> HIDE DEF msgs
    <2> QED BY <2>1, <2>4, SendNoData, QuietStep
  <1>5. ASSUME NEW s \in Sources, NEW m \in Routable, l4_ipv6_multicast(i, s, m) PROVE R!RNext
    BY <1>5, RelayStep
  <1>6. ASSUME HopLimitExceeded(i) PROVE R!RNext
    <2>1. sendpacket6(Received(i), icmp6_send(i)) /\ UNCHANGED grpint
      BY <1>6 DEF HopLimitExceeded
    <2> QED BY <2>1, MessagesNoData, SendNoData, QuietStep
  <1> QED BY <1>1, <1>2, <1>3, <1>4, <1>5, <1>6 DEF Receive

\* Every record of an MLDv2 report is one, too.
LEMMA GroupRecordRelay ==
  ASSUME IInv, IInv', GroupRecord
  PROVE  R!RNext
  <1> DEFINE i == work.ifindex
             r == Head(work.recs)
             get == grpint_get(r.mca, i)
  <1>0. i \in Ifs /\ NoData({})
    <2>1. pc = "grec"
      BY DEF GroupRecord, GrecApplied, GrecLocal, GrecOverrun, GrecUnknown
    <2> QED BY <2>1, MessagesNoData DEF IInv, LoopOK
  <1>1. ASSUME GrecApplied PROVE R!RNext
    <2> DEFINE gi   == GrecRefresh(get, r)
               msgs == IF IsNew(r.mca) THEN mld_send_report_all(ints, grpint', i, r.mca) ELSE {}
    <2>1. r.mca \in Listed /\ grpint' = Put(grpint, <<r.mca, i>>, gi) /\ sendpacket6(ints, msgs)
      BY <1>1 DEF GrecApplied, groupint_get
    <2>2. NoData(msgs)
      BY <1>0, MessagesNoData
    <2>3. Renews(get, gi)
      BY GrecRenews
    <2> HIDE DEF gi, msgs
    <2>4. NoData(out')
      BY <2>1, <2>2, SendNoData
    <2> HIDE DEF i, r
    <2> QED BY <1>0, <2>1, <2>3, <2>4, LearnStep
  <1>2. ASSUME GrecLocal PROVE R!RNext
    <2> DEFINE msgs == IF work.isnew THEN mld_send_report_all(ints, grpint, i, r.mca) ELSE {}
    <2>1. sendpacket6(ints, msgs) /\ UNCHANGED grpint
      BY <1>2 DEF GrecLocal
    <2>2. NoData(msgs)
      BY <1>0, MessagesNoData
    <2> HIDE DEF msgs
    <2> QED BY <2>1, <2>2, SendNoData, QuietStep
  <1>3. ASSUME GrecOverrun PROVE R!RNext
    <2>1. out' = {}
      BY <1>3 DEF GrecOverrun
    <2>2. CASE r.mca \in Listed
      <3>1. grpint' = Put(grpint, <<r.mca, i>>, get)
        BY <1>3, <2>2 DEF GrecOverrun, groupint_get
      <3>2. Renews(get, get)
        BY DEF Renews
      <3> HIDE DEF i, r
      <3> QED BY <1>0, <2>1, <2>2, <3>1, <3>2, LearnStep
    <2>3. CASE r.mca \notin Listed
      BY <1>0, <1>3, <2>1, <2>3, QuietStep DEF GrecOverrun
    <2> QED BY <2>2, <2>3
  <1>4. ASSUME GrecUnknown PROVE R!RNext
    BY <1>0, <1>4, QuietStep DEF GrecUnknown
  <1> QED BY <1>1, <1>2, <1>3, <1>4 DEF GroupRecord

\* And every other step is, or shows nothing.
LEMMA NextRelay ==
  ASSUME IInv, IInv', [Next]_vars
  PROVE  [R!RNext]_(R!rvars)
  <1>0. NoData({})
    BY MessagesNoData
  <1>1. CASE Check \/ ReceiveOwn \/ \E i \in Ifs : DeviceGone(i) \/ DeviceBack(i)
    <2>1. out' = {} /\ UNCHANGED grpint
      BY <1>1 DEF Check, ReceiveOwn, DeviceGone, DeviceBack
    <2> QED BY <1>0, <2>1, QuietStep
  <1>2. CASE sigusr2
    <2> DEFINE msgs == IF ints[Upstream].up THEN mld2_send_report(grpint, Upstream, DOMAIN group) ELSE {}
    <2>1. sendpacket6(ints, msgs) /\ UNCHANGED grpint
      BY <1>2 DEF sigusr2
    <2>2. NoData(msgs)
      BY <1>0, MessagesNoData
    <2> HIDE DEF msgs
    <2> QED BY <2>1, <2>2, SendNoData, QuietStep
  <1>3. CASE UNCHANGED vars
    BY <1>3 DEF vars, R!rvars, WantedBy, Includes, ReadyIfs, Copies
  <1> QED
    BY <1>1, <1>2, <1>3, ReceiveRelay, GroupRecordRelay, ForgetStep, PassStep
    DEF Next, Step, Traffic, Timeout

\* In every run of the hub a multicast packet is copied to exactly the other
\* links that want it and can be reached; what a link wants changes only by
\* its own messages, one group at a time, and is forgotten exactly when it
\* outlived its lifetime.  The sweep needs the exact counts of HubProofs (a
\* marked interface has no subscription left) and forwarding needs the two
\* levels of lists to agree (a wish is found through its group).
THEOREM RelayImplemented == Safety => ImplementsRelay
  <1>1. Init => R!RInit
    BY InitRelay
  <1>2. IInv /\ IInv' /\ [Next]_vars => [R!RNext]_(R!rvars)
    BY NextRelay
  <1>3. Safety => R!RSpec
    BY <1>1, <1>2, Invariance, PTL DEF Safety, R!RSpec
  <1> QED BY <1>3 DEF ImplementsRelay
=============================================================================
