----------------------------- MODULE HubHistory ----------------------------
(***************************************************************************)
(* The hub with a history variable that no code reads: how long ago a      *)
(* report for a group was really forwarded to the other interfaces, which  *)
(* is what lastforward is documented to hold.                              *)
(***************************************************************************)
EXTENDS Hub

VARIABLE forwarded

hvars == <<vars, forwarded>>

\* The group the step runs mld_send_report_all for.
Forwards(m) ==
    \/ \E i \in Ifs : l4_ipv6_icmpv6_mld1_report(i, m) /\ IsNew(m)
    \/ GrecApplied /\ Head(work.recs).mca = m /\ IsNew(m)
    \/ GrecLocal /\ Head(work.recs).mca = m /\ work.isnew

HInit == Init /\ forwarded = [m \in Mca |-> AgeCap]

HStep == Step /\ forwarded' = [m \in Mca |-> IF Forwards(m) THEN 0 ELSE forwarded[m]]

HTick == Tick /\ forwarded' = [m \in Mca |-> Older(forwarded[m])]

HSpec == HInit /\ [][HStep \/ HTick]_hvars

\* groups.c:97: "Forward it if we haven't done so for quite some time".  A
\* report that groupint_get handles stores the time even when it is not
\* forwarded, so listeners that report often keep the group from ever being
\* announced again.
ForwardedAgain ==
    [][\A i \in Ifs, m \in Mca :
          l4_ipv6_icmpv6_mld1_report(i, m) /\ forwarded[m] >= SubscriptionTimeout
             => forwarded'[m] = 0]_hvars
=============================================================================
