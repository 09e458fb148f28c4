----------------------------- MODULE HubClaims -----------------------------
(***************************************************************************)
(* What the comments of ecmh say about the hub and the code does not do.   *)
(* Each is violated by a run of its own.                                   *)
(***************************************************************************)
EXTENDS Hub

Subscriberless(m) ==
    \A p \in DOMAIN grpint : p[1] = m => DOMAIN grpint[p].subscriptions = {}

\* ecmh.c:2553: "Timeout all the groups that didn't refresh yet".  A group
\* whose subscriptions all expired keeps an interface with count 0, which the
\* timeout does not take for removable.
UnrefreshedGroupsTimeOut ==
    \A m \in Listed : (<>[]Subscriberless(m)) => []<>(m \notin DOMAIN group)

IsReport(p) == p.kind \in {"report1", "report2"}

\* ecmh.c:1686: "Ignore node and link local multicast addresses".  The stale
\* isnew of the preceding record announces the link-local one all the same.
LocalGroupsIgnored == \A p \in out : IsReport(p) => p.mca \notin Local

\* ecmh.c:1812: "Walk along the list of groups and report all the groups we
\* are subscribed for".  The answer to an MLDv1 querier names the groups that
\* listeners on its own link want and none that the other links want.
QuerierToldWhatIsWanted ==
    [][\A i \in Ifs :
          l4_ipv6_icmpv6_mld_query(i, 1) /\ ints'[i].up /\ ints'[i].mld_version = 1 =>
             \A m \in DOMAIN group : Wanted(grpint, m, i) => msg("report1", i, m) \in out']_vars
=============================================================================
