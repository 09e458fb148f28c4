------------------------------ MODULE HubRelay -----------------------------
(***************************************************************************)
(* The hub implements MulticastRelay: a wish is an including subscription, *)
(* a link is ready while its interface is configured and its device there. *)
(***************************************************************************)
EXTENDS Hub

\* The sources an interface of a group includes.
Includes(gi) == {a \in DOMAIN gi.subscriptions : gi.subscriptions[a].mode = "INCLUDE"}

\* The including subscriptions of a table, as wishes.
WantedBy(tab) ==
    [w \in UNION {{<<p[1], p[2], a>> : a \in Includes(tab[p])} : p \in DOMAIN tab} |->
        tab[<<w[1], w[2]>>].subscriptions[w[3]].refreshtime]

ReadyIfs == {i \in dev : ints[i].up}

Copies == {<<p.ifindex, p.mca>> : p \in {q \in out : q.kind = "data"}}

R == INSTANCE MulticastRelay WITH
        Links <- Ifs, Groups <- Listed,
        want <- WantedBy(grpint), ready <- ReadyIfs, copies <- Copies

\* Over any mix of MLDv1 and MLDv2 messages, malformed reports, timeouts,
\* signals and device losses, a multicast packet is copied to exactly the
\* other ready links with an including subscription for its source or for any
\* source, never back.  As in the code a link that includes any source gets
\* it although it excludes this one, and a wish that lapsed counts until the
\* sweep.  A message of one link (a report, a BLOCK, a reduction) changes the
\* wishes of that link for that group only, and the sweep of timeout() forgets
\* exactly what outlived its lifetime.
ImplementsRelay == R!RSpec
=============================================================================
