------------------------------- MODULE MCHub -------------------------------
(***************************************************************************)
(* Instances of Hub for TLC: the MLDv2 reports its links can send.         *)
(***************************************************************************)
EXTENDS HubClaims, HubRelay

CONSTANTS g, l, s, u

rec(t, m, S) == [type |-> t, mca |-> m, srcs |-> S, fits |-> TRUE]

cut(m, S) == [type |-> "ALLOW", mca |-> m, srcs |-> S, fits |-> FALSE]

\* Joins and leaves with and without sources, a report without a usable
\* record, and one each that ends in a link-local record, an overrun and an
\* unknown type.
MixedReports ==
    { <<>>,
      <<rec("IS_EX", g, {}), rec("IS_EX", l, {})>>,
      <<rec("TO_IN", g, {})>>,
      <<rec("ALLOW", g, {s}), cut(l, {s})>>,
      <<rec("BLOCK", g, {s}), rec("UNKNOWN", g, {})>>,
      <<cut(g, {s})>> }

\* A source-specific join; the join of any source is left to MLDv1 reports.
SourceReports == { <<rec("ALLOW", g, {s})>> }

\* A join, with a link-local group in the same report.
JoinAndLocal == { <<rec("IS_EX", g, {}), rec("IS_EX", l, {})>> }

\* A join of an address that is not multicast.
UnicastReports == { <<rec("IS_EX", u, {})>> }

NoReports == {}
=============================================================================
