----------------------------- MODULE MCHistory -----------------------------
(***************************************************************************)
(* HubHistory for TLC: MLDv1 traffic is enough.                            *)
(***************************************************************************)
EXTENDS HubHistory

NoReports == {}
=============================================================================
