-------------------------- MODULE MCAuditNotifier --------------------------
(* An instance of AuditNotifier for TLC.                                   *)
EXTENDS AuditNotifier

CONSTANTS e1, e2

TwoEvents == {e1, e2}

\* What newAuditNotifier builds when both are configured.
FileAndRemote == <<"file", "remote">>

\* The endpoint, second of FileAndRemote.
Endpoint == {2}
=============================================================================
