-------------------------- MODULE MCDeletePipeline --------------------------
(* An instance of DeletePipeline for TLC.                                  *)
EXTENDS DeletePipeline

CONSTANTS c1, c2, k1, k2, u1, u2

TwoCalls   == {c1, c2}
ThreeCalls == {c1, c2}
TwoClosers == {k1, k2}
TwoUsers   == {u1, u2}
=============================================================================
