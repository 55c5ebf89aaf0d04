---------------------------- MODULE MCRunService ----------------------------
(* Instances of RunService for TLC: one run, at most two cancellations and  *)
(* at most one subscriber.                                                  *)
EXTENDS RunService

CONSTANTS r1, k1, k2, c1

OneRun   == {r1}
NoCalls  == {}
OneCall  == {k1}
TwoCalls == {k1, k2}
NoSubs   == {}
OneSub   == {c1}
=============================================================================
