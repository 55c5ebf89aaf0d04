------------------------------ MODULE MCWorker ------------------------------
(* The worker with one run, one cancellation and one event stream.          *)
EXTENDS Worker

CONSTANTS r1, k1, c1

OneRun  == {r1}
OneCall == {k1}
OneSub  == {c1}
=============================================================================
