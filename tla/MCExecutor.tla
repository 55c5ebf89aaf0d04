----------------------------- MODULE MCExecutor -----------------------------
(* Instances of Executor for TLC: two or three steps, one of them an         *)
(* operation, one container step with a timeout and one without.            *)
EXTENDS Executor

NoSteps  == {}
StepOne  == {1}
StepTwo  == {2}
=============================================================================
