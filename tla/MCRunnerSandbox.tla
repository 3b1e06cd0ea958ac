-------------------------- MODULE MCRunnerSandbox --------------------------
(* An instance of RunnerSandbox for TLC: a manager that finds a container   *)
(* of its crashed predecessor and is asked for one execution. (MCServices   *)
(* checks the safety of two executions.)                                    *)
EXTENDS RunnerSandbox
=============================================================================
