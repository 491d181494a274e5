---------------------------- MODULE MCRunningMachine ----------------------------
(* Instances of RunningMachine for TLC.                                    *)
EXTENDS RunningMachine
=================================================================================
