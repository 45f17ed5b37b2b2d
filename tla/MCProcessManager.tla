-------------------------- MODULE MCProcessManager --------------------------
(* ProcessManager with a few pids and up to two headless clients. *)
EXTENDS ProcessManager

CONSTANTS p1, p2, p3

ThreePids == {p1, p2, p3}
PidSymmetry == Permutations(Pid)

AllOperations == {"start", "stop", "restart", "status"}
NoFault == {}
=============================================================================
