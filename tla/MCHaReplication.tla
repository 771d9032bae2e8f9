--------------------------- MODULE MCHaReplication ---------------------------
(* The replication path for model checking.  In runs without liveness the  *)
(* view leaves out what neither a guard nor a checked property reads: the   *)
(* slave's last Ack and connection error, its key, and the payload copies   *)
(* it serves.                                                               *)
EXTENDS HaReplication

View == <<masterVars, wmDisk, wm, current_version, current_term, state, pc, push, sconn>>
=============================================================================
