------------------------------ MODULE MCRunLock ------------------------------
(* RunLock on the processes of RunLock.cfg. *)
EXTENDS RunLock
=============================================================================
