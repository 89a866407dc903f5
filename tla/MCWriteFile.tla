---------------------------- MODULE MCWriteFile ----------------------------
(* WriteFile for TLC: two threads, each with its own process id. *)
EXTENDS WriteFile, TLC
CONSTANTS t1, t2, p1, p2
MCThread == {t1, t2}
MCPid == {p1, p2}
MCPidOf == (t1 :> p1) @@ (t2 :> p2)
MCOffsets == {0, 2}
MCSizes == {2}
=============================================================================
