-------------------------- MODULE MCLockContention --------------------------
(* Three processes, one of them with two threads, which share a directory: *)
(* on one host, or in containers that mount the same volume.               *)
EXTENDS LockContention

MCJvm == {"a", "b", "c"}
MCThread == {"a1", "a2", "b1", "c1"}
MCJvmOf == [t \in MCThread |-> CASE t \in {"a1", "a2"} -> "a"
                                 [] t = "b1" -> "b"
                                 [] t = "c1" -> "c"]
MCDir == {"/app/file"}
MCDirOf == [j \in MCJvm |-> "/app/file"]

=============================================================================
