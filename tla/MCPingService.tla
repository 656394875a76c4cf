--------------------------- MODULE MCPingService ---------------------------
(* Instance of PingService: two processes that share a directory. *)
EXTENDS PingService

MCJvm == {"a", "b"}
MCDir == {"/app/file"}
MCDirOf == [j \in MCJvm |-> "/app/file"]

(* The first process has its scheduler and one event-loop thread. *)
MCThread == {"a1", "a2", "b1"}
MCJvmOf == [t \in MCThread |-> IF t = "b1" THEN "b" ELSE "a"]

MCMsg == {"Hello", "Bye"}

=============================================================================
