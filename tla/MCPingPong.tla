----------------------------- MODULE MCPingPong -----------------------------
(* Instances of PingPong: processes that have only their cron job. *)
EXTENDS PingPong

MCJvm == {"a", "b"}
MCThread == {"a1", "b1"}
MCJvmOf == [t \in MCThread |-> IF t = "a1" THEN "a" ELSE "b"]
MCDir == {"/app/file"}
MCDirOf == [j \in MCJvm |-> "/app/file"]
MCMsg == {"Hello"}

=============================================================================
