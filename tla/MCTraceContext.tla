--------------------------- MODULE MCTraceContext ---------------------------
(* A small instance of TraceContext for TLC. *)
EXTENDS TraceContext, TLC

CONSTANTS r1, r2, c1, cron, loop, p1, p2

MCRequest == {r1, r2}
MCConsumer == {c1}
MCCronThread == {cron}
MCLoopThread == {loop}
MCPongThread == {p1, p2}
MCSymmetry == Permutations(MCRequest) \cup Permutations(MCPongThread)

=============================================================================
