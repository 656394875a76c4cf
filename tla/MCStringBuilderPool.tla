------------------------ MODULE MCStringBuilderPool ------------------------
(* Instances of StringBuilderPool: three threads and a pool that is        *)
(* smaller, so that builders are waited for and the fallback is used.      *)
EXTENDS StringBuilderPool

CONSTANTS t1, t2, t3

MCThread == {t1, t2, t3}
MCBuilder == 1 .. 4

=============================================================================
