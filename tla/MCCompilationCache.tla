------------------------ MODULE MCCompilationCache ------------------------
(* Two threads of one process race, a third runs in another process. *)
EXTENDS CompilationCache, TLC

CONSTANTS t1, t2, t3, one, two

MCProcOf == [t \in Threads |-> IF t = t3 THEN "p2" ELSE "p1"]
Interchangeable == Permutations({t1, t2}) \cup Permutations({one, two})
===========================================================================
