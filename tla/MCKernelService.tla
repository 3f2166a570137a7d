--------------------------- MODULE MCKernelService ---------------------------
(* KernelService with three clients: c1 is a main process, c2 its thread.   *)
EXTENDS KernelService

CONSTANTS c1, c2, c3

NoThreads == [m \in {} |-> {}]
OneThread == [m \in {c1} |-> {c2}]
=============================================================================
