----------------------------- MODULE RequestReply -----------------------------
(***************************************************************************)
(* What the kernel service promises its clients: a request is served once, *)
(* and the call returns only after it was served.  A client may be         *)
(* destroyed at any moment and is then never heard of again.               *)
(***************************************************************************)
CONSTANT Client

VARIABLE phase

Phase == {"idle", "asked", "served", "gone"}

Init == phase = [c \in Client |-> "idle"]

Move(c, from, to) == phase[c] \in from /\ phase' = [phase EXCEPT ![c] = to]

Ask(c)    == Move(c, {"idle"}, "asked")
Serve(c)  == Move(c, {"asked"}, "served")
Return(c) == Move(c, {"served"}, "idle")
Vanish(C) == phase' = [c \in Client |-> IF c \in C THEN "gone" ELSE phase[c]]

Next == \/ \E c \in Client : Ask(c) \/ Serve(c) \/ Return(c)
        \/ \E C \in SUBSET Client : Vanish(C)

Spec == Init /\ [][Next]_phase
=============================================================================
