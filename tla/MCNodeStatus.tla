---------------------------- MODULE MCNodeStatus ----------------------------
(* One node with two GPUs, and everything the cluster may say of it. *)
EXTENDS NodeStatus

CONSTANTS n1, g1, g2

Listing(ready, count, mig) == [ready |-> ready, count |-> count, mig |-> mig]

MCListings ==
    {Listing(TRUE, 2, FALSE), Listing(TRUE, 0, FALSE), Listing(FALSE, 2, FALSE),
     Listing(TRUE, 2, TRUE)}

MCLoads == {{}, {g1}}
=============================================================================
