-------------------------------- MODULE MCLimits --------------------------------
(***************************************************************************)
(* RateWindow and Quotas on a small instance.  They share no variable, and *)
(* within Quotas the runs and the documents have none in common either:    *)
(* the run explores each part while the others stay where they began, in   *)
(* place of the product of the three.                                      *)
(***************************************************************************)
EXTENDS RateWindow, Quotas, TLC

VARIABLE part

Init == WindowInit /\ QuotaInit /\ part \in {"window", "documents", "runs"}

OnlyOps(ops) == \A p \in Slots : req'[p].op \in ops \cup {"none"}

Next ==
  /\ UNCHANGED part
  /\ \/ part = "window" /\ WindowNext /\ UNCHANGED quotaVars
     \/ /\ part = "documents" /\ QuotaNext /\ UNCHANGED windowVars
        /\ OnlyOps(Handlers \ RunTypes)
     \/ part = "runs" /\ QuotaNext /\ OnlyOps(RunTypes) /\ UNCHANGED windowVars
Spec == Init /\ [][Next]_<<part, windowVars, quotaVars>>

MCIpLimit == [op \in Ops |-> 2]
MCSessionLimit == [op \in Ops |-> IF op = "create" THEN 0 ELSE 1]
MCPerDay == [m \in Meters |-> IF m = "uploads" THEN 2 ELSE 1]

Symmetry == Permutations(Slots) \cup Permutations(Docs)
=============================================================================
