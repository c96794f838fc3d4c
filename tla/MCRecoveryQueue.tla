-------------------------- MODULE MCRecoveryQueue --------------------------
(***************************************************************************)
(* Instances of RecoveryQueue for TLC.                                     *)
(***************************************************************************)
EXTENDS RecoveryQueue, TLC

CONSTANTS raw, p1, p2, e1

ProductFamilies == {p1, p2}
BothLanes == {raw, p1}
OneFamily == {p1}
OneError == {e1}

AllDisturbances == {"request", "refresh", "launch", "source", "transient",
    "config", "restart", "busy", "dirty", "crash", "repairCrash",
    "invalidate", "retry", "resume", "expire", "reconfigure", "age", "reboot"}
NoSourceFaults == AllDisturbances \ {"source"}
Unattended == AllDisturbances \ {"invalidate", "retry", "resume", "request"}

FaultAndCrash == {"source", "repairCrash"}
ManualInvalidation == {"invalidate"}

ProductSymmetry == Permutations({p1, p2})
=============================================================================
