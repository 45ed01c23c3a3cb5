--------------------------- MODULE OperationLock ----------------------------
(***************************************************************************)
(* What the busy flags of the dashboard's slideshowOperation slice promise *)
(* its buttons: a lock over the display operations.  One operation takes   *)
(* it when nobody holds it, and whoever holds it gives it up.              *)
(***************************************************************************)
CONSTANT Runs      \* invocations of an operation

VARIABLE holders   \* the operations under way

Init == holders = {}

Acquire == holders = {} /\ \E r \in Runs : holders' = {r}

Release == holders # {} /\ holders' = {}

Next == Acquire \/ Release

Spec == Init /\ [][Next]_holders

FairSpec == Spec /\ WF_holders(Release)

=============================================================================
