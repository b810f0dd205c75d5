------------------------------ MODULE FramePool ------------------------------
(***************************************************************************)
(* What the physical memory manager promises: frames that nobody holds are *)
(* handed out one at a time and come back when their holder frees them.    *)
(* PhysicalFrames implements this module; KernelHeap takes its frames from *)
(* it.                                                                     *)
(***************************************************************************)

CONSTANT Frames     \* every frame that could be managed

VARIABLES
    unused,  \* frames nobody holds
    inUse    \* frames somebody holds

fpVars == <<unused, inUse>>

FPInit == unused = {} /\ inUse = {}

\* Memory is put under management, once.
Manage(S) ==
    /\ unused = {} /\ inUse = {}
    /\ unused' = S
    /\ UNCHANGED inUse

Take(f) ==
    /\ f \in unused
    /\ unused' = unused \ {f}
    /\ inUse' = inUse \cup {f}

Give(f) ==
    /\ f \in inUse
    /\ unused' = unused \cup {f}
    /\ inUse' = inUse \ {f}

FPNext ==
    \/ \E S \in SUBSET Frames : Manage(S)
    \/ \E f \in Frames : Take(f) \/ Give(f)

FPSpec == FPInit /\ [][FPNext]_fpVars

=============================================================================
