------------------------------ MODULE MCStartup ------------------------------
(***************************************************************************)
(* What kmain does once, in its order (main.cpp:43, 84): it brings memory  *)
(* up and then scans the PCI buses.  initialize_memory returns nothing, so *)
(* that the scan follows whatever came of it.                              *)
(*                                                                         *)
(* The two share no state, so that the inputs of one need not be           *)
(* multiplied by those of the other: either there is a single device, and  *)
(* memory comes up with any image and any of BootInfos and is asked for    *)
(* more, or the boot loader passes nothing and the configuration space is  *)
(* any.                                                                    *)
(***************************************************************************)
EXTENDS MCBootMemory, MCPciScan

SingleDevice ==
    \A at \in DOMAIN devices :
        devices[at].functions = (IF at = <<0, 0>> THEN {0} ELSE {}) /\ devices[at].behind = 0

NothingPassed == info.kind = "none" /\ \A end \in ImageEnds : image <= end

StartupInit ==
    \/ ScanInit /\ SingleDevice /\ Init
    \/ Init /\ NothingPassed /\ ScanInit

\* Memory comes up, and serves requests until the scan begins.
Memory ==
    /\ level = "device"
    /\ Boot \/ (SingleDevice /\ Next)
    /\ UNCHANGED scanVars

Scan == step = "done" /\ ScanNext /\ UNCHANGED vars

StartupSpec ==
    /\ StartupInit /\ [][Memory \/ Scan]_<<vars, scanVars>>
    /\ WF_<<vars, scanVars>>(Boot /\ Memory) /\ WF_<<vars, scanVars>>(Scan)
=============================================================================
