----------------------------- MODULE MCPciScan -----------------------------
EXTENDS PciScan
\* No device, one with a single function, devices with several, with a gap, one
\* whose function 1 answers although function 0 does not or does not say so, and
\* a bridge to bus 1.
MCKinds ==
    {[functions |-> {}, multi |-> FALSE, behind |-> 0],
     [functions |-> {0}, multi |-> FALSE, behind |-> 0],
     [functions |-> {0, 1}, multi |-> FALSE, behind |-> 0],
     [functions |-> {1}, multi |-> FALSE, behind |-> 0],
     [functions |-> {0, 1, 2}, multi |-> TRUE, behind |-> 0],
     [functions |-> {0, 2}, multi |-> TRUE, behind |-> 0],
     [functions |-> {0}, multi |-> FALSE, behind |-> 1]}

\* A single function and a bridge are enough for what a scan does not do.
MCBridges == {k \in MCKinds : k.functions \subseteq {0}}
=============================================================================
