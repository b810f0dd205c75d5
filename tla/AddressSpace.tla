---------------------------- MODULE AddressSpace ----------------------------
(***************************************************************************)
(* What a region allocator promises its clients, with no data structure:   *)
(* a set of addresses nobody holds, and the extents that have been         *)
(* granted.  A grant is contiguous and is taken out of the addresses       *)
(* nobody holds; a reclaim puts exactly the granted addresses back.        *)
(*                                                                         *)
(* VirtualSpace implements this module, and KernelHeap relies on it for    *)
(* the regions it asks of the virtual memory manager.                      *)
(***************************************************************************)
EXTENDS Naturals

CONSTANTS
    BASE,   \* lowest managed address
    LENGTH  \* number of managed addresses

VARIABLES
    avail,    \* addresses nobody holds
    granted   \* extents [start, size] held by clients

asVars == <<avail, granted>>

Space == BASE .. (BASE + LENGTH - 1)

Extent(start, size) == {a \in Space : start <= a /\ a < start + size}

ASInit ==
    /\ avail = Space
    /\ granted = {}

\* Some contiguous extent of available addresses is handed out.
Grant(start, size) ==
    /\ start + size <= BASE + LENGTH
    /\ Extent(start, size) \subseteq avail
    /\ avail' = avail \ Extent(start, size)
    /\ granted' = granted \cup {[start |-> start, size |-> size]}

\* The holder of a granted extent gives it back.
Reclaim(r) ==
    /\ r \in granted
    /\ avail' = avail \cup Extent(r.start, r.size)
    /\ granted' = granted \ {r}

ASNext ==
    \/ \E start \in BASE .. (BASE + LENGTH), size \in 0 .. LENGTH : Grant(start, size)
    \/ \E r \in granted : Reclaim(r)

ASSpec == ASInit /\ [][ASNext]_asVars

=============================================================================
