------------------------------- MODULE PageMap -------------------------------
(***************************************************************************)
(* What page tables promise, with no tables: each directory maps pages to  *)
(* frames.  A step changes the pages it is asked to change, in the         *)
(* directory it is asked to change and in no other, except that the pages  *)
(* of the kernel are the same pages in every directory.  A new directory   *)
(* maps the kernel and nothing else.                                       *)
(*                                                                         *)
(* PageTables implements this module.                                      *)
(***************************************************************************)
CONSTANTS
    Pages,     \* virtual pages
    Shared,    \* the pages of the kernel
    Together,  \* sets of pages that one step may change
    First,     \* the directory the kernel boots with
    BootMap,   \* what it maps
    Unmapped   \* what a page that is not mapped maps to

VARIABLE maps  \* maps[d][v]: what directory d maps page v to

PMInit == maps = [d \in {First} |-> BootMap]

Create(d) ==
    /\ d \notin DOMAIN maps
    /\ maps' = [e \in DOMAIN maps \cup {d} |->
                  IF e # d THEN maps[e]
                  ELSE [v \in Pages |-> IF v \in Shared THEN maps[First][v] ELSE Unmapped]]

\* The pages `some` of directory d change, to anything.
Change(d, some) ==
    /\ DOMAIN maps' = DOMAIN maps
    /\ \A e \in DOMAIN maps, v \in Pages :
          maps'[e][v] = IF v \in some /\ (e = d \/ v \in Shared) THEN maps'[d][v]
                        ELSE maps[e][v]

PMNext ==
    \/ \E d \in DOMAIN maps' : Create(d)
    \/ \E d \in DOMAIN maps, some \in Together : Change(d, some)

PMSpec == PMInit /\ [][PMNext]_maps

=============================================================================
