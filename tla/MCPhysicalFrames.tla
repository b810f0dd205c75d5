-------------------------- MODULE MCPhysicalFrames --------------------------
(* Instances of PhysicalFrames for TLC. *)
EXTENDS PhysicalFrames

Pool0(start, len) == [start |-> start, len |-> len]

\* Whole frames, a ragged pool of the same frames plus scraps at both ends,
\* and a pool too small to hold a frame.
MCPools == {Pool0(8, 12), Pool0(6, 15), Pool0(9, 5)}
=============================================================================
