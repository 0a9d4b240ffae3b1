--------------------------- MODULE MCNetlinkReader ---------------------------
(***************************************************************************)
(* Two callers, two cgroups and two descriptor numbers: enough for both    *)
(* calls to be in flight at once and for a descriptor number to be reused. *)
(***************************************************************************)
EXTENDS NetlinkReader, TLC

CONSTANTS c1, c2, p1, p2

MCCallers == {c1, c2}
MCPaths == {p1, p2}
MCFds == {3, 4}

Symmetry == Permutations(MCCallers) \cup Permutations(MCPaths)

=============================================================================
