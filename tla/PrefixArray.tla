----------------------------- MODULE PrefixArray -----------------------------
(***************************************************************************)
(* FdPrefixArray: the domains of nodes at each of a growing number of      *)
(* levels.  A history is the sequence of its levels, level 0 first, and a  *)
(* level the function from the nodes stored in it to their domains.        *)
(***************************************************************************)
EXTENDS Integers, Sequences, FiniteSets

\* update for every node of a level, and finalize_level_zero for the first.
NewHistory(stored) == <<stored>>
AddLevel(h, stored) == Append(h, stored)

MaxLevel(h) == Len(h) - 1

\* The levels up to level that have the node.
StoredAt(h, level, i) == {k \in 1 .. Len(h) : k <= level + 1 /\ i \in DOMAIN h[k]}

\* get_ptr: the last of them, or else no domain.
Has(h, level, i) == StoredAt(h, level, i) # {}
GetPtr(h, level, i) ==
  h[CHOOSE k \in StoredAt(h, level, i) : \A j \in StoredAt(h, level, i) : j <= k][i]

\* changed_nodes: those of the levels after 0, as far as there are levels.
ChangedNodes(h, level) ==
  UNION {DOMAIN h[k] : k \in {j \in 2 .. Len(h) : j <= level + 1}}
=============================================================================
