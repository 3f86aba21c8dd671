------------------------------ MODULE Hierarchy ------------------------------
(***************************************************************************)
(* The two walks over hierarchy_node that the rollups depend on: up the    *)
(* parent chain (getAncestors) and down the subtree (refreshBucket), both  *)
(* in packages/db/src/repositories/metric-rollup.ts.                       *)
(* A tree is a function `parent` from Node to Node or NoNode and a set     *)
(* `archived` of nodes; nothing in the database forbids a cycle.           *)
(***************************************************************************)
EXTENDS Naturals, FiniteSets

CONSTANTS
  Node,      \* the hierarchy nodes of one tenant
  NoNode,    \* the parent of a root
  MaxDepth   \* how far getAncestors climbs (32 in the code)

ASSUME HierarchyAssumption ==
  /\ IsFiniteSet(Node)
  /\ NoNode \notin Node
  /\ MaxDepth \in Nat

\* parent_id, and above "no node" none again.
Above(parent) ==
  [m \in Node \cup {NoNode} |-> IF m = NoNode THEN NoNode ELSE parent[m]]

\* The chain of parents from n, d steps long; NoNode above a root.
Climb(parent, n, d) ==
  LET above == Above(parent)
      at[k \in 0 .. d] == IF k = 0 THEN n ELSE above[at[k - 1]]
  IN  at

\* Slip (never used by a specification): the NULL above the root is listed too.
AncestorsAndNull(parent, n) ==
  LET at == Climb(parent, n, MaxDepth)
  IN  [i \in 1 .. Cardinality({k \in DOMAIN at : at[k] # NoNode}) + 1 |-> at[i - 1]]

\* getAncestors: the node itself first, then its parents, as long as the depth
\* column stays within the bound.  Archived nodes are not filtered.
Ancestors(parent, n) ==
  LET at == Climb(parent, n, MaxDepth)
  IN  [i \in 1 .. Cardinality({k \in DOMAIN at : at[k] # NoNode}) |-> at[i - 1]]

\* The steps that lead from m up to n through nodes that are not archived.
LivePath(parent, archived, m, n) ==
  LET at == Climb(parent, m, Cardinality(Node))
  IN  {k \in DOMAIN at : at[k] = n /\ \A j \in 0 .. k : at[j] \notin archived}

\* The subtree CTE of refreshBucket: empty under an archived node, and cut at
\* every archived child.
Subtree(parent, archived, n) ==
  {m \in Node : LivePath(parent, archived, m, n) # {}}

\* The CTE is a UNION ALL without a depth column: on a cycle it yields rows
\* for ever.  A node has one parent, so only a node of the cycle reaches it.
Endless(parent, archived, n) == \E k \in LivePath(parent, archived, n, n) : k > 0

=============================================================================
