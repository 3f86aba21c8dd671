------------------------------- MODULE Access -------------------------------
(***************************************************************************)
(* Who may see what: the roles and their capabilities, the subtree a       *)
(* station manager is confined to, and what the web application makes of   *)
(* the hierarchy it is given.                                              *)
(*                                                                         *)
(*   packages/auth/src/permissions.ts              MATRIX                  *)
(*   services/api/src/lib/hierarchy-scope.ts       areNodesInScope         *)
(*   apps/web/src/routes/[tenant]/+layout.svelte   the navigation          *)
(*   apps/web/src/lib/hierarchy.ts                 the tree                *)
(***************************************************************************)
EXTENDS Hierarchy

(***************************************************************************)
(* Capabilities.                                                           *)
(***************************************************************************)
Role == {"network_admin", "station_manager", "board_viewer", "analyst"}

Viewing == {"view_dashboard", "view_drill_down", "export_pdf"}
Reading == Viewing \cup {"view_records_table", "export_csv", "view_audit_log"}
Working == Reading \cup {"log_manual_entry", "override_metric", "reverse_override",
                         "view_source_health", "trigger_backfill"}
Capability == Working \cup {"manage_connectors", "invite_users", "edit_hierarchy",
                            "change_tenant_settings"}

MATRIX == [network_admin |-> Capability, station_manager |-> Working,
           board_viewer  |-> Viewing,    analyst         |-> Reading]

Can(role, capability) == capability \in MATRIX[role]

\* The links of the tenant's pages and what each asks for.
NavLinks ==
  [dashboard |-> "view_dashboard", entry |-> "log_manual_entry",
   sources   |-> "view_source_health", hierarchy |-> "edit_hierarchy"]

VisibleNavLinks(role) == {to \in DOMAIN NavLinks : Can(role, NavLinks[to])}

(***************************************************************************)
(* areNodesInScope: climb from the node, through nodes that are not        *)
(* archived, until a node of the scope is met.  An empty scope is the      *)
(* whole tenant.                                                           *)
(***************************************************************************)
\* The map of the live nodes to their parents: a cursor it does not find ends the
\* climb.
ById(parent, archived) ==
  [m \in Node |-> IF m \in archived THEN NoNode ELSE parent[m]]

\* A slip: archived nodes are left in the map.
ScopeClimbAll(parent, archived, n) ==
  LET at == Climb(parent, n, Cardinality(Node)) IN  {at[k] : k \in DOMAIN at} \ {NoNode}

\* The nodes the cursor visits, each at most once.
ScopeClimb(parent, archived, n) ==
  LET at == Climb(ById(parent, archived), n, Cardinality(Node))
  IN  {at[k] : k \in DOMAIN at} \ {NoNode}

IsNodeInScope(parent, archived, scope, n) ==
  /\ n \notin archived
  /\ scope = {} \/ scope \cap ScopeClimb(parent, archived, n) # {}

(***************************************************************************)
(* buildHierarchyTree and findDefaultHierarchyNodeId, of the live nodes.   *)
(***************************************************************************)
\* A slip: only a node without a parent is a root.
RootsWithoutParent(parent, live) == {n \in live : parent[n] = NoNode}

Roots(parent, live) == {n \in live : parent[n] \notin live}

\* The nodes that can be reached from the roots, a level at a time.
TreeNodes(parent, live) ==
  LET shown[k \in 0 .. Cardinality(Node)] ==
        IF k = 0 THEN Roots(parent, live)
        ELSE shown[k - 1] \cup {n \in live : parent[n] \in shown[k - 1]}
  IN  shown[Cardinality(Node)]

\* The first station, else the first node; the API lists them in any order.
DefaultNodes(live, stations) == IF live \cap stations # {} THEN live \cap stations ELSE live
=============================================================================
