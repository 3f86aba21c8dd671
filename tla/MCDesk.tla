------------------------------- MODULE MCDesk -------------------------------
(***************************************************************************)
(* The scenes of Desk for TLC.                                             *)
(***************************************************************************)
EXTENDS Desk

CONSTANTS n1, n2, n3, alice, bob

\* Two ways to type one address, and another one.
Spellings == [x \in {"ann@tv", "Ann@TV", "bo@tv"} |-> IF x = "bo@tv" THEN x ELSE "ann@tv"]

(***************************************************************************)
(* Periods.                                                                *)
(***************************************************************************)
On(y, m, d) == 24 * UTC(y, m - 1, d)
AWeek == <<On(2026, 4, 6), On(2026, 4, 13)>>
ATuesdayToTuesday == <<On(2026, 4, 7), On(2026, 4, 14)>>

\* Weeks, months of several lengths, and what is nearly one.
Periods ==
  {AWeek, <<On(2023, 12, 25), On(2024, 1, 1)>>,
   <<On(2024, 2, 1), On(2024, 3, 1)>>, <<On(2025, 12, 1), On(2026, 1, 1)>>,
   ATuesdayToTuesday, <<On(2026, 4, 6), On(2026, 4, 12)>>,
   <<On(2026, 4, 6), On(2026, 4, 20)>>, <<On(2026, 4, 13), On(2026, 4, 6)>>,
   <<On(2026, 4, 6) + 12, On(2026, 4, 13) + 12>>, <<On(2024, 2, 1), On(2024, 2, 29)>>,
   <<On(2026, 1, 1), On(2026, 3, 1)>>, <<On(2026, 1, 31), On(2026, 2, 28)>>}
TypedInstants == UNION {{p[1], p[2]} : p \in Periods}

NoForm == [source |-> Nothing, fill |-> <<>>,
           schema |-> [type |-> <<>>, options |-> <<>>, required |-> {}]]
Alone  == [n \in Node |-> NoNode]
Tables0 == [tenants |-> {}, users |-> {}, members |-> {}, credentials |-> {}]

\* Alice with a password and a place in one tenant or two.
Placed(role, scope, slugs) ==
  [tenants |-> slugs, users |-> {NewUser(alice, "ann@tv"), NewUser(bob, "bo@tv")},
   members |-> {[user |-> alice, tenant |-> t, role |-> role, scope |-> scope] : t \in slugs}
                 \cup {[user |-> bob, tenant |-> t, role |-> "network_admin",
                        scope |-> {}] : t \in slugs},
   credentials |-> {[id |-> 0, user |-> alice, password |-> "p"]}]

\* A scene in which nothing happens; the others differ from it.
Quiet ==
  [commands |-> <<>>, tables |-> Tables0, email |-> Nothing, password |-> "p",
   parent |-> Alone, nodes |-> {}, archived |-> {}, stations |-> {}, configured |-> {},
   figures |-> {}, period |-> AWeek, visits |-> {}, edited |-> FALSE, form |-> NoForm]

(***************************************************************************)
(* Trees and forms, to be looked at.                                       *)
(***************************************************************************)
\* All trees of three nodes, and those a node can be added to, all of them edited.
TreeScenes ==
  {[Quiet EXCEPT !.parent = f, !.nodes = N, !.archived = A, !.edited = TRUE] :
     f \in [Node -> Node \cup {NoNode}], N \in {Node, {n1, n2}}, A \in SUBSET Node}
EditedTrees ==
  {s \in TreeScenes : /\ s.archived \subseteq s.nodes
                      /\ \A n \in s.nodes : s.parent[n] \in s.nodes \cup {NoNode}
                      /\ \A n \in Node \ s.nodes : s.parent[n] = NoNode}

DatesTyped ==
  {<<Dated(p[1]), Dated(p[2])>> : p \in Periods}
    \cup {<<Blank, Dated(AWeek[2])>>, <<Dated(AWeek[1]), Blank>>,
          <<Text("no date"), Dated(AWeek[2])>>}

EntryFill(optional, values) ==
  {(StartPath :> d[1]) @@ (EndPath :> d[2]) @@ (Households :> h) @@ (optional :> v) @@ (Notes :> n) :
     d \in DatesTyped, h \in {Blank, Typed(0), Typed(50), Typed(55)}, v \in values,
     n \in {Blank, Text("note"), Text(TooLong)}}
EntryFills ==
  [manual_freeview |-> EntryFill(BarbWeek, {Blank, Typed(0), Typed(100), Typed(105), Typed(540)}),
   manual_satellite |-> EntryFill(Document, {Blank, Text(ReportURL), Text("report")})]
EntryForms ==
  UNION {{[source |-> s, schema |-> EntrySchema(s, ns), fill |-> fill] :
            fill \in EntryFills[s], ns \in {<<>>, <<n1, n2>>}} : s \in DOMAIN Methods}
\* Another option is chosen in both lists than the first.
ChosenForms ==
  {[source |-> s, schema |-> EntrySchema(s, <<n1, n2>>),
    fill |-> (NodePath :> Text(n2)) @@ (Method :> Text(Methods[s][2])) @@ fill] :
     s \in DOMAIN Methods, fill \in EntryFill(Notes, {Text("note")})}

\* A schema as the form's own tests have them: groups in a group, required and not.
Name == <<"name">>
Count == <<"group", "count">>
Flagged == <<"group", "flag">>
Inner == <<"group", "inner", "text">>
InnerCount == <<"group", "inner", "count">>
GroupSchema(required) ==
  [type |-> (Name :> "string") @@ (Count :> "integer") @@ (Flagged :> "boolean")
              @@ (Inner :> "string") @@ (InnerCount :> "number"),
   options |-> <<>>, required |-> {Name, Count, Inner} \cup required]
GroupForms ==
  {[source |-> Nothing, schema |-> GroupSchema(required),
    fill |-> (Count :> c) @@ (Flagged :> f) @@ (Inner :> i) @@ (InnerCount :> k)] :
     required \in SUBSET {<<"group">>, <<"group", "inner">>},
     c \in {Blank, Typed(0), Typed(10)}, f \in {Flag(FALSE), Flag(TRUE)},
     i \in {Blank, Text("x")}, k \in {Blank, Typed(0)}}
FormScenes == {[Quiet EXCEPT !.form = f] : f \in EntryForms \cup ChosenForms \cup GroupForms}

(***************************************************************************)
(* Commands, and somebody who signs in meanwhile.                          *)
(***************************************************************************)
Tenant(slug, email) == [name |-> "create-tenant", slug |-> slug, email |-> email,
                        password |-> Nothing]
Password(email, p)  == [name |-> "set-password", slug |-> Nothing, email |-> email,
                        password |-> p]
CommandScenes ==
  {[Quiet EXCEPT !.commands = c, !.email = "Ann@TV"] :
     c \in {<<Tenant("t1", "Ann@TV"), Tenant(t, e), Password("ann@tv", "p")>> :
              t \in {"t1", "t2"}, e \in DOMAIN Spellings}
           \cup {<<Tenant("t1", "Ann@TV"), Password("ann@tv", "p"), Password("Ann@TV", "q")>>}}
ResetScenes ==
  {[Quiet EXCEPT !.email = "Ann@TV", !.tables = Placed("network_admin", {}, {"t1"}),
                 !.commands = <<Password("Ann@TV", "q"), Password("ann@tv", "p")>>]}

(***************************************************************************)
(* Pages, figures and edits.                                               *)
(***************************************************************************)
Chain == [Alone EXCEPT ![n2] = n1, ![n3] = n2]
VisitScenes ==
  {[Quiet EXCEPT !.email = "Ann@TV", !.tables = Placed(role, scope, slugs), !.parent = Chain, !.nodes = Node,
                 !.stations = S, !.visits = DOMAIN NavLinks] :
     role \in Role, scope \in {{}, {n2}}, slugs \in {{"t1"}, {"t1", "t2"}}, S \in {{}, {n1, n3}}}
EditScenes ==
  {[Quiet EXCEPT !.email = "Ann@TV", !.tables = Placed("network_admin", {}, {"t1"}), !.parent = Chain,
                 !.nodes = {n1, n2}, !.visits = {"hierarchy", "dashboard"}, !.edited = TRUE]}
EntryScene(C, figures) ==
  [Quiet EXCEPT !.email = "Ann@TV", !.tables = Placed("station_manager", {}, {"t1"}),
                !.nodes = {n1}, !.configured = C, !.visits = {"entry"}, !.figures = figures]
EntryScenes == {EntryScene({}, {}), EntryScene(DOMAIN Methods, {Typed(50)}),
                EntryScene({"manual_freeview"}, {Typed(50), Typed(70)}),
                EntryScene({"manual_satellite"}, {Typed(55)}),
                [EntryScene({"manual_freeview"}, {Typed(50)}) EXCEPT !.period = ATuesdayToTuesday]}

AllScenes == EditedTrees \cup FormScenes \cup CommandScenes \cup ResetScenes \cup VisitScenes
               \cup EditScenes \cup EntryScenes
=============================================================================
