-------------------------------- MODULE Desk --------------------------------
(***************************************************************************)
(* Somebody at the web application: signing in, the pages of a tenant, and *)
(* the figures typed into the entry form, while operators run commands and *)
(* others edit the hierarchy.                                              *)
(*                                                                         *)
(*   apps/web/src/routes/**                       pages, loads, actions    *)
(*   services/api/src/app.ts, routes/*.ts         what the API answers     *)
(*   packages/auth/src/middleware.ts, services/api/src/middleware/rbac.ts  *)
(*                                                                         *)
(* A load is one step for each of its awaits that waits for the API.  What *)
(* the transaction of an entry does to the rollups is ManualEntry's.       *)
(***************************************************************************)
EXTENDS Access, Form, Tenancy

CONSTANTS
  Scenes,      \* bound: the tables, commands and visits the run looks at
  NoPost,      \* no submission
  MaxPosts,    \* bound: how often the form is submitted
  EditBudget,  \* bound: edits of the hierarchy
  WebFaults    \* bound: requests lost, sessions expired, statements failed

\* A scene begins with rows that the commands and the routes can have left:
\* addresses in lower case, each of one user, one credential of a user at most, an
\* administrator for each tenant, parents that are rows; and connectors with a form.
ASSUME DeskAssumption ==
  /\ MaxPosts \in Nat
  /\ \A s \in Scenes :
      /\ s.parent \in [Node -> Node \cup {NoNode}]
      /\ s.nodes \subseteq Node /\ s.archived \subseteq s.nodes
      /\ \A n \in s.nodes : s.parent[n] \in s.nodes \cup {NoNode}
      /\ \A i \in DOMAIN s.commands : s.commands[i].email \in DOMAIN Lower
      /\ \A u \in s.tables.users : u.email \in DOMAIN Lower /\ Lower[u.email] = u.email
      /\ \A u, v \in s.tables.users : u.email = v.email => u = v
      /\ \A c \in s.tables.credentials : DOMAIN c = {"id", "user", "password"}
      /\ \A c, d \in s.tables.credentials : c.user = d.user => c = d
      /\ \A t \in s.tables.tenants : \E m \in s.tables.members, u \in s.tables.users :
           m.tenant = t /\ m.role = "network_admin" /\ m.user = u.id
      /\ s.configured \subseteq DOMAIN Methods
      /\ s.period \in Instants \X Instants

\* The forms that are looked at: a value has the type of its leaf; lists are not in a
\* group; a required group requires a leaf of its own, as "period" does.  The form of
\* a connector lists nodes, and what is chosen in a list is one of its options.
ASSUME FormAssumption ==
  /\ "" \notin Node /\ Instants \subseteq Int
  /\ \A s \in Scenes :
      LET form == s.form
          schema == form.schema
      IN  /\ DOMAIN form.fill \subseteq DOMAIN schema.type
          /\ \A p \in DOMAIN schema.type : p \in Seq(STRING)
          /\ \A p \in DOMAIN form.fill :
               /\ Fits(schema.type[p], form.fill[p])
               /\ IsDate(form.fill[p]) => Instant(form.fill[p]) \in Instants
          /\ \A p \in DOMAIN schema.options : Groups(p) = {}
          /\ \A p \in DOMAIN schema.type : \A g \in Groups(p) \cap schema.required :
               \E q \in DOMAIN schema.type \cap schema.required : Groups(q) = Groups(g) \cup {g}
          /\ form.source # Nothing =>
               /\ form.source \in DOMAIN Methods
               /\ schema.options[NodePath] \in Seq(Node)
               /\ schema = EntrySchema(form.source, schema.options[NodePath])
               /\ \A p \in {NodePath, Method} \cap DOMAIN form.fill :
                    \E option \in ToSet(schema.options[p]) : form.fill[p] = Text(option)

VARIABLES
  scene,                     \* what this behaviour is about; never changes
  parent, nodes, archived,   \* hierarchy_node: the rows, and those archived
  session,                   \* the user of the browser's session, or Nothing
  page,                      \* the page shown or loading
  posts,                     \* the submissions of the form
  stored,                    \* metric_record: a connector's figure for a node
  late,                      \* history: submissions that met another one
  written,                   \* history: submissions whose figure was written
  edits, faults              \* the bounded counters

hierarchy == <<parent, nodes, archived>>
entryVars == <<posts, stored, late, written>>
vars == <<tenancyVars, scene, hierarchy, session, page, entryVars, edits, faults>>

Live == nodes \ archived
Hidden == Node \ Live
Post == 1 .. MaxPosts
NoFigure == 0

Fault == faults < WebFaults /\ faults' = faults + 1

\* The sign-in page, or any other one, when it opens.
Blankpage == [at |-> "login", tenant |-> Nothing, role |-> Nothing, many |-> FALSE,
              busy |-> FALSE, error |-> "", node |-> NoNode, listed |-> {}, source |-> Nothing,
              figure |-> Blank, banner |-> NoPost, mine |-> {}]
NotSent == [at |-> "none", tenant |-> Nothing, source |-> Nothing, entry |-> <<>>,
            figure |-> NoFigure, status |-> 0, lost |-> FALSE]

Init ==
  /\ scene \in Scenes
  /\ TenancyInit(scene.commands, scene.tables)
  /\ parent = scene.parent /\ nodes = scene.nodes /\ archived = scene.archived
  /\ session = Nothing
  /\ page = Blankpage
  /\ posts = [n \in Post |-> NotSent]
  /\ stored = [r \in (DOMAIN Methods) \X Node |-> NoFigure]
  /\ late = {} /\ written = {}
  /\ edits = 0 /\ faults = 0

(***************************************************************************)
(* The API's answers.                                                      *)
(***************************************************************************)
\* GET /me
Memberships == {m \in members : m.user = session}

InTenant(t) == {m \in Memberships : m.tenant = t}

\* requireSession, then requireCapability of the tenant in the path.
Status(t, capability) ==
  CASE session = Nothing                                        -> 401
    [] session # Nothing /\ InTenant(t) = {}                    -> 404
    [] \E m \in InTenant(t) : ~Can(m.role, capability)          -> 403
    [] OTHER                                                    -> 200

\* GET metrics/board confines a station manager to the scope.
BoardStatus(t, n) ==
  IF /\ Status(t, "view_dashboard") = 200
     /\ \E m \in InTenant(t) : /\ m.role = "station_manager"
                               /\ ~IsNodeInScope(parent, Hidden, m.scope, n)
  THEN 403 ELSE Status(t, "view_dashboard")

\* POST entries, as far as it answers before it writes, in the order of its checks.
\* The form sends a node of the tenant.
EntryStatus(post) ==
  LET status == Status(post.tenant, "log_manual_entry") IN
  CASE status # 200                         -> status
    [] status = 200 /\ ~Parses(post.source, post.entry) -> 422
    [] /\ status = 200 /\ Parses(post.source, post.entry)
       /\ post.source \notin scene.configured -> 400
    [] /\ status = 200 /\ Parses(post.source, post.entry)
       /\ post.source \in scene.configured
       /\ ~OnePeriod(post.entry)            -> 422
    [] OTHER                                -> 200

(***************************************************************************)
(* Signing in and out.                                                     *)
(***************************************************************************)
Unmoved == UNCHANGED <<tenancyVars, scene, hierarchy, entryVars, edits>>
Shows(next) == page' = next /\ Unmoved
\* What a page keeps of its own goes with it; the layout keeps tenant and role, and
\* whether there is another tenant to switch to.
At(place) == [Blankpage EXCEPT !.at = place, !.tenant = page.tenant, !.role = page.role,
                               !.many = page.many]
Login == Blankpage

\* The button is disabled while an attempt is under way.
SignIn ==
  /\ page.at = "login" /\ ~page.busy /\ scene.email # Nothing
  /\ Shows([page EXCEPT !.busy = TRUE, !.error = ""])
  /\ UNCHANGED <<session, faults>>

\* Better Auth: the user with the address in lower case, one of the user's credentials.
Passwords(email) ==
  {c \in credentials : \E u \in users : u.email = Lower[email] /\ c.user = u.id}

SignedIn ==
  /\ page.at = "login" /\ page.busy
  /\ \E c \in Passwords(scene.email) : c.password = scene.password /\ session' = c.user
  /\ Shows(At("root"))
  /\ UNCHANGED faults

Refused == /\ page.at = "login" /\ page.busy
           /\ \/ Passwords(scene.email) = {}
              \/ \E c \in Passwords(scene.email) : c.password # scene.password

\* A slip: an attempt that fails leaves the button disabled.
SignInRefusedBusy ==
  /\ Refused
  /\ Shows([page EXCEPT !.error = "Sign-in failed"])
  /\ UNCHANGED <<session, faults>>

SignInRefused ==
  /\ Refused
  /\ Shows([page EXCEPT !.busy = FALSE, !.error = "Sign-in failed"])
  /\ UNCHANGED <<session, faults>>

SignInLost ==
  /\ page.at = "login" /\ page.busy
  /\ Fault
  /\ Shows([page EXCEPT !.busy = FALSE, !.error = "Network error"])
  /\ UNCHANGED session

Shown == {"dashboard", "entry", "sources", "source", "hierarchy"}

SignOut ==
  /\ page.at \in Shown /\ ~page.busy
  /\ Shows([page EXCEPT !.busy = TRUE, !.error = ""])
  /\ UNCHANGED <<session, faults>>

\* invalidateAll and goto("/login") lead to the same page.
SignedOut ==
  /\ page.at \in Shown /\ page.busy
  /\ session' = Nothing
  /\ Shows(Login)
  /\ UNCHANGED faults

SignOutFails ==
  /\ page.at \in Shown /\ page.busy
  /\ Fault
  /\ Shows([page EXCEPT !.busy = FALSE, !.error = "Unable to sign out"])
  /\ UNCHANGED session

\* The session ends by itself.
Expire ==
  /\ session # Nothing
  /\ Fault
  /\ session' = Nothing
  /\ UNCHANGED page /\ Unmoved

(***************************************************************************)
(* Loads.  Each leads to its page, to the login or to an error page.       *)
(***************************************************************************)
Loads(next) == Shows(next) /\ UNCHANGED <<session, faults>>
ErrorPage(status) == [At("error") EXCEPT !.error = IF status = 403 THEN "403" ELSE "other"]
Refusal(status) == IF status = 401 THEN Login ELSE ErrorPage(status)

\* Routes the signed-in to their only tenant, or to the choice of one.
LoadRoot ==
  /\ page.at = "root"
  /\ Loads(IF Memberships = {} THEN Login
           ELSE IF Cardinality(Memberships) = 1
           THEN [At("layout") EXCEPT !.tenant = (CHOOSE m \in Memberships : TRUE).tenant]
           ELSE At("selector"))

Select(t) ==
  /\ page.at = "selector" /\ \E m \in Memberships : m.tenant = t
  /\ Loads([At("layout") EXCEPT !.tenant = t])

LoadLayout ==
  /\ page.at = "layout"
  /\ \/ session = Nothing /\ Loads(Login)
     \/ session # Nothing /\ InTenant(page.tenant) = {} /\ Loads(ErrorPage(404))
     \/ \E m \in InTenant(page.tenant) :
          Loads([At("to dashboard") EXCEPT !.role = m.role, !.many = Cardinality(Memberships) > 1])

\* The link to the choice of a tenant.
SwitchTenant == page.at \in Shown /\ ~page.busy /\ page.many /\ Loads(At("root"))

\* The nodes first, then the board of the one that was chosen, if it is still
\* among them, or else of the default.
LoadDashboard ==
  LET status == Status(page.tenant, "view_dashboard")
      nodesOf == IF page.node \in Live THEN {page.node} ELSE DefaultNodes(Live, scene.stations)
  IN
  /\ page.at = "to dashboard"
  /\ \/ status # 200 /\ Loads(Refusal(status))
     \/ status = 200 /\ Live = {} /\ Loads(At("dashboard"))
     \/ /\ status = 200
        /\ \E n \in nodesOf : Loads([At("board") EXCEPT !.node = n, !.listed = Live])

LoadBoard ==
  LET status == BoardStatus(page.tenant, page.node) IN
  /\ page.at = "board"
  /\ Loads(IF status = 200 THEN [page EXCEPT !.at = "dashboard"]
           ELSE [Refusal(status) EXCEPT !.node = page.node])

\* The select of the dashboard: its address with another node.
ChooseNode(n) ==
  /\ page.at = "dashboard" /\ ~page.busy
  /\ n \in page.listed \ {page.node}
  /\ Loads([At("to dashboard") EXCEPT !.node = n])

\* Nodes, sources and source health at once; the first connector is selected.
LoadEntry ==
  LET statuses == {Status(page.tenant, "view_dashboard"),
                   Status(page.tenant, "view_source_health")} IN
  /\ page.at = "to entry"
  /\ IF 401 \in statuses THEN Loads(Login)
     ELSE IF statuses # {200} THEN \E s \in statuses \ {200} : Loads(ErrorPage(s))
     ELSE LET opened == [At("entry") EXCEPT !.listed = Live]
          IN  IF scene.configured = {} THEN Loads(opened)
              ELSE \E s \in scene.configured : Loads([opened EXCEPT !.source = s])

LoadSources ==
  LET status == Status(page.tenant, "view_source_health") IN
  /\ page.at \in {"to sources", "to source"}
  /\ Loads(IF status = 200 THEN At(IF page.at = "to sources" THEN "sources" ELSE "source")
           ELSE Refusal(status))

\* This load alone has no redirect of its own for an expired session; after a
\* form of its page, the layout is loaded anew with it and has one.
LoadHierarchy ==
  LET status == Status(page.tenant, "view_dashboard") IN
  /\ page.at \in {"to hierarchy", "posted"}
  /\ Loads(IF status = 200 THEN [At("hierarchy") EXCEPT !.listed = Live]
           ELSE IF page.at = "posted" THEN Refusal(status) ELSE ErrorPage(status))

LoadOf == [dashboard |-> "to dashboard", entry |-> "to entry", sources |-> "to sources",
           hierarchy |-> "to hierarchy"]

\* A link of the layout, which keeps the role it was loaded with.
Follow(to) ==
  /\ page.at \in Shown /\ ~page.busy
  /\ to \in scene.visits \cap VisibleNavLinks(page.role)
  /\ Loads(At(LoadOf[to]))

OpenSource == page.at = "sources" /\ ~page.busy /\ Loads(At("to source"))

(***************************************************************************)
(* The entry form.                                                         *)
(***************************************************************************)
Choose(s) ==
  /\ page.at = "entry" /\ s \in scene.configured \ {page.source}
  /\ Loads([page EXCEPT !.source = s, !.figure = Blank])

Type(v) ==
  /\ page.at = "entry" /\ page.source # Nothing /\ page.figure # v
  /\ Loads([page EXCEPT !.figure = v])

\* What the form holds: its lists at their first option, a period, the figure.
Schema == EntrySchema(page.source, SetToSeq(page.listed))
Filled == [EmptyForm(Schema) EXCEPT ![StartPath] = Dated(scene.period[1]),
                                    ![EndPath] = Dated(scene.period[2]),
                                    ![Households] = page.figure]

UnderWay == {n \in Post : posts[n].at \in {"sent", "writing"}}
Rivals == {m \in UnderWay : posts[m].source = page.source}

\* handleEntrySubmit; nothing keeps a second submission from being sent.
Submit(n) ==
  /\ page.at = "entry" /\ page.source # Nothing
  /\ posts[n].at = "none" /\ \A m \in 1 .. n - 1 : posts[m].at # "none"
  /\ posts' = [posts EXCEPT ![n] =
       [NotSent EXCEPT !.at = "sent", !.tenant = page.tenant, !.source = page.source,
          !.figure = page.figure.tenths, !.entry = Payload(Schema, Filled)]]
  /\ page' = [page EXCEPT !.mine = @ \cup {n}]
  /\ late' = IF Rivals = {} THEN late ELSE late \cup Rivals \cup {n}
  /\ UNCHANGED <<tenancyVars, scene, hierarchy, session, stored, written, edits, faults>>

Posts(n, post) ==
  /\ posts' = [posts EXCEPT ![n] = post]
  /\ UNCHANGED <<tenancyVars, scene, hierarchy, session, late, edits>>

\* The checks of POST entries.
Check(n) ==
  /\ posts[n].at = "sent"
  /\ LET status == EntryStatus(posts[n])
     IN  Posts(n, [posts[n] EXCEPT !.at = IF status = 200 THEN "writing" ELSE "answer",
                                   !.status = status])
  /\ UNCHANGED <<page, stored, written, faults>>

\* The row the record is kept in; period and method are the same for all posts.
Row(post) == <<post.source, post.entry[NodePath].text>>
Writes(n, value) ==
  /\ posts[n].at = "writing"
  /\ stored' = [stored EXCEPT ![Row(posts[n])] = value]
  /\ written' = written \cup {n}
  /\ Posts(n, [posts[n] EXCEPT !.at = "answer"])
  /\ UNCHANGED <<page, faults>>

\* A slip: ON CONFLICT DO NOTHING.
WriteFirst(n) ==
  LET old == stored[Row(posts[n])]
  IN  Writes(n, IF old = NoFigure THEN posts[n].figure ELSE old)

\* The transaction: ON CONFLICT DO UPDATE.
Write(n) == Writes(n, posts[n].figure)

WriteFails(n) ==
  /\ posts[n].at = "writing"
  /\ Fault
  /\ Posts(n, [posts[n] EXCEPT !.at = "answer", !.status = 500])
  /\ UNCHANGED <<page, stored, written>>

\* The request is given up by the browser, not by the API.
Lose(n) ==
  /\ posts[n].at \in {"sent", "writing", "answer"} /\ ~posts[n].lost
  /\ Fault
  /\ Posts(n, [posts[n] EXCEPT !.lost = TRUE])
  /\ UNCHANGED <<page, stored, written>>

\* The banner of a success; the form that sent it, if it is still there, is emptied.
Saved(n) == [page EXCEPT !.banner = n, !.error = "",
                         !.figure = IF n \in page.mine THEN Blank ELSE @]
Applies(n, next) ==
  /\ posts[n].at = "answer"
  /\ Posts(n, [posts[n] EXCEPT !.at = "done"])
  /\ page' = IF posts[n].lost THEN page ELSE next
  /\ UNCHANGED <<stored, written, faults>>

\* A slip: the page's action does not look at the status.
AnsweredUnread(n) == Applies(n, IF page.at = "entry" THEN Saved(n) ELSE page)

\* The page's action and applyAction: to the login, the error, or the banner.
Answered(n) ==
  Applies(n, IF posts[n].status = 401 THEN IF page.at = "login" THEN page ELSE Login
             ELSE IF page.at # "entry" THEN page
             ELSE IF posts[n].status = 200 THEN Saved(n)
             ELSE [page EXCEPT !.banner = NoPost, !.error = "other"])

(***************************************************************************)
(* The hierarchy, from its page or by others.                              *)
(***************************************************************************)
Edits == /\ edits < EditBudget /\ scene.edited /\ edits' = edits + 1
         /\ UNCHANGED <<tenancyVars, scene, entryVars, session, faults>>

\* What is archived is a node of the tree that is shown, and so is the parent of
\* what is created, unless it is to be a root.
OnPage(chosen) ==
  page.at = "hierarchy" /\ ~page.busy /\ chosen \in page.listed \cup {NoNode}

\* The page's forms are sent as whole pages: what it shows is loaded anew.  A form
\* that is refused, and renaming, leave the rows as they are here.
ByPage(chosen) ==
  /\ OnPage(chosen)
  /\ Status(page.tenant, "edit_hierarchy") = 200
  /\ page' = At("posted")
ByPageOrOthers(chosen) == ByPage(chosen) \/ UNCHANGED page

\* A slug is taken for good, also by an archived node.  The parent is looked up
\* first; archiving it in between leaves the rows that archiving it after leaves.
Create(n, m) ==
  /\ Edits
  /\ n \notin nodes /\ m \in Live \cup {NoNode}
  /\ ByPageOrOthers(m)
  /\ nodes' = nodes \cup {n}
  /\ parent' = [parent EXCEPT ![n] = m]
  /\ UNCHANGED archived

Archive(n) ==
  /\ Edits
  /\ n \in Live
  /\ ByPageOrOthers(n)
  /\ archived' = archived \cup {n}
  /\ UNCHANGED <<parent, nodes>>

\* PATCH with a parent, which the page does not send; any parent will do, also one
\* below the node, and null makes a root.
Reparent(n, m) ==
  /\ Edits
  /\ n \in nodes /\ m \in Live \cup {NoNode} /\ parent[n] # m
  /\ UNCHANGED page
  /\ parent' = [parent EXCEPT ![n] = m]
  /\ UNCHANGED <<nodes, archived>>

-----------------------------------------------------------------------------
Aside == UNCHANGED <<scene, hierarchy, session, page, entryVars, edits, faults>>

Answers ==
  \/ SignedIn \/ SignInRefused \/ SignedOut
  \/ LoadRoot \/ LoadLayout \/ LoadDashboard \/ LoadBoard \/ LoadEntry \/ LoadSources
  \/ LoadHierarchy

AnswersPost(n) == Check(n) \/ Write(n) \/ Answered(n)

Next ==
  \/ TenancyNext /\ Aside
  \/ Answers
  \/ SignIn \/ SignInLost \/ SignOut \/ SignOutFails \/ Expire \/ OpenSource
  \/ SwitchTenant
  \/ \E t \in tenants : Select(t)
  \/ \E to \in DOMAIN NavLinks : Follow(to)
  \/ \E s \in DOMAIN Methods : Choose(s)
  \/ \E v \in scene.figures : Type(v)
  \/ \E n \in Post : Submit(n) \/ AnswersPost(n) \/ WriteFails(n) \/ Lose(n)
  \/ \E n \in Node, m \in Node \cup {NoNode} : Create(n, m) \/ Reparent(n, m)
  \/ \E n \in Node : Archive(n) \/ ChooseNode(n)

Spec == Init /\ [][Next]_vars

\* The web server answers, and the API and the commands go on with what they have
\* begun; these have an end, so that one condition does for all of them.
Work == (\E i \in Command : CommandStep(i) /\ Aside) \/ \E n \in Post : AnswersPost(n)

Fairness == WF_vars(Answers) /\ WF_vars(Work)

FairSpec == Spec /\ Fairness

(***************************************************************************)
(* Properties.                                                             *)
(***************************************************************************)
\* Whatever is archived, moved or put into a circle, the nodes a station manager
\* of some nodes may look at are those whose records the rollups of these nodes
\* add up: the two walks, one up in TypeScript and one down in SQL, agree
\* (hierarchy-scope.ts 53-75, metric-rollup.ts).
ScopeMatchesRollup ==
  \A scope \in (SUBSET Live) \ {{}}, n \in Live :
    IsNodeInScope(parent, Hidden, scope, n)
      <=> \E s \in scope : n \in Subtree(parent, Hidden, s)

\* Of the nodes that an edit leaves live, it takes off the tree of the web
\* application exactly those below a node it moves to a place below itself, or to
\* one that is not on the tree either, as the PATCH route allows: archiving a node
\* brings its children to the top, and no other edit hides any
\* (lib/hierarchy.ts 26-57, routes/hierarchy.ts 70-118 of the API).
Tree == TreeNodes(parent, Live)
TreeKeepsNodes ==
  [][\A n \in Tree \cap Live' :
       n \notin Tree' <=> \E m \in Live :
         /\ parent'[m] # parent[m]
         /\ parent'[m] \in Subtree(parent, Hidden, m) \cup (Live \ Tree)
         /\ n \in Subtree(parent, Hidden, m)]_hierarchy

\* "Entry saved" is shown for no submission that was not written
\* (entry/+page.svelte 56-80, entry/+page.server.ts 95-125).
SavedIsStored == page.banner # NoPost => page.banner \in written

\* Of submissions that did not overlap, the last one written is the one stored,
\* lost answers and failures in between included (entries.ts 107-137).
LastWins ==
  \A n \in written \ late :
    (\A m \in written : m > n => posts[m].source # posts[n].source)
      => stored[Row(posts[n])] = posts[n].figure

\* The API accepts the form of a connector exactly if it is filled as asked: its
\* labels say what is a number and what may stay blank, the API's message that the
\* period has to be one week or one calendar month.  What was left blank is not
\* sent, an empty text does not pass for zero, and what the API finds out with
\* setters is what a calendar says (FormFromSchema.svelte 133-222,
\* manual-freeview.ts, manual-satellite.ts, entries.ts 65-100).
Answer(p) == LET fill == scene.form.fill IN IF p \in DOMAIN fill THEN fill[p] ELSE Blank
RightlyFilled ==
  /\ scene.form.schema.options[NodePath] # <<>>
  /\ IsDate(Answer(StartPath)) /\ IsDate(Answer(EndPath))
  /\ \E g \in {"week", "month"} :
       IsPeriod(Instant(Answer(StartPath)), Instant(Answer(EndPath)), g)
  /\ Answer(Households).tenths > 0 /\ Answer(Households).tenths % 10 = 0
  /\ Answer(BarbWeek) = Blank \/ Answer(BarbWeek).tenths \in {10 * w : w \in 1 .. 53}
  /\ Answer(Document).text \in {"", ReportURL}
  /\ Answer(Notes).text # TooLong

FormPayload ==
  LET form == scene.form
      empty == EmptyForm(form.schema)
  IN  Payload(form.schema, [p \in DOMAIN empty |-> IF p \in DOMAIN form.fill THEN form.fill[p]
                                                                          ELSE empty[p]])

FilledFormAccepted ==
  scene.form.source # Nothing
    => (Accepts(scene.form.source, FormPayload) <=> RightlyFilled)

\* An optional group is sent if and only if its user has put something into it,
\* zero included, and then with everything the schema requires of it, its required
\* groups too (FormFromSchema.svelte 174-222).
GroupSentIffTouched ==
  LET schema == scene.form.schema
      empty  == EmptyForm(schema)
      sent   == DOMAIN FormPayload
      Sent(g) == Below(schema, g) \cap sent # {}
      FilledIn(g) == \E p \in Below(schema, g) \cap DOMAIN scene.form.fill :
                     scene.form.fill[p] # empty[p]
  IN  \A g \in UNION {Groups(p) : p \in DOMAIN schema.type} :
        /\ Sent(g) <=> \A h \in Groups(g) \cup {g} : h \in schema.required \/ FilledIn(h)
        /\ Sent(g) => \A p \in Below(schema, g) \cap schema.required :
             (\A h \in Groups(p) : Sent(h)) => p \in sent

Loading == {"root", "layout", "to dashboard", "board", "to entry", "to sources", "to source",
            "to hierarchy", "posted"}

\* Again and again everything is at rest, whatever the user goes on doing: no page
\* loads or waits, no submission and no command is under way; refused attempts,
\* lost requests and ended sessions included
\* (login/+page.svelte 12-43, the loads, create-tenant.ts, set-password.ts).
AtRest ==
  /\ page.at \notin Loading /\ ~page.busy
  /\ \A n \in Post : posts[n].at \in {"none", "done"}
  /\ \A i \in Command : command[i].at \in Ended
EverythingSettles == []<>AtRest

=============================================================================
