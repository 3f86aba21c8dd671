----------------------------- MODULE DeskProofs -----------------------------
(***************************************************************************)
(* What holds of Desk for any number of commands and of submissions, any   *)
(* tree and any set of scenes: no tenant is without an administrator, no   *)
(* person is two users, the last password counts, the scope of a station   *)
(* manager is what his rollups add up, the tree shows what lies below its  *)
(* roots, a banner is true, the figure written last is the one that stays, *)
(* and a form sends what was filled in and what the API accepts.           *)
(***************************************************************************)
EXTENDS Desk, HierarchyProofs, CalendarProofs, FiniteSetTheorems, SequenceTheorems

-----------------------------------------------------------------------------
(***************************************************************************)
(* The commands.                                                           *)
(***************************************************************************)
\* Steps of Desk that are not a command's leave the tables of the commands alone.
LEMMA OnlyCommandsWrite == [Next]_vars => [TenancyNext]_tenancyVars
<1> SUFFICES ASSUME [Next]_vars PROVE TenancyNext \/ UNCHANGED tenancyVars OBVIOUS
<1>1. CASE TenancyNext BY <1>1
<1>2. CASE Answers
  BY <1>2 DEF Answers, SignedIn, SignInRefused, SignedOut, LoadRoot, LoadLayout,
              LoadDashboard, LoadBoard, LoadEntry, LoadSources, LoadHierarchy,
              Loads, Shows, Unmoved
<1>3. CASE \/ SignIn \/ SignInLost \/ SignOut \/ SignOutFails \/ Expire \/ OpenSource
           \/ SwitchTenant
  BY <1>3 DEF SignIn, SignInLost, SignOut, SignOutFails, Expire, OpenSource, SwitchTenant,
              Loads, Shows, Unmoved
<1>4. ASSUME NEW t \in tenants, Select(t) PROVE UNCHANGED tenancyVars
  BY <1>4 DEF Select, Loads, Shows, Unmoved
<1>5. ASSUME NEW to, Follow(to) PROVE UNCHANGED tenancyVars
  BY <1>5 DEF Follow, Loads, Shows, Unmoved
<1>6. ASSUME NEW s, Choose(s) \/ Type(s) PROVE UNCHANGED tenancyVars
  BY <1>6 DEF Choose, Type, Loads, Shows, Unmoved
<1>7. ASSUME NEW n \in Post, Submit(n) \/ AnswersPost(n) \/ WriteFails(n) \/ Lose(n)
      PROVE  UNCHANGED tenancyVars
  BY <1>7 DEF Submit, AnswersPost, Check, Write, Writes, Answered, Applies, WriteFails, Lose,
              Posts
<1>8. ASSUME NEW n, NEW m, Create(n, m) \/ Reparent(n, m) \/ Archive(n) \/ ChooseNode(n)
      PROVE  UNCHANGED tenancyVars
  BY <1>8 DEF Create, Reparent, Archive, ChooseNode, Edits, Loads, Shows, Unmoved
<1>9. CASE UNCHANGED vars BY <1>9 DEF vars
<1>10. QED BY <1>1, <1>2, <1>3, <1>4, <1>5, <1>6, <1>7, <1>8, <1>9 DEF Next

\* What each command keeps while it runs.
CommandsWellFormed ==
  /\ \A i \in Command : cli[i].email \in DOMAIN Lower
  /\ DOMAIN command = Command
  /\ command = [i \in DOMAIN command |-> command[i]]
  /\ \A i \in Command :
       command[i] = [at |-> command[i].at, user |-> command[i].user, fresh |-> command[i].fresh]

\* The user a create-tenant is about to commit a membership for is its own, under
\* an address in lower case, or one of the table.
Prepared ==
  \A i \in Command :
    Creating(i) /\ command[i].at = "commit" =>
      \/ /\ command[i].fresh = {}
         /\ \E u \in users : u.id = command[i].user
      \/ /\ command[i].fresh = {NewUser(i, Lower[cli[i].email])}
         /\ command[i].user = i

Early  == {"start", "insert tenant", "find user", "insert user"}
NoneFreshYet == \A i \in Command : command[i].at \in Early => command[i].fresh = {}

\* No row that is written and not committed has the address of another.
FreshApart ==
  \A i \in Command : HasUser(i) =>
    /\ \A u \in users : u.email # Lower[cli[i].email]
    /\ \A j \in Command \ {i} : HasUser(j) => Lower[cli[j].email] # Lower[cli[i].email]

UsersLower ==
  /\ \A u \in users : u.email \in DOMAIN Lower /\ Lower[u.email] = u.email
  /\ \A u, v \in users : u.email = v.email => u = v

Governed ==
  CommandsWellFormed /\ Prepared /\ NoneFreshYet /\ FreshApart /\ UsersLower /\ TenantHasAdmin

Tasked(i, r) == command' = [command EXCEPT ![i] = r]

\* A step of one command leaves the others' places alone.
LEMMA MovesShape ==
  ASSUME CommandsWellFormed, NEW i \in Command, NEW at, Moves(i, at)
  PROVE  /\ DOMAIN command' = Command
         /\ command' = [j \in DOMAIN command' |-> command'[j]]
         /\ command'[i].at = at
         /\ command'[i].user = command[i].user /\ command'[i].fresh = command[i].fresh
         /\ command'[i] = [at |-> command'[i].at, user |-> command'[i].user,
                           fresh |-> command'[i].fresh]
         /\ \A j \in Command \ {i} : command'[j] = command[j]
BY DEF CommandsWellFormed, Moves

LEMMA GovernedStart == Init => Governed
<1> SUFFICES ASSUME Init PROVE Governed OBVIOUS
<1> USE DEF Init, TenancyInit, Start, Command
<1>1. CommandsWellFormed BY DeskAssumption DEF CommandsWellFormed
<1>2. Prepared /\ NoneFreshYet /\ FreshApart BY DEF Prepared, NoneFreshYet, FreshApart, HasUser
<1>3. UsersLower BY DeskAssumption DEF UsersLower
<1>4. TenantHasAdmin BY DeskAssumption DEF TenantHasAdmin
<1>5. QED BY <1>1, <1>2, <1>3, <1>4 DEF Governed

\* A command that goes on without writing a row, not to its commit.
LEMMA GovernedTask ==
  ASSUME Governed, NEW i \in Command, NEW at, NEW user,
         Tasked(i, [at |-> at, user |-> user, fresh |-> command[i].fresh]),
         at # "commit", command[i].at \in Early \/ at \notin Early,
         UNCHANGED <<cli, tenants, users, members>>
  PROVE  Governed'
<1>1. /\ CommandsWellFormed /\ Prepared /\ NoneFreshYet /\ FreshApart /\ UsersLower
      /\ TenantHasAdmin
  BY DEF Governed
<1>2. /\ DOMAIN command' = Command
      /\ command' = [j \in DOMAIN command' |-> command'[j]]
      /\ command'[i] = [at |-> at, user |-> user, fresh |-> command[i].fresh]
      /\ \A j \in Command \ {i} : command'[j] = command[j]
  BY <1>1 DEF CommandsWellFormed, Tasked
<1>3. Command' = Command /\ cli' = cli /\ users' = users BY DEF Command
<1>4. \A j \in Command : Creating(j)' <=> Creating(j) BY <1>3 DEF Creating
<1>5. command'[i].at = at /\ command'[i].fresh = command[i].fresh BY <1>2
<1>6. CommandsWellFormed' BY <1>1, <1>2, <1>3 DEF CommandsWellFormed
<1>7. Prepared' BY <1>1, <1>2, <1>3, <1>4, <1>5 DEF Prepared
<1>8. NoneFreshYet' BY <1>1, <1>2, <1>3, <1>5 DEF NoneFreshYet, Early
<1>9. FreshApart'
  <2>1. \A j \in Command : HasUser(j)' => HasUser(j) /\ j # i
    BY <1>2, <1>3, <1>4, <1>5 DEF HasUser
  <2>2. QED BY <1>1, <1>3, <2>1 DEF FreshApart
<1>10. UsersLower' /\ TenantHasAdmin' BY <1>1 DEF UsersLower, TenantHasAdmin
<1>11. QED BY <1>6, <1>7, <1>8, <1>9, <1>10 DEF Governed

\* The parts of a record.
LEMMA RecordParts ==
  ASSUME NEW r, NEW at, NEW user, NEW fresh, r = [at |-> at, user |-> user, fresh |-> fresh]
  PROVE  r.at = at /\ r.user = user /\ r.fresh = fresh
OBVIOUS

LEMMA TaskedTwice ==
  ASSUME Governed, NEW i \in Command, NEW at, NEW user,
         command' = [command EXCEPT ![i].at = at, ![i].user = user]
  PROVE  Tasked(i, [at |-> at, user |-> user, fresh |-> command[i].fresh])
<1>1. /\ DOMAIN command = Command /\ command = [j \in DOMAIN command |-> command[j]]
      /\ command[i] = [at |-> command[i].at, user |-> command[i].user,
                       fresh |-> command[i].fresh]
  BY DEF Governed, CommandsWellFormed
<1>2. [[command[i] EXCEPT !.at = at] EXCEPT !.user = user]
        = [at |-> at, user |-> user, fresh |-> command[i].fresh]
  <2> DEFINE r == command[i]
  <2>1. r = [at |-> r.at, user |-> r.user, fresh |-> r.fresh] BY <1>1
  <2> HIDE DEF r
  <2> DEFINE q == [r EXCEPT !.at = at]
  <2>2. q = [at |-> at, user |-> r.user, fresh |-> r.fresh] BY <2>1
  <2> HIDE DEF q
  <2>3. [q EXCEPT !.user = user] = [at |-> at, user |-> user, fresh |-> r.fresh] BY <2>2
  <2>4. QED BY <2>3 DEF q, r
<1>3. DOMAIN command' = Command /\ \A j \in Command \ {i} : command'[j] = command[j]
  BY <1>1
<1>4. command'[i] = [[command[i] EXCEPT !.at = at] EXCEPT !.user = user] BY <1>1
<1>5. QED BY <1>1, <1>2, <1>3, <1>4 DEF Tasked

LEMMA GovernedMove ==
  ASSUME Governed, NEW i \in Command, NEW at, Moves(i, at),
         at # "commit", command[i].at \in Early \/ at \notin Early,
         UNCHANGED <<cli, tenants, users, members>>
  PROVE  Governed'
<1>1. Tasked(i, [at |-> at, user |-> command[i].user, fresh |-> command[i].fresh])
  <2>1. /\ DOMAIN command = Command /\ command = [j \in DOMAIN command |-> command[j]]
        /\ command[i] = [at |-> command[i].at, user |-> command[i].user,
                         fresh |-> command[i].fresh]
    BY DEF Governed, CommandsWellFormed
  <2>2. [command[i] EXCEPT !.at = at]
          = [at |-> at, user |-> command[i].user, fresh |-> command[i].fresh]
    BY <2>1
  <2>3. command' = [command EXCEPT ![i] = [command[i] EXCEPT !.at = at]] BY DEF Moves
  <2>4. QED BY <2>2, <2>3 DEF Tasked
<1>2. QED BY <1>1, GovernedTask

\* A create-tenant gets to its commit, with a user of the table or one of its own
\* whose address is in no row, written or committed.
LEMMA GovernedPrepare ==
  ASSUME Governed, NEW i \in Command, NEW user, NEW fresh,
         Tasked(i, [at |-> "commit", user |-> user, fresh |-> fresh]),
         Creating(i), command[i].at \in {"find user", "insert user"},
         \/ fresh = {} /\ \E u \in users : u.id = user
         \/ /\ fresh = {NewUser(i, Lower[cli[i].email])} /\ user = i
            /\ \A u \in users : u.email # Lower[cli[i].email]
            /\ \A j \in Command \ {i} : HasUser(j) => Lower[cli[j].email] # Lower[cli[i].email],
         UNCHANGED <<cli, tenants, users, members>>
  PROVE  Governed'
<1>1. /\ CommandsWellFormed /\ Prepared /\ NoneFreshYet /\ FreshApart /\ UsersLower
      /\ TenantHasAdmin
  BY DEF Governed
<1>2. /\ DOMAIN command' = Command
      /\ command' = [j \in DOMAIN command' |-> command'[j]]
      /\ command'[i] = [at |-> "commit", user |-> user, fresh |-> fresh]
      /\ \A j \in Command \ {i} : command'[j] = command[j]
  BY <1>1 DEF CommandsWellFormed, Tasked
<1>3. Command' = Command /\ cli' = cli /\ users' = users BY DEF Command
<1>4. \A j \in Command : Creating(j)' <=> Creating(j) BY <1>3 DEF Creating
<1>5. command'[i].at = "commit" /\ command'[i].user = user /\ command'[i].fresh = fresh
  <2> DEFINE r == command'[i]
  <2>1. r = [at |-> "commit", user |-> user, fresh |-> fresh] BY <1>2
  <2> HIDE DEF r
  <2>2. r.at = "commit" /\ r.user = user /\ r.fresh = fresh BY <2>1, RecordParts, Zenon
  <2>3. QED BY <2>2, Zenon DEF r
<1>6. CommandsWellFormed' BY <1>1, <1>2, <1>3 DEF CommandsWellFormed
<1>7. Prepared'
  <2>1. ASSUME NEW j \in Command \ {i}, Creating(j)', command'[j].at = "commit"
        PROVE  \/ /\ command'[j].fresh = {}
                  /\ \E u \in users' : u.id = command'[j].user
               \/ /\ command'[j].fresh = {NewUser(j, Lower[cli'[j].email])}
                  /\ command'[j].user = j
    <3>1. Creating(j) /\ command'[j] = command[j] BY <1>2, <1>3, <1>4, <2>1, Zenon
    <3>2. command[j].at = "commit" BY <2>1, <3>1, Zenon
    <3>3. \/ command[j].fresh = {} /\ \E u \in users : u.id = command[j].user
          \/ /\ command[j].fresh = {NewUser(j, Lower[cli[j].email])}
             /\ command[j].user = j
      BY <1>1, <3>1, <3>2, Zenon DEF Prepared
    <3>4. QED BY <1>3, <3>1, <3>3, Zenon
  <2>2. \/ command'[i].fresh = {} /\ \E u \in users' : u.id = command'[i].user
        \/ /\ command'[i].fresh = {NewUser(i, Lower[cli'[i].email])}
           /\ command'[i].user = i
    BY <1>3, <1>5
  <2>3. QED BY <1>3, <2>1, <2>2 DEF Prepared, NewUser
<1>8. NoneFreshYet' BY <1>1, <1>2, <1>3, <1>5 DEF NoneFreshYet, Early
<1>9. FreshApart'
  <2>1. \A j \in Command \ {i} : HasUser(j)' <=> HasUser(j)
    BY <1>2, <1>3, <1>4 DEF HasUser
  <2>2. HasUser(i)' => fresh # {} BY <1>5 DEF HasUser
  <2>3. QED BY <1>1, <1>3, <2>1, <2>2 DEF FreshApart
<1>10. UsersLower' /\ TenantHasAdmin' BY <1>1 DEF UsersLower, TenantHasAdmin
<1>11. QED BY <1>6, <1>7, <1>8, <1>9, <1>10 DEF Governed

\* The membership and the user become rows together.
LEMMA GovernedCommit ==
  ASSUME Governed, NEW i \in Command, CommitTenant(i)
  PROVE  Governed'
<1>1. /\ CommandsWellFormed /\ Prepared /\ NoneFreshYet /\ FreshApart /\ UsersLower
      /\ TenantHasAdmin
  BY DEF Governed
<1>2. /\ Moves(i, "done") /\ Creating(i) /\ command[i].at = "commit" /\ cli' = cli
      /\ tenants' = tenants \cup {cli[i].slug} /\ users' = users \cup command[i].fresh
      /\ \E m \in members' : m.tenant = cli[i].slug /\ m.role = "network_admin"
                              /\ m.user = command[i].user
      /\ members \subseteq members'
  <2> DEFINE m == [user |-> command[i].user, tenant |-> cli[i].slug,
                   role |-> "network_admin", scope |-> {}]
  <2>1. m.tenant = cli[i].slug /\ m.role = "network_admin" /\ m.user = command[i].user
    OBVIOUS
  <2>2. members' = members \cup {m} BY DEF CommitTenant
  <2> HIDE DEF m
  <2>3. m \in members' /\ members \subseteq members' BY <2>2
  <2>4. QED BY <2>1, <2>3, Zenon DEF CommitTenant
<1>3. /\ DOMAIN command' = Command
      /\ command' = [j \in DOMAIN command' |-> command'[j]]
      /\ command'[i].at = "done"
      /\ command'[i].user = command[i].user /\ command'[i].fresh = command[i].fresh
      /\ command'[i] = [at |-> command'[i].at, user |-> command'[i].user,
                        fresh |-> command'[i].fresh]
      /\ \A j \in Command \ {i} : command'[j] = command[j]
  BY <1>1, <1>2, MovesShape
<1>4. Command' = Command /\ \A j \in Command : Creating(j)' <=> Creating(j)
  BY <1>2 DEF Command, Creating
<1>5. CommandsWellFormed' BY <1>1, <1>2, <1>3, <1>4 DEF CommandsWellFormed
<1>6. Prepared' BY <1>1, <1>2, <1>3, <1>4 DEF Prepared
<1>7. NoneFreshYet' BY <1>1, <1>3, <1>4 DEF NoneFreshYet, Early
<1> DEFINE new == NewUser(i, Lower[cli[i].email])
<1>8. new.email = Lower[cli[i].email] /\ new.id = i BY DEF NewUser
<1>9. \/ command[i].fresh = {} /\ \E u \in users : u.id = command[i].user
      \/ command[i].fresh = {new} /\ command[i].user = i /\ HasUser(i)
  BY <1>1, <1>2 DEF Prepared, HasUser
<1> HIDE DEF new
<1>10. \A u \in users' : u \in users \/ (u = new /\ HasUser(i)) BY <1>2, <1>9
<1>11. FreshApart'
  <2>1. \A j \in Command : HasUser(j)' => HasUser(j) /\ j # i BY <1>3, <1>4 DEF HasUser
  <2>2. QED BY <1>1, <1>2, <1>4, <1>8, <1>10, <2>1 DEF FreshApart
<1>12. UsersLower'
  <2>1. new.email \in DOMAIN Lower /\ Lower[new.email] = new.email
    BY <1>1, <1>8, LowerAssumption DEF CommandsWellFormed
  <2>2. HasUser(i) => \A u \in users : u.email # new.email BY <1>1, <1>8 DEF FreshApart
  <2>3. QED BY <1>1, <1>10, <2>1, <2>2 DEF UsersLower
<1>13. TenantHasAdmin'
  <2>1. \E u \in users' : u.id = command[i].user BY <1>2, <1>8, <1>9
  <2>2. QED BY <1>1, <1>2, <2>1 DEF TenantHasAdmin
<1>14. QED BY <1>5, <1>6, <1>7, <1>11, <1>12, <1>13 DEF Governed

LEMMA GovernedStep == Governed /\ [TenancyNext]_tenancyVars => Governed'
<1> SUFFICES ASSUME Governed, [TenancyNext]_tenancyVars PROVE Governed' OBVIOUS
<1>1. ASSUME NEW i \in Command, FindTenant(i) PROVE Governed'
  BY <1>1, GovernedMove DEF FindTenant, Tables, History, Early
<1>2. ASSUME NEW i \in Command, InsertTenant(i) PROVE Governed'
  BY <1>2, GovernedMove DEF InsertTenant, Tables, History, Early
<1>3. ASSUME NEW i \in Command, FindUser(i) PROVE Governed'
  <2>1. CASE Moves(i, "insert user")
    BY <1>3, <2>1, GovernedMove DEF FindUser, Tables, History, Early
  <2>2. ASSUME NEW u \in Matching(cli[i].email),
               command' = [command EXCEPT ![i].at = "commit", ![i].user = u.id]
        PROVE  Governed'
    <3>1. command[i].fresh = {} BY <1>3 DEF FindUser, Governed, NoneFreshYet, Early
    <3>2. Tasked(i, [at |-> "commit", user |-> u.id, fresh |-> {}])
      BY <2>2, <3>1, TaskedTwice
    <3>3. u \in users BY DEF Matching
    <3>4. QED BY <1>3, <3>2, <3>3, GovernedPrepare DEF FindUser, Tables, History
  <2>3. QED BY <1>3, <2>1, <2>2 DEF FindUser
<1>4. ASSUME NEW i \in Command, InsertUser(i) PROVE Governed'
  <2> DEFINE email == Lower[cli[i].email]
             r == [at |-> "commit", user |-> i, fresh |-> {NewUser(i, email)}]
  <2>1. CASE \E u \in users : u.email = email
    BY <1>4, <2>1, GovernedMove DEF InsertUser, Tables, History, Early
  <2>2. CASE ~ \E u \in users : u.email = email
    <3>1. Tasked(i, r) BY <1>4, <2>2 DEF InsertUser, Tasked
    <3>2. QED BY <1>4, <2>2, <3>1, GovernedPrepare DEF InsertUser, Tables, History
  <2>3. QED BY <2>1, <2>2
<1>5. ASSUME NEW i \in Command, LookUpUser(i) PROVE Governed'
  <2>1. CASE Moves(i, "failed")
    BY <1>5, <2>1, GovernedMove DEF LookUpUser, Tables, Early
  <2>2. ASSUME NEW u, command' = [command EXCEPT ![i].at = "hash", ![i].user = u]
        PROVE  Governed'
    <3>1. Tasked(i, [at |-> "hash", user |-> u, fresh |-> command[i].fresh])
      BY <2>2, TaskedTwice
    <3>2. QED BY <1>5, <3>1, GovernedTask DEF LookUpUser, Tables, Early
  <2>3. QED BY <1>5, <2>1, <2>2 DEF LookUpUser
<1>6. ASSUME NEW i \in Command, FindCredential(i) PROVE Governed'
  BY <1>6, GovernedMove DEF FindCredential, Tables, History, Early
<1>7. ASSUME NEW i \in Command, InsertCredential(i) \/ UpdateCredential(i) PROVE Governed'
  BY <1>7, GovernedMove DEF InsertCredential, UpdateCredential, Early
<1>8. ASSUME NEW i \in Command, Break(i) PROVE Governed'
  BY <1>8, GovernedMove DEF Break, Tables, Early
<1>9. CASE UNCHANGED tenancyVars
  BY <1>9 DEF tenancyVars, Governed, CommandsWellFormed, Prepared, NoneFreshYet, FreshApart,
              UsersLower, TenantHasAdmin, Creating, HasUser, Command
<1>10. QED
  BY <1>1, <1>2, <1>3, <1>4, <1>5, <1>6, <1>7, <1>8, <1>9, GovernedCommit
  DEF TenancyNext, CommandStep

\* However many commands run at the same time, wherever they break off and whatever
\* somebody at the web application does meanwhile, each tenant has an administrator
\* who is a user (create-tenant.ts 30-82).
THEOREM TenantsGoverned == Spec => []TenantHasAdmin
<1>1. Governed => TenantHasAdmin BY DEF Governed
<1>2. QED BY <1>1, GovernedStart, GovernedStep, OnlyCommandsWrite, PTL DEF Spec

\* An address is never two users, however it is spelled (create-tenant.ts 42-60).
THEOREM IdentitiesApart == Spec => []UsersApart
<1>1. Governed => UsersApart BY DEF Governed, UsersLower, UsersApart
<1>2. QED BY <1>1, GovernedStart, GovernedStep, OnlyCommandsWrite, PTL DEF Spec

(***************************************************************************)
(* Passwords.  Of two set-password for one user at the same time one finds *)
(* the other; without such a pair, whoever found no credential is the one  *)
(* to insert it.                                                           *)
(***************************************************************************)
PairsKnown ==
  \A i, j \in Command :
    i # j /\ Busy(i) /\ Busy(j) /\ command[i].user = command[j].user
      => command[i].user \in overlapped

OneCredential ==
  /\ \A c \in credentials : DOMAIN c = {"id", "user", "password"}
  /\ \A c, d \in credentials : c.user = d.user /\ c.user \notin overlapped => c = d

Inserting(i) == Setting(i) /\ command[i].at = "insert"
NoneThere ==
  \A i \in Command :
    Inserting(i) /\ command[i].user \notin overlapped => Credentials(command[i].user) = {}

Keyed == PairsKnown /\ OneCredential /\ NoneThere /\ PasswordIsLast

LEMMA KeyedStart == Init => Keyed
<1> SUFFICES ASSUME Init PROVE Keyed OBVIOUS
<1> USE DEF Init, TenancyInit, Start, Command
<1>1. PairsKnown /\ NoneThere BY DEF PairsKnown, NoneThere, Busy, Inserting
<1>2. OneCredential BY DeskAssumption DEF OneCredential
<1>3. PasswordIsLast BY DEF PasswordIsLast
<1>4. QED BY <1>1, <1>2, <1>3 DEF Keyed

\* A command goes on and writes no credential.
LEMMA KeyedMove ==
  ASSUME Governed, Keyed, NEW i \in Command, CommandsWellFormed',
         \A j \in Command \ {i} : command'[j] = command[j],
         UNCHANGED <<cli, credentials, passwords>>, overlapped \subseteq overlapped',
         Busy(i)' => \/ Busy(i) /\ command'[i].user = command[i].user
                     \/ command'[i].user \in overlapped'
                     \/ \A j \in Command \ {i} : Busy(j) => command[j].user # command'[i].user,
         Inserting(i)' => Credentials(command'[i].user) = {}
  PROVE  Keyed'
<1>1. PairsKnown /\ OneCredential /\ NoneThere /\ PasswordIsLast BY DEF Keyed
<1>2. Command' = Command BY DEF Command
<1>3. \A j \in Command \ {i} : /\ Busy(j)' <=> Busy(j)
                               /\ Inserting(j)' <=> Inserting(j)
                               /\ command'[j].user = command[j].user
  BY DEF Busy, Inserting, Setting
<1>4. PairsKnown'
  <2> SUFFICES ASSUME NEW j \in Command, NEW k \in Command, j # k, Busy(j)', Busy(k)',
                      command'[j].user = command'[k].user
               PROVE  command'[j].user \in overlapped'
    BY <1>2 DEF PairsKnown
  <2> USE DEF Busy, Setting
  <2>1. CASE j # i /\ k # i BY <1>1, <1>3, <2>1 DEF PairsKnown
  <2>2. CASE j = i BY <1>1, <1>3, <2>2 DEF PairsKnown
  <2>3. CASE k = i BY <1>1, <1>3, <2>3 DEF PairsKnown
  <2>4. QED BY <2>1, <2>2, <2>3
<1>5. OneCredential' BY <1>1 DEF OneCredential
<1>6. NoneThere'
  <2> SUFFICES ASSUME NEW j \in Command, Inserting(j)', command'[j].user \notin overlapped'
               PROVE  Credentials(command'[j].user) = {}
    BY <1>2 DEF NoneThere, Credentials
  <2>1. CASE j = i BY <2>1 DEF Inserting, Setting
  <2>2. CASE j # i BY <1>1, <1>3, <2>2 DEF NoneThere, Inserting, Setting
  <2>3. QED BY <2>1, <2>2
<1>7. PasswordIsLast' BY <1>1 DEF PasswordIsLast, Credentials
<1>8. QED BY <1>4, <1>5, <1>6, <1>7 DEF Keyed

\* Moves, where it is the whole of what the command does.
LEMMA KeyedMoves ==
  ASSUME Governed, Keyed, NEW i \in Command, NEW at, Moves(i, at),
         UNCHANGED <<cli, credentials, passwords, overlapped>>,
         Setting(i) /\ at \in {"hash", "insert", "update"} => Busy(i),
         Setting(i) /\ at = "insert" => Credentials(command[i].user) = {}
  PROVE  Keyed'
<1>1. CommandsWellFormed BY DEF Governed
<1>2. /\ DOMAIN command' = Command
      /\ command' = [j \in DOMAIN command' |-> command'[j]]
      /\ command'[i].at = at /\ command'[i].user = command[i].user
      /\ command'[i] = [at |-> command'[i].at, user |-> command'[i].user,
                        fresh |-> command'[i].fresh]
      /\ \A j \in Command \ {i} : command'[j] = command[j]
  BY <1>1, MovesShape
<1>3. Command' = Command /\ (Setting(i)' <=> Setting(i)) BY DEF Command, Setting
<1>4. CommandsWellFormed' BY <1>1, <1>2, <1>3 DEF CommandsWellFormed
<1>5. Busy(i)' => Busy(i) /\ command'[i].user = command[i].user
  BY <1>2, <1>3 DEF Busy
<1>6. Inserting(i)' => Credentials(command'[i].user) = {} BY <1>2, <1>3 DEF Inserting
<1>7. QED BY <1>2, <1>4, <1>5, <1>6, KeyedMove

\* A set-password writes the credential of its user, in place of the one that was there.
LEMMA KeyedWrite ==
  ASSUME Governed, Keyed, NEW i \in Command, Busy(i), Moves(i, "done"), Remembers(i),
         UNCHANGED <<cli, overlapped>>,
         NEW c, DOMAIN c = {"id", "user", "password"},
         c.user = command[i].user, c.password = cli[i].password, NEW old \in SUBSET credentials,
         credentials' = (credentials \ old) \cup {c},
         \A d \in old : d.user = command[i].user,
         command[i].user \notin overlapped => Credentials(command[i].user) \subseteq old
  PROVE  Keyed'
<1> DEFINE u == command[i].user
<1>1. PairsKnown /\ OneCredential /\ NoneThere /\ PasswordIsLast /\ CommandsWellFormed
  BY DEF Keyed, Governed
<1>2. /\ command'[i].at = "done" /\ command'[i].user = command[i].user
      /\ \A j \in Command \ {i} : command'[j] = command[j]
  BY <1>1, MovesShape
<1>3. Command' = Command BY DEF Command
<1>4. /\ ~Busy(i)' /\ ~Inserting(i)'
      /\ \A j \in Command \ {i} : /\ Busy(j)' <=> Busy(j)
                                  /\ Inserting(j)' <=> Inserting(j)
                                  /\ command'[j].user = command[j].user
                                  /\ Inserting(j) => Busy(j)
  <2> USE DEF Busy, Inserting, Setting
  <2>1. ~Busy(i)' /\ ~Inserting(i)' BY <1>2
  <2>2. ASSUME NEW j \in Command \ {i}
        PROVE  /\ Busy(j)' <=> Busy(j)
               /\ Inserting(j)' <=> Inserting(j)
               /\ command'[j].user = command[j].user
               /\ Inserting(j) => Busy(j)
    BY <1>2
  <2>3. QED BY <2>1, <2>2
<1>5. PairsKnown'
  <2> SUFFICES ASSUME NEW j \in Command, NEW k \in Command, j # k, Busy(j)', Busy(k)',
                      command'[j].user = command'[k].user
               PROVE  command'[j].user \in overlapped'
    BY <1>3 DEF PairsKnown
  <2>1. j # i /\ k # i BY <1>4 DEF Busy, Setting
  <2>2. /\ Busy(j) /\ Busy(k) /\ command'[j].user = command[j].user
        /\ command'[k].user = command[k].user
    BY <1>4, <2>1 DEF Busy, Setting
  <2>3. QED BY <1>1, <2>2 DEF PairsKnown
<1> DEFINE Of(v) == {d \in credentials' : d.user = v}
<1>6. \A v : v # u => Of(v) = Credentials(v) BY DEF Credentials
<1>7. u \notin overlapped => Of(u) = {c} BY DEF Credentials
<1>8. OneCredential'
  <2>1. \A d \in credentials' : DOMAIN d = {"id", "user", "password"} BY <1>1 DEF OneCredential
  <2>2. ASSUME NEW d \in credentials', NEW e \in credentials', d.user = e.user,
               d.user \notin overlapped'
        PROVE  d = e
    <3>1. CASE d.user = u
      <4>1. d \in Of(u) /\ e \in Of(u) BY <2>2, <3>1
      <4>2. QED BY <1>7, <2>2, <3>1, <4>1
    <3>2. CASE d.user # u BY <1>1, <2>2, <3>2 DEF OneCredential
    <3>3. QED BY <3>1, <3>2
  <2>3. QED BY <2>1, <2>2 DEF OneCredential
<1>9. NoneThere'
  <2> SUFFICES ASSUME NEW j \in Command, Inserting(j)', command'[j].user \notin overlapped
               PROVE  Of(command'[j].user) = {}
    BY <1>3 DEF NoneThere, Credentials
  <2>1. j # i /\ Inserting(j) /\ Busy(j) /\ command'[j].user = command[j].user
    <3>1. j # i BY <1>4 DEF Inserting, Setting
    <3>2. QED BY <1>4, <3>1 DEF Inserting, Busy, Setting
  <2>2. command[j].user # u BY <1>1, <2>1 DEF PairsKnown
  <2>3. Credentials(command[j].user) = {} BY <1>1, <2>1 DEF NoneThere
  <2>4. QED BY <1>6, <2>1, <2>2, <2>3
<1>10. PasswordIsLast'
  <2> SUFFICES ASSUME NEW v \in DOMAIN passwords' \ overlapped
               PROVE  \E d \in credentials' : Of(v) = {d} /\ d.password = passwords'[v]
    BY DEF PasswordIsLast, Credentials
  <2>1. CASE v = u
    <3>1. c \in credentials' OBVIOUS
    <3>2. passwords'[v] = cli[i].password BY <2>1 DEF Remembers
    <3>3. QED BY <1>7, <2>1, <3>1, <3>2
  <2>2. CASE v # u
    <3>1. v \in DOMAIN passwords /\ passwords'[v] = passwords[v] BY <2>2 DEF Remembers
    <3>2. PICK d \in credentials : Credentials(v) = {d} /\ d.password = passwords[v]
      BY <1>1, <3>1 DEF PasswordIsLast
    <3>3. Of(v) = {d} BY <1>6, <2>2, <3>2
    <3>4. d \in credentials' BY <3>3
    <3>5. QED BY <3>1, <3>2, <3>3, <3>4
  <2>3. QED BY <2>1, <2>2
<1>11. QED BY <1>5, <1>8, <1>9, <1>10 DEF Keyed

LEMMA KeyedStep == Governed /\ Keyed /\ [TenancyNext]_tenancyVars => Keyed'
<1> SUFFICES ASSUME Governed, Keyed, [TenancyNext]_tenancyVars PROVE Keyed' OBVIOUS
<1>1. Governed' BY GovernedStep
<1>2. CommandsWellFormed /\ CommandsWellFormed' BY <1>1 DEF Governed
<1>3. ASSUME NEW i \in Command, FindTenant(i) \/ InsertTenant(i) \/ InsertUser(i) PROVE Keyed'
  <2>1. ~Setting(i) /\ UNCHANGED <<cli, credentials, passwords, overlapped>>
    BY <1>3 DEF FindTenant, InsertTenant, InsertUser, Creating, Setting, Tables, History
  <2>2. \A j \in Command \ {i} : command'[j] = command[j]
    BY <1>2, <1>3 DEF FindTenant, InsertTenant, InsertUser, Moves, CommandsWellFormed
  <2>3. ~Busy(i)' /\ ~Inserting(i)' BY <2>1 DEF Busy, Inserting, Setting
  <2>4. QED BY <1>2, <2>1, <2>2, <2>3, KeyedMove
<1>4. ASSUME NEW i \in Command, FindUser(i) \/ CommitTenant(i) PROVE Keyed'
  <2>1. ~Setting(i) /\ UNCHANGED <<cli, credentials, passwords, overlapped>>
    BY <1>4 DEF FindUser, CommitTenant, Creating, Setting, Tables, History
  <2>2. \A j \in Command \ {i} : command'[j] = command[j]
    BY <1>2, <1>4 DEF FindUser, CommitTenant, Moves, CommandsWellFormed
  <2>3. ~Busy(i)' /\ ~Inserting(i)' BY <2>1 DEF Busy, Inserting, Setting
  <2>4. QED BY <1>2, <2>1, <2>2, <2>3, KeyedMove
<1>5. ASSUME NEW i \in Command, LookUpUser(i) PROVE Keyed'
  <2>1. CASE Moves(i, "failed") /\ UNCHANGED overlapped
    <3>1. UNCHANGED <<cli, credentials, passwords, overlapped>>
      BY <1>5, <2>1 DEF LookUpUser, Tables
    <3>2. QED BY <2>1, <3>1, KeyedMoves
  <2>2. ASSUME NEW u, command' = [command EXCEPT ![i].at = "hash", ![i].user = u],
               overlapped' = IF \E j \in Command \ {i} : Busy(j) /\ command[j].user = u
                             THEN overlapped \cup {u} ELSE overlapped
        PROVE  Keyed'
    <3>1. UNCHANGED <<cli, credentials, passwords>> BY <1>5 DEF LookUpUser, Tables
    <3>2. Tasked(i, [at |-> "hash", user |-> u, fresh |-> command[i].fresh])
      BY <2>2, TaskedTwice
    <3>3. /\ command'[i] = [at |-> "hash", user |-> u, fresh |-> command[i].fresh]
          /\ \A j \in Command \ {i} : command'[j] = command[j]
      BY <1>2, <3>2 DEF Tasked, CommandsWellFormed
    <3>4. command'[i].at = "hash" /\ command'[i].user = u BY <3>3
    <3>5. overlapped \subseteq overlapped' BY <2>2
    <3>6. ~Inserting(i)' BY <3>4 DEF Inserting
    <3>7. \/ u \in overlapped'
          \/ \A j \in Command \ {i} : Busy(j) => command[j].user # u
      BY <2>2
    <3>8. QED BY <1>2, <3>1, <3>3, <3>4, <3>5, <3>6, <3>7, KeyedMove
  <2>3. QED BY <1>5, <2>1, <2>2 DEF LookUpUser
<1>6. ASSUME NEW i \in Command, FindCredential(i) PROVE Keyed'
  <2>1. Busy(i) /\ UNCHANGED <<cli, credentials, passwords, overlapped>>
    BY <1>6 DEF FindCredential, Busy, Tables, History
  <2>2. QED BY <1>6, <2>1, KeyedMoves DEF FindCredential
<1>7. ASSUME NEW i \in Command, InsertCredential(i) PROVE Keyed'
  <2> DEFINE c == [id |-> i, user |-> command[i].user, password |-> cli[i].password]
  <2>1. /\ DOMAIN c = {"id", "user", "password"}
        /\ c.user = command[i].user /\ c.password = cli[i].password
    OBVIOUS
  <2>2. credentials' = credentials \cup {c} BY <1>7 DEF InsertCredential
  <2> HIDE DEF c
  <2>3. PICK old \in SUBSET credentials : old = {} OBVIOUS
  <2>4. credentials' = (credentials \ old) \cup {c} /\ \A d \in old : d.user = command[i].user
    BY <2>2, <2>3
  <2>5. /\ Busy(i) /\ Moves(i, "done") /\ Remembers(i) /\ UNCHANGED <<cli, overlapped>>
        /\ Inserting(i)
    BY <1>7 DEF InsertCredential, Busy, Inserting
  <2>6. command[i].user \notin overlapped => Credentials(command[i].user) \subseteq old
    BY <2>5 DEF Keyed, NoneThere
  <2>7. QED BY <2>1, <2>4, <2>5, <2>6, KeyedWrite
<1>8. ASSUME NEW i \in Command, UpdateCredential(i) PROVE Keyed'
  <2>1. PICK d \in Credentials(command[i].user) :
          credentials' = (credentials \ {d}) \cup {[d EXCEPT !.password = cli[i].password]}
    BY <1>8 DEF UpdateCredential
  <2>2. d \in credentials /\ d.user = command[i].user BY DEF Credentials
  <2>3. DOMAIN d = {"id", "user", "password"} BY <2>2 DEF Keyed, OneCredential
  <2> DEFINE c == [d EXCEPT !.password = cli[i].password]
  <2>4. /\ DOMAIN c = {"id", "user", "password"}
        /\ c.user = command[i].user /\ c.password = cli[i].password
    BY <2>2, <2>3
  <2> HIDE DEF c
  <2>5. PICK old \in SUBSET credentials : old = {d} BY <2>2
  <2>6. credentials' = (credentials \ old) \cup {c} /\ \A e \in old : e.user = command[i].user
    BY <2>1, <2>2, <2>5 DEF c
  <2>7. Busy(i) /\ Moves(i, "done") /\ Remembers(i) /\ UNCHANGED <<cli, overlapped>>
    BY <1>8 DEF UpdateCredential, Busy
  <2>8. command[i].user \notin overlapped => Credentials(command[i].user) \subseteq old
    BY <2>2, <2>5 DEF Keyed, OneCredential, Credentials
  <2>9. QED BY <2>4, <2>6, <2>7, <2>8, KeyedWrite
<1>9. ASSUME NEW i \in Command, Break(i) PROVE Keyed'
  <2>1. UNCHANGED <<cli, credentials, passwords, overlapped>> BY <1>9 DEF Break, Tables
  <2>2. QED BY <1>9, <2>1, KeyedMoves DEF Break
<1>10. CASE UNCHANGED tenancyVars
  BY <1>10 DEF tenancyVars, Keyed, PairsKnown, OneCredential, NoneThere, PasswordIsLast,
               Credentials, Inserting, Busy, Setting, Command
<1>11. QED
  BY <1>3, <1>4, <1>5, <1>6, <1>7, <1>8, <1>9, <1>10 DEF TenancyNext, CommandStep

\* Whatever commands run, overlap and break off, a user for whom no two set-password
\* overlapped has one credential, with the password that was set last
\* (set-password.ts 24-58).
THEOREM LastPasswordHolds == Spec => []PasswordIsLast
<1>1. Keyed => PasswordIsLast BY DEF Keyed
<1>2. QED
  BY <1>1, GovernedStart, GovernedStep, KeyedStart, KeyedStep, OnlyCommandsWrite, PTL DEF Spec

-----------------------------------------------------------------------------
(***************************************************************************)
(* The hierarchy.                                                          *)
(***************************************************************************)
TreeWellFormed ==
  /\ parent \in [Node -> Place] /\ nodes \subseteq Node
  /\ \A n \in nodes : parent[n] \in nodes \cup {NoNode}

LEMMA TreeStart == Init => TreeWellFormed
BY DeskAssumption DEF Init, TreeWellFormed, Place

LEMMA TreeStep == TreeWellFormed /\ [Next]_vars => TreeWellFormed'
<1> SUFFICES ASSUME TreeWellFormed, [Next]_vars PROVE TreeWellFormed' OBVIOUS
<1> USE DEF TreeWellFormed, hierarchy
<1>1. CASE TenancyNext /\ Aside BY <1>1 DEF Aside
<1>2. CASE Answers
  BY <1>2 DEF Answers, SignedIn, SignInRefused, SignedOut, LoadRoot, LoadLayout,
              LoadDashboard, LoadBoard, LoadEntry, LoadSources, LoadHierarchy,
              Loads, Shows, Unmoved
<1>3. CASE \/ SignIn \/ SignInLost \/ SignOut \/ SignOutFails \/ Expire \/ OpenSource
           \/ SwitchTenant
  BY <1>3 DEF SignIn, SignInLost, SignOut, SignOutFails, Expire, OpenSource, SwitchTenant,
              Loads, Shows, Unmoved
<1>4. ASSUME NEW t \in tenants, Select(t) PROVE TreeWellFormed'
  BY <1>4 DEF Select, Loads, Shows, Unmoved
<1>5. ASSUME NEW to, Follow(to) PROVE TreeWellFormed'
  BY <1>5 DEF Follow, Loads, Shows, Unmoved
<1>6. ASSUME NEW s, Choose(s) \/ Type(s) PROVE TreeWellFormed'
  BY <1>6 DEF Choose, Type, Loads, Shows, Unmoved
<1>7. ASSUME NEW n \in Post, Submit(n) \/ AnswersPost(n) \/ WriteFails(n) \/ Lose(n)
      PROVE  TreeWellFormed'
  BY <1>7 DEF Submit, AnswersPost, Check, Write, Writes, Answered, Applies, WriteFails, Lose,
              Posts
<1>8. ASSUME NEW n \in Node, NEW m \in Node \cup {NoNode}, Create(n, m)
      PROVE  TreeWellFormed'
  <2>1. m \in nodes \cup {NoNode} BY <1>8 DEF Create, Live
  <2>2. nodes' = nodes \cup {n} /\ parent' = [parent EXCEPT ![n] = m] BY <1>8 DEF Create
  <2>3. QED BY <2>1, <2>2 DEF Place
<1>9. ASSUME NEW n \in Node, NEW m \in Node \cup {NoNode}, Reparent(n, m)
      PROVE  TreeWellFormed'
  <2>1. m \in nodes \cup {NoNode} BY <1>9 DEF Reparent, Live
  <2>2. nodes' = nodes /\ parent' = [parent EXCEPT ![n] = m] BY <1>9 DEF Reparent
  <2>3. QED BY <2>1, <2>2 DEF Place
<1>10. ASSUME NEW n \in Node, Archive(n) \/ ChooseNode(n) PROVE TreeWellFormed'
  BY <1>10 DEF Archive, ChooseNode, Edits, Loads, Shows, Unmoved
<1>11. CASE UNCHANGED vars BY <1>11 DEF vars
<1>12. QED
  BY <1>1, <1>2, <1>3, <1>4, <1>5, <1>6, <1>7, <1>8, <1>9, <1>10, <1>11 DEF Next

LEMMA TreeKept == Spec => []TreeWellFormed
BY TreeStart, TreeStep, PTL DEF Spec

\* However the tree is edited, circles included, a station manager may look at
\* exactly the nodes whose records the rollups of his nodes add up
\* (hierarchy-scope.ts 53-75, metric-rollup.ts).
THEOREM ScopesMatchRollups == Spec => []ScopeMatchesRollup
<1>1. ASSUME TreeWellFormed PROVE ScopeMatchesRollup
  <2>1. Live \subseteq Node /\ Live = Node \ Hidden BY <1>1 DEF TreeWellFormed, Live, Hidden
  <2>2. QED BY <1>1, <2>1, ScopeIsSubtrees DEF ScopeMatchesRollup, TreeWellFormed
<1>2. QED BY <1>1, TreeKept, PTL

\* The rows of the hierarchy change by its three routes only.
LEMMA OnlyEditsChange ==
  ASSUME [Next]_vars,
         ~\E n \in Node, m \in Place : Create(n, m) \/ Reparent(n, m) \/ Archive(n)
  PROVE  UNCHANGED hierarchy
<1> USE DEF hierarchy
<1>1. CASE TenancyNext /\ Aside BY <1>1 DEF Aside
<1>2. CASE Answers
  BY <1>2 DEF Answers, SignedIn, SignInRefused, SignedOut, LoadRoot, LoadLayout,
              LoadDashboard, LoadBoard, LoadEntry, LoadSources, LoadHierarchy,
              Loads, Shows, Unmoved
<1>3. CASE \/ SignIn \/ SignInLost \/ SignOut \/ SignOutFails \/ Expire \/ OpenSource
           \/ SwitchTenant
  BY <1>3 DEF SignIn, SignInLost, SignOut, SignOutFails, Expire, OpenSource, SwitchTenant,
              Loads, Shows, Unmoved
<1>4. ASSUME NEW x, Select(x) \/ Choose(x) \/ Type(x) \/ ChooseNode(x) \/ Follow(x)
      PROVE  UNCHANGED hierarchy
  BY <1>4 DEF Select, Choose, Type, ChooseNode, Follow, Loads, Shows, Unmoved
<1>5. ASSUME NEW n \in Post, Submit(n) \/ AnswersPost(n) \/ WriteFails(n) \/ Lose(n)
      PROVE  UNCHANGED hierarchy
  BY <1>5 DEF Submit, AnswersPost, Check, Write, Writes, Answered, Applies, WriteFails, Lose,
              Posts
<1>6. CASE UNCHANGED vars BY <1>6 DEF vars
<1>7. NoNode \in Place BY DEF Place
<1>8. QED BY <1>1, <1>2, <1>3, <1>4, <1>5, <1>6, <1>7 DEF Next, Place

Hides(n) ==
  \E m \in Live : /\ parent'[m] # parent[m]
                  /\ parent'[m] \in Subtree(parent, Hidden, m) \cup (Live \ Tree)
                  /\ n \in Subtree(parent, Hidden, m)

LEMMA EditsKeep ==
  ASSUME TreeWellFormed, TreeWellFormed',
         NEW a \in Node, NEW b \in Place, Create(a, b) \/ Reparent(a, b) \/ Archive(a)
  PROVE  \A n \in Tree \cap Live' : n \notin Tree' <=> Hides(n)
<1>1. /\ parent \in [Node -> Place] /\ parent' \in [Node -> Place]
      /\ Live \in SUBSET Node /\ Live' \in SUBSET Node /\ Hidden = Node \ Live
  BY DEF TreeWellFormed, Live, Hidden
<1>2. Tree = TreeNodes(parent, Live) /\ Tree' = TreeNodes(parent', Live') BY DEF Tree
<1>3. CASE Create(a, b)
  <2>1. /\ parent' = [parent EXCEPT ![a] = b] /\ a \notin nodes
        /\ nodes' = nodes \cup {a} /\ archived' = archived
    BY <1>3 DEF Create
  <2>2. Live \subseteq Live' /\ Live' \subseteq Live \cup {a} /\ a \notin Live
    BY <2>1 DEF Live
  <2>3. ASSUME NEW n \in Live
        PROVE  parent'[n] = parent[n] /\ (parent[n] \in Live' => parent[n] \in Live)
    <3>1. n \in nodes /\ n \in Node /\ n # a BY <1>1, <2>2 DEF Live
    <3>2. parent[n] \in nodes \cup {NoNode} BY <3>1 DEF TreeWellFormed
    <3>3. parent[n] # a BY <2>1, <3>2, HierarchyAssumption
    <3>4. QED BY <1>1, <2>1, <2>2, <3>1, <3>3
  <2>4. Tree \subseteq Tree' BY <1>1, <1>2, <2>2, <2>3, ComingHidesNone
  <2>5. QED BY <2>3, <2>4 DEF Hides
<1>4. CASE Archive(a)
  <2>1. parent' = parent /\ nodes' = nodes /\ archived' = archived \cup {a}
    BY <1>4 DEF Archive
  <2>2. Live' \subseteq Live BY <2>1 DEF Live
  <2>3. Tree \cap Live' \subseteq Tree' BY <1>1, <1>2, <2>1, <2>2, GoingHidesNone
  <2>4. QED BY <2>1, <2>3 DEF Hides
<1>5. CASE Reparent(a, b)
  <2>1. /\ parent' = [parent EXCEPT ![a] = b] /\ parent[a] # b
        /\ nodes' = nodes /\ archived' = archived
    BY <1>5 DEF Reparent
  <2>2. Live' = Live BY <2>1 DEF Live
  <2>3. \A m \in Live : parent'[m] # parent[m] <=> m = a BY <1>1, <2>1
  <2>4. parent'[a] = b BY <1>1, <2>1
  <2>5. CASE a \in Live
    <3>1. ASSUME NEW n \in Tree
          PROVE  n \notin TreeNodes([parent EXCEPT ![a] = b], Live)
                   <=> /\ b \in Subtree(parent, Node \ Live, a) \cup (Live \ Tree)
                       /\ n \in Subtree(parent, Node \ Live, a)
      BY <1>1, <1>2, <2>5, MovingHides
    <3>2. Tree' = TreeNodes([parent EXCEPT ![a] = b], Live) BY <1>2, <2>1, <2>2
    <3>3. \A n : Hides(n) <=> /\ b \in Subtree(parent, Hidden, a) \cup (Live \ Tree)
                              /\ n \in Subtree(parent, Hidden, a)
      BY <2>3, <2>4, <2>5 DEF Hides
    <3>4. QED BY <1>1, <3>1, <3>2, <3>3
  <2>6. CASE a \notin Live
    <3>1. \A n \in Live : parent'[n] = parent[n] BY <2>3, <2>6
    <3>2. Tree \subseteq Tree' BY <1>1, <1>2, <2>2, <3>1, ComingHidesNone
    <3>3. QED BY <3>1, <3>2 DEF Hides
  <2>7. QED BY <2>5, <2>6
<1>6. QED BY <1>3, <1>4, <1>5

\* However the hierarchy is edited: of the nodes that an edit leaves live, it takes
\* off the tree of the web application exactly those below a node that it moves below
\* itself or to one that is not on the tree (lib/hierarchy.ts 26-57,
\* routes/hierarchy.ts 70-118).
THEOREM EditsKeepTheTree == Spec => TreeKeepsNodes
<1>1. ASSUME TreeWellFormed, TreeWellFormed', [Next]_vars
      PROVE  [\A n \in Tree \cap Live' :
                n \notin Tree' <=> \E m \in Live :
                  /\ parent'[m] # parent[m]
                  /\ parent'[m] \in Subtree(parent, Hidden, m) \cup (Live \ Tree)
                  /\ n \in Subtree(parent, Hidden, m)]_hierarchy
  <2>1. CASE \E n \in Node, m \in Place : Create(n, m) \/ Reparent(n, m) \/ Archive(n)
    BY <1>1, <2>1, EditsKeep DEF Hides
  <2>2. CASE ~\E n \in Node, m \in Place : Create(n, m) \/ Reparent(n, m) \/ Archive(n)
    BY <1>1, <2>2, OnlyEditsChange
  <2>3. QED BY <2>1, <2>2
<1>2. QED BY <1>1, TreeKept, PTL DEF Spec, TreeKeepsNodes

-----------------------------------------------------------------------------
(***************************************************************************)
(* The banner.  An answer of 200 is given after the figure was written, or *)
(* never; and only such an answer puts a submission into the banner.       *)
(***************************************************************************)
PageFields == {"at", "tenant", "role", "many", "busy", "error", "node", "listed", "source",
               "figure", "banner", "mine"}
PostFields == {"at", "tenant", "source", "entry", "figure", "status", "lost"}
Whole ==
  /\ page = [f \in PageFields |-> page[f]]
  /\ posts = [n \in Post |-> posts[n]]
  /\ \A n \in Post : posts[n] = [f \in PostFields |-> posts[n][f]]

AnswersAreTrue ==
  \A n \in Post : posts[n].at \in {"answer", "done"} /\ posts[n].status = 200 => n \in written

Honest == Whole /\ AnswersAreTrue /\ SavedIsStored

\* A page that keeps its banner or drops it, lists what it listed, the live nodes or
\* none, and offers the connector it offered, a configured one or none.
Turns(next) ==
  /\ next = [f \in PageFields |-> next[f]]
  /\ next.banner \in {page.banner, NoPost}
  /\ next.listed \in {page.listed, Live, {}}
  /\ next.source \in {page.source, Nothing} \cup scene.configured

LEMMA OtherPages ==
  ASSUME Whole
  PROVE  /\ Turns(page) /\ Turns(Blankpage) /\ Turns(Login)
         /\ \A place : Turns(At(place))
         /\ \A status : Turns(ErrorPage(status)) /\ Turns(Refusal(status))
<1>1. Turns(page) BY DEF Whole, Turns, Blankpage, PageFields
<1>2. Turns(Blankpage) BY DEF Turns, Blankpage, PageFields
<1>3. ASSUME NEW place PROVE Turns(At(place)) BY DEF Turns, At, Blankpage, PageFields
<1>4. ASSUME NEW status PROVE Turns(ErrorPage(status)) /\ Turns(Refusal(status))
  <2>1. Turns(ErrorPage(status)) BY DEF Turns, ErrorPage, At, Blankpage, PageFields
  <2>2. QED BY <1>2, <2>1 DEF Refusal, Login
<1>5. QED BY <1>1, <1>2, <1>3, <1>4 DEF Login

LEMMA ScenesStay == [Next]_vars => scene' = scene
<1> SUFFICES ASSUME [Next]_vars PROVE scene' = scene OBVIOUS
<1>1. CASE TenancyNext /\ Aside BY <1>1 DEF Aside
<1>2. CASE Answers
  BY <1>2 DEF Answers, SignedIn, SignInRefused, SignedOut, LoadRoot, LoadLayout,
              LoadDashboard, LoadBoard, LoadEntry, LoadSources, LoadHierarchy,
              Loads, Shows, Unmoved
<1>3. CASE \/ SignIn \/ SignInLost \/ SignOut \/ SignOutFails \/ Expire \/ OpenSource
           \/ SwitchTenant
  BY <1>3 DEF SignIn, SignInLost, SignOut, SignOutFails, Expire, OpenSource, SwitchTenant,
              Loads, Shows, Unmoved
<1>4. ASSUME NEW x, Select(x) \/ Choose(x) \/ Type(x) \/ ChooseNode(x) \/ Follow(x)
      PROVE  scene' = scene
  BY <1>4 DEF Select, Choose, Type, ChooseNode, Follow, Loads, Shows, Unmoved
<1>5. ASSUME NEW n \in Post, Submit(n) \/ AnswersPost(n) \/ WriteFails(n) \/ Lose(n)
      PROVE  scene' = scene
  BY <1>5 DEF Submit, AnswersPost, Check, Write, Writes, Answered, Applies, WriteFails, Lose,
              Posts
<1>6. ASSUME NEW n, NEW m, Create(n, m) \/ Reparent(n, m) \/ Archive(n)
      PROVE  scene' = scene
  BY <1>6 DEF Create, Reparent, Archive, Edits
<1>7. CASE UNCHANGED vars BY <1>7 DEF vars
<1>8. QED BY <1>1, <1>2, <1>3, <1>4, <1>5, <1>6, <1>7 DEF Next

\* A step of the browser or of the hierarchy routes.
LEMMA PageStep ==
  ASSUME Whole, [Next]_vars,
         ~\E n \in Post : Submit(n) \/ AnswersPost(n) \/ WriteFails(n) \/ Lose(n)
  PROVE  Turns(page') /\ UNCHANGED entryVars
<1> DEFINE Goal == Turns(page') /\ UNCHANGED entryVars
<1> USE DEF Loads, Shows, Unmoved, entryVars
<1>1. CASE TenancyNext /\ Aside BY <1>1, OtherPages DEF Aside
<1>2. CASE SignIn \/ SignInLost \/ SignOut \/ SignOutFails
  <2>1. \E x, y : page' = [page EXCEPT !.busy = x, !.error = y]
    BY <1>2 DEF SignIn, SignInLost, SignOut, SignOutFails
  <2>2. Turns(page') BY <2>1 DEF Whole, Turns, PageFields
  <2>3. QED BY <1>2, <2>2 DEF SignIn, SignInLost, SignOut, SignOutFails
<1>3. CASE SignedIn \/ SignInRefused \/ SignedOut \/ Expire
  <2>1. CASE SignInRefused
    <3>1. Turns(page') BY <2>1 DEF SignInRefused, Whole, Turns, PageFields
    <3>2. QED BY <2>1, <3>1 DEF SignInRefused
  <2>2. CASE SignedIn
    <3>1. page' = At("root") BY <2>2 DEF SignedIn
    <3>2. QED BY <2>2, <3>1, OtherPages DEF SignedIn
  <2>3. CASE SignedOut
    <3>1. page' = Login BY <2>3 DEF SignedOut
    <3>2. QED BY <2>3, <3>1, OtherPages DEF SignedOut
  <2>4. CASE Expire BY <2>4, OtherPages DEF Expire
  <2>5. QED BY <1>3, <2>1, <2>2, <2>3, <2>4
\* A load leads to a page that is opened, perhaps with some of its fields filled.
<1>4. ASSUME \/ \E p, x : page' = [At(p) EXCEPT !.tenant = x]
             \/ \E p, x, y : page' = [At(p) EXCEPT !.role = x, !.many = y]
             \/ \E p, x : page' = [At(p) EXCEPT !.node = x, !.listed = Live]
             \/ \E p, x : page' = [At(p) EXCEPT !.node = x]
             \/ \E p : page' = [At(p) EXCEPT !.listed = Live]
             \/ \E p, y : /\ y \in scene.configured
                        /\ page' = [[At(p) EXCEPT !.listed = Live] EXCEPT !.source = y]
             \/ \E x, y : x \in scene.configured /\ page' = [page EXCEPT !.source = x, !.figure = y]
             \/ \E x : page' = [page EXCEPT !.figure = x]
      PROVE  Turns(page')
  <2>1. CASE \E p, x : page' = [At(p) EXCEPT !.tenant = x]
    BY <2>1 DEF Turns, At, Blankpage, PageFields
  <2>2. CASE \E p, x, y : page' = [At(p) EXCEPT !.role = x, !.many = y]
    BY <2>2 DEF Turns, At, Blankpage, PageFields
  <2>3. CASE \E p, x : page' = [At(p) EXCEPT !.node = x, !.listed = Live]
    BY <2>3 DEF Turns, At, Blankpage, PageFields
  <2>4. CASE \E p, x : page' = [At(p) EXCEPT !.node = x]
    BY <2>4 DEF Turns, At, Blankpage, PageFields
  <2>5. CASE \E p : page' = [At(p) EXCEPT !.listed = Live]
    BY <2>5 DEF Turns, At, Blankpage, PageFields
  <2>6. CASE \E p, y : /\ y \in scene.configured
                        /\ page' = [[At(p) EXCEPT !.listed = Live] EXCEPT !.source = y]
    BY <2>6 DEF Turns, At, Blankpage, PageFields
  <2>7. CASE \E x, y : x \in scene.configured /\ page' = [page EXCEPT !.source = x, !.figure = y]
    BY <2>7 DEF Turns, Whole, PageFields
  <2>8. CASE \E x : page' = [page EXCEPT !.figure = x]
    BY <2>8 DEF Turns, Whole, PageFields
  <2>9. QED
    BY <1>4, <2>1, <2>2, <2>3, <2>4, <2>5, <2>6, <2>7, <2>8
<1>5. CASE LoadRoot \/ SwitchTenant \/ OpenSource
  <2>1. \/ page' = Login
        \/ \E p : page' = At(p)
        \/ \E p, x : page' = [At(p) EXCEPT !.tenant = x]
    BY <1>5 DEF LoadRoot, SwitchTenant, OpenSource
  <2>2. Turns(page') BY <1>4, <2>1, OtherPages
  <2>3. QED BY <1>5, <2>2 DEF LoadRoot, SwitchTenant, OpenSource
<1>6. CASE LoadLayout
  <2>1. \/ page' = Login \/ page' = ErrorPage(404)
        \/ \E x, y : page' = [At("to dashboard") EXCEPT !.role = x, !.many = y]
    BY <1>6 DEF LoadLayout
  <2>2. Turns(page')
    <3>1. CASE \E x, y : page' = [At("to dashboard") EXCEPT !.role = x, !.many = y]
      BY <1>4, <3>1
    <3>2. QED BY <2>1, <3>1, OtherPages
  <2>3. QED BY <1>6, <2>2 DEF LoadLayout
<1>7. CASE LoadDashboard
  <2>1. \/ \E x : page' = Refusal(x)
        \/ \E p : page' = At(p)
        \/ \E n : page' = [At("board") EXCEPT !.node = n, !.listed = Live]
    BY <1>7 DEF LoadDashboard
  <2>2. Turns(page') BY <1>4, <2>1, OtherPages
  <2>3. QED BY <1>7, <2>2 DEF LoadDashboard
<1>8. CASE LoadBoard
  <2> DEFINE status == BoardStatus(page.tenant, page.node)
  <2>0. UNCHANGED entryVars BY <1>8 DEF LoadBoard
  <2>1. CASE status = 200
    <3>1. page' = [page EXCEPT !.at = "dashboard"] BY <1>8, <2>1 DEF LoadBoard
    <3>2. Turns(page') BY <3>1 DEF Whole, Turns, PageFields
    <3>3. QED BY <2>0, <3>2
  <2>2. CASE status = 401
    <3>1. page' = [Login EXCEPT !.node = page.node] BY <1>8, <2>2 DEF LoadBoard, Refusal
    <3>2. Turns(page') BY <3>1 DEF Login, Blankpage, Turns, PageFields
    <3>3. QED BY <2>0, <3>2
  <2>3. CASE status \notin {200, 401}
    <3>1. page' = [ErrorPage(status) EXCEPT !.node = page.node]
      BY <1>8, <2>3 DEF LoadBoard, Refusal
    <3>2. Turns(ErrorPage(status)) BY OtherPages
    <3> HIDE DEF status
    <3>3. Turns(page') BY <3>1, <3>2 DEF Turns, PageFields
    <3>4. QED BY <2>0, <3>3
  <2>4. QED BY <2>1, <2>2, <2>3
<1>9. CASE LoadEntry
  <2> DEFINE opened == [At("entry") EXCEPT !.listed = Live]
  <2>1. \/ page' = Login
        \/ \E x : page' = ErrorPage(x)
        \/ page' = opened
        \/ \E s : s \in scene.configured /\ page' = [opened EXCEPT !.source = s]
    BY <1>9 DEF LoadEntry
  <2>2. Turns(page') BY <1>4, <2>1, OtherPages
  <2>3. UNCHANGED entryVars BY <1>9 DEF LoadEntry
  <2>4. QED BY <2>2, <2>3
<1>10. CASE LoadSources \/ LoadHierarchy
  <2>1. \/ \E x : page' \in {Refusal(x), ErrorPage(x)}
        \/ \E p : page' = At(p)
        \/ page' = [At("hierarchy") EXCEPT !.listed = Live]
    BY <1>10 DEF LoadSources, LoadHierarchy
  <2>2. Turns(page') BY <1>4, <2>1, OtherPages
  <2>3. QED BY <1>10, <2>2 DEF LoadSources, LoadHierarchy
<1>11. ASSUME NEW x, Select(x) \/ Choose(x) \/ Type(x) \/ ChooseNode(x) \/ Follow(x)
       PROVE  Goal
  <2>1. \/ \E p : page' = At(p)
        \/ \E p, y : page' = [At(p) EXCEPT !.tenant = y]
        \/ \E p, y : page' = [At(p) EXCEPT !.node = y]
        \/ \E y, z : y \in scene.configured /\ page' = [page EXCEPT !.source = y, !.figure = z]
        \/ \E y : page' = [page EXCEPT !.figure = y]
    BY <1>11 DEF Select, Choose, Type, ChooseNode, Follow
  <2>2. Turns(page') BY <1>4, <2>1, OtherPages
  <2>3. QED BY <1>11, <2>2 DEF Select, Choose, Type, ChooseNode, Follow
<1>12. ASSUME NEW n \in Node, \/ \E m \in Node \cup {NoNode} : Create(n, m) \/ Reparent(n, m)
                              \/ Archive(n)
       PROVE  Goal
  BY <1>12, OtherPages
  DEF Create, Reparent, Archive, Edits, ByPageOrOthers, ByPage
<1>13. CASE UNCHANGED vars BY <1>13, OtherPages DEF vars
<1>14. QED
  BY <1>1, <1>2, <1>3, <1>4, <1>5, <1>6, <1>7, <1>8, <1>9, <1>10, <1>11, <1>12, <1>13
  DEF Next, Answers

LEMMA HonestStep == Honest /\ [Next]_vars => Honest'
<1> SUFFICES ASSUME Honest, [Next]_vars PROVE Honest' OBVIOUS
<1>1. Whole /\ AnswersAreTrue /\ SavedIsStored BY DEF Honest
<1>2. CASE ~\E n \in Post : Submit(n) \/ AnswersPost(n) \/ WriteFails(n) \/ Lose(n)
  <2>1. Turns(page') /\ UNCHANGED entryVars BY <1>1, <1>2, PageStep
  <2>2. QED BY <1>1, <2>1 DEF Honest, Whole, AnswersAreTrue, SavedIsStored, Turns, entryVars
<1>3. ASSUME NEW n \in Post, Submit(n) PROVE Honest'
  <2>1. page' = [page EXCEPT !.mine = @ \cup {n}] /\ written' = written BY <1>3 DEF Submit
  <2>2. Turns(page') BY <1>1, <2>1 DEF Whole, Turns, PageFields
  <2>3. PICK e, t, s, f : posts' = [posts EXCEPT ![n] =
          [NotSent EXCEPT !.at = "sent", !.tenant = t, !.source = s, !.figure = f, !.entry = e]]
    BY <1>3 DEF Submit
  <2>4. Whole' /\ AnswersAreTrue'
    BY <1>1, <2>1, <2>2, <2>3 DEF Whole, AnswersAreTrue, Turns, NotSent, PostFields
  <2>5. QED BY <1>1, <2>1, <2>2, <2>4 DEF Honest, SavedIsStored, Turns
<1>4. ASSUME NEW n \in Post, NEW post, post = [f \in PostFields |-> post[f]],
             posts' = [posts EXCEPT ![n] = post], written \subseteq written',
             post.at \in {"answer", "done"} /\ post.status = 200 => n \in written',
             page'= [f \in PageFields |-> page'[f]],
             page'.banner \in {page.banner, NoPost} \cup written'
      PROVE  Honest'
  <2>1. Whole' BY <1>1, <1>4 DEF Whole
  <2>2. AnswersAreTrue' BY <1>1, <1>4 DEF Whole, AnswersAreTrue
  <2>3. SavedIsStored' BY <1>1, <1>4 DEF SavedIsStored
  <2>4. QED BY <2>1, <2>2, <2>3 DEF Honest
<1>5. ASSUME NEW n \in Post, Check(n) PROVE Honest'
  <2>1. PICK status : posts' = [posts EXCEPT ![n] =
          [posts[n] EXCEPT !.at = IF status = 200 THEN "writing" ELSE "answer",
                           !.status = status]]
    BY <1>5 DEF Check, Posts
  <2> DEFINE post == [posts[n] EXCEPT !.at = IF status = 200 THEN "writing" ELSE "answer",
                                      !.status = status]
  <2>2. post = [f \in PostFields |-> post[f]] /\ ~(post.at = "answer" /\ post.status = 200)
        /\ post.at # "done"
    BY <1>1 DEF Whole, PostFields
  <2>3. posts' = [posts EXCEPT ![n] = post] BY <2>1
  <2>4. UNCHANGED <<page, written>> BY <1>5 DEF Check
  <2> HIDE DEF post
  <2>5. QED BY <1>1, <1>4, <2>2, <2>3, <2>4, OtherPages DEF Turns
<1>6. ASSUME NEW n \in Post, Write(n) PROVE Honest'
  <2>1. posts' = [posts EXCEPT ![n] = [posts[n] EXCEPT !.at = "answer"]]
        /\ written' = written \cup {n} /\ page' = page
    BY <1>6 DEF Write, Writes, Posts
  <2>2. QED BY <1>1, <1>4, <2>1, OtherPages DEF Whole, Turns, NotSent, PostFields
<1>7. ASSUME NEW n \in Post, WriteFails(n) \/ Lose(n) PROVE Honest'
  <2>1. UNCHANGED <<page, written>> BY <1>7 DEF WriteFails, Lose
  <2>2. CASE WriteFails(n)
    <3> DEFINE post == [posts[n] EXCEPT !.at = "answer", !.status = 500]
    <3>1. posts' = [posts EXCEPT ![n] = post] BY <2>2 DEF WriteFails, Posts
    <3>2. post = [f \in PostFields |-> post[f]]
      <4>1. posts[n] = [f \in PostFields |-> posts[n][f]] BY <1>1 DEF Whole
      <4>2. DOMAIN post = PostFields BY <4>1
      <4>3. post = [f \in DOMAIN post |-> post[f]] OBVIOUS
      <4>4. QED BY <4>2, <4>3
    <3>3. post.status = 500
      <4>1. posts[n] = [f \in PostFields |-> posts[n][f]] BY <1>1 DEF Whole
      <4>2. "status" \in PostFields BY DEF PostFields
      <4>3. QED BY <4>1, <4>2
    <3> HIDE DEF post
    <3>4. written \subseteq written' BY <2>1
    <3>5. /\ page' = [f \in PageFields |-> page'[f]]
          /\ page'.banner \in {page.banner, NoPost} \cup written'
      BY <1>1, <2>1, OtherPages DEF Turns
    <3>6. QED BY <1>4, <3>1, <3>2, <3>3, <3>4, <3>5
  <2>3. CASE Lose(n)
    <3> DEFINE post == [posts[n] EXCEPT !.lost = TRUE]
    <3>1. posts' = [posts EXCEPT ![n] = post] BY <2>3 DEF Lose, Posts
    <3>2. /\ post = [f \in PostFields |-> post[f]]
          /\ post.status = posts[n].status /\ post.at = posts[n].at
      BY <1>1 DEF Whole, PostFields
    <3>3. posts[n].at \in {"answer", "done"} /\ posts[n].status = 200 => n \in written
      BY <1>1 DEF AnswersAreTrue
    <3> HIDE DEF post
    <3>4. QED BY <1>1, <1>4, <2>1, <3>1, <3>2, <3>3, OtherPages DEF Turns
  <2>4. QED BY <1>7, <2>2, <2>3
<1>8. ASSUME NEW n \in Post, Answered(n) PROVE Honest'
  <2>1. /\ posts[n].at = "answer" /\ written' = written
        /\ posts' = [posts EXCEPT ![n] = [posts[n] EXCEPT !.at = "done"]]
    BY <1>8 DEF Answered, Applies, Posts
  <2>2. \/ page' \in {page, Login}
        \/ posts[n].status = 200 /\ page' = Saved(n)
        \/ page' = [page EXCEPT !.banner = NoPost, !.error = "other"]
    BY <1>8 DEF Answered, Applies
  <2>3. /\ page' = [f \in PageFields |-> page'[f]]
        /\ page'.banner \in {page.banner, NoPost} \cup written'
    <3>1. CASE page' \in {page, Login} BY <1>1, <3>1, OtherPages DEF Turns
    <3>2. CASE posts[n].status = 200 /\ page' = Saved(n)
      <4>1. n \in written BY <1>1, <2>1, <3>2 DEF AnswersAreTrue
      <4>2. QED BY <1>1, <2>1, <3>2, <4>1 DEF Whole, Saved, PageFields
    <3>3. CASE page' = [page EXCEPT !.banner = NoPost, !.error = "other"]
      BY <1>1, <3>3 DEF Whole, PageFields
    <3>4. QED BY <2>2, <3>1, <3>2, <3>3
  <2>4. QED BY <1>1, <1>4, <2>1, <2>3 DEF Whole, NotSent, PostFields, AnswersAreTrue
<1>9. QED BY <1>2, <1>3, <1>5, <1>6, <1>7, <1>8 DEF AnswersPost

LEMMA HonestStart == Init => Honest
<1> SUFFICES ASSUME Init PROVE Honest OBVIOUS
<1>1. page = [f \in PageFields |-> page[f]] /\ page.banner = NoPost
  BY DEF Init, Blankpage, PageFields
<1>2. /\ posts = [n \in Post |-> posts[n]]
      /\ \A n \in Post : posts[n] = NotSent
  BY DEF Init
<1>3. NotSent = [f \in PostFields |-> NotSent[f]] /\ NotSent.at = "none"
  BY DEF NotSent, PostFields
<1> HIDE DEF NotSent
<1>4. QED BY <1>1, <1>2, <1>3 DEF Honest, Whole, AnswersAreTrue, SavedIsStored

\* The page says "saved" of no submission whose figure was not written, whatever
\* is lost, expires or fails (entry/+page.server.ts 95-125).
THEOREM BannersAreTrue == Spec => []SavedIsStored
<1>1. Honest => SavedIsStored BY DEF Honest
<1>2. QED BY <1>1, HonestStart, HonestStep, PTL DEF Spec

-----------------------------------------------------------------------------
(***************************************************************************)
(* The figures.  A submission names the node its form had selected, and    *)
(* keeps what it says.  Of two for one connector that did not meet, the    *)
(* first has come to its end when the second is sent.                      *)
(***************************************************************************)
Submitted(n) == posts[n].at # "none"

FormHolds ==
  /\ page.listed \subseteq Node
  /\ page.source # Nothing => page.source \in DOMAIN Methods
  /\ scene.configured \subseteq DOMAIN Methods

Names(post) ==
  /\ post.source \in DOMAIN Methods
  /\ (NodePath \in DOMAIN post.entry /\ post.entry[NodePath] # Blank)
        => post.entry[NodePath].text \in Node

Addressed ==
  /\ DOMAIN stored = (DOMAIN Methods) \X Node
  /\ \A n \in Post : Submitted(n) => Names(posts[n])
  /\ \A n \in Post : posts[n].at = "writing" => Row(posts[n]) \in DOMAIN stored

Ordered == \A m, n \in Post : m < n /\ Submitted(n) => Submitted(m)

MeetingsKnown ==
  \A m, n \in Post :
    m < n /\ Submitted(n) /\ m \in UnderWay /\ posts[m].source = posts[n].source
      => m \in late /\ n \in late

WrittenEnded == \A n \in written : n \in Post /\ posts[n].at \in {"answer", "done"}

Entries == FormHolds /\ Addressed /\ Ordered /\ MeetingsKnown /\ WrittenEnded /\ LastWins

\* The first of a sequence that has the elements of a set is one of them.
LEMMA FirstOfSet ==
  ASSUME NEW S, IsFiniteSet(S), SetToSeq(S) # <<>>
  PROVE  SetToSeq(S)[1] \in S
<1>1. Cardinality(S) \in Nat /\ ExistsBijection(1 .. Cardinality(S), S)
  BY FS_CardinalityType
<1>2. \E f \in [1 .. Cardinality(S) -> S] : IsInjective(f)
  BY <1>1 DEF ExistsBijection, Bijection, Injection, Surjection
<1>3. SetToSeq(S) \in [1 .. Cardinality(S) -> S] BY <1>2 DEF SetToSeq
<1>4. CASE Cardinality(S) = 0
  <2>1. SetToSeq(S) \in Seq(S) BY <1>1, <1>3
  <2>2. Len(SetToSeq(S)) = 0 BY <1>3, <1>4
  <2>3. QED BY <2>1, <2>2
<1>5. CASE Cardinality(S) # 0
  <2>1. 1 \in 1 .. Cardinality(S) BY <1>1, <1>5
  <2>2. QED BY <1>3, <2>1
<1>6. QED BY <1>4, <1>5

\* What the API accepts names a node.
LEMMA AcceptedNames ==
  ASSUME NEW source, NEW payload, Parses(source, payload)
  PROVE  NodePath \in DOMAIN payload /\ payload[NodePath] # Blank
<1> DEFINE schema == EntrySchema(source, <<>>)
<1>1. NodePath \in schema.required /\ NodePath \in DOMAIN schema.type
  BY DEF EntrySchema, EntryRequired, EntryTypes
<1>2. /\ schema.required \cap DOMAIN schema.type \subseteq DOMAIN payload
      /\ \A p \in DOMAIN payload : ValidLeaf(source, p, payload[p])
  BY DEF Parses
<1> HIDE DEF schema
<1>3. NodePath \in DOMAIN payload BY <1>1, <1>2
<1>4. ValidLeaf(source, NodePath, payload[NodePath]) BY <1>2, <1>3
<1>5. QED BY <1>3, <1>4, Zenon DEF ValidLeaf

\* What the form sends names the first node of its list.
LEMMA FormNames ==
  ASSUME FormHolds, page.source \in DOMAIN Methods,
         NodePath \in DOMAIN Payload(Schema, Filled), Payload(Schema, Filled)[NodePath] # Blank
  PROVE  Payload(Schema, Filled)[NodePath].text \in Node
<1> DEFINE data == Coerce(Schema, Filled)
<1>1. NodePath \in DOMAIN data /\ Payload(Schema, Filled)[NodePath] = data[NodePath]
  BY DEF Payload
<1>2. Schema.type[NodePath] = "string" /\ NodePath \in DOMAIN Schema.type
  BY DEF Schema, EntrySchema, EntryTypes, NodePath, Households, BarbWeek
<1>3. data[NodePath] = Filled[NodePath] BY <1>1, <1>2 DEF Coerce
<1>4. Filled[NodePath] = EmptyForm(Schema)[NodePath]
  BY <1>2 DEF Filled, EmptyForm, NodePath, StartPath, EndPath, Households
<1>5. NodePath \in DOMAIN Schema.options /\ Schema.options[NodePath] = SetToSeq(page.listed)
  BY DEF Schema, EntrySchema, NodePath, Method
<1>6. \/ EmptyForm(Schema)[NodePath] = Blank
      \/ /\ SetToSeq(page.listed) # <<>>
         /\ EmptyForm(Schema)[NodePath] = Text(SetToSeq(page.listed)[1])
  BY <1>2, <1>5 DEF EmptyForm
<1>7. IsFiniteSet(page.listed) BY HierarchyAssumption, FS_Subset DEF FormHolds
<1>8. SetToSeq(page.listed) # <<>> => SetToSeq(page.listed)[1] \in Node
  BY <1>7, FirstOfSet DEF FormHolds
<1>9. QED BY <1>1, <1>3, <1>4, <1>6, <1>8 DEF Text

\* What a step of the API or of the page's action leaves of a submission.
GoesOn(n, post) ==
  /\ posts' = [posts EXCEPT ![n] = post]
  /\ Submitted(n) /\ post.at # "none"
  /\ post.source = posts[n].source /\ post.entry = posts[n].entry
  /\ post.figure = posts[n].figure
  /\ post.at \in {"sent", "writing"} => posts[n].at \in {"sent", "writing"}
  /\ posts[n].at \in {"answer", "done"} => post.at \in {"answer", "done"}
  /\ post.at = "writing" => Row(post) \in DOMAIN stored
  /\ UNCHANGED <<scene, late>>

LEMMA EntriesGoOn ==
  ASSUME Whole, Entries, NEW n \in Post, NEW post, GoesOn(n, post), DOMAIN stored' = DOMAIN stored,
         FormHolds', \A k \in written' : k \in written \/ (k = n /\ post.at = "answer")
  PROVE  /\ FormHolds' /\ Addressed' /\ Ordered' /\ MeetingsKnown' /\ WrittenEnded'
         /\ \A k \in Post : Row(posts[k])' = Row(posts[k]) /\ posts'[k].figure = posts[k].figure
                            /\ posts'[k].source = posts[k].source
<1>1. FormHolds /\ Addressed /\ Ordered /\ MeetingsKnown /\ WrittenEnded BY DEF Entries
<1>2. posts'[n] = post /\ \A k \in Post \ {n} : posts'[k] = posts[k] BY DEF Whole, GoesOn
<1>3. \A k \in Post : /\ posts'[k].figure = posts[k].figure
                      /\ posts'[k].source = posts[k].source
                      /\ posts'[k].entry = posts[k].entry
                      /\ Submitted(k)' <=> Submitted(k)
                      /\ k \in UnderWay' => k \in UnderWay
  BY <1>2 DEF GoesOn, Submitted, UnderWay
<1>4. \A k \in Post : Row(posts[k])' = Row(posts[k]) BY <1>3 DEF Row
<1>5. Addressed'
  <2>1. \A k \in Post : Submitted(k)' => Names(posts[k])'
    BY <1>1, <1>3 DEF Addressed, Names
  <2>2. \A k \in Post : posts'[k].at = "writing" => Row(posts[k])' \in DOMAIN stored'
    BY <1>1, <1>2, <1>3 DEF Addressed, GoesOn, Row
  <2>3. QED BY <1>1, <2>1, <2>2 DEF Addressed
<1>6. Ordered' BY <1>1, <1>3 DEF Ordered
<1>7. MeetingsKnown' BY <1>1, <1>3 DEF MeetingsKnown, GoesOn
<1>8. WrittenEnded' BY <1>1, <1>2 DEF WrittenEnded, GoesOn
<1>9. QED BY <1>3, <1>4, <1>5, <1>6, <1>7, <1>8

LEMMA EntriesStart == Init => Entries
<1> SUFFICES ASSUME Init PROVE Entries OBVIOUS
<1>1. scene \in Scenes /\ page = Blankpage /\ written = {} BY DEF Init
<1>2. DOMAIN stored = (DOMAIN Methods) \X Node BY DEF Init
<1>3. \A n \in Post : posts[n] = NotSent BY DEF Init
<1>4. NotSent.at = "none" BY DEF NotSent
<1>5. page.listed = {} /\ page.source = Nothing BY <1>1 DEF Blankpage
<1> HIDE DEF NotSent
<1>6. FormHolds BY <1>1, <1>5, DeskAssumption DEF FormHolds
<1>7. Addressed BY <1>2, <1>3, <1>4 DEF Addressed, Submitted
<1>8. Ordered /\ MeetingsKnown BY <1>3, <1>4 DEF Ordered, MeetingsKnown, Submitted
<1>9. WrittenEnded /\ LastWins BY <1>1 DEF WrittenEnded, LastWins
<1>10. QED BY <1>6, <1>7, <1>8, <1>9 DEF Entries

\* The new submission has met every one that is under way for its connector.
LEMMA EntriesSubmit ==
  ASSUME Whole, Entries, NEW n \in Post, Submit(n)
  PROVE  Entries'
<1>1. FormHolds /\ Addressed /\ Ordered /\ MeetingsKnown /\ WrittenEnded /\ LastWins
  BY DEF Entries
<1>2. /\ page.source # Nothing /\ posts[n].at = "none"
      /\ \A m \in 1 .. n - 1 : Submitted(m)
      /\ scene' = scene /\ stored' = stored /\ written' = written
  BY DEF Submit, Submitted
<1>3. late \subseteq late' /\ \A m \in Rivals : m \in late' /\ n \in late' BY DEF Submit
<1> DEFINE post == [NotSent EXCEPT !.at = "sent", !.tenant = page.tenant,
                      !.source = page.source, !.figure = page.figure.tenths,
                      !.entry = Payload(Schema, Filled)]
<1>4. /\ post.at = "sent" /\ post.source = page.source
      /\ post.entry = Payload(Schema, Filled)
  BY DEF NotSent
<1>5. posts' = [posts EXCEPT ![n] = post] BY DEF Submit
<1> HIDE DEF post
<1>6. posts'[n] = post /\ \A k \in Post \ {n} : posts'[k] = posts[k] BY <1>5 DEF Whole
<1>7. page'.listed = page.listed /\ page'.source = page.source
  <2>1. page' = [page EXCEPT !.mine = @ \cup {n}] BY DEF Submit
  <2>2. QED BY <2>1 DEF Whole, PageFields
<1>8. FormHolds' BY <1>1, <1>2, <1>7 DEF FormHolds
<1>9. Names(post) BY <1>1, <1>2, <1>4, FormNames DEF FormHolds, Names
<1>10. Addressed' BY <1>1, <1>2, <1>4, <1>6, <1>9 DEF Addressed, Submitted
<1>11. n \in Nat /\ \A m \in Post : m \in Nat /\ (m < n => m \in 1 .. n - 1)
  BY DeskAssumption DEF Post
<1>12. Ordered' BY <1>1, <1>2, <1>6, <1>11 DEF Ordered, Submitted
<1>13. UnderWay' = UnderWay \cup {n} /\ n \notin UnderWay BY <1>2, <1>4, <1>6 DEF UnderWay
<1>14. MeetingsKnown'
  <2> SUFFICES ASSUME NEW k \in Post, NEW m \in Post, k < m, Submitted(m)', k \in UnderWay',
                      posts'[k].source = posts'[m].source
               PROVE  k \in late' /\ m \in late'
    BY DEF MeetingsKnown
  <2>1. CASE m = n
    <3>1. k # n BY <1>11, <2>1
    <3>2. k \in Rivals BY <1>4, <1>6, <1>13, <2>1, <3>1 DEF Rivals
    <3>3. QED BY <1>3, <2>1, <3>2
  <2>2. CASE m # n
    <3>1. Submitted(m) BY <1>6, <2>2 DEF Submitted
    <3>2. k # n BY <1>1, <1>2, <3>1 DEF Ordered, Submitted
    <3>3. QED BY <1>1, <1>3, <1>6, <1>13, <2>2, <3>1, <3>2 DEF MeetingsKnown
  <2>3. QED BY <2>1, <2>2
<1>15. n \notin written BY <1>1, <1>2 DEF WrittenEnded
<1>16. WrittenEnded' BY <1>1, <1>2, <1>6, <1>15 DEF WrittenEnded
<1>17. \A k \in written : k \in Post \ {n} /\ posts'[k] = posts[k]
  BY <1>1, <1>6, <1>15 DEF WrittenEnded
<1>18. LastWins' BY <1>1, <1>2, <1>3, <1>17 DEF LastWins, Row
<1>19. QED BY <1>8, <1>10, <1>12, <1>14, <1>16, <1>18 DEF Entries

\* A step that writes no figure.
LEMMA EntriesUnwritten ==
  ASSUME Whole, Entries, NEW n \in Post, NEW post, GoesOn(n, post), FormHolds',
         UNCHANGED <<stored, written>>
  PROVE  Entries'
<1>1. /\ FormHolds' /\ Addressed' /\ Ordered' /\ MeetingsKnown' /\ WrittenEnded'
      /\ \A k \in Post : Row(posts[k])' = Row(posts[k]) /\ posts'[k].figure = posts[k].figure
                         /\ posts'[k].source = posts[k].source
  BY EntriesGoOn
<1>2. LastWins /\ \A k \in written : k \in Post BY DEF Entries, WrittenEnded
<1>3. late' = late BY DEF GoesOn
<1>4. LastWins' BY <1>1, <1>2, <1>3 DEF LastWins
<1>5. QED BY <1>1, <1>4 DEF Entries

\* The figure that is written belongs to a submission that is later than the last one
\* written for the connector, or has met it.
LEMMA EntriesWrite ==
  ASSUME Whole, Entries, NEW n \in Post, Write(n)
  PROVE  Entries'
<1>1. FormHolds /\ Addressed /\ MeetingsKnown /\ WrittenEnded /\ LastWins BY DEF Entries
<1> DEFINE post == [posts[n] EXCEPT !.at = "answer"]
<1>2. /\ posts' = [posts EXCEPT ![n] = post] /\ posts[n].at = "writing"
      /\ stored' = [stored EXCEPT ![Row(posts[n])] = posts[n].figure]
      /\ written' = written \cup {n} /\ UNCHANGED <<page, scene, late>>
  BY DEF Write, Writes, Posts
<1>3. /\ post.at = "answer" /\ post.source = posts[n].source
      /\ post.entry = posts[n].entry /\ post.figure = posts[n].figure
  BY DEF Whole, PostFields
<1> HIDE DEF post
<1>4. GoesOn(n, post) BY <1>2, <1>3 DEF GoesOn, Submitted
<1>5. FormHolds' BY <1>1, <1>2 DEF FormHolds
<1>6. DOMAIN stored' = DOMAIN stored BY <1>2
<1>7. \A k \in written' : k \in written \/ (k = n /\ post.at = "answer") BY <1>2, <1>3
<1>8. /\ FormHolds' /\ Addressed' /\ Ordered' /\ MeetingsKnown' /\ WrittenEnded'
      /\ \A k \in Post : Row(posts[k])' = Row(posts[k]) /\ posts'[k].figure = posts[k].figure
                         /\ posts'[k].source = posts[k].source
  BY <1>4, <1>5, <1>6, <1>7, EntriesGoOn
<1>9. n \in UnderWay BY <1>2 DEF UnderWay
<1>10. Row(posts[n]) \in DOMAIN stored BY <1>1, <1>2 DEF Addressed
<1>11. LastWins'
  <2> SUFFICES ASSUME NEW k \in written' \ late',
                      \A m \in written' : m > k => posts'[m].source # posts'[k].source
               PROVE  stored'[Row(posts[k])'] = posts'[k].figure
    BY DEF LastWins
  <2>1. k \in Post /\ k \notin late BY <1>1, <1>2 DEF WrittenEnded
  <2>2. CASE k = n
    <3>1. stored'[Row(posts[n])] = posts[n].figure BY <1>2, <1>10
    <3>2. QED BY <1>8, <2>2, <3>1
  <2>3. CASE k # n
    <3>1. k \in written /\ Submitted(k) BY <1>1, <1>2, <2>3 DEF WrittenEnded, Submitted
    <3>2. \A m \in written : m \in Post BY <1>1 DEF WrittenEnded
    <3>3. stored[Row(posts[k])] = posts[k].figure
      <4>1. \A m \in written : m > k => posts[m].source # posts[k].source
        BY <1>2, <1>8, <2>1, <3>2
      <4>2. QED BY <1>1, <2>1, <3>1, <4>1 DEF LastWins
    <3>4. posts[n].source # posts[k].source
      <4>1. CASE n > k BY <1>2, <1>8, <2>1, <4>1
      <4>2. CASE n < k BY <1>1, <1>9, <2>1, <3>1, <4>2 DEF MeetingsKnown
      <4>3. n \in Nat /\ k \in Nat BY <2>1, DeskAssumption DEF Post
      <4>4. QED BY <2>3, <4>1, <4>2, <4>3
    <3>5. Row(posts[n]) # Row(posts[k]) BY <3>4 DEF Row
    <3>6. stored'[Row(posts[k])] = stored[Row(posts[k])] BY <1>2, <3>5
    <3>7. QED BY <1>8, <2>1, <3>3, <3>6
  <2>4. QED BY <2>2, <2>3
<1>12. QED BY <1>8, <1>11 DEF Entries

LEMMA EntriesStep == TreeWellFormed /\ Honest /\ Entries /\ [Next]_vars => Entries'
<1> SUFFICES ASSUME TreeWellFormed, Honest, Entries, [Next]_vars PROVE Entries' OBVIOUS
<1>1. Whole /\ FormHolds /\ Addressed BY DEF Honest, Entries
<1>2. scene' = scene BY ScenesStay
<1>3. Live \subseteq Node BY DEF TreeWellFormed, Live
<1>4. ASSUME Turns(page') PROVE FormHolds' BY <1>1, <1>2, <1>3, <1>4 DEF Turns, FormHolds
<1>5. CASE ~\E n \in Post : Submit(n) \/ AnswersPost(n) \/ WriteFails(n) \/ Lose(n)
  <2>1. Turns(page') /\ UNCHANGED entryVars BY <1>1, <1>5, PageStep
  <2>2. FormHolds' BY <1>4, <2>1
  <2>3. QED BY <2>1, <2>2
    DEF Entries, entryVars, Addressed, Names, Ordered, MeetingsKnown, WrittenEnded, LastWins,
        Submitted, UnderWay, Row
<1>6. ASSUME NEW n \in Post, Submit(n) PROVE Entries' BY <1>1, <1>6, EntriesSubmit
<1>7. ASSUME NEW n \in Post, Write(n) PROVE Entries' BY <1>1, <1>7, EntriesWrite
<1>8. ASSUME NEW n \in Post, Check(n) PROVE Entries'
  <2> DEFINE status == EntryStatus(posts[n])
             at == IF status = 200 THEN "writing" ELSE "answer"
             post == [posts[n] EXCEPT !.at = at, !.status = status]
  <2>1. /\ posts[n].at = "sent" /\ posts' = [posts EXCEPT ![n] = post]
        /\ UNCHANGED <<page, late, stored, written>>
    BY <1>8 DEF Check, Posts
  <2>2. at = "writing" => Parses(posts[n].source, posts[n].entry) BY DEF EntryStatus
  <2> HIDE DEF at, status
  <2>3. /\ post.at = at /\ post.source = posts[n].source
        /\ post.entry = posts[n].entry /\ post.figure = posts[n].figure
    BY <1>1 DEF Whole, PostFields
  <2> HIDE DEF post
  <2>4. Names(posts[n]) BY <1>1, <2>1 DEF Addressed, Submitted
  <2>5. at = "writing" => Row(post) \in DOMAIN stored
    <3>1. at = "writing" => posts[n].entry[NodePath].text \in Node
      BY <2>2, <2>4, AcceptedNames DEF Names
    <3>2. QED BY <1>1, <2>3, <2>4, <3>1 DEF Addressed, Names, Row
  <2>6. at \in {"writing", "answer"} BY DEF at
  <2>7. GoesOn(n, post) BY <1>2, <2>1, <2>3, <2>5, <2>6 DEF GoesOn, Submitted
  <2>8. FormHolds' BY <1>1, <1>2, <2>1 DEF FormHolds
  <2>9. QED BY <1>1, <2>1, <2>7, <2>8, EntriesUnwritten
<1>9. ASSUME NEW n \in Post, WriteFails(n) PROVE Entries'
  <2> DEFINE post == [posts[n] EXCEPT !.at = "answer", !.status = 500]
  <2>1. /\ posts[n].at = "writing" /\ posts' = [posts EXCEPT ![n] = post]
        /\ UNCHANGED <<page, late, stored, written>>
    BY <1>9 DEF WriteFails, Posts
  <2>2. /\ post.at = "answer" /\ post.source = posts[n].source
        /\ post.entry = posts[n].entry /\ post.figure = posts[n].figure
    BY <1>1 DEF Whole, PostFields
  <2> HIDE DEF post
  <2>3. GoesOn(n, post) BY <1>2, <2>1, <2>2 DEF GoesOn, Submitted
  <2>4. FormHolds' BY <1>1, <1>2, <2>1 DEF FormHolds
  <2>5. QED BY <1>1, <2>1, <2>3, <2>4, EntriesUnwritten
<1>10. ASSUME NEW n \in Post, Lose(n) PROVE Entries'
  <2> DEFINE post == [posts[n] EXCEPT !.lost = TRUE]
  <2>1. /\ posts[n].at \in {"sent", "writing", "answer"} /\ posts' = [posts EXCEPT ![n] = post]
        /\ UNCHANGED <<page, late, stored, written>>
    BY <1>10 DEF Lose, Posts
  <2>2. /\ post.at = posts[n].at /\ post.source = posts[n].source
        /\ post.entry = posts[n].entry /\ post.figure = posts[n].figure
    BY <1>1 DEF Whole, PostFields
  <2> HIDE DEF post
  <2>3. posts[n].at = "writing" => Row(post) \in DOMAIN stored
    BY <1>1, <2>2 DEF Addressed, Row
  <2>4. GoesOn(n, post) BY <1>2, <2>1, <2>2, <2>3 DEF GoesOn, Submitted
  <2>5. FormHolds' BY <1>1, <1>2, <2>1 DEF FormHolds
  <2>6. QED BY <1>1, <2>1, <2>4, <2>5, EntriesUnwritten
<1>11. ASSUME NEW n \in Post, Answered(n) PROVE Entries'
  <2> DEFINE post == [posts[n] EXCEPT !.at = "done"]
  <2>1. /\ posts[n].at = "answer" /\ posts' = [posts EXCEPT ![n] = post]
        /\ UNCHANGED <<late, stored, written>>
    BY <1>11 DEF Answered, Applies, Posts
  <2>2. /\ post.at = "done" /\ post.source = posts[n].source
        /\ post.entry = posts[n].entry /\ post.figure = posts[n].figure
    BY <1>1 DEF Whole, PostFields
  <2> HIDE DEF post
  <2>3. GoesOn(n, post) BY <1>2, <2>1, <2>2 DEF GoesOn, Submitted
  <2>4. \/ page' \in {page, Login, Saved(n)}
        \/ page' = [page EXCEPT !.banner = NoPost, !.error = "other"]
    BY <1>11 DEF Answered, Applies
  <2>5. \/ page'.listed = page.listed /\ page'.source = page.source
        \/ page'.listed = {} /\ page'.source = Nothing
    <3>1. CASE page' = page BY <3>1
    <3>2. CASE page' = Login BY <3>2 DEF Login, Blankpage
    <3>3. CASE page' = Saved(n) BY <1>1, <3>3 DEF Whole, Saved, PageFields
    <3>4. CASE page' = [page EXCEPT !.banner = NoPost, !.error = "other"]
      BY <1>1, <3>4 DEF Whole, PageFields
    <3>5. QED BY <2>4, <3>1, <3>2, <3>3, <3>4
  <2>6. FormHolds' BY <1>1, <1>2, <2>5 DEF FormHolds
  <2>7. QED BY <1>1, <2>1, <2>3, <2>6, EntriesUnwritten
<1>12. QED BY <1>5, <1>6, <1>7, <1>8, <1>9, <1>10, <1>11 DEF AnswersPost

\* Of submissions for one connector and node that did not meet, the last one written
\* is the one stored, however many there are, whatever is lost and whatever fails
\* in between (entries.ts 107-137).
THEOREM LastFigureWins == Spec => []LastWins
<1>1. Entries => LastWins BY DEF Entries
<1>2. QED
  BY <1>1, TreeStart, TreeStep, HonestStart, HonestStep, EntriesStart, EntriesStep, PTL DEF Spec

-----------------------------------------------------------------------------
(***************************************************************************)
(* The form: what is sent of what was filled in, for every schema.         *)
(***************************************************************************)
LEMMA GroupsNested ==
  ASSUME NEW S, NEW q \in Seq(S), NEW g \in Groups(q)
  PROVE  /\ Groups(g) \subseteq Groups(q)
         /\ \A h \in Groups(q) : h \in Groups(g) \cup {g} \/ g \in Groups(h)
<1>1. PICK k \in 1 .. Len(q) - 1 : g = SubSeq(q, 1, k) BY DEF Groups
<1>2. \A j \in 1 .. Len(q) - 1 : SubSeq(q, 1, j) \in Seq(S) /\ Len(SubSeq(q, 1, j)) = j
  <2> SUFFICES ASSUME NEW j \in 1 .. Len(q) - 1
               PROVE  SubSeq(q, 1, j) \in Seq(S) /\ Len(SubSeq(q, 1, j)) = j
    OBVIOUS
  <2>1. \A i \in 1 .. j : q[i] \in S OBVIOUS
  <2>2. 1 \in Int /\ j \in Int /\ 1 <= j OBVIOUS
  <2>3. QED BY <2>1, <2>2, SubSeqProperties
<1>3. \A i, j \in 1 .. Len(q) - 1 : i < j => SubSeq(SubSeq(q, 1, j), 1, i) = SubSeq(q, 1, i)
  <2> SUFFICES ASSUME NEW i \in 1 .. Len(q) - 1, NEW j \in 1 .. Len(q) - 1, i < j
               PROVE  SubSeq(SubSeq(q, 1, j), 1, i) = SubSeq(q, 1, i)
    OBVIOUS
  <2>1. 1 \in 1 .. Len(q) /\ j \in 1 .. Len(q) /\ 1 \in 1 .. j - 1 + 1 /\ i \in 1 .. j - 1 + 1
    OBVIOUS
  <2>2. SubSeq(SubSeq(q, 1, j), 1, i) = SubSeq(q, 1 + 1 - 1, 1 + i - 1)
    BY <2>1, SubSeqOfSubSeq
  <2>3. QED BY <2>2
<1>4. \A j \in 1 .. Len(q) - 1 : Groups(SubSeq(q, 1, j)) = {SubSeq(q, 1, i) : i \in 1 .. j - 1}
  <2> SUFFICES ASSUME NEW j \in 1 .. Len(q) - 1
               PROVE  Groups(SubSeq(q, 1, j)) = {SubSeq(q, 1, i) : i \in 1 .. j - 1}
    OBVIOUS
  <2>1. Groups(SubSeq(q, 1, j)) = {SubSeq(SubSeq(q, 1, j), 1, i) : i \in 1 .. j - 1}
    BY <1>2 DEF Groups
  <2>2. \A i \in 1 .. j - 1 : SubSeq(SubSeq(q, 1, j), 1, i) = SubSeq(q, 1, i) BY <1>3
  <2>3. QED BY <2>1, <2>2
<1>5. Groups(g) \subseteq Groups(q) BY <1>1, <1>4 DEF Groups
<1>6. ASSUME NEW h \in Groups(q) PROVE h \in Groups(g) \cup {g} \/ g \in Groups(h)
  <2>1. PICK j \in 1 .. Len(q) - 1 : h = SubSeq(q, 1, j) BY DEF Groups
  <2>2. /\ Groups(g) = {SubSeq(q, 1, i) : i \in 1 .. k - 1}
        /\ Groups(h) = {SubSeq(q, 1, i) : i \in 1 .. j - 1}
    <3>1. Groups(SubSeq(q, 1, k)) = {SubSeq(q, 1, i) : i \in 1 .. k - 1} BY <1>4
    <3>2. Groups(SubSeq(q, 1, j)) = {SubSeq(q, 1, i) : i \in 1 .. j - 1} BY <1>4
    <3>3. QED BY <1>1, <2>1, <3>1, <3>2
  <2>3. CASE j < k
    <3>1. j \in 1 .. k - 1 BY <2>3
    <3>2. QED BY <2>1, <2>2, <3>1
  <2>4. CASE j = k BY <1>1, <2>1, <2>4
  <2>5. CASE k < j
    <3>1. k \in 1 .. j - 1 BY <2>5
    <3>2. QED BY <1>1, <2>2, <3>1
  <2>6. QED BY <2>3, <2>4, <2>5
<1>7. QED BY <1>5, <1>6

FormSchema == scene.form.schema
FormFill == scene.form.fill
FormEmpty == EmptyForm(FormSchema)
FormFlat == [p \in DOMAIN FormEmpty |-> IF p \in DOMAIN FormFill THEN FormFill[p]
                                                               ELSE FormEmpty[p]]
FormData == Coerce(FormSchema, FormFlat)
Changed(p) == p \in DOMAIN FormFill /\ FormFill[p] # FormEmpty[p]
FilledInto(g) == \E p \in Below(FormSchema, g) \cap DOMAIN FormFill : FormFill[p] # FormEmpty[p]
TouchedLeaf(v) == v.as = "number" \/ v = Flag(TRUE) \/ (v.as = "string" /\ v # Blank)

LEMMA FormFacts ==
  ASSUME scene \in Scenes
  PROVE  /\ DOMAIN FormEmpty = DOMAIN FormSchema.type
         /\ DOMAIN FormData = DOMAIN FormSchema.type
         /\ DOMAIN FormFill \subseteq DOMAIN FormSchema.type
         /\ FormPayload = Payload(FormSchema, FormFlat)
         /\ \A p \in DOMAIN FormSchema.type : p \in Seq(STRING)
<1>1. DOMAIN FormEmpty = DOMAIN FormSchema.type BY DEF FormEmpty, EmptyForm
<1>2. DOMAIN FormData = DOMAIN FormSchema.type BY <1>1 DEF FormData, Coerce, FormFlat
<1>3. FormPayload = Payload(FormSchema, FormFlat)
  BY DEF FormPayload, FormFlat, FormEmpty, FormFill, FormSchema
<1>4. QED BY <1>1, <1>2, <1>3, FormAssumption DEF FormSchema, FormFill

\* What the data hold for a leaf.
LEMMA FormLeaf ==
  ASSUME scene \in Scenes, NEW p \in DOMAIN FormSchema.type
  PROVE  /\ Groups(p) # {} => (Changed(p) <=> TouchedLeaf(FormData[p]))
         /\ TouchedLeaf(FormData[p]) => Kept(FormSchema, FormData, p)
<1> DEFINE type == FormSchema.type[p]
<1>0. /\ Blank.as = "string" /\ Flag(FALSE).as = "boolean" /\ Flag(TRUE).as = "boolean"
      /\ Flag(FALSE) # Flag(TRUE)
  <2>1. Flag(FALSE).tenths = 0 BY DEF Flag
  <2>2. Flag(TRUE).tenths = 1 BY DEF Flag
  <2>3. Blank.as = "string" BY DEF Blank, Text
  <2>4. Flag(FALSE).as = "boolean" BY DEF Flag
  <2>5. Flag(TRUE).as = "boolean" BY DEF Flag
  <2>6. 0 # 1 OBVIOUS
  <2>7. QED BY <2>1, <2>2, <2>3, <2>4, <2>5, <2>6, Zenon
<1>1. DOMAIN FormEmpty = DOMAIN FormSchema.type BY FormFacts
<1>2. FormData[p] = IF type \in {"integer", "number"} /\ FormFlat[p] # Blank
                    THEN Number(FormFlat[p].tenths) ELSE FormFlat[p]
  BY <1>1 DEF FormData, Coerce, FormFlat
<1>3. FormFlat[p] = IF p \in DOMAIN FormFill THEN FormFill[p] ELSE FormEmpty[p]
  BY <1>1 DEF FormFlat
<1>4. Groups(p) # {} => FormEmpty[p] = IF type = "boolean" THEN Flag(FALSE) ELSE Blank
  BY FormAssumption DEF FormEmpty, EmptyForm, FormSchema
<1>5. p \in DOMAIN FormFill => Fits(type, FormFill[p]) BY FormAssumption DEF FormSchema, FormFill
<1> HIDE DEF type
<1>6. ASSUME Groups(p) # {} PROVE Changed(p) <=> TouchedLeaf(FormData[p])
  <2>1. ~TouchedLeaf(Flag(FALSE)) /\ ~TouchedLeaf(Blank) /\ TouchedLeaf(Flag(TRUE))
        /\ Flag(TRUE) # Flag(FALSE)
    BY <1>0 DEF TouchedLeaf
  <2>2. CASE p \notin DOMAIN FormFill BY <1>2, <1>3, <1>4, <1>6, <2>1, <2>2 DEF Changed
  <2>3. CASE p \in DOMAIN FormFill /\ type = "boolean"
    BY <1>2, <1>3, <1>4, <1>5, <1>6, <2>1, <2>3 DEF Changed, Fits
  <2>4. CASE p \in DOMAIN FormFill /\ type \in {"integer", "number"}
    <3>1. \A n : TouchedLeaf(Number(n)) /\ Typed(n) # Blank
      BY DEF TouchedLeaf, Number, Typed, Blank, Text
    <3>2. QED BY <1>2, <1>3, <1>4, <1>5, <1>6, <2>1, <2>4, <3>1 DEF Changed, Fits
  <2>5. CASE p \in DOMAIN FormFill /\ type \notin {"boolean", "integer", "number"}
    <3>1. \A t : Text(t).as = "string" /\ Dated(t).as = "string" BY DEF Text, Dated
    <3>2. /\ FormData[p] = FormFill[p]
          /\ \/ FormFill[p] = Text(FormFill[p].text)
             \/ FormFill[p] = Dated(FormFill[p].tenths)
      BY <1>2, <1>3, <1>5, <2>5 DEF Fits
    <3>3. TouchedLeaf(FormFill[p]) <=> FormFill[p] # Blank
      <4>1. FormFill[p].as = "string" BY <3>1, <3>2
      <4>2. QED BY <2>1, <4>1 DEF TouchedLeaf
    <3>4. QED BY <1>4, <1>6, <2>5, <3>2, <3>3 DEF Changed
  <2>6. QED BY <2>2, <2>3, <2>4, <2>5
<1>7. TouchedLeaf(FormData[p]) => Kept(FormSchema, FormData, p)
  BY <1>0 DEF TouchedLeaf, Kept
<1>8. QED BY <1>6, <1>7

LEMMA FormTouched ==
  ASSUME scene \in Scenes, NEW g
  PROVE  Touched(FormSchema, FormData, g) <=> FilledInto(g)
<1>1. \A p \in Below(FormSchema, g) : p \in DOMAIN FormSchema.type /\ Groups(p) # {}
  BY DEF Below
<1>2. Touched(FormSchema, FormData, g)
        <=> \E p \in Below(FormSchema, g) : TouchedLeaf(FormData[p])
  BY DEF Touched, TouchedLeaf
<1>3. FilledInto(g) <=> \E p \in Below(FormSchema, g) : Changed(p) BY DEF FilledInto, Changed
<1>4. QED BY <1>1, <1>2, <1>3, FormLeaf

LEMMA FormSent ==
  ASSUME scene \in Scenes, NEW p
  PROVE  p \in DOMAIN FormPayload
           <=> /\ p \in DOMAIN FormSchema.type
               /\ Kept(FormSchema, FormData, p)
               /\ \A g \in Groups(p) : g \in FormSchema.required \/ FilledInto(g)
<1>1. DOMAIN FormPayload
        = {q \in DOMAIN FormData :
             /\ Kept(FormSchema, FormData, q)
             /\ \A g \in Groups(q) : g \in FormSchema.required
                                     \/ Touched(FormSchema, FormData, g)}
  BY FormFacts DEF Payload, FormData
<1>2. QED BY <1>1, FormFacts, FormTouched

LEMMA GroupsSent ==
  ASSUME scene \in Scenes, NEW o \in DOMAIN FormSchema.type, NEW g \in Groups(o)
  PROVE  Below(FormSchema, g) \cap DOMAIN FormPayload # {}
           <=> \A h \in Groups(g) \cup {g} : h \in FormSchema.required \/ FilledInto(h)
<1> DEFINE Through(h) == h \in FormSchema.required \/ FilledInto(h)
<1>1. ASSUME NEW p \in Below(FormSchema, g) \cap DOMAIN FormPayload, NEW h \in Groups(g) \cup {g}
      PROVE  Through(h)
  <2>1. p \in DOMAIN FormSchema.type /\ p \in Seq(STRING) /\ g \in Groups(p)
    BY FormFacts DEF Below
  <2>2. h \in Groups(p) BY <2>1, GroupsNested
  <2>3. QED BY <2>2, FormSent
<1>2. ASSUME \A h \in Groups(g) \cup {g} : Through(h)
      PROVE  \E p \in Below(FormSchema, g) : p \in DOMAIN FormPayload
  <2>1. CASE FilledInto(g)
    <3>1. PICK p \in Below(FormSchema, g) : Changed(p) BY <2>1 DEF FilledInto, Changed
    <3>2. p \in DOMAIN FormSchema.type /\ p \in Seq(STRING) /\ g \in Groups(p)
      BY FormFacts DEF Below
    <3>3. Kept(FormSchema, FormData, p) BY <3>1, <3>2, FormLeaf
    <3>4. ASSUME NEW h \in Groups(p) PROVE Through(h)
      <4>1. CASE h \in Groups(g) \cup {g} BY <1>2, <4>1
      <4>2. CASE g \in Groups(h)
        <5>1. p \in Below(FormSchema, h) BY <3>2, <3>4 DEF Below
        <5>2. FilledInto(h) BY <3>1, <5>1 DEF FilledInto, Changed
        <5>3. QED BY <5>2
      <4>3. QED BY <3>2, <4>1, <4>2, GroupsNested
    <3>5. QED BY <3>2, <3>3, <3>4, FormSent
  <2>2. CASE ~FilledInto(g)
    <3>1. g \in FormSchema.required BY <1>2, <2>2
    <3>2. PICK q \in DOMAIN FormSchema.type \cap FormSchema.required :
            Groups(q) = Groups(g) \cup {g}
      BY <3>1, FormAssumption DEF FormSchema
    <3>3. Kept(FormSchema, FormData, q) BY DEF Kept
    <3>4. q \in Below(FormSchema, g) BY <3>2 DEF Below
    <3>5. QED BY <1>2, <3>2, <3>3, <3>4, FormSent
  <2>3. QED BY <2>1, <2>2
<1>3. QED BY <1>1, <1>2

\* Of every form that fits its schema, however deep its groups are, a group is sent
\* exactly if it and those around it are required or filled in, and then with all
\* the schema requires of it (FormFromSchema.svelte 174-222).
THEOREM FilledGroupsAreSent == Spec => []GroupSentIffTouched
<1>1. ASSUME scene \in Scenes PROVE GroupSentIffTouched
  <2> DEFINE Sent(g) == Below(FormSchema, g) \cap DOMAIN FormPayload # {}
             All == UNION {Groups(p) : p \in DOMAIN FormSchema.type}
  <2>1. ASSUME NEW g \in All
        PROVE  Sent(g) <=> \A h \in Groups(g) \cup {g} : h \in FormSchema.required \/ FilledInto(h)
    BY <1>1, GroupsSent
  <2>2. ASSUME NEW g \in All, NEW p \in Below(FormSchema, g) \cap FormSchema.required,
               \A h \in Groups(p) : Sent(h)
        PROVE  p \in DOMAIN FormPayload
    <3>1. p \in DOMAIN FormSchema.type BY DEF Below
    <3>2. \A h \in Groups(p) : h \in All BY <3>1
    <3>3. \A h \in Groups(p) : h \in FormSchema.required \/ FilledInto(h) BY <2>1, <2>2, <3>2
    <3>4. Kept(FormSchema, FormData, p) BY DEF Kept
    <3>5. QED BY <1>1, <3>1, <3>3, <3>4, FormSent
  <2>3. \A g \in All :
          /\ Sent(g) <=> \A h \in Groups(g) \cup {g} : h \in FormSchema.required \/ FilledInto(h)
          /\ Sent(g) => \A p \in Below(FormSchema, g) \cap FormSchema.required :
               (\A h \in Groups(p) : Sent(h)) => p \in DOMAIN FormPayload
    BY <2>1, <2>2
  <2>4. QED BY <2>3 DEF GroupSentIffTouched, FilledInto, FormSchema, FormFill, FormEmpty
<1>2. Init => scene \in Scenes BY DEF Init
<1>3. scene \in Scenes /\ [Next]_vars => (scene \in Scenes)' BY ScenesStay
<1>4. QED BY <1>1, <1>2, <1>3, PTL DEF Spec

-----------------------------------------------------------------------------
(***************************************************************************)
(* The entry form of a connector.                                          *)
(***************************************************************************)
LEMMA PathsApart ==
  /\ NodePath \notin {StartPath, EndPath, Households, Method, BarbWeek, Document, Notes}
  /\ StartPath \notin {EndPath, Households, Method, BarbWeek, Document, Notes}
  /\ EndPath \notin {Households, Method, BarbWeek, Document, Notes}
  /\ Households \notin {Method, BarbWeek, Document, Notes}
  /\ Method \notin {BarbWeek, Document, Notes}
  /\ BarbWeek \notin {Document, Notes} /\ Document # Notes
BY DEF NodePath, StartPath, EndPath, Households, Method, BarbWeek, Document, Notes

LEMMA PathGroups ==
  /\ Groups(StartPath) = {<<"period">>} /\ Groups(EndPath) = {<<"period">>}
  /\ \A p \in {NodePath, Households, Method, BarbWeek, Document, Notes} : Groups(p) = {}
<1>1. ASSUME NEW a, NEW b PROVE Groups(<<a, b>>) = {<<a>>}
  <2> DEFINE q == <<a, b>>
             g == SubSeq(q, 1, 1)
  <2>1. q \in Seq({a, b}) /\ Len(q) = 2 /\ q[1] = a OBVIOUS
  <2> HIDE DEF q
  <2>2. \A i \in 1 .. 1 : q[i] \in {a, b} BY <2>1
  <2>3. g \in Seq({a, b}) /\ Len(g) = 1 /\ g[1] = q[1]
    <3>1. /\ g \in Seq({a, b}) /\ Len(g) = (IF 1 <= 1 THEN 1 - 1 + 1 ELSE 0)
          /\ \A i \in 1 .. 1 - 1 + 1 : g[i] = q[1 + i - 1]
      BY <2>2, SubSeqProperties
    <3> HIDE DEF g
    <3>2. QED BY <3>1
  <2>4. Groups(q) = {g}
    <3>1. 1 .. Len(q) - 1 = {1} BY <2>1
    <3>2. QED BY <3>1 DEF Groups
  <2> HIDE DEF g
  <2>5. g = <<a>> BY <2>1, <2>3
  <2>6. QED BY <2>4, <2>5 DEF q
<1>2. ASSUME NEW a PROVE Groups(<<a>>) = {}
  <2>1. 1 .. Len(<<a>>) - 1 = {} OBVIOUS
  <2>2. QED BY <2>1 DEF Groups
<1>3. QED
  BY <1>1, <1>2
  DEF NodePath, StartPath, EndPath, Households, Method, BarbWeek, Document, Notes

EntryLeaves(source) ==
  {NodePath, StartPath, EndPath, Households, Method, Notes}
    \cup (IF source = "manual_freeview" THEN {BarbWeek} ELSE {Document})
Asked == {NodePath, StartPath, EndPath, Households, Method}

LEMMA EntrySchemas ==
  ASSUME NEW source, NEW options
  PROVE  LET schema == EntrySchema(source, options) IN
         /\ DOMAIN schema.type = EntryLeaves(source)
         /\ \A p \in EntryLeaves(source) :
              schema.type[p] = IF p \in {Households, BarbWeek} THEN "integer" ELSE "string"
         /\ schema.options = [p \in {NodePath, Method} |-> IF p = NodePath THEN options
                                                                        ELSE Methods[source]]
         /\ schema.required = Asked \cup {<<"period">>}
BY DEF EntrySchema, EntryTypes, EntryLeaves, EntryRequired, Asked

\* What the data hold, leaf by leaf.
LEMMA EntryData ==
  ASSUME scene \in Scenes, scene.form.source # Nothing
  PROVE  LET source == scene.form.source
             nodesListed == FormSchema.options[NodePath]
         IN
         /\ DOMAIN FormSchema.type = EntryLeaves(source)
         /\ FormSchema.required = Asked \cup {<<"period">>}
         /\ nodesListed = <<>> => FormData[NodePath] = Blank
         /\ nodesListed # <<>> => \E n \in ToSet(nodesListed) : FormData[NodePath] = Text(n)
         /\ nodesListed \in Seq(Node)
         /\ Methods[source] # <<>> => \E m \in ToSet(Methods[source]) : FormData[Method] = Text(m)
         /\ \A p \in EntryLeaves(source) \ {NodePath, Method, Households, BarbWeek} :
              FormData[p] = Answer(p)
         /\ \A p \in EntryLeaves(source) \cap {Households, BarbWeek} :
              FormData[p] = IF Answer(p) # Blank THEN Number(Answer(p).tenths) ELSE Blank
         /\ \A p \in EntryLeaves(source) \cap {Households, BarbWeek} :
              Answer(p) = Blank \/ (Answer(p).tenths \in Int /\ Answer(p) = Typed(Answer(p).tenths))
         /\ \A p \in EntryLeaves(source) \ {NodePath, Method, Households, BarbWeek} :
              \/ Answer(p) = Text(Answer(p).text)
              \/ Answer(p).tenths \in Int /\ Answer(p) = Dated(Answer(p).tenths)
         /\ \A p : p \notin EntryLeaves(source) => Answer(p) = Blank
<1> DEFINE source == scene.form.source
           listed == FormSchema.options[NodePath]
<1>1. /\ DOMAIN FormFill \subseteq DOMAIN FormSchema.type
      /\ FormSchema = EntrySchema(source, listed) /\ listed \in Seq(Node)
      /\ source \in DOMAIN Methods
      /\ \A p \in {NodePath, Method} \cap DOMAIN FormFill :
           \E option \in ToSet(FormSchema.options[p]) : FormFill[p] = Text(option)
      /\ \A p \in DOMAIN FormFill : Fits(FormSchema.type[p], FormFill[p])
  BY FormAssumption DEF FormSchema, FormFill
<1>2. /\ DOMAIN FormSchema.type = EntryLeaves(source)
      /\ \A p \in EntryLeaves(source) :
           FormSchema.type[p] = IF p \in {Households, BarbWeek} THEN "integer" ELSE "string"
      /\ FormSchema.options = [p \in {NodePath, Method} |-> IF p = NodePath THEN listed
                                                                        ELSE Methods[source]]
      /\ FormSchema.required = Asked \cup {<<"period">>}
  <2> DEFINE Of(schema) ==
        /\ DOMAIN schema.type = EntryLeaves(source)
        /\ \A p \in EntryLeaves(source) :
             schema.type[p] = IF p \in {Households, BarbWeek} THEN "integer" ELSE "string"
        /\ schema.options = [p \in {NodePath, Method} |-> IF p = NodePath THEN listed
                                                                       ELSE Methods[source]]
        /\ schema.required = Asked \cup {<<"period">>}
  <2>1. Of(EntrySchema(source, listed)) BY EntrySchemas
  <2> HIDE DEF Of, listed
  <2>2. Of(FormSchema) BY <1>1, <2>1
  <2>3. QED BY <2>2 DEF Of
<1> HIDE DEF source, listed
<1>3. \A p \in EntryLeaves(source) :
        FormEmpty[p] = IF p \in {NodePath, Method} /\ FormSchema.options[p] # <<>>
                       THEN Text(FormSchema.options[p][1]) ELSE Blank
  <2>1. \A p \in EntryLeaves(source) : FormSchema.type[p] # "boolean" BY <1>2
  <2>2. DOMAIN FormSchema.options = {NodePath, Method} BY <1>2
  <2>3. QED BY <1>2, <2>1, <2>2 DEF FormEmpty, EmptyForm
<1>4. \A p \in EntryLeaves(source) :
        /\ FormFlat[p] = (IF p \in DOMAIN FormFill THEN FormFill[p] ELSE FormEmpty[p])
        /\ FormData[p] = (IF p \in {Households, BarbWeek} /\ FormFlat[p] # Blank
                          THEN Number(FormFlat[p].tenths) ELSE FormFlat[p])
  <2>1. DOMAIN FormEmpty = EntryLeaves(source) BY <1>2 DEF FormEmpty, EmptyForm
  <2>2. \A p \in EntryLeaves(source) : FormSchema.type[p] \in {"integer", "number"}
                                         <=> p \in {Households, BarbWeek}
    BY <1>2
  <2>3. QED BY <2>1, <2>2 DEF FormFlat, FormData, Coerce
<1>5. \A p \in EntryLeaves(source) \ {NodePath, Method} : FormFlat[p] = Answer(p)
  BY <1>3, <1>4 DEF Answer, FormFill
<1>6. \A p : p \notin EntryLeaves(source) => Answer(p) = Blank
  BY <1>1, <1>2 DEF Answer, FormFill
<1>7. ASSUME NEW p \in {NodePath, Method}
      PROVE  /\ FormSchema.options[p] = <<>> => FormData[p] = Blank
             /\ FormSchema.options[p] # <<>>
                  => \E o \in ToSet(FormSchema.options[p]) : FormData[p] = Text(o)
  <2> DEFINE options == FormSchema.options[p]
  <2>1. p \in EntryLeaves(source) /\ p \notin {Households, BarbWeek}
    BY PathsApart DEF EntryLeaves
  <2>2. CASE p \in DOMAIN FormFill
    <3>1. PICK o \in ToSet(options) : FormFill[p] = Text(o) BY <1>1, <2>2
    <3>2. options # <<>> BY <3>1 DEF ToSet
    <3>3. FormData[p] = Text(o) BY <1>4, <2>1, <2>2, <3>1
    <3>4. QED BY <3>1, <3>2, <3>3
  <2>3. CASE p \notin DOMAIN FormFill
    <3>1. FormData[p] = IF options # <<>> THEN Text(options[1]) ELSE Blank
      BY <1>3, <1>4, <2>1, <2>3
    <3>2. options # <<>> => options[1] \in ToSet(options)
      <4>1. options \in Seq(Node) \/ options = Methods[source] BY <1>1, <1>2, PathsApart
      <4>2. CASE options \in Seq(Node)
        <5>1. options # <<>> => 1 \in DOMAIN options BY <4>2
        <5>2. QED BY <5>1 DEF ToSet
      <4>3. CASE options = Methods[source]
        <5>1. options # <<>> /\ 1 \in DOMAIN options BY <1>1, <4>3 DEF Methods
        <5>2. QED BY <5>1 DEF ToSet
      <4>4. QED BY <4>1, <4>2, <4>3
    <3>3. QED BY <3>1, <3>2
  <2>4. QED BY <2>2, <2>3
<1>8. /\ FormSchema.options[NodePath] = listed
      /\ FormSchema.options[Method] = Methods[source]
  BY <1>2, PathsApart
<1>9. \A p \in EntryLeaves(source) \ {NodePath, Method, Households, BarbWeek} :
        FormData[p] = Answer(p)
  BY <1>4, <1>5
<1>10. \A p \in EntryLeaves(source) \cap {Households, BarbWeek} :
         FormData[p] = IF Answer(p) # Blank THEN Number(Answer(p).tenths) ELSE Blank
  BY <1>4, <1>5, PathsApart
<1>11. \A p \in DOMAIN FormFill : Answer(p) = FormFill[p] BY DEF Answer, FormFill
<1>12. \A p : p \notin DOMAIN FormFill => Answer(p) = Blank BY DEF Answer, FormFill
<1>13. \A p \in EntryLeaves(source) \cap {Households, BarbWeek} :
         Answer(p) = Blank \/ (Answer(p).tenths \in Int /\ Answer(p) = Typed(Answer(p).tenths))
  <2> SUFFICES ASSUME NEW p \in EntryLeaves(source) \cap {Households, BarbWeek}
               PROVE  Answer(p) = Blank \/ ( /\ Answer(p).tenths \in Int
                                             /\ Answer(p) = Typed(Answer(p).tenths))
    OBVIOUS
  <2>1. CASE p \notin DOMAIN FormFill BY <1>12, <2>1
  <2>2. CASE p \in DOMAIN FormFill
    <3>1. FormSchema.type[p] = "integer" BY <1>2
    <3>2. Fits("integer", FormFill[p]) BY <1>1, <2>2, <3>1
    <3>3. QED BY <1>11, <2>2, <3>2 DEF Fits
  <2>3. QED BY <2>1, <2>2
<1>14. \A p \in EntryLeaves(source) \ {NodePath, Method, Households, BarbWeek} :
         \/ Answer(p) = Text(Answer(p).text)
         \/ Answer(p).tenths \in Int /\ Answer(p) = Dated(Answer(p).tenths)
  <2> SUFFICES ASSUME NEW p \in EntryLeaves(source) \ {NodePath, Method, Households, BarbWeek}
               PROVE  \/ Answer(p) = Text(Answer(p).text)
                      \/ Answer(p).tenths \in Int /\ Answer(p) = Dated(Answer(p).tenths)
    OBVIOUS
  <2>1. CASE p \notin DOMAIN FormFill
    <3>1. Blank = Text(Blank.text) BY DEF Blank, Text
    <3>2. QED BY <1>12, <2>1, <3>1
  <2>2. CASE p \in DOMAIN FormFill
    <3>1. FormSchema.type[p] = "string" BY <1>2
    <3>2. Fits("string", FormFill[p]) BY <1>1, <2>2, <3>1
    <3>3. QED BY <1>11, <2>2, <3>2 DEF Fits
  <2>3. QED BY <2>1, <2>2
<1>15. QED
  BY <1>1, <1>2, <1>6, <1>7, <1>8, <1>9, <1>10, <1>13, <1>14 DEF source, listed

\* What the form sends: all that is asked, and what else was filled in.
LEMMA EntrySent ==
  ASSUME scene \in Scenes, scene.form.source # Nothing
  PROVE  /\ DOMAIN FormPayload = {p \in EntryLeaves(scene.form.source) :
                                    p \in Asked \/ FormData[p] # Blank}
         /\ \A p \in DOMAIN FormPayload : FormPayload[p] = FormData[p]
<1> DEFINE source == scene.form.source
<1>1. /\ DOMAIN FormSchema.type = EntryLeaves(source)
      /\ FormSchema.required = Asked \cup {<<"period">>}
  BY EntryData
<1>2. \A p \in EntryLeaves(source) : \A g \in Groups(p) : g = <<"period">>
  BY PathGroups DEF EntryLeaves
<1>3. \A p \in EntryLeaves(source) : p # <<"period">>
  BY DEF EntryLeaves, NodePath, StartPath, EndPath, Households, Method, BarbWeek, Document, Notes
<1>4. \A p \in EntryLeaves(source) : FormSchema.type[p] # "boolean"
  <2>1. FormSchema = EntrySchema(source, FormSchema.options[NodePath])
    BY FormAssumption DEF FormSchema
  <2>2. \A p \in EntryLeaves(source) :
          EntrySchema(source, FormSchema.options[NodePath]).type[p] # "boolean"
    BY EntrySchemas
  <2>3. QED BY <2>1, <2>2
<1>5. \A p \in EntryLeaves(source) :
        Kept(FormSchema, FormData, p) <=> p \in Asked \/ FormData[p] # Blank
  BY <1>1, <1>3, <1>4 DEF Kept
<1>6. DOMAIN FormPayload = {p \in EntryLeaves(source) : p \in Asked \/ FormData[p] # Blank}
  <2>1. \A p : p \in DOMAIN FormPayload
                 <=> p \in EntryLeaves(source) /\ (p \in Asked \/ FormData[p] # Blank)
    BY <1>1, <1>2, <1>5, FormSent
  <2>2. QED BY <2>1
<1>7. \A p \in DOMAIN FormPayload : FormPayload[p] = FormData[p]
  BY FormFacts DEF Payload, FormData
<1>8. QED BY <1>6, <1>7

\* A leaf passes the check exactly if it was filled as its label asks.
LEMMA EntryValid ==
  ASSUME scene \in Scenes, scene.form.source # Nothing
  PROVE  LET source == scene.form.source
             Valid(p) == ValidLeaf(source, p, FormData[p])
         IN
         /\ Valid(NodePath) <=> FormSchema.options[NodePath] # <<>>
         /\ Valid(Method)
         /\ Valid(StartPath) <=> IsDate(Answer(StartPath))
         /\ Valid(EndPath) <=> IsDate(Answer(EndPath))
         /\ FormData[StartPath] = Answer(StartPath) /\ FormData[EndPath] = Answer(EndPath)
         /\ Valid(Notes) <=> Answer(Notes).text # TooLong
         /\ Valid(Households) <=> /\ Answer(Households).tenths > 0
                                 /\ Answer(Households).tenths % 10 = 0
         /\ BarbWeek \in EntryLeaves(source) =>
              ((FormData[BarbWeek] # Blank => Valid(BarbWeek))
                 <=> \/ Answer(BarbWeek) = Blank
                     \/ Answer(BarbWeek).tenths \in {10 * w : w \in 1 .. 53})
         /\ Document \in EntryLeaves(source) =>
              ((FormData[Document] # Blank => Valid(Document))
                 <=> Answer(Document).text \in {"", ReportURL})
<1> DEFINE source == scene.form.source
           Valid(p) == ValidLeaf(source, p, FormData[p])
<1>0. \A t : /\ Text(t).as = "string" /\ Text(t).text = t
            /\ Dated(t).as = "string" /\ Dated(t).text = "date"
  BY DEF Text, Dated
<1>1. Blank.as = "string" /\ Blank.text = "" /\ Blank.tenths = 0 BY DEF Blank, Text
<1>2. \A n : Number(n).as = "number" /\ Number(n).tenths = n BY DEF Number
<1>3. {NodePath, StartPath, EndPath, Households, Method, Notes} \subseteq EntryLeaves(source)
  BY DEF EntryLeaves
<1>4. Valid(NodePath) <=> FormSchema.options[NodePath] # <<>>
  <2>1. Valid(NodePath) <=> FormData[NodePath].as = "string" /\ FormData[NodePath] # Blank
    BY PathsApart DEF ValidLeaf
  <2>2. CASE FormSchema.options[NodePath] = <<>>
    <3>1. FormData[NodePath] = Blank BY <2>2, EntryData
    <3>2. QED BY <2>1, <2>2, <3>1
  <2>3. CASE FormSchema.options[NodePath] # <<>>
    <3>1. FormSchema.options[NodePath] \in Seq(Node) BY EntryData
    <3>2. PICK n \in ToSet(FormSchema.options[NodePath]) : FormData[NodePath] = Text(n)
      BY <2>3, EntryData
    <3>3. PICK i \in DOMAIN FormSchema.options[NodePath] : n = FormSchema.options[NodePath][i]
      BY <3>2 DEF ToSet
    <3>4. n \in Node BY <3>1, <3>3
    <3>5. n # "" BY <3>4, FormAssumption
    <3>6. Text(n) # Blank BY <1>0, <1>1, <3>5
    <3>7. QED BY <1>0, <2>1, <2>3, <3>2, <3>6
  <2>4. QED BY <2>2, <2>3
<1>5. Valid(Method)
  <2>1. Valid(Method) <=> /\ FormData[Method].as = "string"
                          /\ FormData[Method].text \in ToSet(Methods[source])
    BY PathsApart DEF ValidLeaf
  <2>2. source \in DOMAIN Methods BY FormAssumption
  <2>3. Methods[source] # <<>> BY <2>2 DEF Methods
  <2>4. PICK m \in ToSet(Methods[source]) : FormData[Method] = Text(m) BY <2>3, EntryData
  <2>5. QED BY <1>0, <2>1, <2>4
<1>6. \A p \in {StartPath, EndPath, Notes} :
        FormData[p] = Answer(p) /\ Answer(p).as = "string"
  <2>1. \A p \in {StartPath, EndPath, Notes} :
          p \in EntryLeaves(source) \ {NodePath, Method, Households, BarbWeek}
    BY <1>3, PathsApart
  <2>2. \A p \in {StartPath, EndPath, Notes} :
          /\ FormData[p] = Answer(p)
          /\ \/ Answer(p) = Text(Answer(p).text)
             \/ Answer(p) = Dated(Answer(p).tenths)
    BY <2>1, EntryData
  <2>3. QED BY <1>0, <2>2
<1>7. \A p \in {StartPath, EndPath} : Valid(p) <=> IsDate(Answer(p))
  BY <1>6, PathsApart DEF ValidLeaf
<1>8. Valid(Notes) <=> Answer(Notes).text # TooLong
  <2>1. Valid(Notes) <=> FormData[Notes].as = "string" /\ FormData[Notes].text # TooLong
    BY PathsApart DEF ValidLeaf
  <2>2. QED BY <1>6, <2>1
<1>9. Valid(Households)
        <=> Answer(Households).tenths > 0 /\ Answer(Households).tenths % 10 = 0
  <2>1. Valid(Households) <=> WholeNumber(FormData[Households]) /\ FormData[Households].tenths > 0
    BY PathsApart DEF ValidLeaf
  <2>2. FormData[Households] = IF Answer(Households) # Blank
                               THEN Number(Answer(Households).tenths) ELSE Blank
    BY <1>3, EntryData
  <2>3. CASE Answer(Households) = Blank
    <3>1. Answer(Households).tenths = 0 BY <1>1, <2>3
    <3>2. ~WholeNumber(Blank) BY <1>1 DEF WholeNumber
    <3>3. FormData[Households] = Blank BY <2>2, <2>3
    <3>4. ~(Answer(Households).tenths > 0) BY <3>1
    <3>5. QED BY <2>1, <3>2, <3>3, <3>4
  <2>4. CASE Answer(Households) # Blank BY <1>2, <2>1, <2>2, <2>4 DEF WholeNumber
  <2>5. QED BY <2>3, <2>4
<1>10. ASSUME BarbWeek \in EntryLeaves(source)
       PROVE  (FormData[BarbWeek] # Blank => Valid(BarbWeek))
                <=> \/ Answer(BarbWeek) = Blank
                    \/ Answer(BarbWeek).tenths \in {10 * w : w \in 1 .. 53}
  <2> DEFINE a == Answer(BarbWeek)
  <2>1. Valid(BarbWeek)
          <=> WholeNumber(FormData[BarbWeek]) /\ FormData[BarbWeek].tenths \in 10 .. 530
    BY PathsApart DEF ValidLeaf
  <2>2. FormData[BarbWeek] = IF a # Blank THEN Number(a.tenths) ELSE Blank
    BY <1>10, EntryData
  <2>3. a = Blank \/ (a.tenths \in Int /\ a = Typed(a.tenths)) BY <1>10, EntryData
  <2>4. CASE a = Blank BY <2>2, <2>4
  <2>5. CASE a # Blank
    <3>1. PICK t \in Int : t = a.tenths BY <2>3, <2>5
    <3>2. FormData[BarbWeek] = Number(t) BY <2>2, <2>5, <3>1
    <3>3. Number(t) # Blank BY <1>1, <1>2
    <3>4. Valid(BarbWeek) <=> t % 10 = 0 /\ t \in 10 .. 530
      BY <1>2, <2>1, <3>2 DEF WholeNumber
    <3>5. ASSUME t % 10 = 0, t \in 10 .. 530 PROVE \E w \in 1 .. 53 : t = 10 * w
      <4>1. PICK w \in Int : w = (t \div 10) BY <3>5
      <4>2. t = 10 * w BY <3>5, <4>1, SMTT(10)
      <4>3. w \in 1 .. 53 BY <3>5, <4>2, SMTT(10)
      <4>4. QED BY <4>2, <4>3
    <3>6. ASSUME NEW w \in 1 .. 53, t = 10 * w PROVE t % 10 = 0 /\ t \in 10 .. 530
      BY <3>6, SMTT(10)
    <3>7. QED BY <2>5, <3>1, <3>2, <3>3, <3>4, <3>5, <3>6
  <2>6. QED BY <2>4, <2>5
<1>11. ASSUME Document \in EntryLeaves(source)
       PROVE  (FormData[Document] # Blank => Valid(Document))
                <=> Answer(Document).text \in {"", ReportURL}
  <2>1. Document \in EntryLeaves(source) \ {NodePath, Method, Households, BarbWeek}
    BY <1>11, PathsApart
  <2>2. /\ FormData[Document] = Answer(Document)
        /\ \/ Answer(Document) = Text(Answer(Document).text)
           \/ Answer(Document) = Dated(Answer(Document).tenths)
    BY <2>1, EntryData
  <2>3. Valid(Document) <=> FormData[Document] = Text(ReportURL)
    BY PathsApart DEF ValidLeaf
  <2>4. "date" \notin {"", ReportURL} BY DEF ReportURL
  <2>5. CASE Answer(Document) = Text(Answer(Document).text) BY <1>0, <2>2, <2>3, <2>5 DEF Blank
  <2>6. CASE Answer(Document) = Dated(Answer(Document).tenths)
    BY <1>0, <1>1, <2>2, <2>3, <2>4, <2>6
  <2>7. QED BY <2>2, <2>5, <2>6
<1>12. QED BY <1>4, <1>5, <1>6, <1>7, <1>8, <1>9, <1>10, <1>11

\* A date of the form is one of the instants that are typed.
LEMMA DatesTyped ==
  ASSUME scene \in Scenes, scene.form.source # Nothing, NEW p, IsDate(Answer(p))
  PROVE  Instant(Answer(p)) \in Instants /\ Instant(Answer(p)) \in Int
<1>1. p \in DOMAIN FormFill
  <2>1. ~IsDate(Blank) BY DEF IsDate, Blank, Text
  <2>2. QED BY <2>1 DEF Answer, FormFill
<1>2. Answer(p) = FormFill[p] BY <1>1 DEF Answer, FormFill
<1>3. QED BY <1>1, <1>2, FormAssumption DEF FormFill

\* What two dates of a form have to be: one week or one calendar month.
OneWeekOrMonth ==
  \E g \in {"week", "month"} : IsPeriod(Instant(Answer(StartPath)), Instant(Answer(EndPath)), g)

LEMMA PeriodAccepted ==
  ASSUME scene \in Scenes, scene.form.source # Nothing,
         IsDate(Answer(StartPath)), IsDate(Answer(EndPath)),
         FormPayload[StartPath] = Answer(StartPath), FormPayload[EndPath] = Answer(EndPath)
  PROVE  /\ OnePeriod(FormPayload) <=> OneWeekOrMonth
         /\ OneWeekOrMonth => Instant(Answer(StartPath)) < Instant(Answer(EndPath))
<1> DEFINE start == Instant(Answer(StartPath))
           end   == Instant(Answer(EndPath))
<1>1. start \in Instants /\ end \in Instants /\ start \in Int /\ end \in Int BY DatesTyped
<1>2. OnePeriod(FormPayload) <=> <<start, end>> \in OnePeriods BY DEF OnePeriod
<1> HIDE DEF start, end
<1>3. <<start, end>> \in OnePeriods <=> InferGranularity(start, end) # "none"
  BY <1>1 DEF OnePeriods
<1>4. InferGranularity(start, end) # "none" <=> \E g \in {"week", "month"} : IsPeriod(start, end, g)
  BY <1>1, InferredIsPeriod
<1>5. \A g : IsPeriod(start, end, g) => start < end BY DEF IsPeriod
<1>6. QED BY <1>2, <1>3, <1>4, <1>5 DEF start, end, OneWeekOrMonth

\* Whatever is typed into the entry form of a connector, the API accepts what it sends
\* exactly if it was filled as its labels and the API's messages ask, its period one
\* week or one calendar month, its notes no longer than 1000 characters
\* (FormFromSchema.svelte 133-222, manual-freeview.ts, manual-satellite.ts,
\* entries.ts 65-100 and 212-231).
THEOREM FilledFormsAreAccepted == Spec => []FilledFormAccepted
<1>0. \A source : /\ DOMAIN EntrySchema(source, <<>>).type = EntryLeaves(source)
                  /\ EntrySchema(source, <<>>).required = Asked \cup {<<"period">>}
  BY EntrySchemas
<1>1. ASSUME scene \in Scenes, scene.form.source # Nothing
      PROVE  Accepts(scene.form.source, FormPayload) <=> RightlyFilled
  <2> DEFINE source == scene.form.source
             Valid(p) == ValidLeaf(source, p, FormData[p])
             Dates == IsDate(Answer(StartPath)) /\ IsDate(Answer(EndPath))
             InOrder == Instant(Answer(StartPath)) < Instant(Answer(EndPath))
  <2>1. /\ DOMAIN FormPayload = {p \in EntryLeaves(source) : p \in Asked \/ FormData[p] # Blank}
        /\ \A p \in DOMAIN FormPayload : FormPayload[p] = FormData[p]
    BY <1>1, EntrySent
  <2>2. Asked \subseteq EntryLeaves(source) /\ Asked \subseteq DOMAIN FormPayload
        /\ <<"period">> \notin EntryLeaves(source)
    BY <2>1
    DEF Asked, EntryLeaves, NodePath, StartPath, EndPath, Households, Method, BarbWeek,
        Document, Notes
  <2>3. FormPayload[StartPath] = Answer(StartPath) /\ FormPayload[EndPath] = Answer(EndPath)
    BY <1>1, <2>1, <2>2, EntryValid DEF Asked
  <2>4. Parses(source, FormPayload)
          <=> (\A p \in DOMAIN FormPayload : ValidLeaf(source, p, FormPayload[p])) /\ InOrder
    <3>1. /\ DOMAIN EntrySchema(source, <<>>).type = EntryLeaves(source)
          /\ EntrySchema(source, <<>>).required = Asked \cup {<<"period">>}
      BY <1>0
    <3>2. QED BY <2>1, <2>2, <2>3, <3>1 DEF Parses
  <2>5. (\A p \in DOMAIN FormPayload : ValidLeaf(source, p, FormPayload[p]))
          <=> \A p \in EntryLeaves(source) : (p \in Asked \/ FormData[p] # Blank) => Valid(p)
    BY <2>1
  <2>6. (\A p \in EntryLeaves(source) : (p \in Asked \/ FormData[p] # Blank) => Valid(p))
          <=> /\ \A p \in Asked : Valid(p)
              /\ Answer(Notes).text # TooLong
              /\ BarbWeek \in EntryLeaves(source) => (FormData[BarbWeek] # Blank => Valid(BarbWeek))
              /\ Document \in EntryLeaves(source) => (FormData[Document] # Blank => Valid(Document))
    <3>1. FormData[Notes] # Blank => (Valid(Notes) <=> Answer(Notes).text # TooLong)
      BY <1>1, EntryValid
    <3>2. FormData[Notes] = Blank => Answer(Notes).text # TooLong
      <4>1. Notes \in EntryLeaves(source) \ {NodePath, Method, Households, BarbWeek}
        BY PathsApart DEF EntryLeaves
      <4>2. FormData[Notes] = Answer(Notes) BY <1>1, <4>1, EntryData
      <4>3. Blank.text = "" /\ "" # TooLong BY DEF Blank, Text, TooLong
      <4>4. QED BY <4>2, <4>3
    <3>3. /\ \A p \in EntryLeaves(source) : p \in Asked \cup {Notes, BarbWeek, Document}
          /\ BarbWeek \notin Asked /\ Document \notin Asked /\ Notes \notin Asked
          /\ Notes \in EntryLeaves(source)
      BY PathsApart DEF EntryLeaves, Asked
    <3>4. Notes \in EntryLeaves(source) /\ (FormData[Notes] # Blank => Valid(Notes))
            <=> Answer(Notes).text # TooLong
      BY <3>1, <3>2, <3>3, <1>1, EntryValid
    <3> HIDE DEF Valid
    <3>5. QED BY <2>2, <3>3, <3>4
  <2>7. (\A p \in Asked : Valid(p))
          <=> /\ FormSchema.options[NodePath] # <<>>
              /\ Dates
              /\ Answer(Households).tenths > 0 /\ Answer(Households).tenths % 10 = 0
    <3>1. (\A p \in Asked : Valid(p))
            <=> /\ Valid(NodePath) /\ Valid(StartPath) /\ Valid(EndPath)
                /\ Valid(Households) /\ Valid(Method)
      BY DEF Asked
    <3>2. /\ Valid(NodePath) <=> FormSchema.options[NodePath] # <<>>
          /\ Valid(StartPath) <=> IsDate(Answer(StartPath))
          /\ Valid(EndPath) <=> IsDate(Answer(EndPath))
          /\ Valid(Households) <=> /\ Answer(Households).tenths > 0
                                  /\ Answer(Households).tenths % 10 = 0
          /\ Valid(Method)
      BY <1>1, EntryValid
    <3> HIDE DEF Valid
    <3>3. QED BY <3>1, <3>2
  <2>8. (BarbWeek \in EntryLeaves(source) => (FormData[BarbWeek] # Blank => Valid(BarbWeek)))
          <=> \/ Answer(BarbWeek) = Blank
              \/ Answer(BarbWeek).tenths \in {10 * w : w \in 1 .. 53}
    <3>1. CASE BarbWeek \in EntryLeaves(source) BY <1>1, <3>1, EntryValid
    <3>2. CASE BarbWeek \notin EntryLeaves(source) BY <1>1, <3>2, EntryData
    <3>3. QED BY <3>1, <3>2
  <2>9. (Document \in EntryLeaves(source) => (FormData[Document] # Blank => Valid(Document)))
          <=> Answer(Document).text \in {"", ReportURL}
    <3>1. CASE Document \in EntryLeaves(source) BY <1>1, <3>1, EntryValid
    <3>2. CASE Document \notin EntryLeaves(source)
      <4>1. Answer(Document) = Blank BY <1>1, <3>2, EntryData
      <4>2. Blank.text = "" BY DEF Blank, Text
      <4>3. QED BY <3>2, <4>1, <4>2
    <3>3. QED BY <3>1, <3>2
  <2>10. RightlyFilled
           <=> /\ FormSchema.options[NodePath] # <<>>
               /\ Dates /\ OneWeekOrMonth
               /\ Answer(Households).tenths > 0 /\ Answer(Households).tenths % 10 = 0
               /\ \/ Answer(BarbWeek) = Blank
                  \/ Answer(BarbWeek).tenths \in {10 * w : w \in 1 .. 53}
               /\ Answer(Document).text \in {"", ReportURL}
               /\ Answer(Notes).text # TooLong
    BY Zenon DEF RightlyFilled, FormSchema, OneWeekOrMonth
  <2>11. Dates => /\ OnePeriod(FormPayload) <=> OneWeekOrMonth
                  /\ OneWeekOrMonth => InOrder
    BY <1>1, <2>3, PeriodAccepted
  <2>12. Accepts(source, FormPayload) <=> Parses(source, FormPayload) /\ OnePeriod(FormPayload)
    BY DEF Accepts
  <2> HIDE DEF Valid, InOrder, Dates
  <2>13. QED BY <2>4, <2>5, <2>6, <2>7, <2>8, <2>9, <2>10, <2>11, <2>12
<1>2. Init => scene \in Scenes BY DEF Init
<1>3. scene \in Scenes /\ [Next]_vars => (scene \in Scenes)' BY ScenesStay
<1>4. scene \in Scenes => FilledFormAccepted BY <1>1 DEF FilledFormAccepted
<1>5. QED BY <1>2, <1>3, <1>4, PTL DEF Spec
=============================================================================
