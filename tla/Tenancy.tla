------------------------------ MODULE Tenancy ------------------------------
(***************************************************************************)
(* Tenants, users and passwords are made by two commands that operators    *)
(* run by hand, perhaps at the same time: create-tenant, one transaction,  *)
(* and set-password, four statements without one.                          *)
(*                                                                         *)
(*   services/api/src/admin/create-tenant.ts, set-password.ts              *)
(*   packages/db/src/schema/tenant.ts, user.ts, membership.ts              *)
(*                                                                         *)
(* Postgres is READ COMMITTED.  An insert that meets the key of a row not  *)
(* yet committed waits for that transaction; then it goes on, or violates  *)
(* the unique index and its transaction is rolled back.                    *)
(***************************************************************************)
EXTENDS Naturals, FiniteSets

CONSTANTS
  Nothing,        \* no user, no password, nobody
  Lower,          \* toLowerCase, on the spellings of addresses that occur
  CommandFaults   \* bound: commands whose connection breaks

\* What is in lower case stays as it is.
ASSUME LowerAssumption ==
  \A e \in DOMAIN Lower : Lower[e] \in DOMAIN Lower /\ Lower[Lower[e]] = Lower[e]

VARIABLES
  cli,          \* the commands of this behaviour; never changes
  tenants,      \* slugs of tenant
  users,        \* rows of user: id and email
  members,      \* rows of tenant_membership
  credentials,  \* rows of account with provider "credential"
  command,      \* what each command is doing
  passwords,    \* history: what the last set-password of a user has set
  overlapped,   \* history: users with two set-password at the same time
  crashed       \* the bounded counter

tenancyVars == <<cli, tenants, users, members, credentials, command, passwords, overlapped,
                 crashed>>

Command == DOMAIN cli
NewUser(id, email) == [id |-> id, email |-> email]
Start   == [at |-> "start", user |-> Nothing, fresh |-> {}]
Ended   == {"done", "failed"}

\* The tables before the commands run are the scene's.
TenancyInit(commands, tables) ==
  /\ cli = commands
  /\ tenants = tables.tenants
  /\ users = tables.users
  /\ members = tables.members
  /\ credentials = tables.credentials
  /\ command = [i \in DOMAIN commands |-> Start]
  /\ passwords = [u \in {} |-> Nothing]
  /\ overlapped = {}
  /\ crashed = 0

Matching(email) == {u \in users : Lower[u.email] = Lower[email]}

Moves(i, at) == command' = [command EXCEPT ![i].at = at]
Tables       == <<cli, tenants, users, members, credentials>>
History      == <<passwords, overlapped, crashed>>

(***************************************************************************)
(* create-tenant.  Rows of a transaction are seen by others when it        *)
(* commits; until then they are `at` its later steps.                      *)
(***************************************************************************)
Creating(i) == cli[i].name = "create-tenant"

FindTenant(i) ==
  /\ Creating(i) /\ command[i].at = "start"
  /\ Moves(i, IF cli[i].slug \in tenants THEN "failed" ELSE "insert tenant")
  /\ UNCHANGED <<Tables, History>>

\* Transactions whose rows are written and not committed.
HasTenant(j) == Creating(j) /\ command[j].at \in {"find user", "insert user", "commit"}
HasUser(j)   == Creating(j) /\ command[j].fresh # {} /\ command[j].at = "commit"

\* A slip: without a transaction the row is there at once.
InsertTenantAtOnce(i) ==
  /\ Creating(i) /\ command[i].at = "insert tenant"
  /\ cli[i].slug \notin tenants
  /\ tenants' = tenants \cup {cli[i].slug}
  /\ Moves(i, "find user")
  /\ UNCHANGED <<cli, users, members, credentials, History>>

InsertTenant(i) ==
  /\ Creating(i) /\ command[i].at = "insert tenant"
  /\ \A j \in Command \ {i} : HasTenant(j) => cli[j].slug # cli[i].slug
  /\ Moves(i, IF cli[i].slug \in tenants THEN "failed" ELSE "find user")
  /\ UNCHANGED <<Tables, History>>

FindUser(i) ==
  /\ Creating(i) /\ command[i].at = "find user"
  /\ \/ /\ Matching(cli[i].email) = {}
        /\ Moves(i, "insert user")
     \/ \E u \in Matching(cli[i].email) :
          command' = [command EXCEPT ![i].at = "commit", ![i].user = u.id]
  /\ UNCHANGED <<Tables, History>>

\* A slip: the address is stored as it was typed.
InsertUserAsTyped(i) ==
  /\ Creating(i) /\ command[i].at = "insert user"
  /\ \A j \in Command \ {i} : HasUser(j) => cli[j].email # cli[i].email
  /\ IF \E u \in users : u.email = cli[i].email
     THEN Moves(i, "failed")
     ELSE command' = [command EXCEPT ![i] =
            [at |-> "commit", user |-> i, fresh |-> {NewUser(i, cli[i].email)}]]
  /\ UNCHANGED <<Tables, History>>

\* The address is stored in lower case.
InsertUser(i) ==
  LET email == Lower[cli[i].email] IN
  /\ Creating(i) /\ command[i].at = "insert user"
  /\ \A j \in Command \ {i} : HasUser(j) => Lower[cli[j].email] # email
  /\ IF \E u \in users : u.email = email
     THEN Moves(i, "failed")
     ELSE command' = [command EXCEPT ![i] =
            [at |-> "commit", user |-> i, fresh |-> {NewUser(i, email)}]]
  /\ UNCHANGED <<Tables, History>>

\* The membership, and COMMIT.
CommitTenant(i) ==
  /\ Creating(i) /\ command[i].at = "commit"
  /\ tenants' = tenants \cup {cli[i].slug}
  /\ users' = users \cup command[i].fresh
  /\ members' = members \cup {[user |-> command[i].user, tenant |-> cli[i].slug,
                               role |-> "network_admin", scope |-> {}]}
  /\ Moves(i, "done")
  /\ UNCHANGED <<cli, credentials, History>>

(***************************************************************************)
(* set-password.                                                           *)
(***************************************************************************)
Setting(i) == cli[i].name = "set-password"
Busy(i)    == Setting(i) /\ command[i].at \in {"hash", "insert", "update"}

\* The user, and a hash that takes its time.
LookUpUser(i) ==
  /\ Setting(i) /\ command[i].at = "start"
  /\ IF Matching(cli[i].email) = {}
     THEN Moves(i, "failed") /\ UNCHANGED overlapped
     ELSE \E u \in Matching(cli[i].email) :
            /\ command' = [command EXCEPT ![i].at = "hash", ![i].user = u.id]
            /\ overlapped' =
                 IF \E j \in Command \ {i} : Busy(j) /\ command[j].user = u.id
                 THEN overlapped \cup {u.id} ELSE overlapped
  /\ UNCHANGED <<Tables, passwords, crashed>>

Credentials(u) == {c \in credentials : c.user = u}

\* A slip: whether there is a credential is not asked.
FindNoCredential(i) ==
  /\ Setting(i) /\ command[i].at = "hash"
  /\ Moves(i, "insert")
  /\ UNCHANGED <<Tables, History>>

FindCredential(i) ==
  /\ Setting(i) /\ command[i].at = "hash"
  /\ Moves(i, IF Credentials(command[i].user) = {} THEN "insert" ELSE "update")
  /\ UNCHANGED <<Tables, History>>

Remembers(i) ==
  passwords' = [u \in DOMAIN passwords \cup {command[i].user} |->
                  IF u = command[i].user THEN cli[i].password ELSE passwords[u]]

\* Nothing is unique in account: a second row is taken.
InsertCredential(i) ==
  /\ Setting(i) /\ command[i].at = "insert"
  /\ credentials' = credentials \cup {[id |-> i, user |-> command[i].user,
                                       password |-> cli[i].password]}
  /\ Remembers(i)
  /\ Moves(i, "done")
  /\ UNCHANGED <<cli, tenants, users, members, overlapped, crashed>>

\* The row that was found; whichever it was, of two.
UpdateCredential(i) ==
  /\ Setting(i) /\ command[i].at = "update"
  /\ \E c \in Credentials(command[i].user) :
       credentials' = (credentials \ {c}) \cup {[c EXCEPT !.password = cli[i].password]}
  /\ Remembers(i)
  /\ Moves(i, "done")
  /\ UNCHANGED <<cli, tenants, users, members, overlapped, crashed>>

\* The connection breaks between two statements; Postgres rolls back.
Break(i) ==
  /\ command[i].at \notin Ended \cup {"start"}
  /\ crashed < CommandFaults
  /\ crashed' = crashed + 1
  /\ Moves(i, "failed")
  /\ UNCHANGED <<Tables, passwords, overlapped>>

CommandStep(i) ==
  \/ FindTenant(i) \/ InsertTenant(i) \/ FindUser(i) \/ InsertUser(i) \/ CommitTenant(i)
  \/ LookUpUser(i) \/ FindCredential(i) \/ InsertCredential(i) \/ UpdateCredential(i)

TenancyNext == \E i \in Command : CommandStep(i) \/ Break(i)

(***************************************************************************)
(* Properties.                                                             *)
(***************************************************************************)
\* Whatever commands run at the same time and wherever one of them breaks off,
\* there is no tenant without an administrator who is a user
\* (create-tenant.ts 30-82).
TenantHasAdmin ==
  \A t \in tenants : \E m \in members, u \in users :
    m.tenant = t /\ m.role = "network_admin" /\ m.user = u.id

\* No two users, and so no two memberships, of one person whose address was
\* typed in two ways (create-tenant.ts 42-60, set-password.ts 20-27).
UsersApart == \A u, v \in users : Lower[u.email] = Lower[v.email] => u = v

\* Unless two set-password for a user overlapped, the user has one credential at
\* most and its password is the one set last (set-password.ts 24-58).
PasswordIsLast ==
  \A u \in DOMAIN passwords \ overlapped :
    \E c \in credentials : Credentials(u) = {c} /\ c.password = passwords[u]
=============================================================================
