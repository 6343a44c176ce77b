-------------------------------- MODULE Accounts --------------------------------
(***************************************************************************)
(* The administration of users, groups and roles, a transaction (for a     *)
(* group and a role a statement) at a time.  The routes have no lock: two  *)
(* administrators, or a user and an administrator, meet in the rows.       *)
(***************************************************************************)
EXTENDS Integers, FiniteSets

CONSTANTS
    Nothing,
    People, Groups, Roles, Perms, Passwords,
    SystemRoles,  \* roles the schema brings with it
    Threads       \* threads of the server

ASSUME AccountsAssumption ==
    /\ SystemRoles \subseteq Roles /\ SystemRoles # {}
    /\ Nothing \notin Roles \cup Passwords /\ \A ps \in SUBSET Perms : Nothing # ps

VARIABLES
    family,  \* the operations this instance looks at
    pass,    \* pass[u]: users.password_hash; Nothing: no such user
    force,   \* force[u]: users.force_password_change
    member,  \* group_members
    role,    \* role[g]: groups.role_id; Nothing: no such group
    perms,   \* perms[o]: role_permissions; Nothing: no such role
    job,     \* job[r]: the request of thread r
    clean,   \* clean[r]: no other request has changed anything since
    result   \* result[r]: how the last request of r ended

accountVars == <<family, pass, force, member, role, perms, job, clean, result>>
accounts    == <<pass, force, member, role, perms>>

-----------------------------------------------------------------------------
NoJob == [at |-> "idle"]

Job ==
    [at : {"password"}, who : People, new : Passwords, force : BOOLEAN]
    \cup [at : {"force"}, who : People, force : BOOLEAN, want : SUBSET Groups]
    \cup [at : {"remove", "add"}, who : People, left : SUBSET Groups, want : SUBSET Groups]
    \cup [at : {"delete group"}, group : Groups]
    \cup [at : {"write group"}, group : Groups, role : Roles]
    \cup [at : {"wait", "insert"}, role : Roles, ask : SUBSET Perms, over : BOOLEAN]
    \cup [at : {"delete role"}, role : Roles]

AccountsTypeOK ==
    /\ family \in {"passwords", "groups", "roles"}
    /\ pass \in [People -> Passwords \cup {Nothing}]
    /\ force \in [People -> BOOLEAN]
    /\ member \subseteq {u \in People : pass[u] # Nothing} \X {g \in Groups : role[g] # Nothing}
    /\ role \in [Groups -> Roles \cup {Nothing}]
    /\ perms \in [Roles -> {Nothing} \cup SUBSET Perms]
    /\ job \in [Threads -> {NoJob} \cup Job]
    /\ clean \in [Threads -> BOOLEAN]
    /\ result \in [Threads -> {"none", "ok", "failed"}]

GroupsOf(u) == {g \in Groups : <<u, g>> \in member}

AccountsInit ==
    /\ family \in {"passwords", "groups", "roles"}
    /\ pass = [u \in People |-> Nothing]
    /\ force = [u \in People |-> FALSE]
    /\ \E o \in SystemRoles : role = [g \in Groups |-> o]
    /\ perms = [o \in Roles |-> IF o \in SystemRoles THEN Perms ELSE Nothing]
    /\ member = {}
    /\ job = [r \in Threads |-> NoJob]
    /\ clean = [r \in Threads |-> FALSE]
    /\ result = [r \in Threads |-> "none"]

-----------------------------------------------------------------------------
At(r, s) == job[r].at = s

Becomes(r, j) == job' = [job EXCEPT ![r] = j] /\ result' = [result EXCEPT ![r] = "none"]
EndsJob(r, how)  == job' = [job EXCEPT ![r] = NoJob] /\ result' = [result EXCEPT ![r] = how]

\* A step may meet a database that does not answer, or the end of the process.
AbortJob(r) == job[r] # NoJob /\ EndsJob(r, "failed") /\ UNCHANGED accounts

-----------------------------------------------------------------------------
(* Passwords *)

\* POST change-password: the password at hand is the user's, or the request ends.
ChangePassword(r) ==
    /\ family = "passwords" /\ job[r] = NoJob
    /\ \E u \in People, p \in Passwords :
         /\ pass[u] # Nothing
         /\ Becomes(r, [at |-> "password", who |-> u, new |-> p, force |-> FALSE])
    /\ UNCHANGED accounts

\* POST reset-password, by an administrator
ResetPassword(r) ==
    /\ family = "passwords" /\ job[r] = NoJob
    /\ \E u \in People, p \in Passwords :
         /\ pass[u] # Nothing
         /\ Becomes(r, [at |-> "password", who |-> u, new |-> p, force |-> TRUE])
    /\ UNCHANGED accounts

\* updatePassword, which also takes the flag away.
SetPassword(r) ==
    /\ At(r, "password")
    /\ LET j == job[r] IN
         /\ pass' = [pass EXCEPT ![j.who] = j.new]
         /\ force' = [force EXCEPT ![j.who] = FALSE]
         /\ Becomes(r, [at |-> "force", who |-> j.who, force |-> j.force, want |-> {}])
    /\ UNCHANGED <<member, role, perms>>

ForceFor(j) == j.force

\* setForcePasswordChange; a new user is then put into his groups.
SetForce(r) ==
    /\ At(r, "force")
    /\ LET j == job[r] IN
         /\ force' = [force EXCEPT ![j.who] = ForceFor(j)]
         /\ IF j.want = {} THEN EndsJob(r, "ok")
            ELSE Becomes(r, [at |-> "add", who |-> j.who, left |-> j.want, want |-> j.want])
    /\ UNCHANGED <<pass, member, role, perms>>

-----------------------------------------------------------------------------
(* Users and their groups *)

\* POST users: the row; a name that is there violates its uniqueness.
CreateUser(r) ==
    /\ family \in {"passwords", "groups"} /\ job[r] = NoJob
    /\ \E u \in People, p \in Passwords, want \in SUBSET Groups, f \in BOOLEAN :
         /\ pass[u] = Nothing
         /\ pass' = [pass EXCEPT ![u] = p]
         /\ force' = [force EXCEPT ![u] = FALSE]
         /\ Becomes(r, IF f THEN [at |-> "force", who |-> u, force |-> TRUE, want |-> want]
                       ELSE [at |-> "add", who |-> u, left |-> want, want |-> want])
    /\ UNCHANGED <<member, role, perms>>

\* PUT users with group_ids: the groups of the moment are to be removed.
EditGroups(r) ==
    /\ family = "groups" /\ job[r] = NoJob
    /\ \E u \in People, want \in SUBSET Groups :
         /\ pass[u] # Nothing
         /\ Becomes(r, [at |-> "remove", who |-> u, left |-> GroupsOf(u), want |-> want])
    /\ UNCHANGED accounts

\* removeFromGroup, or none is left.
RemoveFrom(r) ==
    /\ At(r, "remove")
    /\ LET j == job[r] IN
         \/ /\ j.left = {}
            /\ Becomes(r, [j EXCEPT !.at = "add", !.left = j.want])
            /\ UNCHANGED member
         \/ \E g \in j.left :
              /\ member' = member \ {<<j.who, g>>}
              /\ Becomes(r, [j EXCEPT !.left = @ \ {g}])
    /\ UNCHANGED <<pass, force, role, perms>>

\* addToGroup; a group that does not exist ends the request.
AddTo(r) ==
    /\ At(r, "add")
    /\ LET j == job[r] IN
         \/ j.left = {} /\ EndsJob(r, "ok") /\ UNCHANGED member
         \/ \E g \in j.left :
              IF role[g] = Nothing THEN EndsJob(r, "failed") /\ UNCHANGED member
              ELSE /\ member' = member \cup {<<j.who, g>>}
                   /\ Becomes(r, [j EXCEPT !.left = @ \ {g}])
    /\ UNCHANGED <<pass, force, role, perms>>

\* POST groups
CreateGroup(r) ==
    /\ family \in {"groups", "roles"} /\ job[r] = NoJob
    /\ \E g \in Groups, o \in Roles :
         /\ role[g] = Nothing /\ perms[o] # Nothing
         /\ role' = [role EXCEPT ![g] = o]
    /\ EndsJob(r, "ok")
    /\ UNCHANGED <<pass, force, member, perms>>

\* deleteGroup asks whom the group is the only one of.
Sole(u, g) == <<u, g>> \in member /\ GroupsOf(u) = {g}

CheckGroup(r) ==
    /\ family = "groups" /\ job[r] = NoJob
    /\ \E g \in Groups :
         IF \E u \in People : Sole(u, g) THEN EndsJob(r, "failed")
         ELSE Becomes(r, [at |-> "delete group", group |-> g])
    /\ UNCHANGED accounts

Without(g) == {m \in member : m[2] # g}

\* The DELETE of the same transaction; its memberships go with the group.
DeleteGroup(r) ==
    /\ At(r, "delete group")
    /\ LET g == job[r].group IN
         /\ role' = [role EXCEPT ![g] = Nothing]
         /\ member' = Without(g)
         /\ EndsJob(r, IF role[g] = Nothing THEN "failed" ELSE "ok")
    /\ UNCHANGED <<pass, force, perms>>

-----------------------------------------------------------------------------
(* Roles *)

\* PUT groups: the role in the request, or the one that is read.
ReadGroup(r) ==
    /\ family = "roles" /\ job[r] = NoJob
    /\ \E g \in Groups, o \in Roles :
         /\ role[g] # Nothing
         /\ Becomes(r, [at |-> "write group", group |-> g, role |-> o])
    /\ UNCHANGED accounts

\* GroupRepository::update; a role that is gone violates the reference.
WriteGroup(r) ==
    /\ At(r, "write group")
    /\ LET j == job[r] IN
         IF role[j.group] = Nothing \/ perms[j.role] = Nothing
         THEN EndsJob(r, "failed") /\ UNCHANGED role
         ELSE role' = [role EXCEPT ![j.group] = j.role] /\ EndsJob(r, "ok")
    /\ UNCHANGED <<pass, force, member, perms>>

\* POST roles
CreateRole(r) ==
    /\ family = "roles" /\ job[r] = NoJob
    /\ \E o \in Roles :
         /\ perms[o] = Nothing
         /\ perms' = [perms EXCEPT ![o] = {}]
    /\ EndsJob(r, "ok")
    /\ UNCHANGED <<pass, force, member, role>>

\* Another transaction has deleted the rows of role o and is not over.
Locked(o) == \E r \in Threads : At(r, "insert") /\ job[r].role = o /\ job[r].over

\* setPermissions, after it found the role: the DELETE takes the rows that are there
\* (over), or waits for the transaction that is taking them.
SetPermissions(r) ==
    /\ family = "roles" /\ job[r] = NoJob
    /\ \E o \in Roles, ask \in SUBSET Perms :
         /\ perms[o] # Nothing
         /\ Becomes(r, [at |-> IF Locked(o) THEN "wait" ELSE "insert", role |-> o, ask |-> ask,
                        over |-> perms[o] # {}])
    /\ UNCHANGED accounts

\* The other one is over.
Unblocked(r) ==
    /\ At(r, "wait") /\ ~(job[r].over /\ Locked(job[r].role))
    /\ Becomes(r, [job[r] EXCEPT !.at = "insert"])
    /\ UNCHANGED accounts

\* Mutant of Left: the rows are kept.
LeftAll(j) == perms[j.role]

\* The rows that its DELETE did not see.
Left(j) == IF j.over THEN {} ELSE perms[j.role]

\* The INSERTs and the COMMIT.  A row that is there violates the key, and without the
\* role the reference.  Those who wait for the old rows will find them gone, and do
\* not see the new ones.
InsertPermissions(r) ==
    /\ At(r, "insert")
    /\ LET j == job[r] IN
         IF perms[j.role] = Nothing \/ Left(j) \cap j.ask # {}
         THEN EndsJob(r, "failed") /\ UNCHANGED perms
         ELSE /\ perms' = [perms EXCEPT ![j.role] = Left(j) \cup j.ask]
              /\ job' = [t \in Threads |->
                    IF t = r THEN NoJob
                    ELSE IF At(t, "wait") /\ job[t].role = j.role THEN [job[t] EXCEPT !.over = FALSE]
                    ELSE job[t]]
              /\ result' = [result EXCEPT ![r] = "ok"]
    /\ UNCHANGED <<pass, force, member, role>>

\* deleteRole asks whether the role is the system's or in use.
CheckRole(r) ==
    /\ family = "roles" /\ job[r] = NoJob
    /\ \E o \in Roles :
         /\ perms[o] # Nothing
         /\ IF o \in SystemRoles \/ \E g \in Groups : role[g] = o THEN EndsJob(r, "failed")
            ELSE Becomes(r, [at |-> "delete role", role |-> o])
    /\ UNCHANGED accounts

\* Mutant of InUse: the reference from groups to roles is not there.
InUseNever(o) == FALSE

\* What groups.role_id, which references roles, makes of a DELETE.
InUse(o) == \E g \in Groups : role[g] = o

DeleteRole(r) ==
    /\ At(r, "delete role")
    /\ IF InUse(job[r].role) THEN EndsJob(r, "failed") /\ UNCHANGED perms
       ELSE perms' = [perms EXCEPT ![job[r].role] = Nothing] /\ EndsJob(r, "ok")
    /\ UNCHANGED <<pass, force, member, role>>
-----------------------------------------------------------------------------
JobStep(r) ==
    \/ ChangePassword(r) \/ ResetPassword(r) \/ SetPassword(r) \/ SetForce(r)
    \/ CreateUser(r) \/ EditGroups(r) \/ RemoveFrom(r) \/ AddTo(r)
    \/ CreateGroup(r) \/ CheckGroup(r) \/ DeleteGroup(r)
    \/ ReadGroup(r) \/ WriteGroup(r)
    \/ CreateRole(r) \/ SetPermissions(r) \/ Unblocked(r) \/ InsertPermissions(r)
    \/ CheckRole(r) \/ DeleteRole(r)
    \/ AbortJob(r)

\* With what clean remembers: another thread's request is disturbed by a change, and
\* by a commit that writes again what was there.
AccountsNext == \E r \in Threads :
    /\ JobStep(r)
    /\ clean' = [t \in Threads |->
          IF t = r THEN job'[r] # NoJob /\ (job[r] = NoJob \/ clean[r])
          ELSE clean[t] /\ accounts' = accounts /\ ~At(r, "insert")]
    /\ UNCHANGED family

AccountsSpec == AccountsInit /\ [][AccountsNext]_accountVars

-----------------------------------------------------------------------------
(* Properties *)

\* A request that says it succeeded, and that no other has disturbed, has done what it
\* was asked for, through all its transactions: a reset password has to be changed,
\* a user is in the groups asked for, a role has the permissions asked for, and a
\* deletion of a group has left nobody without one.
AskedIsDone ==
    [][\A r \in Threads :
          LET j == job[r] IN
          j # NoJob /\ result'[r] = "ok" /\ clean[r] =>
             CASE j.at = "force" -> force'[j.who] = j.force
               [] j.at = "add" -> {g \in Groups : <<j.who, g>> \in member'} = j.want
               [] j.at = "insert" -> perms'[j.role] = j.ask
               [] j.at = "delete group" ->
                     \A u \in People : GroupsOf(u) # {} => GroupsOf(u)' # {}
               [] OTHER -> TRUE]_accountVars

\* Every group has a role that exists, although deleteRole looks at the groups before
\* it deletes and PUT groups looks at no role at all.
GroupsHaveRoles == \A g \in Groups : role[g] # Nothing => perms[role[g]] # Nothing

\* No membership leads to a user or a group that is gone, and no group to a role that is.
AccountsInv == AccountsTypeOK /\ GroupsHaveRoles
=============================================================================
