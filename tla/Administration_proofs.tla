------------------------ MODULE Administration_proofs -------------------------
(***************************************************************************)
(* Proofs about who may do what and how a server comes to be: the users    *)
(* and their roles (Accounts.tla), logins through an identity provider     *)
(* (FederatedLogin.tla), the start and the first setup (Startup.tla), the  *)
(* serials of the zones (SoaSerial.tla) and how often a client may try a   *)
(* password (RateLimiter.tla).  The parts share no state and nothing of    *)
(* one is used in the proof of another.                                    *)
(***************************************************************************)
EXTENDS Accounts, FederatedLogin, RateLimiter, Startup, SoaSerial, FiniteSetTheorems, TLAPS

-----------------------------------------------------------------------------
(* Users, groups and roles *)

LEMMA JobShapes ==
    ASSUME AccountsTypeOK, NEW r \in Threads
    PROVE  /\ job[r].at = "password" =>
                job[r] \in [at : {"password"}, who : People, new : Passwords, force : BOOLEAN]
           /\ job[r].at = "force" =>
                job[r] \in [at : {"force"}, who : People, force : BOOLEAN, want : SUBSET Groups]
           /\ job[r].at \in {"remove", "add"} =>
                job[r] \in [at : {"remove", "add"}, who : People, left : SUBSET Groups,
                            want : SUBSET Groups]
           /\ job[r].at = "delete group" => job[r] \in [at : {"delete group"}, group : Groups]
           /\ job[r].at = "write group" =>
                job[r] \in [at : {"write group"}, group : Groups, role : Roles]
           /\ job[r].at \in {"wait", "insert"} =>
                job[r] \in [at : {"wait", "insert"}, role : Roles, ask : SUBSET Perms, over : BOOLEAN]
           /\ job[r].at = "delete role" => job[r] \in [at : {"delete role"}, role : Roles]
           /\ job[r].at = "idle" => job[r] = NoJob
           /\ job[r].at \in {"idle", "password", "force", "remove", "add", "delete group",
                             "write group", "wait", "insert", "delete role"}
<1>1. job[r] \in {NoJob} \cup Job
    BY DEF AccountsTypeOK
<1>2. \A j \in [at : {"password"}, who : People, new : Passwords, force : BOOLEAN] : j.at = "password"
    OBVIOUS
<1>3. \A j \in [at : {"force"}, who : People, force : BOOLEAN, want : SUBSET Groups] : j.at = "force"
    OBVIOUS
<1>4. \A j \in [at : {"remove", "add"}, who : People, left : SUBSET Groups, want : SUBSET Groups] :
         j.at \in {"remove", "add"}
    OBVIOUS
<1>5. \A j \in [at : {"delete group"}, group : Groups] : j.at = "delete group"
    OBVIOUS
<1>6. \A j \in [at : {"write group"}, group : Groups, role : Roles] : j.at = "write group"
    OBVIOUS
<1>7. \A j \in [at : {"wait", "insert"}, role : Roles, ask : SUBSET Perms, over : BOOLEAN] :
         j.at \in {"wait", "insert"}
    OBVIOUS
<1>8. \A j \in [at : {"delete role"}, role : Roles] : j.at = "delete role"
    OBVIOUS
<1>9. NoJob.at = "idle"
    BY DEF NoJob
<1> QED BY <1>1, <1>2, <1>3, <1>4, <1>5, <1>6, <1>7, <1>8, <1>9 DEF Job

\* A thread that is at work has no result yet, and the user it is about exists.
WorkInv ==
    \A r \in Threads :
        /\ job[r] # NoJob => result[r] = "none"
        /\ job[r].at \in {"password", "force", "remove", "add"} => pass[job[r].who] # Nothing

\* What a request that nobody disturbed has found and done so far.
CleanInv ==
    \A r \in Threads : clean[r] =>
        /\ job[r].at = "force" /\ job[r].want # {} => GroupsOf(job[r].who) = {}
        /\ job[r].at = "remove" => GroupsOf(job[r].who) = job[r].left
        /\ job[r].at = "add" =>
              job[r].left \subseteq job[r].want /\ GroupsOf(job[r].who) = job[r].want \ job[r].left
        /\ job[r].at \in {"wait", "insert"} => job[r].over \/ perms[job[r].role] = {}
        /\ job[r].at = "delete group" => \A u \in People : ~Sole(u, job[r].group)

\* What step r makes of the requests: its own becomes j, and how it ends is how.
Turns(r, j, how) ==
    /\ job' = [job EXCEPT ![r] = j]
    /\ result' = [result EXCEPT ![r] = how]

Acts == {"password", "force", "remove", "add"}

\* A request that has been let through so far, or that has ended.
TurnFits(j, how) ==
    /\ j \in {NoJob} \cup Job
    /\ how \in {"none", "ok", "failed"}
    /\ j # NoJob => how = "none"
    /\ j.at \in Acts => pass'[j.who] # Nothing

LEMMA NoJobTurnFits ==
    ASSUME NEW how \in {"none", "ok", "failed"}
    PROVE  TurnFits(NoJob, how)
BY DEF TurnFits, NoJob, Acts

\* A step of thread r leaves a request that fits.
LEMMA EveryTurn ==
    ASSUME AccountsTypeOK, WorkInv, NEW r \in Threads, JobStep(r), ~InsertPermissions(r)
    PROVE  \E j, how : Turns(r, j, how) /\ TurnFits(j, how)
<1> DEFINE Goal == \E j, how : Turns(r, j, how) /\ TurnFits(j, how)
<1>0. ASSUME NEW how \in {"none", "ok", "failed"}, EndsJob(r, how)
      PROVE  Goal
    BY <1>0, NoJobTurnFits DEF EndsJob, Turns
<1>1. ASSUME NEW j \in Job, Becomes(r, j), j.at \in Acts => pass'[j.who] # Nothing
      PROVE  Goal
  <2>1. TurnFits(j, "none")
      BY <1>1 DEF TurnFits
  <2> QED BY <1>1, <2>1 DEF Becomes, Turns
<1>2. CASE ChangePassword(r) \/ ResetPassword(r)
  <2>1. PICK u \in People, p \in Passwords, f \in BOOLEAN :
          /\ pass[u] # Nothing /\ pass' = pass
          /\ Becomes(r, [at |-> "password", who |-> u, new |-> p, force |-> f])
      BY <1>2 DEF ChangePassword, ResetPassword, accounts
  <2>2. [at |-> "password", who |-> u, new |-> p, force |-> f] \in Job
      BY DEF Job
  <2> QED BY <2>1, <2>2, <1>1
<1>3. CASE SetPassword(r)
  <2>1. job[r] \in [at : {"password"}, who : People, new : Passwords, force : BOOLEAN]
      BY <1>3, JobShapes DEF SetPassword, At
  <2>2. [at |-> "force", who |-> job[r].who, force |-> job[r].force, want |-> {}] \in Job
      BY <2>1 DEF Job
  <2>3. pass'[job[r].who] # Nothing
      BY <1>3, <2>1, AccountsAssumption DEF SetPassword, AccountsTypeOK
  <2>4. Becomes(r, [at |-> "force", who |-> job[r].who, force |-> job[r].force, want |-> {}])
      BY <1>3 DEF SetPassword
  <2> QED BY <2>2, <2>3, <2>4, <1>1
<1>4. CASE SetForce(r)
  <2>1. job[r] \in [at : {"force"}, who : People, force : BOOLEAN, want : SUBSET Groups]
      BY <1>4, JobShapes DEF SetForce, At
  <2>2. [at |-> "add", who |-> job[r].who, left |-> job[r].want, want |-> job[r].want] \in Job
      BY <2>1 DEF Job
  <2>3. pass'[job[r].who] # Nothing
      BY <1>4 DEF SetForce, At, WorkInv
  <2> QED BY <1>4, <2>2, <2>3, <1>0, <1>1 DEF SetForce
<1>5. CASE CreateUser(r)
  <2>1. PICK u \in People, p \in Passwords, want \in SUBSET Groups, f \in BOOLEAN :
          /\ pass' = [pass EXCEPT ![u] = p]
          /\ Becomes(r, IF f THEN [at |-> "force", who |-> u, force |-> TRUE, want |-> want]
                       ELSE [at |-> "add", who |-> u, left |-> want, want |-> want])
      BY <1>5 DEF CreateUser
  <2>2. pass'[u] # Nothing
      BY <2>1, AccountsAssumption DEF AccountsTypeOK
  <2>3. [at |-> "force", who |-> u, force |-> TRUE, want |-> want] \in Job
      BY DEF Job
  <2>4. [at |-> "add", who |-> u, left |-> want, want |-> want] \in Job
      BY DEF Job
  <2>5. CASE f
      BY <2>1, <2>2, <2>3, <2>5, <1>1
  <2>6. CASE ~f
      BY <2>1, <2>2, <2>4, <2>6, <1>1
  <2> QED BY <2>5, <2>6
<1>6. CASE EditGroups(r)
  <2>1. PICK u \in People, want \in SUBSET Groups :
          /\ pass[u] # Nothing /\ pass' = pass
          /\ Becomes(r, [at |-> "remove", who |-> u, left |-> GroupsOf(u), want |-> want])
      BY <1>6 DEF EditGroups, accounts
  <2>2. [at |-> "remove", who |-> u, left |-> GroupsOf(u), want |-> want] \in Job
      BY DEF Job, GroupsOf
  <2> QED BY <2>1, <2>2, <1>1
<1>7. CASE RemoveFrom(r)
  <2>1. job[r] \in [at : {"remove", "add"}, who : People, left : SUBSET Groups, want : SUBSET Groups]
      BY <1>7, JobShapes DEF RemoveFrom, At
  <2>2. pass'[job[r].who] # Nothing
      BY <1>7 DEF RemoveFrom, At, WorkInv
  <2>3. /\ [job[r] EXCEPT !.at = "add", !.left = job[r].want] \in Job
        /\ [job[r] EXCEPT !.at = "add", !.left = job[r].want].who = job[r].who
      BY <2>1 DEF Job
  <2>4. ASSUME NEW g
        PROVE  /\ [job[r] EXCEPT !.left = @ \ {g}] \in Job
               /\ [job[r] EXCEPT !.left = @ \ {g}].who = job[r].who
      BY <2>1 DEF Job
  <2>5. \/ Becomes(r, [job[r] EXCEPT !.at = "add", !.left = job[r].want])
        \/ \E g : Becomes(r, [job[r] EXCEPT !.left = @ \ {g}])
      BY <1>7 DEF RemoveFrom
  <2> QED BY <2>2, <2>3, <2>4, <2>5, <1>1
<1>8. CASE AddTo(r)
  <2>1. job[r] \in [at : {"remove", "add"}, who : People, left : SUBSET Groups, want : SUBSET Groups]
      BY <1>8, JobShapes DEF AddTo, At
  <2>2. pass'[job[r].who] # Nothing
      BY <1>8 DEF AddTo, At, WorkInv
  <2>4. ASSUME NEW g
        PROVE  /\ [job[r] EXCEPT !.left = @ \ {g}] \in Job
               /\ [job[r] EXCEPT !.left = @ \ {g}].who = job[r].who
      BY <2>1 DEF Job
  <2>5. \/ EndsJob(r, "ok") \/ EndsJob(r, "failed")
        \/ \E g : Becomes(r, [job[r] EXCEPT !.left = @ \ {g}])
      BY <1>8 DEF AddTo
  <2> QED BY <2>2, <2>4, <2>5, <1>0, <1>1
<1>9. CASE CheckGroup(r)
  <2>1. \A g \in Groups : [at |-> "delete group", group |-> g] \in Job
      BY DEF Job
  <2> QED BY <1>9, <2>1, <1>0, <1>1 DEF CheckGroup, Acts
<1>10. CASE ReadGroup(r)
  <2>1. \A g \in Groups, o \in Roles : [at |-> "write group", group |-> g, role |-> o] \in Job
      BY DEF Job
  <2> QED BY <1>10, <2>1, <1>1 DEF ReadGroup, Acts
<1>11. CASE SetPermissions(r)
  <2>1. PICK o \in Roles, ask \in SUBSET Perms, s \in {"wait", "insert"}, b \in BOOLEAN :
          Becomes(r, [at |-> s, role |-> o, ask |-> ask, over |-> b])
      BY <1>11 DEF SetPermissions
  <2>2. [at |-> s, role |-> o, ask |-> ask, over |-> b] \in Job
      BY DEF Job
  <2> QED BY <2>1, <2>2, <1>1 DEF Acts
<1>12. CASE Unblocked(r)
  <2>1. job[r] \in [at : {"wait", "insert"}, role : Roles, ask : SUBSET Perms, over : BOOLEAN]
      BY <1>12, JobShapes DEF Unblocked, At
  <2>2. [job[r] EXCEPT !.at = "insert"] \in Job /\ [job[r] EXCEPT !.at = "insert"].at = "insert"
      BY <2>1 DEF Job
  <2> QED BY <1>12, <2>2, <1>1 DEF Unblocked, Acts
<1>13. CASE CheckRole(r)
  <2>1. \A o \in Roles : [at |-> "delete role", role |-> o] \in Job
      BY DEF Job
  <2> QED BY <1>13, <2>1, <1>0, <1>1 DEF CheckRole, Acts
<1>14. CASE CreateGroup(r) \/ DeleteGroup(r) \/ WriteGroup(r) \/ CreateRole(r) \/ DeleteRole(r)
            \/ AbortJob(r)
    BY <1>14, <1>0 DEF CreateGroup, DeleteGroup, WriteGroup, CreateRole, DeleteRole, AbortJob
<1> QED BY <1>2, <1>3, <1>4, <1>5, <1>6, <1>7, <1>8, <1>9, <1>10, <1>11, <1>12, <1>13, <1>14
       DEF JobStep

\* The INSERTs of a permission list also tell those who wait that the rows are gone.
LEMMA InsertTurns ==
    ASSUME AccountsTypeOK, NEW r \in Threads, InsertPermissions(r)
    PROVE  /\ job' \in [Threads -> {NoJob} \cup Job] /\ job'[r] = NoJob
           /\ result' \in [Threads -> {"none", "ok", "failed"}]
           /\ \A t \in Threads \ {r} :
                 /\ result'[t] = result[t]
                 /\ \/ job'[t] = job[t]
                    \/ /\ job[t].at = "wait" /\ job'[t] = [job[t] EXCEPT !.over = FALSE]
                       /\ job'[t] \in Job /\ job'[t].at = "wait"
<1>1. CASE EndsJob(r, "failed")
    BY <1>1 DEF EndsJob, AccountsTypeOK
<1>2. CASE ~EndsJob(r, "failed")
  <2>1. /\ job' = [t \in Threads |->
              IF t = r THEN NoJob
              ELSE IF At(t, "wait") /\ job[t].role = job[r].role THEN [job[t] EXCEPT !.over = FALSE]
              ELSE job[t]]
        /\ result' = [result EXCEPT ![r] = "ok"]
      BY <1>2 DEF InsertPermissions
  <2>2. ASSUME NEW t \in Threads, At(t, "wait")
        PROVE  /\ [job[t] EXCEPT !.over = FALSE] \in Job
               /\ [job[t] EXCEPT !.over = FALSE].at = "wait"
    <3>1. job[t] \in [at : {"wait", "insert"}, role : Roles, ask : SUBSET Perms, over : BOOLEAN]
        BY <2>2, JobShapes DEF At
    <3> QED BY <2>2, <3>1 DEF Job, At
  <2>3. \A t \in Threads : job'[t] \in {NoJob} \cup Job
      BY <2>1, <2>2 DEF AccountsTypeOK
  <2>4. job' \in [Threads -> {NoJob} \cup Job]
      BY <2>1, <2>3
  <2>5. \A t \in Threads \ {r} :
           \/ job'[t] = job[t]
           \/ /\ job[t].at = "wait" /\ job'[t] = [job[t] EXCEPT !.over = FALSE]
              /\ job'[t] \in Job /\ job'[t].at = "wait"
      BY <2>1, <2>2 DEF At
  <2> QED BY <2>1, <2>4, <2>5 DEF AccountsTypeOK
<1> QED BY <1>1, <1>2

\* The tables: their types, and the references from groups to roles.
Tables ==
    /\ pass \in [People -> Passwords \cup {Nothing}]
    /\ force \in [People -> BOOLEAN]
    /\ member \subseteq {u \in People : pass[u] # Nothing} \X {g \in Groups : role[g] # Nothing}
    /\ role \in [Groups -> Roles \cup {Nothing}]
    /\ perms \in [Roles -> {Nothing} \cup SUBSET Perms]
    /\ GroupsHaveRoles

LEMMA EveryChange ==
    ASSUME AccountsInv, WorkInv, NEW r \in Threads, JobStep(r)
    PROVE  Tables' /\ \A u \in People : pass[u] # Nothing => pass'[u] # Nothing
<1> DEFINE Goal == Tables' /\ \A u \in People : pass[u] # Nothing => pass'[u] # Nothing
<1>0. AccountsTypeOK /\ GroupsHaveRoles /\ Tables
    BY DEF AccountsInv, AccountsTypeOK, Tables
<1>1. CASE UNCHANGED accounts
    BY <1>0, <1>1 DEF accounts, Tables, GroupsHaveRoles
<1>2. CASE SetPassword(r)
  <2>1. job[r].who \in People /\ job[r].new \in Passwords
      BY <1>0, <1>2, JobShapes DEF SetPassword, At
  <2>2. \A u \in People : pass[u] # Nothing => pass'[u] # Nothing
      BY <1>0, <1>2, <2>1, AccountsAssumption DEF SetPassword, Tables
  <2> QED BY <1>0, <1>2, <2>1, <2>2 DEF SetPassword, Tables, GroupsHaveRoles
<1>3. CASE SetForce(r)
  <2>1. job[r].who \in People /\ ForceFor(job[r]) \in BOOLEAN
      BY <1>0, <1>3, JobShapes DEF SetForce, At, ForceFor
  <2> QED BY <1>0, <1>3, <2>1 DEF SetForce, Tables, GroupsHaveRoles
<1>4. CASE CreateUser(r)
  <2>1. PICK u \in People, p \in Passwords :
          pass' = [pass EXCEPT ![u] = p] /\ force' = [force EXCEPT ![u] = FALSE]
      BY <1>4 DEF CreateUser
  <2>2. \A v \in People : pass[v] # Nothing => pass'[v] # Nothing
      BY <1>0, <2>1, AccountsAssumption DEF Tables
  <2> QED BY <1>0, <1>4, <2>1, <2>2 DEF CreateUser, Tables, GroupsHaveRoles
<1>5. CASE RemoveFrom(r)
  <2>1. member' \subseteq member
      BY <1>5 DEF RemoveFrom
  <2> QED BY <1>0, <1>5, <2>1 DEF RemoveFrom, Tables, GroupsHaveRoles
<1>6. CASE AddTo(r)
  <2>1. /\ job[r].who \in People /\ job[r].left \subseteq Groups
        /\ pass[job[r].who] # Nothing
      BY <1>0, <1>6, JobShapes DEF AddTo, At, WorkInv
  <2>2. \/ member' = member
        \/ \E g \in Groups : role[g] # Nothing /\ member' = member \cup {<<job[r].who, g>>}
      BY <1>6, <2>1 DEF AddTo
  <2>3. member' \subseteq {u \in People : pass[u] # Nothing} \X {g \in Groups : role[g] # Nothing}
      BY <1>0, <2>1, <2>2 DEF Tables
  <2> QED BY <1>0, <1>6, <2>3 DEF AddTo, Tables, GroupsHaveRoles
<1>7. CASE CreateGroup(r)
  <2>1. PICK g \in Groups, o \in Roles :
          role[g] = Nothing /\ perms[o] # Nothing /\ role' = [role EXCEPT ![g] = o]
      BY <1>7 DEF CreateGroup
  <2>2. \A h \in Groups : role[h] # Nothing => role'[h] # Nothing
      BY <1>0, <2>1, AccountsAssumption DEF Tables
  <2>3. GroupsHaveRoles'
      BY <1>0, <1>7, <2>1 DEF CreateGroup, GroupsHaveRoles, Tables
  <2> QED BY <1>0, <1>7, <2>1, <2>2, <2>3 DEF CreateGroup, Tables
<1>8. CASE DeleteGroup(r)
  <2>1. job[r].group \in Groups
      BY <1>0, <1>8, JobShapes DEF DeleteGroup, At
  <2>2. role' = [role EXCEPT ![job[r].group] = Nothing] /\ member' = Without(job[r].group)
      BY <1>8 DEF DeleteGroup
  <2>3. member' \subseteq {u \in People : pass[u] # Nothing} \X {g \in Groups : role'[g] # Nothing}
      BY <1>0, <2>1, <2>2 DEF Tables, Without
  <2>4. GroupsHaveRoles'
      BY <1>0, <1>8, <2>1, <2>2 DEF DeleteGroup, GroupsHaveRoles, Tables
  <2> QED BY <1>0, <1>8, <2>1, <2>2, <2>3, <2>4 DEF DeleteGroup, Tables
<1>9. CASE WriteGroup(r) /\ ~UNCHANGED accounts
  <2>1. job[r].group \in Groups /\ job[r].role \in Roles
      BY <1>0, <1>9, JobShapes DEF WriteGroup, At
  <2>2. /\ perms[job[r].role] # Nothing /\ role' = [role EXCEPT ![job[r].group] = job[r].role]
        /\ UNCHANGED <<pass, force, member, perms>>
      BY <1>9 DEF WriteGroup, accounts
  <2>3. \A h \in Groups : role[h] # Nothing => role'[h] # Nothing
      BY <1>0, <2>1, <2>2, AccountsAssumption DEF Tables
  <2>4. GroupsHaveRoles'
      BY <1>0, <2>1, <2>2 DEF GroupsHaveRoles, Tables
  <2> QED BY <1>0, <2>1, <2>2, <2>3, <2>4 DEF Tables
<1>10. CASE CreateRole(r)
  <2>1. PICK o \in Roles : perms[o] = Nothing /\ perms' = [perms EXCEPT ![o] = {}]
      BY <1>10 DEF CreateRole
  <2>2. \A q \in Roles : perms[q] # Nothing => perms'[q] # Nothing
      BY <1>0, <2>1, AccountsAssumption DEF Tables
  <2> QED BY <1>0, <1>10, <2>1, <2>2 DEF CreateRole, Tables, GroupsHaveRoles
<1>11. CASE InsertPermissions(r) /\ ~UNCHANGED accounts
  <2>1. job[r] \in [at : {"wait", "insert"}, role : Roles, ask : SUBSET Perms, over : BOOLEAN]
      BY <1>0, <1>11, JobShapes DEF InsertPermissions, At
  <2>2. /\ perms[job[r].role] # Nothing
        /\ perms' = [perms EXCEPT ![job[r].role] = Left(job[r]) \cup job[r].ask]
        /\ UNCHANGED <<pass, force, member, role>>
      BY <1>11 DEF InsertPermissions, accounts
  <2>3. Left(job[r]) \cup job[r].ask \in SUBSET Perms
      BY <1>0, <2>1, <2>2 DEF Left, Tables
  <2>4. \A q \in Roles : perms[q] # Nothing => perms'[q] # Nothing
      BY <1>0, <2>1, <2>2, <2>3, AccountsAssumption DEF Tables
  <2> QED BY <1>0, <2>1, <2>2, <2>3, <2>4 DEF Tables, GroupsHaveRoles
<1>12. CASE DeleteRole(r) /\ ~UNCHANGED accounts
  <2>1. job[r].role \in Roles
      BY <1>0, <1>12, JobShapes DEF DeleteRole, At
  <2>2. /\ ~InUse(job[r].role) /\ perms' = [perms EXCEPT ![job[r].role] = Nothing]
        /\ UNCHANGED <<pass, force, member, role>>
      BY <1>12 DEF DeleteRole, accounts
  <2>3. GroupsHaveRoles'
      BY <1>0, <2>1, <2>2 DEF GroupsHaveRoles, InUse, Tables
  <2> QED BY <1>0, <2>1, <2>2, <2>3 DEF Tables
<1> QED BY <1>1, <1>2, <1>3, <1>4, <1>5, <1>6, <1>7, <1>8, <1>9, <1>10, <1>11, <1>12
       DEF JobStep, ChangePassword, ResetPassword, EditGroups, CheckGroup, ReadGroup,
           SetPermissions, Unblocked, CheckRole, AbortJob

LEMMA AccountsTypeNext ==
    ASSUME AccountsInv, WorkInv, [AccountsNext]_accountVars
    PROVE  AccountsInv' /\ WorkInv'
<1>1. CASE UNCHANGED accountVars
    BY <1>1 DEF accountVars, AccountsInv, AccountsTypeOK, GroupsHaveRoles, WorkInv
<1>2. ASSUME NEW r \in Threads, JobStep(r), AccountsNext
      PROVE  AccountsInv' /\ WorkInv'
  <2>0. AccountsTypeOK
      BY DEF AccountsInv
  <2>1. Tables' /\ \A u \in People : pass[u] # Nothing => pass'[u] # Nothing
      BY <1>2, EveryChange
  <2>2. /\ job' \in [Threads -> {NoJob} \cup Job]
        /\ result' \in [Threads -> {"none", "ok", "failed"}]
        /\ job'[r] # NoJob => result'[r] = "none"
        /\ job'[r].at \in Acts => pass'[job'[r].who] # Nothing
        /\ \A t \in Threads \ {r} :
              result'[t] = result[t] /\ (job'[t] = job[t] \/ (job'[t].at = "wait" /\ job[t].at = "wait"))
    <3>0. NoJob.at \notin Acts
        BY DEF NoJob, Acts
    <3>1. CASE InsertPermissions(r)
        BY <2>0, <3>0, <3>1, InsertTurns
    <3>2. CASE ~InsertPermissions(r)
      <4>1. PICK j, how : Turns(r, j, how) /\ TurnFits(j, how)
          BY <1>2, <2>0, <3>2, EveryTurn
      <4> QED BY <2>0, <4>1 DEF Turns, TurnFits, AccountsTypeOK
    <3> QED BY <3>1, <3>2
  <2>3. \A t \in Threads \ {r} : job[t].at \in Acts => job[t].who \in People
      BY <2>0, JobShapes DEF Acts
  <2>4. WorkInv'
    <3> SUFFICES ASSUME NEW t \in Threads
                 PROVE  /\ job'[t] # NoJob => result'[t] = "none"
                        /\ job'[t].at \in Acts => pass'[job'[t].who] # Nothing
        BY DEF WorkInv, Acts
    <3>1. CASE t = r
        BY <2>2, <3>1
    <3>2. CASE t # r /\ job'[t] = job[t]
        BY <2>1, <2>2, <2>3, <3>2 DEF WorkInv, Acts
    <3>3. CASE t # r /\ job'[t].at = "wait" /\ job[t].at = "wait"
        BY <2>2, <3>3 DEF WorkInv, Acts, NoJob
    <3> QED BY <2>2, <3>1, <3>2, <3>3
  <2>5. clean' \in [Threads -> BOOLEAN]
    <3>1. PICK q \in Threads : clean' = [t \in Threads |->
            IF t = q THEN job'[q] # NoJob /\ (job[q] = NoJob \/ clean[q])
            ELSE clean[t] /\ accounts' = accounts /\ ~At(q, "insert")]
        BY <1>2 DEF AccountsNext
    <3> QED BY <3>1
  <2>6. family' = family
      BY <1>2 DEF AccountsNext
  <2> QED BY <2>0, <2>1, <2>2, <2>4, <2>5, <2>6 DEF Tables, AccountsInv, AccountsTypeOK
<1> QED BY <1>1, <1>2 DEF AccountsNext

LEMMA AccountsStart == AccountsInit => AccountsInv /\ WorkInv
<1> SUFFICES ASSUME AccountsInit PROVE AccountsInv /\ WorkInv
    OBVIOUS
<1>1. PICK o \in SystemRoles : role = [g \in Groups |-> o]
    BY DEF AccountsInit
<1>2. o \in Roles /\ perms[o] = Perms /\ Perms # Nothing
    BY AccountsAssumption DEF AccountsInit
<1> QED BY <1>1, <1>2 DEF AccountsInit, AccountsInv, AccountsTypeOK, GroupsHaveRoles, WorkInv, NoJob

\* No membership leads to a user or a group that is gone, and no group to a role that
\* is gone, however the checks and the writes of concurrent administrators interleave:
\* deleteRole and PUT groups look first and write later (RoleRepository::deleteRole).
THEOREM ReferencesHold == AccountsSpec => []AccountsInv
<1> DEFINE Inv == AccountsInv /\ WorkInv
<1>1. Inv /\ [AccountsNext]_accountVars => Inv'
    BY AccountsTypeNext
<1> QED BY <1>1, AccountsStart, PTL DEF AccountsSpec

-----------------------------------------------------------------------------
(* What an undisturbed request has done *)

\* A step of thread r leaves the request of another as it is, unless it commits the
\* permissions the other waits for.
LEMMA OthersStay ==
    ASSUME AccountsInv, WorkInv, NEW r \in Threads, JobStep(r), NEW t \in Threads \ {r}
    PROVE  /\ result'[t] = result[t]
           /\ ~At(r, "insert") => job'[t] = job[t]
<1>0. AccountsTypeOK
    BY DEF AccountsInv
<1>1. CASE InsertPermissions(r)
    BY <1>0, <1>1, InsertTurns DEF InsertPermissions
<1>2. CASE ~InsertPermissions(r)
    BY <1>0, <1>2, EveryTurn DEF Turns, AccountsTypeOK
<1> QED BY <1>1, <1>2

\* What CleanInv says of thread r.
Found(r) ==
    /\ job[r].at = "force" /\ job[r].want # {} => GroupsOf(job[r].who) = {}
    /\ job[r].at = "remove" => GroupsOf(job[r].who) = job[r].left
    /\ job[r].at = "add" =>
          job[r].left \subseteq job[r].want /\ GroupsOf(job[r].who) = job[r].want \ job[r].left
    /\ job[r].at \in {"wait", "insert"} => job[r].over \/ perms[job[r].role] = {}
    /\ job[r].at = "delete group" => \A u \in People : ~Sole(u, job[r].group)

LEMMA BecomesIs ==
    ASSUME AccountsTypeOK, NEW r \in Threads, NEW j, Becomes(r, j)
    PROVE  job'[r] = j
BY DEF Becomes, AccountsTypeOK

LEMMA FoundNext ==
    ASSUME AccountsInv, WorkInv, NEW r \in Threads, JobStep(r),
           job'[r] # NoJob, job[r] = NoJob \/ Found(r)
    PROVE  Found(r)'
<1>0. AccountsTypeOK
    BY DEF AccountsInv
<1>1. ~\E how : EndsJob(r, how)
    BY <1>0 DEF EndsJob, AccountsTypeOK
<1>2. NoJob.at = "idle"
    BY DEF NoJob
<1>g. \A u : job'[r].who = u => GroupsOf(job[r].who)' = {g \in Groups : <<u, g>> \in member'}
    BY DEF GroupsOf
<1>h. \A u : GroupsOf(u) = {g \in Groups : <<u, g>> \in member}
    BY DEF GroupsOf
<1> DEFINE pw(u, p, f) == [at |-> "password", who |-> u, new |-> p, force |-> f]
           fresh(u, f, w) == [at |-> "force", who |-> u, force |-> f, want |-> w]
           adds(u, w) == [at |-> "add", who |-> u, left |-> w, want |-> w]
           takes(u, l, w) == [at |-> "remove", who |-> u, left |-> l, want |-> w]
           kill(g) == [at |-> "delete group", group |-> g]
           move(g, o) == [at |-> "write group", group |-> g, role |-> o]
           drop(o) == [at |-> "delete role", role |-> o]
<1>f. \A u, p, f : pw(u, p, f).at = "password"
    OBVIOUS
<1>i. \A u, f, w : fresh(u, f, w).at = "force" /\ fresh(u, f, w).who = u /\ fresh(u, f, w).want = w
    OBVIOUS
<1>j. \A u, w : /\ adds(u, w).at = "add" /\ adds(u, w).who = u
                /\ adds(u, w).left = w /\ adds(u, w).want = w
    OBVIOUS
<1>k. \A u, l, w : takes(u, l, w).at = "remove" /\ takes(u, l, w).who = u /\ takes(u, l, w).left = l
    OBVIOUS
<1>l. \A g : kill(g).at = "delete group" /\ kill(g).group = g
    OBVIOUS
<1>m. /\ \A g, o : move(g, o).at = "write group"
      /\ \A o : drop(o).at = "delete role"
    OBVIOUS
<1>3. CASE ChangePassword(r) \/ ResetPassword(r)
  <2>1. PICK u, p, f : Becomes(r, pw(u, p, f))
      BY <1>3 DEF ChangePassword, ResetPassword
  <2> HIDE DEF pw
  <2>2. job'[r].at = "password"
      BY <1>0, <1>f, <2>1, BecomesIs
  <2> QED BY <2>2 DEF Found
<1>4. CASE SetPassword(r)
  <2>1. job'[r].at = "force" /\ job'[r].want = {}
      BY <1>0, <1>4, BecomesIs DEF SetPassword
  <2> QED BY <2>1 DEF Found
<1>5. CASE SetForce(r)
  <2>1. /\ job[r].want # {} /\ member' = member
        /\ Becomes(r, adds(job[r].who, job[r].want))
      BY <1>1, <1>5 DEF SetForce
  <2>2. GroupsOf(job[r].who) = {}
      BY <1>2, <1>5, <2>1 DEF SetForce, At, Found
  <2> HIDE DEF adds
  <2>4. job'[r].at = "add" /\ job'[r].left = job'[r].want /\ job'[r].who = job[r].who
      BY <1>0, <1>j, <2>1, BecomesIs
  <2>3. GroupsOf(job[r].who)' = {}
      BY <1>g, <1>h, <2>1, <2>2, <2>4
  <2> QED BY <2>3, <2>4 DEF Found
<1>6. CASE CreateUser(r)
  <2>1. PICK u \in People, p \in Passwords, want \in SUBSET Groups, f \in BOOLEAN :
          /\ pass[u] = Nothing
          /\ Becomes(r, IF f THEN fresh(u, TRUE, want) ELSE adds(u, want))
      BY <1>6 DEF CreateUser
  <2>2. {g \in Groups : <<u, g>> \in member'} = {}
      BY <1>0, <1>6, <2>1 DEF CreateUser, AccountsTypeOK
  <2>3. CASE f
    <3> HIDE DEF fresh, adds
    <3>1. Becomes(r, fresh(u, TRUE, want))
        BY <2>1, <2>3
    <3>4. job'[r] = fresh(u, TRUE, want)
        BY <1>0, <3>1, BecomesIs
    <3>5. fresh(u, TRUE, want).at = "force" /\ fresh(u, TRUE, want).who = u
        BY <1>i, Zenon
    <3>2. job'[r].at = "force" /\ job'[r].who = u
        BY <3>4, <3>5
    <3>3. GroupsOf(job[r].who)' = {}
        BY <1>g, <2>2, <3>2
    <3> QED BY <3>2, <3>3 DEF Found
  <2>4. CASE ~f
    <3> HIDE DEF fresh, adds
    <3>1. Becomes(r, adds(u, want))
        BY <2>1, <2>4
    <3>2. /\ job'[r].at = "add" /\ job'[r].who = u
          /\ job'[r].left = want /\ job'[r].want = want
        BY <1>0, <1>j, <3>1, BecomesIs
    <3>3. GroupsOf(job[r].who)' = {}
        BY <1>g, <2>2, <3>2
    <3> QED BY <3>2, <3>3 DEF Found
  <2> QED BY <2>3, <2>4
<1>7. CASE EditGroups(r)
  <2>1. PICK u \in People, want \in SUBSET Groups :
          Becomes(r, takes(u, GroupsOf(u), want))
      BY <1>7 DEF EditGroups
  <2> HIDE DEF takes
  <2>3. member' = member
      BY <1>7 DEF EditGroups, accounts
  <2>4. job'[r].at = "remove" /\ job'[r].left = GroupsOf(u) /\ job'[r].who = u
      BY <1>0, <1>k, <2>1, BecomesIs
  <2>5. GroupsOf(job[r].who)' = job'[r].left
      BY <1>g, <1>h, <2>3, <2>4
  <2> QED BY <2>4, <2>5 DEF Found
<1>8. CASE RemoveFrom(r)
  <2>0. job[r] \in [at : {"remove", "add"}, who : People, left : SUBSET Groups, want : SUBSET Groups]
      BY <1>0, <1>8, JobShapes DEF RemoveFrom, At
  <2>1. GroupsOf(job[r].who) = job[r].left
      BY <1>2, <1>8 DEF RemoveFrom, At, Found
  <2>2. CASE /\ job[r].left = {} /\ member' = member
             /\ Becomes(r, [job[r] EXCEPT !.at = "add", !.left = job[r].want])
    <3>1. /\ job'[r].at = "add" /\ job'[r].who = job[r].who
          /\ job'[r].left = job[r].want /\ job'[r].want = job[r].want
        BY <1>0, <2>0, <2>2, BecomesIs
    <3> QED BY <2>1, <2>2, <3>1 DEF Found, GroupsOf
  <2>3. ASSUME NEW g \in job[r].left, member' = member \ {<<job[r].who, g>>},
               Becomes(r, [job[r] EXCEPT !.left = @ \ {g}])
        PROVE  Found(r)'
    <3>1. /\ job'[r].at = "remove" /\ job'[r].who = job[r].who
          /\ job'[r].left = job[r].left \ {g}
        BY <1>0, <1>8, <2>0, <2>3, BecomesIs DEF RemoveFrom, At
    <3>2. GroupsOf(job[r].who)' = GroupsOf(job[r].who) \ {g}
        BY <2>3, <3>1 DEF GroupsOf
    <3> QED BY <2>1, <3>1, <3>2 DEF Found, GroupsOf
  <2> QED BY <1>8, <2>2, <2>3 DEF RemoveFrom
<1>9. CASE AddTo(r)
  <2>0. job[r] \in [at : {"remove", "add"}, who : People, left : SUBSET Groups, want : SUBSET Groups]
      BY <1>0, <1>9, JobShapes DEF AddTo, At
  <2>1. job[r].left \subseteq job[r].want /\ GroupsOf(job[r].who) = job[r].want \ job[r].left
      BY <1>2, <1>9 DEF AddTo, At, Found
  <2>2. PICK g \in job[r].left : /\ member' = member \cup {<<job[r].who, g>>}
                                 /\ Becomes(r, [job[r] EXCEPT !.left = @ \ {g}])
      BY <1>1, <1>9 DEF AddTo
  <2>3. /\ job'[r].at = "add" /\ job'[r].who = job[r].who
        /\ job'[r].left = job[r].left \ {g} /\ job'[r].want = job[r].want
      BY <1>0, <1>9, <2>0, <2>2, BecomesIs DEF AddTo, At
  <2>4. {h \in Groups : <<job[r].who, h>> \in member'} = GroupsOf(job[r].who) \cup {g}
      BY <2>0, <2>2 DEF GroupsOf
  <2>5. GroupsOf(job[r].who)' = {h \in Groups : <<job'[r].who, h>> \in member'}
      BY DEF GroupsOf
  <2>6. job'[r].left \subseteq job'[r].want
      BY <2>1, <2>3
  <2>7. GroupsOf(job[r].who)' = job'[r].want \ job'[r].left
      BY <2>1, <2>2, <2>3, <2>4, <2>5
  <2> QED BY <2>3, <2>6, <2>7 DEF Found
<1>10. CASE CheckGroup(r)
  <2>1. PICK g \in Groups : /\ ~\E u \in People : Sole(u, g)
                            /\ Becomes(r, kill(g))
      BY <1>1, <1>10 DEF CheckGroup
  <2> HIDE DEF kill
  <2>4. job'[r] = kill(g)
      BY <1>0, <2>1, BecomesIs
  <2>2. job'[r].at = "delete group" /\ job'[r].group = g
      BY <1>l, <2>4
  <2>3. job'[r].at = "delete group" /\ job'[r].group = g /\ member' = member
      BY <1>10, <2>2 DEF CheckGroup, accounts
  <2> QED BY <2>1, <2>3 DEF Found, Sole, GroupsOf
<1>11. CASE ReadGroup(r) \/ CheckRole(r)
  <2>0. \/ \E g, o : Becomes(r, move(g, o))
        \/ \E o : Becomes(r, drop(o))
      BY <1>1, <1>11 DEF ReadGroup, CheckRole
  <2> HIDE DEF move, drop
  <2>2. \/ \E g, o : job'[r] = move(g, o)
        \/ \E o : job'[r] = drop(o)
      BY <1>0, <2>0, BecomesIs
  <2>1. job'[r].at \in {"write group", "delete role"}
      BY <1>m, <2>2
  <2> QED BY <2>1 DEF Found
<1>12. CASE SetPermissions(r)
  <2>1. PICK o \in Roles, ask \in SUBSET Perms, a \in {"wait", "insert"} :
          Becomes(r, [at |-> a, role |-> o, ask |-> ask, over |-> perms[o] # {}])
      BY <1>12 DEF SetPermissions
  <2>2. /\ job'[r].at \in {"wait", "insert"} /\ job'[r].role = o
        /\ job'[r].over = (perms[o] # {}) /\ perms' = perms
      BY <1>0, <1>12, <2>1, BecomesIs DEF SetPermissions, accounts
  <2> QED BY <2>2 DEF Found
<1>13. CASE Unblocked(r)
  <2>1. job[r] \in [at : {"wait", "insert"}, role : Roles, ask : SUBSET Perms, over : BOOLEAN]
      BY <1>0, <1>13, JobShapes DEF Unblocked, At
  <2>2. job[r].over \/ perms[job[r].role] = {}
      BY <1>2, <1>13 DEF Unblocked, At, Found
  <2>3. /\ job'[r].at = "insert" /\ job'[r].role = job[r].role
        /\ job'[r].over = job[r].over /\ perms' = perms
      BY <1>0, <1>13, <2>1, BecomesIs DEF Unblocked, accounts
  <2> QED BY <2>2, <2>3 DEF Found
<1>14. CASE InsertPermissions(r)
    BY <1>0, <1>14, InsertTurns
<1> QED BY <1>1, <1>3, <1>4, <1>5, <1>6, <1>7, <1>8, <1>9, <1>10, <1>11, <1>12, <1>13, <1>14
       DEF JobStep, CreateGroup, DeleteGroup, WriteGroup, CreateRole, DeleteRole, AbortJob

LEMMA CleanNext ==
    ASSUME AccountsInv, WorkInv, CleanInv, [AccountsNext]_accountVars
    PROVE  CleanInv'
<1>1. CASE UNCHANGED accountVars
  <2> SUFFICES ASSUME NEW t \in Threads, clean'[t]
               PROVE  Found(t)'
      BY DEF CleanInv, Found
  <2>1. Found(t) /\ job'[t] = job[t] /\ accounts' = accounts
      BY <1>1 DEF accountVars, accounts, CleanInv, Found
  <2> QED BY <2>1 DEF Found, accounts, GroupsOf, Sole
<1>2. ASSUME NEW r \in Threads, JobStep(r),
             clean' = [t \in Threads |->
                IF t = r THEN job'[r] # NoJob /\ (job[r] = NoJob \/ clean[r])
                ELSE clean[t] /\ accounts' = accounts /\ ~At(r, "insert")]
      PROVE  CleanInv'
  <2> SUFFICES ASSUME NEW t \in Threads, clean'[t]
               PROVE  Found(t)'
      BY DEF CleanInv, Found
  <2>1. CASE t = r
      BY <1>2, <2>1, FoundNext DEF CleanInv, Found
  <2>2. CASE t # r
    <3>1. job'[t] = job[t] /\ accounts' = accounts /\ clean[t]
        BY <1>2, <2>2, OthersStay
    <3>2. Found(t)
        BY <3>1 DEF CleanInv, Found
    <3> QED BY <3>1, <3>2 DEF Found, accounts, GroupsOf, Sole
  <2> QED BY <2>1, <2>2
<1> QED BY <1>1, <1>2 DEF AccountsNext

Done(r) ==
    CASE job[r].at = "force" -> force'[job[r].who] = job[r].force
      [] job[r].at = "add" -> {g \in Groups : <<job[r].who, g>> \in member'} = job[r].want
      [] job[r].at = "insert" -> perms'[job[r].role] = job[r].ask
      [] job[r].at = "delete group" ->
            \A u \in People : GroupsOf(u) # {} => GroupsOf(u)' # {}
      [] OTHER -> TRUE

LEMMA DoneAtEnd ==
    ASSUME AccountsInv, WorkInv, NEW r \in Threads, JobStep(r), Found(r),
           job[r] # NoJob, result'[r] = "ok"
    PROVE  Done(r)
<1>0. AccountsTypeOK
    BY DEF AccountsInv
<1>1. \A j : ~Becomes(r, j)
    BY <1>0 DEF Becomes, AccountsTypeOK
<1>2. ~EndsJob(r, "failed")
    BY <1>0 DEF EndsJob, AccountsTypeOK
<1>3. CASE SetForce(r)
  <2>1. job[r].at = "force" /\ job[r].who \in People
      BY <1>0, <1>3, JobShapes DEF SetForce, At
  <2>2. force'[job[r].who] = job[r].force
      BY <1>0, <1>3, <2>1 DEF SetForce, ForceFor, AccountsTypeOK
  <2> QED BY <2>1, <2>2 DEF Done
<1>4. CASE AddTo(r)
  <2>1. job[r].at = "add" /\ job[r].left = {} /\ member' = member
      BY <1>1, <1>2, <1>4 DEF AddTo, At
  <2>2. GroupsOf(job[r].who) = job[r].want
      BY <2>1 DEF Found
  <2> QED BY <2>1, <2>2 DEF Done, GroupsOf
<1>5. CASE InsertPermissions(r)
  <2>1. job[r] \in [at : {"wait", "insert"}, role : Roles, ask : SUBSET Perms, over : BOOLEAN]
      BY <1>0, <1>5, JobShapes DEF InsertPermissions, At
  <2>2. job[r].at = "insert" /\ perms' = [perms EXCEPT ![job[r].role] = Left(job[r]) \cup job[r].ask]
      BY <1>2, <1>5 DEF InsertPermissions, At
  <2>3. Left(job[r]) = {}
      BY <2>2 DEF Found, Left
  <2>4. perms'[job[r].role] = job[r].ask
      BY <1>0, <2>1, <2>2, <2>3 DEF AccountsTypeOK
  <2> QED BY <2>2, <2>4 DEF Done
<1>6. CASE DeleteGroup(r)
  <2>1. job[r].at = "delete group" /\ member' = Without(job[r].group)
      BY <1>6 DEF DeleteGroup, At
  <2>2. \A u \in People : ~Sole(u, job[r].group)
      BY <2>1 DEF Found
  <2>3. ASSUME NEW u \in People, GroupsOf(u) # {}
        PROVE  GroupsOf(u)' # {}
    <3>1. PICK g \in GroupsOf(u) : g # job[r].group
        BY <2>2, <2>3 DEF Sole, GroupsOf
    <3>2. <<u, g>> \in member' /\ g \in Groups
        BY <2>1, <3>1 DEF Without, GroupsOf
    <3> QED BY <3>2 DEF GroupsOf
  <2> QED BY <2>1, <2>3 DEF Done
<1>7. CASE WriteGroup(r) \/ DeleteRole(r)
    BY <1>7 DEF WriteGroup, DeleteRole, At, Done
<1> QED BY <1>1, <1>2, <1>3, <1>4, <1>5, <1>6, <1>7 DEF JobStep, ChangePassword, ResetPassword,
       SetPassword, CreateUser, EditGroups, RemoveFrom, CreateGroup, CheckGroup, ReadGroup,
       CreateRole, SetPermissions, Unblocked, CheckRole, AbortJob

\* A request that says it succeeded, and that no other has disturbed, has done in all its
\* transactions what it was asked for: the password must be changed, the user is in the
\* groups asked for, the role has the permissions asked for, and a deleted group has left
\* nobody without one (UserRoutes, GroupRoutes and RoleRoutes).
THEOREM WhatIsAskedIsDone == AccountsSpec => AskedIsDone
<1> DEFINE Inv == AccountsInv /\ WorkInv /\ CleanInv
           Asked == \A r \in Threads :
              LET j == job[r] IN
              j # NoJob /\ result'[r] = "ok" /\ clean[r] =>
                 CASE j.at = "force" -> force'[j.who] = j.force
                   [] j.at = "add" -> {g \in Groups : <<j.who, g>> \in member'} = j.want
                   [] j.at = "insert" -> perms'[j.role] = j.ask
                   [] j.at = "delete group" ->
                         \A u \in People : GroupsOf(u) # {} => GroupsOf(u)' # {}
                   [] OTHER -> TRUE
<1>1. AccountsInit => Inv
  <2>1. AccountsInit => CleanInv
      BY DEF AccountsInit, CleanInv
  <2> QED BY <2>1, AccountsStart
<1>2. Inv /\ [AccountsNext]_accountVars => Inv'
    BY AccountsTypeNext, CleanNext
<1>3. Inv /\ AccountsNext => Asked
  <2> SUFFICES ASSUME Inv, AccountsNext, NEW r \in Threads,
                      job[r] # NoJob, result'[r] = "ok", clean[r]
               PROVE  Done(r)
      BY DEF Done
  <2>1. PICK q \in Threads : JobStep(q)
      BY DEF AccountsNext
  <2>2. CASE q = r
      BY <2>1, <2>2, DoneAtEnd DEF CleanInv, Found
  <2>3. CASE q # r
      BY <2>1, <2>3, OthersStay DEF WorkInv
  <2> QED BY <2>2, <2>3
<1>4. Inv /\ [AccountsNext]_accountVars => [Asked]_accountVars
    BY <1>3
<1> QED BY <1>1, <1>2, <1>4, PTL DEF AccountsSpec, AskedIsDone

-----------------------------------------------------------------------------
(* Logins through an identity provider *)

Working(f) == flow[f].at # "idle"
Past(f)    == flow[f].at \in {"user", "create", "session"}

\* The server does not take a again: an OIDC provider has taken the code back, a SAML
\* answer is too old, or remembered for at least as long as it is not.
Spent(a) ==
    /\ answers[a] # Absent
    /\ IF protocol = "oidc" THEN a \in redeemed
       ELSE Fresh(a) => seen[a] # Absent /\ answers[a].at + AnswerLife <= seen[a]

\* Answers are to logins that were begun, and callbacks about answers that were given.
GivenInv ==
    /\ \A a \in AnswerIds : answers[a] # Absent =>
          /\ answers[a].at <= fedNow
          /\ answers[a].token # Absent => asked[answers[a].token] # Absent
    /\ \A f \in Flows : Working(f) => answers[flow[f].id] # Absent

\* A state is what its login was begun with and has not been taken; a callback has the
\* state of its own login, and goes beyond the validation only if that was no test.
LoginInv ==
    /\ \A t \in Tokens :
         /\ states[t] # Absent => states[t] = asked[t] /\ took[t] = 0
         /\ took[t] # 0 => asked[t] # Absent
    /\ \A f \in Flows : Working(f) =>
         /\ flow[f].state # Absent =>
               /\ answers[flow[f].id].token # Absent
               /\ flow[f].state = asked[answers[flow[f].id].token]
         /\ flow[f].state = Absent => protocol = "saml"
         /\ Past(f) => IF flow[f].state = Absent THEN flow[f].direct ELSE ~flow[f].state.test

\* Beyond the validation an answer has one callback or none, and has opened no session
\* before it.
OnceInv ==
    /\ \A f, g \in Flows : Past(f) /\ Past(g) /\ flow[f].id = flow[g].id => f = g
    /\ \A f \in Flows : Past(f) => lets[flow[f].id] = 0 /\ Spent(flow[f].id)
    /\ \A a \in AnswerIds : lets[a] <= 1 /\ (lets[a] # 0 => Spent(a))

FederatedIInv == FederatedTypeOK /\ GivenInv /\ LoginInv /\ OnceInv

-----------------------------------------------------------------------------
LEMMA FlowShape ==
    ASSUME FederatedTypeOK, NEW f \in Flows
    PROVE  /\ flow[f].at = "idle" => flow[f] = NoFlow
           /\ flow[f].at # "idle" => flow[f] \in Flow
           /\ flow[f] = NoFlow => flow[f].at = "idle"
<1>1. flow[f] \in Flow \cup {NoFlow}
    BY DEF FederatedTypeOK
<1>2. NoFlow.at = "idle"
    BY DEF NoFlow
<1>3. \A x \in Flow : x.at # "idle"
    BY DEF Flow
<1> QED BY <1>1, <1>2, <1>3

\* A callback that goes on keeps its answer and its state.
LEMMA OnwardIs ==
    ASSUME FederatedTypeOK, NEW f \in Flows, flow[f] \in Flow, NEW s, Onward(f, s)
    PROVE  /\ flow'[f].at = s /\ flow'[f].id = flow[f].id
           /\ flow'[f].state = flow[f].state /\ flow'[f].direct = flow[f].direct
           /\ \A g \in Flows : g # f => flow'[g] = flow[g]
           /\ s \in {"row", "register", "validate", "user", "create", "session"} =>
                flow' \in [Flows -> Flow \cup {NoFlow}]
<1>1. /\ flow'[f] = [flow[f] EXCEPT !.at = s]
      /\ \A g \in Flows : g # f => flow'[g] = flow[g]
    BY DEF Onward, FederatedTypeOK
<1>2. /\ flow'[f].at = s /\ flow'[f].id = flow[f].id
      /\ flow'[f].state = flow[f].state /\ flow'[f].direct = flow[f].direct
    BY <1>1 DEF Flow
<1>3. ASSUME s \in {"row", "register", "validate", "user", "create", "session"}
      PROVE  flow' \in [Flows -> Flow \cup {NoFlow}]
  <2>1. [flow[f] EXCEPT !.at = s] \in Flow
      BY <1>3 DEF Flow
  <2> QED BY <2>1 DEF Onward, FederatedTypeOK
<1> QED BY <1>1, <1>2, <1>3

LEMMA OverIs ==
    ASSUME FederatedTypeOK, NEW f \in Flows, Over(f)
    PROVE  /\ flow'[f].at = "idle"
           /\ \A g \in Flows : g # f => flow'[g] = flow[g]
           /\ flow' \in [Flows -> Flow \cup {NoFlow}]
BY DEF Over, FederatedTypeOK, NoFlow


LEMMA SpentStays ==
    ASSUME NEW a, UNCHANGED <<protocol, answers, seen>>, fedNow <= fedNow', Spent(a),
           redeemed \subseteq redeemed', FederatedTypeOK, FederatedTypeOK', a \in AnswerIds
    PROVE  Spent(a)'
<1>1. answers[a].at \in Nat
    BY DEF Spent, FederatedTypeOK, Answer
<1>2. fedNow \in Nat /\ fedNow' \in Nat /\ AnswerLife \in Nat
    BY FederatedAssumption DEF FederatedTypeOK
<1> QED BY <1>1, <1>2 DEF Spent, Fresh

\* A callback that ends or goes on, short of the validation or beyond it.
Quiet(f) ==
    /\ UNCHANGED <<protocol, fedNow, asked, answers, lets, took, states>>
    /\ \A g \in Flows : g # f => flow'[g] = flow[g]
    /\ \A a \in AnswerIds : Spent(a) => Spent(a)'
    /\ \/ flow'[f].at = "idle"
       \/ /\ flow'[f].id = flow[f].id /\ flow'[f].state = flow[f].state /\ Working(f)
          /\ Past(f)' => Past(f) /\ flow'[f].direct = flow[f].direct

LEMMA QuietKeeps ==
    ASSUME FederatedIInv, NEW f \in Flows, Quiet(f)
    PROVE  GivenInv' /\ LoginInv' /\ OnceInv'
<1>0. \A g \in Flows : flow[g].at # "idle" => flow[g].id \in AnswerIds
    BY FlowShape DEF FederatedIInv, Flow
<1>1. \A g \in Flows : Working(g)' =>
         /\ Working(g) /\ flow'[g].id = flow[g].id /\ flow'[g].state = flow[g].state
         /\ Past(g)' => Past(g) /\ flow'[g].direct = flow[g].direct
    BY DEF Quiet, Working, Past
<1>2. \A g \in Flows : Past(g)' => Working(g)'
    BY DEF Past, Working
<1>3. UNCHANGED <<protocol, fedNow, asked, answers, lets, took, states>>
    BY DEF Quiet
<1>4. GivenInv'
    BY <1>1, <1>3 DEF FederatedIInv, GivenInv
<1>5. LoginInv'
    BY <1>1, <1>2, <1>3 DEF FederatedIInv, LoginInv
<1>6. OnceInv'
  <2>1. \A g, h \in Flows : Past(g)' /\ Past(h)' /\ flow'[g].id = flow'[h].id => g = h
      BY <1>1, <1>2 DEF FederatedIInv, OnceInv
  <2>2. ASSUME NEW g \in Flows, Past(g)'
        PROVE  (lets[flow[g].id] = 0 /\ Spent(flow[g].id))'
    <3>1. PICK i \in AnswerIds : i = flow[g].id /\ i = flow'[g].id
        BY <1>0, <1>1, <1>2, <2>2 DEF Working
    <3>2. lets[i] = 0 /\ Spent(i)
        BY <1>1, <1>2, <2>2, <3>1 DEF FederatedIInv, OnceInv
    <3>3. Spent(i)'
        BY <3>2 DEF Quiet
    <3> QED BY <1>3, <3>1, <3>2, <3>3 DEF Spent, Fresh
  <2>3. \A a \in AnswerIds : lets'[a] <= 1 /\ (lets'[a] # 0 => Spent(a)')
      BY <1>3 DEF FederatedIInv, OnceInv, Quiet
  <2> QED BY <2>1, <2>2, <2>3 DEF OnceInv
<1> QED BY <1>4, <1>5, <1>6

\* A callback whose answer has just been proved, for the first time.
LEMMA ProvedKeeps ==
    ASSUME FederatedIInv, NEW f \in Flows, flow[f].at = "validate", Onward(f, "user"),
           UNCHANGED <<protocol, fedNow, asked, answers, lets, took, states>>,
           NEW a \in AnswerIds, a = flow[f].id, ~Spent(a), Spent(a)',
           \A b \in AnswerIds : Spent(b) => Spent(b)',
           IF flow[f].state = Absent THEN flow[f].direct ELSE ~flow[f].state.test
    PROVE  GivenInv' /\ LoginInv' /\ OnceInv'
<1>0. \A g \in Flows : flow[g].at # "idle" => flow[g].id \in AnswerIds
    BY FlowShape DEF FederatedIInv, Flow
<1>1. /\ flow'[f].at = "user" /\ flow'[f].id = a
      /\ flow'[f].state = flow[f].state /\ flow'[f].direct = flow[f].direct
      /\ \A g \in Flows : g # f => flow'[g] = flow[g]
    BY FlowShape, OnwardIs DEF FederatedIInv
<1>2. GivenInv'
    BY <1>1 DEF FederatedIInv, GivenInv, Working
<1>3. LoginInv'
    BY <1>1 DEF FederatedIInv, LoginInv, Working, Past
<1>4. \A g \in Flows : Past(g) => flow[g].id # a
    BY DEF FederatedIInv, OnceInv
<1>5. lets[a] = 0
    BY DEF FederatedIInv, OnceInv
<1>6. \A g, h \in Flows : Past(g)' /\ Past(h)' /\ flow'[g].id = flow'[h].id => g = h
    BY <1>1, <1>4 DEF FederatedIInv, OnceInv, Past
<1>7. ASSUME NEW g \in Flows, Past(g)'
      PROVE  (lets[flow[g].id] = 0 /\ Spent(flow[g].id))'
  <2>1. CASE g = f
      BY <1>1, <1>5, <2>1 DEF Spent, Fresh
  <2>2. CASE g # f
    <3>1. Past(g) /\ flow'[g] = flow[g]
        BY <1>1, <1>7, <2>2 DEF Past
    <3>2. PICK i \in AnswerIds : i = flow[g].id /\ i = flow'[g].id
        BY <1>0, <3>1 DEF Past
    <3>3. lets[i] = 0 /\ Spent(i)
        BY <3>1, <3>2 DEF FederatedIInv, OnceInv
    <3>4. Spent(i)'
        BY <3>3
    <3> QED BY <3>2, <3>3, <3>4 DEF Spent, Fresh
  <2> QED BY <2>1, <2>2
<1>8. \A b \in AnswerIds : lets'[b] <= 1 /\ (lets'[b] # 0 => Spent(b)')
    BY DEF FederatedIInv, OnceInv
<1> QED BY <1>2, <1>3, <1>6, <1>7, <1>8 DEF OnceInv

LEMMA ReadIdpKeeps ==
    ASSUME FederatedIInv, NEW f \in Flows, ReadIdp(f)
    PROVE  FederatedIInv'
<1>0. FederatedTypeOK /\ flow[f] \in Flow /\ flow[f].at = "row"
    BY FlowShape DEF FederatedIInv, ReadIdp, In
<1> DEFINE theirs == idp[answers[flow[f].id].url]
           s   == IF protocol = "saml" THEN "register" ELSE "validate"
<1>1. answers[flow[f].id] \in Answer
    BY <1>0 DEF FederatedIInv, GivenInv, Working, FederatedTypeOK, Flow
<1>2. theirs \in Idp \cup {Absent}
    BY <1>0, <1>1 DEF FederatedTypeOK, Answer
<1>3. /\ flow' \in [Flows -> Flow \cup {NoFlow}]
      /\ \A g \in Flows : g # f => flow'[g] = flow[g]
      /\ \/ flow'[f].at = "idle"
         \/ flow'[f].id = flow[f].id /\ flow'[f].state = flow[f].state /\ ~Past(f)'
  <2>1. CASE Over(f)
      BY <1>0, <2>1, OverIs
  <2>2. CASE ~Over(f)
    <3>1. /\ theirs # Absent
          /\ flow' = [flow EXCEPT ![f].at = s, ![f].direct = theirs.direct]
        BY <2>2 DEF ReadIdp
    <3>2. theirs.direct \in BOOLEAN
        BY <1>2, <3>1 DEF Idp
    <3> HIDE DEF theirs
    <3> DEFINE new == [flow[f] EXCEPT !.at = s, !.direct = theirs.direct]
    <3>3. /\ new \in Flow /\ new.id = flow[f].id /\ new.state = flow[f].state
          /\ new.at \in {"register", "validate"}
        BY <1>0, <3>2 DEF Flow
    <3>4. flow' = [flow EXCEPT ![f] = new]
        BY <1>0, <3>1 DEF FederatedTypeOK
    <3> HIDE DEF new
    <3>5. flow'[f] = new /\ \A g \in Flows : g # f => flow'[g] = flow[g]
        BY <1>0, <3>4 DEF FederatedTypeOK
    <3> QED BY <1>0, <3>3, <3>4, <3>5 DEF FederatedTypeOK, Past
  <2> QED BY <2>1, <2>2
<1>4. UNCHANGED <<protocol, idp, kept, active, fedNow, puts, outside, took, lets>>
    BY DEF ReadIdp
<1>5. FederatedTypeOK'
    BY <1>0, <1>3, <1>4 DEF FederatedTypeOK, kept, outside
<1>6. \A a \in AnswerIds : Spent(a) => Spent(a)'
    BY <1>4 DEF Spent, Fresh, kept, outside
<1>7. Quiet(f)
    BY <1>0, <1>3, <1>4, <1>6 DEF Quiet, kept, outside, Working
<1> QED BY <1>5, <1>7, QuietKeeps DEF FederatedIInv

LEMMA ShortStepKeeps ==
    ASSUME FederatedIInv, NEW f \in Flows,
           Register(f) \/ FindUser(f) \/ CreateFederated(f) \/ GiveUp(f)
    PROVE  FederatedIInv'
<1>0. FederatedTypeOK /\ flow[f] \in Flow
    BY FlowShape DEF FederatedIInv, Register, FindUser, CreateFederated, GiveUp, In
<1>1. UNCHANGED <<protocol, idp, states, seen, fedNow, puts, outside, took, lets>>
    BY DEF Register, FindUser, CreateFederated, GiveUp, kept
<1>2. \/ Over(f)
      \/ Onward(f, "validate") /\ ~Past(f)
      \/ Onward(f, "create") /\ Past(f)
      \/ Onward(f, "session") /\ Past(f)
    BY DEF Register, FindUser, CreateFederated, GiveUp, In, Past
<1>3. /\ flow' \in [Flows -> Flow \cup {NoFlow}]
      /\ \A g \in Flows : g # f => flow'[g] = flow[g]
      /\ \/ flow'[f].at = "idle"
         \/ /\ flow'[f].id = flow[f].id /\ flow'[f].state = flow[f].state
            /\ Past(f)' => Past(f) /\ flow'[f].direct = flow[f].direct
  <2>1. CASE Over(f)
      BY <1>0, <2>1, OverIs
  <2>2. CASE Onward(f, "validate") /\ ~Past(f)
      BY <1>0, <2>2, OnwardIs DEF Past
  <2>3. CASE Onward(f, "create") /\ Past(f)
      BY <1>0, <2>3, OnwardIs DEF Past
  <2>4. CASE Onward(f, "session") /\ Past(f)
      BY <1>0, <2>4, OnwardIs DEF Past
  <2> QED BY <1>2, <2>1, <2>2, <2>3, <2>4
<1>4. Working(f)
    BY <1>0 DEF Flow, Working
<1>5. registered' \subseteq Idps
  <2>1. CASE Register(f)
    <3>1. answers[flow[f].id] \in Answer
        BY <1>0, <1>4 DEF FederatedIInv, GivenInv, FederatedTypeOK, Flow
    <3>2. answers[flow[f].id].url \in Idps
        BY <3>1 DEF Answer
    <3> QED BY <1>0, <2>1, <3>2 DEF Register, FederatedTypeOK
  <2>2. CASE FindUser(f) \/ CreateFederated(f) \/ GiveUp(f)
      BY <1>0, <2>2 DEF FindUser, CreateFederated, GiveUp, FederatedTypeOK, kept
  <2> QED BY <2>1, <2>2
<1>6. active' \in BOOLEAN \cup {Absent}
  <2>1. active' = active \/ active' = TRUE
      BY DEF Register, FindUser, CreateFederated, GiveUp
  <2>2. active \in BOOLEAN \cup {Absent}
      BY <1>0 DEF FederatedTypeOK
  <2> QED BY <2>1, <2>2, Zenon
<1>7. FederatedTypeOK'
    BY <1>0, <1>1, <1>3, <1>5, <1>6 DEF FederatedTypeOK, outside
<1>8. \A a \in AnswerIds : Spent(a) => Spent(a)'
    BY <1>1 DEF Spent, Fresh, outside
<1>9. Quiet(f)
    BY <1>1, <1>3, <1>4, <1>8 DEF Quiet, outside
<1> QED BY <1>7, <1>9, QuietKeeps DEF FederatedIInv

LEMMA ExchangeKeeps ==
    ASSUME FederatedIInv, NEW f \in Flows, Exchange(f)
    PROVE  FederatedIInv'
<1>0. FederatedTypeOK /\ flow[f] \in Flow /\ flow[f].at = "validate" /\ Working(f)
    BY FlowShape DEF FederatedIInv, Exchange, In, Working
<1>1. PICK a \in AnswerIds : a = flow[f].id
    BY <1>0 DEF Flow
<1>2. /\ UNCHANGED <<protocol, idp, kept, active, fedNow, puts, asked, answers, took, lets>>
      /\ redeemed' = redeemed \cup {a} /\ protocol = "oidc"
    BY <1>1 DEF Exchange
<1>3. \A b \in AnswerIds : Spent(b) => Spent(b)'
    BY <1>2 DEF Spent, Fresh, kept
<1>4. ASSUME flow' \in [Flows -> Flow \cup {NoFlow}]
      PROVE  FederatedTypeOK'
    BY <1>0, <1>2, <1>4 DEF FederatedTypeOK, kept
<1>5. CASE Over(f)
  <2>1. FederatedTypeOK'
      BY <1>0, <1>4, <1>5, OverIs
  <2>2. Quiet(f)
      BY <1>0, <1>2, <1>3, <1>5, OverIs DEF Quiet, kept
  <2> QED BY <2>1, <2>2, QuietKeeps DEF FederatedIInv
<1>6. CASE ~Over(f)
  <2>1. /\ a \notin redeemed /\ Onward(f, "user")
        /\ flow[f].state # Absent => ~flow[f].state.test
      BY <1>1, <1>6 DEF Exchange, Proved
  <2>2. ~Spent(a)
      BY <1>2, <2>1 DEF Spent
  <2>3. Spent(a)'
      BY <1>0, <1>1, <1>2 DEF Spent, FederatedIInv, GivenInv
  <2>4. flow[f].state # Absent
      BY <1>0, <1>2 DEF FederatedIInv, LoginInv
  <2>5. FederatedTypeOK'
      BY <1>0, <1>4, <2>1, OnwardIs
  <2>6. UNCHANGED <<protocol, fedNow, asked, answers, lets, took, states>>
      BY <1>2 DEF kept
  <2>7. GivenInv' /\ LoginInv' /\ OnceInv'
      BY <1>0, <1>1, <1>3, <2>1, <2>2, <2>3, <2>4, <2>6, ProvedKeeps
  <2> QED BY <2>5, <2>7 DEF FederatedIInv
<1> QED BY <1>5, <1>6

\* What the replay cache forgets is too old to be accepted.
LEMMA ForgetsLate ==
    ASSUME FederatedTypeOK, protocol = "saml", NEW b \in AnswerIds, answers[b] # Absent
    PROVE  /\ Unforgotten(seen)[b] = Absent \/ Unforgotten(seen)[b] = seen[b]
           /\ Spent(b) /\ Fresh(b) => Unforgotten(seen)[b] = seen[b] /\ seen[b] # Absent
<1>1. answers[b].at \in Nat /\ AnswerLife \in Nat /\ fedNow \in Nat
    BY FederatedAssumption DEF FederatedTypeOK, Answer
<1>2. seen[b] # Absent => seen[b] \in Nat
    BY DEF FederatedTypeOK
<1>3. Unforgotten(seen)[b] = IF seen[b] # Absent /\ seen[b] < fedNow THEN Absent ELSE seen[b]
    BY DEF Unforgotten
<1> QED BY <1>1, <1>2, <1>3 DEF Spent, Fresh

LEMMA ValidateKeeps ==
    ASSUME FederatedIInv, NEW f \in Flows, Validate(f)
    PROVE  FederatedIInv'
<1>0. FederatedTypeOK /\ flow[f] \in Flow /\ flow[f].at = "validate" /\ Working(f)
    BY FlowShape DEF FederatedIInv, Validate, In, Working
<1>1. PICK a \in AnswerIds : a = flow[f].id
    BY <1>0 DEF Flow
<1>2. /\ UNCHANGED <<protocol, idp, states, registered, active, fedNow, puts, outside, took, lets>>
      /\ protocol = "saml" /\ answers[a] # Absent
    BY <1>0, <1>1 DEF Validate, FederatedIInv, GivenInv
<1> DEFINE left == Unforgotten(seen)
<1>3. left \in [AnswerIds -> Nat \cup {Absent}]
    BY <1>0 DEF FederatedTypeOK, Unforgotten
<1>4. answers[a].at \in Nat /\ answers[a].at <= fedNow /\ fedNow \in Nat
    BY <1>0, <1>2 DEF FederatedIInv, GivenInv, FederatedTypeOK, Answer
<1>5. ASSUME flow' \in [Flows -> Flow \cup {NoFlow}], seen' \in [AnswerIds -> Nat \cup {Absent}]
      PROVE  FederatedTypeOK'
    BY <1>0, <1>2, <1>5 DEF FederatedTypeOK, outside
<1>6. ASSUME seen' = left \/ seen' = seen
      PROVE  \A b \in AnswerIds : Spent(b) => Spent(b)'
  <2> SUFFICES ASSUME NEW b \in AnswerIds, Spent(b) PROVE Spent(b)'
      OBVIOUS
  <2>1. answers[b] # Absent
      BY DEF Spent
  <2>2. Fresh(b) => seen'[b] = seen[b]
      BY <1>0, <1>2, <1>6, <2>1, ForgetsLate
  <2> QED BY <1>2, <2>2 DEF Spent, Fresh, outside
<1>7. CASE Over(f)
  <2>1. seen' = left \/ seen' = seen \/ seen' = [left EXCEPT ![a] = fedNow + ReplayTtl]
      BY <1>1 DEF Validate
  <2>2. \A b \in AnswerIds : Spent(b) => Spent(b)'
    <3> SUFFICES ASSUME NEW b \in AnswerIds, Spent(b) PROVE Spent(b)'
        OBVIOUS
    <3>1. answers[b] # Absent
        BY DEF Spent
    <3>2. Fresh(b) => left[b] = seen[b] /\ seen[b] # Absent
        BY <1>0, <1>2, <3>1, ForgetsLate
    <3>3. b # a /\ Fresh(b) => seen'[b] = seen[b]
        BY <1>3, <2>1, <3>2
    <3>4. b = a /\ Fresh(b) => seen'[b] = seen[b] \/ seen'[b] = fedNow + ReplayTtl
        BY <1>3, <2>1, <3>2
    <3>5. Fresh(b)' = Fresh(b)
        BY <1>2 DEF Fresh, outside
    <3>6. ASSUME b = a
          PROVE  /\ answers[b].at + AnswerLife <= fedNow + ReplayTtl
                 /\ fedNow + ReplayTtl # Absent
        BY <1>4, <3>6, FederatedAssumption
    <3> QED BY <1>2, <3>1, <3>3, <3>4, <3>5, <3>6 DEF Spent, outside
  <2>3. seen' \in [AnswerIds -> Nat \cup {Absent}]
    <3>1. fedNow + ReplayTtl \in Nat
        BY <1>4, FederatedAssumption
    <3> QED BY <1>0, <1>3, <2>1, <3>1 DEF FederatedTypeOK
  <2>4. FederatedTypeOK'
      BY <1>0, <1>5, <1>7, <2>3, OverIs
  <2>5. Quiet(f)
      BY <1>0, <1>2, <1>7, <2>2, OverIs DEF Quiet, outside
  <2> QED BY <2>4, <2>5, QuietKeeps DEF FederatedIInv
<1>8. CASE ~Over(f)
  <2>1. /\ Fits(f) /\ Fresh(a) /\ left[a] = Absent /\ Onward(f, "user")
        /\ seen' = [left EXCEPT ![a] = fedNow + ReplayTtl]
        /\ flow[f].state # Absent => ~flow[f].state.test
      BY <1>1, <1>8 DEF Validate, Proved
  <2>2. ~Spent(a)
      BY <1>0, <1>2, <2>1, ForgetsLate
  <2>3. fedNow + ReplayTtl \in Nat /\ answers[a].at + AnswerLife <= fedNow + ReplayTtl
      BY <1>4, FederatedAssumption
  <2>4. seen'[a] = fedNow + ReplayTtl /\ \A b \in AnswerIds : b # a => seen'[b] = left[b]
      BY <1>3, <2>1
  <2>5. Spent(a)'
      BY <1>2, <2>3, <2>4, FederatedAssumption DEF Spent, Fresh, outside
  <2>6. ASSUME NEW b \in AnswerIds, Spent(b) PROVE Spent(b)'
    <3>1. answers[b] # Absent /\ b # a
        BY <2>2, <2>6 DEF Spent
    <3>2. Fresh(b) => left[b] = seen[b] /\ seen[b] # Absent
        BY <1>0, <1>2, <2>6, <3>1, ForgetsLate
    <3> QED BY <1>2, <2>4, <2>6, <3>1, <3>2 DEF Spent, Fresh, outside
  <2>7. IF flow[f].state = Absent THEN flow[f].direct ELSE ~flow[f].state.test
      BY <2>1 DEF Fits
  <2>8. seen' \in [AnswerIds -> Nat \cup {Absent}]
      BY <1>3, <2>1, <2>3
  <2>9. FederatedTypeOK'
      BY <1>0, <1>5, <2>1, <2>8, OnwardIs
  <2>10. UNCHANGED <<protocol, fedNow, asked, answers, lets, took, states>>
      BY <1>2 DEF outside
  <2>11. GivenInv' /\ LoginInv' /\ OnceInv'
      BY <1>0, <1>1, <2>1, <2>2, <2>5, <2>6, <2>7, <2>10, ProvedKeeps
  <2> QED BY <2>9, <2>11 DEF FederatedIInv
<1> QED BY <1>7, <1>8

LEMMA OpenSessionKeeps ==
    ASSUME FederatedIInv, NEW f \in Flows, OpenSession(f)
    PROVE  FederatedIInv'
<1>0. FederatedTypeOK /\ flow[f] \in Flow /\ flow[f].at = "session" /\ Past(f)
    BY FlowShape DEF FederatedIInv, OpenSession, In, Past
<1>1. PICK a \in AnswerIds : a = flow[f].id
    BY <1>0 DEF Flow
<1>2. /\ UNCHANGED <<protocol, idp, kept, active, fedNow, puts, outside, took>>
      /\ lets' = [lets EXCEPT ![a] = @ + 1] /\ Over(f)
    BY <1>1 DEF OpenSession
<1>3. lets[a] = 0 /\ Spent(a)
    BY <1>0, <1>1 DEF FederatedIInv, OnceInv
<1>4. lets'[a] = 1 /\ \A b \in AnswerIds : b # a => lets'[b] = lets[b]
    BY <1>0, <1>2, <1>3 DEF FederatedTypeOK
<1>5. FederatedTypeOK'
    BY <1>0, <1>2, OverIs DEF FederatedTypeOK, kept, outside
<1>6. flow'[f].at = "idle" /\ \A g \in Flows : g # f => flow'[g] = flow[g]
    BY <1>0, <1>2, OverIs
<1>7. \A b \in AnswerIds : Spent(b) => Spent(b)'
    BY <1>2 DEF Spent, Fresh, kept, outside
<1>8. GivenInv'
    BY <1>2, <1>6 DEF FederatedIInv, GivenInv, Working, outside
<1>9. LoginInv'
    BY <1>2, <1>6 DEF FederatedIInv, LoginInv, Working, Past, kept, outside
<1>10. \A g, h \in Flows : Past(g)' /\ Past(h)' /\ flow'[g].id = flow'[h].id => g = h
    BY <1>6 DEF FederatedIInv, OnceInv, Past
<1>11. ASSUME NEW g \in Flows, Past(g)'
       PROVE  (lets[flow[g].id] = 0 /\ Spent(flow[g].id))'
  <2>1. g # f /\ Past(g) /\ flow'[g] = flow[g]
      BY <1>6, <1>11 DEF Past
  <2>2. flow[g].id # a
      BY <1>0, <1>1, <2>1 DEF FederatedIInv, OnceInv
  <2>3. PICK i \in AnswerIds : i = flow[g].id /\ i = flow'[g].id
      BY <1>0, <2>1, FlowShape DEF Past, Flow
  <2>4. lets[i] = 0 /\ Spent(i)
      BY <2>1, <2>3 DEF FederatedIInv, OnceInv
  <2>5. lets'[i] = 0 /\ Spent(i)'
      BY <1>4, <1>7, <2>2, <2>3, <2>4
  <2> QED BY <2>3, <2>5 DEF Spent, Fresh
<1>12. ASSUME NEW b \in AnswerIds
       PROVE  lets'[b] <= 1 /\ (lets'[b] # 0 => Spent(b)')
  <2>1. lets[b] <= 1 /\ (lets[b] # 0 => Spent(b))
      BY DEF FederatedIInv, OnceInv
  <2>2. Spent(b) => Spent(b)'
      BY <1>7
  <2> QED BY <1>3, <1>4, <2>1, <2>2
<1> QED BY <1>5, <1>8, <1>9, <1>10, <1>11, <1>12 DEF FederatedIInv, OnceInv

\* What is left of the states when the old ones are forgotten
LEMMA UnexpiredIs ==
    ASSUME FederatedTypeOK
    PROVE  /\ Unexpired(states) \in [Tokens -> Begun \cup {Absent}]
           /\ \A t \in Tokens : Unexpired(states)[t] # Absent =>
                /\ Unexpired(states)[t] = states[t]
                /\ fedNow - states[t].at <= StateTtl
<1>1. \A t \in Tokens : states[t] # Absent => states[t].at \in Nat
    BY FederatedAssumption DEF FederatedTypeOK, Begun
<1>2. fedNow \in Nat /\ StateTtl \in Nat
    BY FederatedAssumption DEF FederatedTypeOK
<1>3. \A t \in Tokens : Unexpired(states)[t] =
         IF states[t] # Absent /\ fedNow - states[t].at > StateTtl THEN Absent ELSE states[t]
    BY DEF Unexpired
<1>4. Unexpired(states) \in [Tokens -> Begun \cup {Absent}]
    BY DEF Unexpired, FederatedTypeOK
<1> QED BY <1>1, <1>2, <1>3, <1>4

\* What a callback takes with it: its answer, and the state of the answer's login.
LEMMA ConsumeTakes ==
    ASSUME FederatedIInv, NEW f \in Flows, Consume(f)
    PROVE  \E a \in AnswerIds, st \in Begun \cup {Absent} :
             LET t == answers[a].token IN
             /\ answers[a] # Absent
             /\ st # Absent => /\ t \in Tokens /\ st = states[t]
                               /\ fedNow - st.at <= StateTtl
                               /\ states'[t] = Absent
             /\ \A u \in Tokens : states'[u] # Absent => states'[u] = states[u]
             /\ states' \in [Tokens -> Begun \cup {Absent}]
             /\ took' = IF st = Absent THEN took ELSE [took EXCEPT ![t] = @ + 1]
             /\ \/ flow' = flow
                \/ /\ flow' = [flow EXCEPT ![f] =
                                 [at |-> "row", id |-> a, state |-> st, direct |-> FALSE]]
                   /\ st = Absent => protocol = "saml"
<1>0. FederatedTypeOK
    BY DEF FederatedIInv
<1> DEFINE now == Unexpired(states)
           tok(a) == answers[a].token
           got(a) == IF tok(a) = Absent THEN Absent ELSE now[tok(a)]
<1>1. PICK a \in AnswerIds :
         /\ answers[a] # Absent
         /\ states' = IF tok(a) = Absent THEN states ELSE Taken(now, tok(a))
         /\ took' = IF got(a) = Absent THEN took ELSE [took EXCEPT ![tok(a)] = @ + 1]
         /\ \/ flow' = flow
            \/ /\ flow' = [flow EXCEPT ![f] =
                             [at |-> "row", id |-> a, state |-> got(a), direct |-> FALSE]]
               /\ ~(protocol = "oidc" /\ got(a) = Absent)
    BY DEF Consume
<1>2. tok(a) \in Tokens \cup {Absent}
    BY <1>0, <1>1 DEF FederatedTypeOK, Answer
<1>3. protocol \in {"oidc", "saml"}
    BY <1>0 DEF FederatedTypeOK
<1>4. /\ now \in [Tokens -> Begun \cup {Absent}]
      /\ \A t \in Tokens : now[t] # Absent => now[t] = states[t] /\ fedNow - states[t].at <= StateTtl
    BY <1>0, UnexpiredIs
<1> HIDE DEF now
<1>5. CASE tok(a) = Absent
  <2>1. got(a) = Absent /\ states' = states
      BY <1>1, <1>5
  <2> QED BY <1>0, <1>1, <1>3, <1>5, <2>1 DEF FederatedTypeOK
<1>6. CASE tok(a) # Absent
  <2>1. tok(a) \in Tokens /\ got(a) = now[tok(a)] /\ states' = [now EXCEPT ![tok(a)] = Absent]
      BY <1>1, <1>2, <1>6 DEF Taken
  <2>2. got(a) \in Begun \cup {Absent}
      BY <1>4, <2>1
  <2>3. got(a) # Absent => got(a) = states[tok(a)] /\ fedNow - got(a).at <= StateTtl
      BY <1>4, <2>1
  <2>4. /\ states'[tok(a)] = Absent
        /\ \A u \in Tokens : states'[u] # Absent => states'[u] = states[u]
        /\ states' \in [Tokens -> Begun \cup {Absent}]
      BY <1>4, <2>1
  <2> HIDE DEF got
  <2> QED BY <1>1, <1>3, <2>1, <2>2, <2>3, <2>4
<1> QED BY <1>5, <1>6

LEMMA ConsumeKeeps ==
    ASSUME FederatedIInv, NEW f \in Flows, Consume(f)
    PROVE  FederatedIInv'
<1>0. FederatedTypeOK /\ flow[f] = NoFlow /\ flow[f].at = "idle"
    BY FlowShape DEF FederatedIInv, Consume
<1>1. PICK a \in AnswerIds, st \in Begun \cup {Absent} :
         LET t == answers[a].token IN
         /\ answers[a] # Absent
         /\ st # Absent => /\ t \in Tokens /\ st = states[t]
                           /\ fedNow - st.at <= StateTtl
                           /\ states'[t] = Absent
         /\ \A u \in Tokens : states'[u] # Absent => states'[u] = states[u]
         /\ states' \in [Tokens -> Begun \cup {Absent}]
         /\ took' = IF st = Absent THEN took ELSE [took EXCEPT ![t] = @ + 1]
         /\ \/ flow' = flow
            \/ /\ flow' = [flow EXCEPT ![f] =
                             [at |-> "row", id |-> a, state |-> st, direct |-> FALSE]]
               /\ st = Absent => protocol = "saml"
    BY ConsumeTakes
<1>2. UNCHANGED <<protocol, idp, seen, registered, active, fedNow, puts, outside, lets>>
    BY DEF Consume
<1> DEFINE new == [at |-> "row", id |-> a, state |-> st, direct |-> FALSE]
           tok == answers[a].token
<1>3. new \in Flow /\ new.at = "row" /\ new.id = a /\ new.state = st
    BY DEF Flow
<1> HIDE DEF new
<1>4. flow' = flow \/ (/\ flow' = [flow EXCEPT ![f] = new]
                       /\ st = Absent => protocol = "saml")
    BY <1>1 DEF new
<1>5. /\ flow' \in [Flows -> Flow \cup {NoFlow}]
      /\ \A g \in Flows : g # f => flow'[g] = flow[g]
      /\ flow'[f] = flow[f] \/ (flow'[f] = new /\ (st = Absent => protocol = "saml"))
    BY <1>0, <1>3, <1>4 DEF FederatedTypeOK
<1>6. took' \in [Tokens -> Nat] /\ \A u \in Tokens : took'[u] # took[u] => u = tok /\ st # Absent
    BY <1>0, <1>1 DEF FederatedTypeOK
<1>7. FederatedTypeOK'
    BY <1>0, <1>1, <1>2, <1>5, <1>6 DEF FederatedTypeOK, outside
<1>8. GivenInv'
    BY <1>0, <1>1, <1>2, <1>3, <1>5 DEF FederatedIInv, GivenInv, Working, outside
<1>9. st # Absent => tok # Absent /\ st = asked[tok] /\ asked[tok] # Absent
    BY <1>1, FederatedAssumption DEF FederatedIInv, LoginInv
<1>10. LoginInv'
  <2>1. ASSUME NEW t \in Tokens
        PROVE  /\ states'[t] # Absent => states'[t] = asked'[t] /\ took'[t] = 0
               /\ took'[t] # 0 => asked'[t] # Absent
    <3>1. /\ states[t] # Absent => states[t] = asked[t] /\ took[t] = 0
          /\ took[t] # 0 => asked[t] # Absent
        BY DEF FederatedIInv, LoginInv
    <3>2. asked' = asked
        BY <1>2 DEF outside
    <3>3. states'[t] # Absent => states'[t] = states[t] /\ took'[t] = took[t]
        BY <1>1, <1>6
    <3> QED BY <1>6, <1>9, <3>1, <3>2, <3>3
  <2>2. ASSUME NEW g \in Flows, Working(g)'
        PROVE  (/\ flow[g].state # Absent =>
                     /\ answers[flow[g].id].token # Absent
                     /\ flow[g].state = asked[answers[flow[g].id].token]
                /\ flow[g].state = Absent => protocol = "saml"
                /\ Past(g) => IF flow[g].state = Absent THEN flow[g].direct ELSE ~flow[g].state.test)'
    <3>1. CASE flow'[g] = flow[g]
        BY <1>2, <2>2, <3>1 DEF FederatedIInv, LoginInv, Working, Past, outside
    <3>2. CASE flow'[g] # flow[g]
      <4>1. g = f /\ flow'[f] = new /\ (st = Absent => protocol = "saml")
          BY <1>5, <3>2
      <4> QED BY <1>2, <1>3, <1>9, <4>1 DEF Past, outside
    <3> QED BY <3>1, <3>2
  <2> QED BY <2>1, <2>2 DEF LoginInv
<1>11. \A g \in Flows : Past(g)' => Past(g) /\ flow'[g] = flow[g]
    BY <1>3, <1>5 DEF Past
<1>12. OnceInv'
  <2>1. \A g, h \in Flows : Past(g)' /\ Past(h)' /\ flow'[g].id = flow'[h].id => g = h
      BY <1>11 DEF FederatedIInv, OnceInv
  <2>2. \A b : Spent(b)' <=> Spent(b)
      BY <1>2 DEF Spent, Fresh, outside
  <2>3. ASSUME NEW g \in Flows, Past(g)'
        PROVE  (lets[flow[g].id] = 0 /\ Spent(flow[g].id))'
    <3>1. lets[flow[g].id] = 0 /\ Spent(flow[g].id) /\ flow'[g] = flow[g]
        BY <1>11, <2>3 DEF FederatedIInv, OnceInv
    <3> QED BY <1>2, <3>1 DEF Spent, Fresh, outside
  <2>4. \A b \in AnswerIds : lets'[b] <= 1 /\ (lets'[b] # 0 => Spent(b)')
      BY <1>2, <2>2 DEF FederatedIInv, OnceInv
  <2> QED BY <2>1, <2>3, <2>4 DEF OnceInv
<1> QED BY <1>7, <1>8, <1>10, <1>12 DEF FederatedIInv

LEMMA BeginLoginKeeps ==
    ASSUME FederatedIInv, NEW i \in Idps, NEW test \in BOOLEAN, BeginLogin(i, test)
    PROVE  FederatedIInv'
<1>0. FederatedTypeOK
    BY DEF FederatedIInv
<1>1. UNCHANGED <<protocol, idp, seen, active, flow, fedNow, puts, answers, redeemed, took, lets>>
    BY DEF BeginLogin
<1> DEFINE rec == [idp |-> i, test |-> test, at |-> fedNow]
<1>2. PICK t \in Tokens :
         /\ asked[t] = Absent
         /\ states' = [Unexpired(states) EXCEPT ![t] = rec]
         /\ asked' = [asked EXCEPT ![t] = rec]
    BY DEF BeginLogin, Keep
<1>3. rec \in Begun /\ rec # Absent
    BY <1>0, FederatedAssumption DEF FederatedTypeOK, Begun
<1> HIDE DEF rec
<1>4. /\ states'[t] = rec /\ asked'[t] = rec
      /\ \A u \in Tokens : u # t => asked'[u] = asked[u]
      /\ \A u \in Tokens : u # t /\ states'[u] # Absent => states'[u] = states[u]
      /\ states' \in [Tokens -> Begun \cup {Absent}] /\ asked' \in [Tokens -> Begun \cup {Absent}]
    BY <1>0, <1>2, <1>3, UnexpiredIs DEF FederatedTypeOK
<1>5. FederatedTypeOK'
    BY <1>0, <1>1, <1>4 DEF FederatedTypeOK, BeginLogin
<1>6. \A a \in AnswerIds : answers[a] # Absent /\ answers[a].token # Absent =>
         answers[a].token \in Tokens /\ answers[a].token # t
    BY <1>0, <1>2 DEF FederatedIInv, GivenInv, FederatedTypeOK, Answer
<1>7. GivenInv'
    BY <1>1, <1>4, <1>6 DEF FederatedIInv, GivenInv, Working
<1>8. LoginInv'
  <2>1. ASSUME NEW u \in Tokens
        PROVE  /\ states'[u] # Absent => states'[u] = asked'[u] /\ took'[u] = 0
               /\ took'[u] # 0 => asked'[u] # Absent
    <3>1. /\ states[u] # Absent => states[u] = asked[u] /\ took[u] = 0
          /\ took[u] # 0 => asked[u] # Absent
        BY DEF FederatedIInv, LoginInv
    <3> QED BY <1>1, <1>2, <1>3, <1>4, <3>1
  <2>2. ASSUME NEW g \in Flows, Working(g)'
        PROVE  (/\ flow[g].state # Absent =>
                     /\ answers[flow[g].id].token # Absent
                     /\ flow[g].state = asked[answers[flow[g].id].token]
                /\ flow[g].state = Absent => protocol = "saml"
                /\ Past(g) => IF flow[g].state = Absent THEN flow[g].direct ELSE ~flow[g].state.test)'
    <3>1. Working(g) /\ flow[g].id \in AnswerIds /\ answers[flow[g].id] # Absent
        BY <1>0, <1>1, <2>2, FlowShape DEF Working, FederatedIInv, GivenInv, Flow
    <3> QED BY <1>1, <1>4, <1>6, <3>1 DEF FederatedIInv, LoginInv, Past
  <2> QED BY <2>1, <2>2 DEF LoginInv
<1>9. OnceInv'
    BY <1>1 DEF FederatedIInv, OnceInv, Past, Spent, Fresh
<1> QED BY <1>5, <1>7, <1>8, <1>9 DEF FederatedIInv

LEMMA GiveAnswerKeeps ==
    ASSUME FederatedIInv, GiveAnswer
    PROVE  FederatedIInv'
<1>0. FederatedTypeOK
    BY DEF FederatedIInv
<1>1. UNCHANGED <<protocol, idp, kept, active, flow, fedNow, puts, asked, redeemed, took, lets>>
    BY DEF GiveAnswer
<1>2. PICK a \in AnswerIds, t \in Tokens \cup {Absent}, i \in Idps :
         /\ answers[a] = Absent
         /\ t # Absent => asked[t] # Absent
         /\ answers' = [answers EXCEPT ![a] = [token |-> t, url |-> i, at |-> fedNow]]
    BY DEF GiveAnswer
<1> DEFINE rec == [token |-> t, url |-> i, at |-> fedNow]
<1>3. rec \in Answer /\ rec.token = t /\ rec.at = fedNow
    BY <1>0 DEF FederatedTypeOK, Answer
<1> HIDE DEF rec
<1>4. answers' = [answers EXCEPT ![a] = rec]
    BY <1>2 DEF rec
<1>5. answers'[a] = rec /\ \A b \in AnswerIds : b # a => answers'[b] = answers[b]
    BY <1>0, <1>4 DEF FederatedTypeOK
<1>6. FederatedTypeOK'
    BY <1>0, <1>1, <1>3, <1>4 DEF FederatedTypeOK, kept
<1>7. \A g \in Flows : Working(g) => /\ flow[g].id \in AnswerIds /\ flow[g].id # a
                                     /\ answers[flow[g].id] # Absent
    BY <1>0, <1>2, FlowShape DEF Working, FederatedIInv, GivenInv, Flow
<1>8. fedNow \in Nat
    BY <1>0, FederatedAssumption DEF FederatedTypeOK
<1>9. GivenInv'
    BY <1>1, <1>2, <1>3, <1>5, <1>7, <1>8 DEF FederatedIInv, GivenInv, Working
<1>10. LoginInv'
  <2>1. ASSUME NEW g \in Flows, Working(g)'
        PROVE  (/\ flow[g].state # Absent =>
                     /\ answers[flow[g].id].token # Absent
                     /\ flow[g].state = asked[answers[flow[g].id].token]
                /\ flow[g].state = Absent => protocol = "saml"
                /\ Past(g) => IF flow[g].state = Absent THEN flow[g].direct ELSE ~flow[g].state.test)'
    <3>1. Working(g) /\ flow[g].id \in AnswerIds /\ flow[g].id # a
        BY <1>1, <1>7, <2>1 DEF Working
    <3> QED BY <1>1, <1>5, <3>1 DEF FederatedIInv, LoginInv, Past
  <2>2. \A u \in Tokens :
           /\ states'[u] # Absent => states'[u] = asked'[u] /\ took'[u] = 0
           /\ took'[u] # 0 => asked'[u] # Absent
      BY <1>1 DEF FederatedIInv, LoginInv, kept
  <2> QED BY <2>1, <2>2 DEF LoginInv
<1>11. ASSUME NEW b \in AnswerIds, Spent(b) PROVE Spent(b)'
    BY <1>1, <1>2, <1>5, <1>11 DEF Spent, Fresh, kept
<1>12. OnceInv'
  <2>1. ASSUME NEW g \in Flows, Past(g)'
        PROVE  (lets[flow[g].id] = 0 /\ Spent(flow[g].id))'
    <3>1. Past(g) /\ Working(g)
        BY <1>1, <2>1 DEF Past, Working
    <3>2. PICK j \in AnswerIds : j = flow[g].id /\ j = flow'[g].id
        BY <1>1, <1>7, <3>1
    <3>3. lets[j] = 0 /\ Spent(j)
        BY <3>1, <3>2 DEF FederatedIInv, OnceInv
    <3>4. Spent(j)'
        BY <1>11, <3>3
    <3> QED BY <1>1, <3>2, <3>3, <3>4 DEF Spent, Fresh
  <2>2. \A g, h \in Flows : Past(g)' /\ Past(h)' /\ flow'[g].id = flow'[h].id => g = h
      BY <1>1 DEF FederatedIInv, OnceInv, Past
  <2>3. ASSUME NEW b \in AnswerIds
        PROVE  lets'[b] <= 1 /\ (lets'[b] # 0 => Spent(b)')
    <3>1. lets[b] <= 1 /\ (lets[b] # 0 => Spent(b)) /\ lets' = lets
        BY <1>1 DEF FederatedIInv, OnceInv
    <3>2. Spent(b) => Spent(b)'
        BY <1>11
    <3> QED BY <3>1, <3>2
  <2> QED BY <2>1, <2>2, <2>3 DEF OnceInv
<1> QED BY <1>6, <1>9, <1>10, <1>12 DEF FederatedIInv

\* What administrators, time and a restart do.
LEMMA MeanwhileKeeps ==
    ASSUME FederatedIInv,
           \/ \E i \in Idps : PutIdp(i)
           \/ SwitchUser \/ FedTick \/ FedRestart \/ UNCHANGED loginVars
    PROVE  FederatedIInv'
<1>0. FederatedTypeOK
    BY DEF FederatedIInv
<1>1. CASE \E i \in Idps : PutIdp(i)
  <2>1. PICK i \in Idps : PutIdp(i)
      BY <1>1
  <2>2. /\ idp' \in [Idps -> Idp \cup {Absent}] /\ puts' \in 0..MaxPuts
        /\ UNCHANGED <<protocol, kept, active, flow, fedNow, outside, took, lets>>
      BY <1>0, <2>1, FederatedAssumption DEF PutIdp, FederatedTypeOK
  <2>3. FederatedTypeOK'
      BY <1>0, <2>2 DEF FederatedTypeOK, kept, outside
  <2>4. GivenInv' /\ LoginInv' /\ OnceInv'
      BY <2>2 DEF FederatedIInv, GivenInv, LoginInv, OnceInv, Working, Past, Spent, Fresh,
                  kept, outside
  <2> QED BY <2>3, <2>4 DEF FederatedIInv
<1>2. CASE SwitchUser
  <2>1. active' \in BOOLEAN \cup {Absent}
      BY <1>2, Zenon DEF SwitchUser
  <2>2. /\ puts' \in 0..MaxPuts
        /\ UNCHANGED <<protocol, idp, kept, flow, fedNow, outside, took, lets>>
      BY <1>0, <1>2, FederatedAssumption DEF SwitchUser, FederatedTypeOK
  <2>3. FederatedTypeOK'
      BY <1>0, <2>1, <2>2 DEF FederatedTypeOK, kept, outside
  <2>4. GivenInv' /\ LoginInv' /\ OnceInv'
      BY <2>2 DEF FederatedIInv, GivenInv, LoginInv, OnceInv, Working, Past, Spent, Fresh,
                  kept, outside
  <2> QED BY <2>3, <2>4 DEF FederatedIInv
<1>3. CASE FedTick
  <2>1. UNCHANGED <<protocol, idp, kept, active, flow, puts, outside, took, lets>>
      BY <1>3 DEF FedTick
  <2>2. fedNow \in Nat /\ fedNow' = fedNow + 1 /\ fedNow' \in 0..FedMaxNow
      BY <1>0, <1>3, FederatedAssumption DEF FedTick, FederatedTypeOK
  <2>3. /\ FedMaxNow \in Nat /\ 0..FedMaxNow = 0..FedMaxNow
        /\ FederatedTypeOK'
      BY <1>0, <2>1, <2>2, FederatedAssumption DEF FederatedTypeOK, kept, outside
  <2>4. ASSUME NEW b \in AnswerIds, Spent(b) PROVE Spent(b)'
    <3>1. fedNow <= fedNow'
        BY <2>2
    <3> QED BY <1>0, <2>1, <2>3, <2>4, <3>1, SpentStays DEF kept, outside
  <2>5. GivenInv'
    <3>1. \A a \in AnswerIds : answers[a] # Absent => answers[a].at \in Nat
        BY <1>0, FederatedAssumption DEF FederatedTypeOK, Answer
    <3> QED BY <2>1, <2>2, <3>1 DEF FederatedIInv, GivenInv, Working, outside
  <2>6. LoginInv'
      BY <2>1 DEF FederatedIInv, LoginInv, Working, Past, kept, outside
  <2>7. OnceInv'
    <3>1. ASSUME NEW g \in Flows, Past(g)'
          PROVE  (lets[flow[g].id] = 0 /\ Spent(flow[g].id))'
      <4>1. Past(g) /\ flow'[g] = flow[g]
          BY <2>1, <3>1 DEF Past
      <4>2. PICK j \in AnswerIds : j = flow[g].id /\ j = flow'[g].id
          BY <1>0, <4>1, FlowShape DEF Past, Flow
      <4>3. lets[j] = 0 /\ Spent(j)
          BY <4>1, <4>2 DEF FederatedIInv, OnceInv
      <4>4. Spent(j)'
          BY <2>4, <4>3
      <4> QED BY <2>1, <4>2, <4>3, <4>4 DEF Spent, Fresh
    <3>2. \A g, h \in Flows : Past(g)' /\ Past(h)' /\ flow'[g].id = flow'[h].id => g = h
        BY <2>1 DEF FederatedIInv, OnceInv, Past
    <3>3. ASSUME NEW b \in AnswerIds
          PROVE  lets'[b] <= 1 /\ (lets'[b] # 0 => Spent(b)')
      <4>1. lets[b] <= 1 /\ (lets[b] # 0 => Spent(b)) /\ lets' = lets
          BY <2>1 DEF FederatedIInv, OnceInv
      <4>2. Spent(b) => Spent(b)'
          BY <2>4
      <4> QED BY <4>1, <4>2
    <3> QED BY <3>1, <3>2, <3>3 DEF OnceInv
  <2> QED BY <2>3, <2>5, <2>6, <2>7 DEF FederatedIInv
<1>4. CASE FedRestart
  <2>1. \A f \in Flows : flow'[f].at = "idle"
      BY <1>4 DEF FedRestart, NoFlow
  <2>2. FederatedTypeOK'
      BY <1>0, <1>4 DEF FedRestart, FederatedTypeOK, outside
  <2>3. \A f \in Flows : ~Working(f)' /\ ~Past(f)'
      BY <2>1 DEF Working, Past
  <2>4. GivenInv' /\ LoginInv' /\ OnceInv'
      BY <1>4, <2>3 DEF FedRestart, FederatedIInv, GivenInv, LoginInv, OnceInv, outside
  <2> QED BY <2>2, <2>4 DEF FederatedIInv
<1>5. CASE UNCHANGED loginVars
  <2>1. FederatedTypeOK'
      BY <1>0, <1>5 DEF FederatedTypeOK, loginVars, kept, outside
  <2>2. GivenInv' /\ LoginInv' /\ OnceInv'
      BY <1>5 DEF FederatedIInv, GivenInv, LoginInv, OnceInv, Working, Past, Spent, Fresh,
                  loginVars, kept, outside
  <2> QED BY <2>1, <2>2 DEF FederatedIInv
<1> QED BY <1>1, <1>2, <1>3, <1>4, <1>5

LEMMA FederatedBegins == FederatedInit => FederatedIInv
<1> SUFFICES ASSUME FederatedInit PROVE FederatedIInv
    OBVIOUS
<1>1. PICK direct \in BOOLEAN : idp = [i \in Idps |-> [on |-> TRUE, direct |-> direct]]
    BY DEF FederatedInit
<1>2. \A f \in Flows : flow[f] = NoFlow /\ flow[f].at = "idle"
    BY DEF FederatedInit, NoFlow
<1>3. FederatedTypeOK
    BY <1>1, FederatedAssumption DEF FederatedInit, FederatedTypeOK, Idp
<1>4. GivenInv /\ LoginInv /\ OnceInv
    BY <1>2 DEF FederatedInit, GivenInv, LoginInv, OnceInv, Working, Past
<1> QED BY <1>3, <1>4 DEF FederatedIInv

LEMMA FederatedKeeps ==
    ASSUME FederatedIInv, [FederatedNext]_loginVars
    PROVE  FederatedIInv'
<1>1. ASSUME NEW f \in Flows, Callback(f) PROVE FederatedIInv'
    BY <1>1, ConsumeKeeps, ReadIdpKeeps, ShortStepKeeps, ExchangeKeeps, ValidateKeeps,
       OpenSessionKeeps DEF Callback
<1>2. ASSUME NEW i \in Idps, NEW test \in BOOLEAN, BeginLogin(i, test) PROVE FederatedIInv'
    BY <1>2, BeginLoginKeeps
<1> QED BY <1>1, <1>2, GiveAnswerKeeps, MeanwhileKeeps DEF FederatedNext

LEMMA FederatedHolds == FederatedSpec => []FederatedIInv
BY FederatedBegins, FederatedKeeps, PTL DEF FederatedSpec

\* One answer of an identity provider opens one session, however often it is delivered
\* and to however many threads at once: the code is taken back by its provider, and the
\* replay cache keeps the id of an assertion for as long as the assertion is valid
\* (SamlReplayCache, AuthRoutes).
THEOREM OneAnswerOneSession == FederatedSpec => []FederatedInv
<1>1. FederatedIInv => FederatedInv
    BY DEF FederatedIInv, OnceInv, FederatedInv, AnswerOnce
<1> QED BY <1>1, FederatedHolds, PTL

\* Only a callback that takes a state counts as one it served.
LEMMA ServesOnce ==
    ASSUME FederatedIInv, [FederatedNext]_loginVars, NEW t \in Tokens, took'[t] # took[t]
    PROVE  took[t] = 0 /\ fedNow - asked[t].at <= StateTtl
<1>1. PICK f \in Flows : Consume(f)
    BY DEF FederatedNext, Callback, ReadIdp, Register, Exchange, Validate, FindUser,
           CreateFederated, OpenSession, GiveUp, PutIdp, BeginLogin, GiveAnswer, SwitchUser,
           FedTick, FedRestart, loginVars
<1>2. PICK a \in AnswerIds, st \in Begun \cup {Absent} :
         LET u == answers[a].token IN
         /\ st # Absent => /\ u \in Tokens /\ st = states[u]
                           /\ fedNow - st.at <= StateTtl
         /\ took' = IF st = Absent THEN took ELSE [took EXCEPT ![u] = @ + 1]
    BY <1>1, ConsumeTakes
<1>3. st # Absent /\ t = answers[a].token
    BY <1>2 DEF FederatedIInv, FederatedTypeOK
<1>4. states[t] # Absent /\ st = states[t] /\ fedNow - st.at <= StateTtl
    BY <1>2, <1>3
<1> QED BY <1>4 DEF FederatedIInv, LoginInv

\* What is kept of a login serves one callback, in its time, and the answer to a test of
\* a provider opens no session unless the provider may answer unasked (OidcService,
\* SamlService: consumeAuthState before all else).
THEOREM LoginsAreAnsweredOnce == FederatedSpec => AnswersServeTheirLogin
<1> DEFINE Serves == \A t \in Tokens :
                        took'[t] # took[t] => took[t] = 0 /\ fedNow - asked[t].at <= StateTtl
           LetsIn == \A f \in Flows :
                        (/\ In(f, "session") /\ lets'[flow[f].id] # lets[flow[f].id]
                         /\ answers[flow[f].id].token # Absent
                         /\ asked[answers[flow[f].id].token].test) => flow[f].direct
<1>1. FederatedIInv /\ [FederatedNext]_loginVars => Serves
    BY ServesOnce
<1>2. FederatedIInv => LetsIn
    BY DEF FederatedIInv, LoginInv, In, Working, Past
<1>3. FederatedSpec => [][Serves]_loginVars /\ [][LetsIn]_loginVars
    BY <1>1, <1>2, FederatedHolds, PTL DEF FederatedSpec
<1> QED BY <1>3 DEF AnswersServeTheirLogin, StateServesOnce, TestLetsNobodyIn

-----------------------------------------------------------------------------
(* The start of the process and the first setup *)

\* The schema is never below what this start has read, and complete once the start is
\* past the migrations.
SchemaInv ==
    /\ AppliedOnce
    /\ floor <= live
    /\ stage \notin {"down", "bootstrap", "migrate"} => \A v \in dirs : v <= live

\* The name of the group lets one request at a time go beyond it, and none after it was
\* taken for good.
FounderInv ==
    /\ done <=> founders # {}
    /\ \A u, v \in founders : u = v
    /\ \A v \in Visitors : visitor[v] = "group" => founders = {}
    /\ \A u, v \in Visitors : visitor[u] = "group" /\ visitor[v] = "group" => u = v

\* The zones are all assigned, or are being assigned, or the process died over it.
AdoptionInv ==
    /\ adopted <= 1
    /\ adopted = 1 /\ ~cutShort /\ stage # "assign" => assigned = OldZones

InstalledInv == StartupTypeOK /\ SchemaInv /\ FounderInv /\ EditsStay /\ AdoptionInv

LEMMA InstalledImplies ==
    ASSUME InstalledInv
    PROVE  StartupInv
<1>1. Cardinality(founders) <= 1
  <2>1. CASE founders = {}
      BY <2>1, FS_EmptySet
  <2>2. ASSUME NEW v \in founders
        PROVE  Cardinality(founders) <= 1
    <3>1. founders = {v}
        BY <2>2 DEF InstalledInv, FounderInv
    <3>2. Cardinality({v}) = 1
        BY FS_Singleton
    <3> QED BY <3>1, <3>2
  <2> QED BY <2>1, <2>2
<1>2. OneFounder
    BY <1>1 DEF OneFounder, InstalledInv, FounderInv
<1>3. UpToDate /\ AdoptedOnce
    BY DEF UpToDate, AdoptedOnce, InstalledInv, SchemaInv, AdoptionInv
<1> QED BY <1>2, <1>3 DEF StartupInv, InstalledInv, SchemaInv

LEMMA StartupTypeInit == StartupInit => StartupTypeOK
<1> SUFFICES ASSUME StartupInit PROVE StartupTypeOK
    OBVIOUS
<1>1. applied \in Seq(Versions)
    BY DEF StartupInit
<1>2. crashes \in 0..MaxCrashes
    BY StartupAssumption DEF StartupInit
<1>3. done \in BOOLEAN /\ flag \in BOOLEAN /\ edited \in BOOLEAN /\ cutShort \in BOOLEAN
    BY DEF StartupInit
<1>4. visitor \in [Visitors -> {"away", "asked", "found", "user", "group", "made"}]
    BY DEF StartupInit
<1> QED BY <1>1, <1>2, <1>3, <1>4 DEF StartupInit, StartupTypeOK

LEMMA InstalledInit == StartupInit => InstalledInv
<1> SUFFICES ASSUME StartupInit PROVE InstalledInv
    OBVIOUS
<1>1. StartupTypeOK
    BY StartupTypeInit
<1>2. SchemaInv /\ FounderInv /\ EditsStay /\ AdoptionInv
    BY DEF StartupInit, SchemaInv, AppliedOnce, Rising, FounderInv, EditsStay, AdoptionInv
<1> QED BY <1>1, <1>2 DEF InstalledInv

\* The versions only rise, so the next one is put behind all that were run.
LEMMA MigrateRises ==
    ASSUME StartupTypeOK, SchemaInv, Migrate
    PROVE  /\ applied' \in Seq(Versions) /\ live' \in Versions
           /\ AppliedOnce' /\ floor <= live'
<1> PICK v \in Ahead : applied' = Append(applied, v) /\ live' = v
    BY DEF Migrate, Recorded
<1>1. v \in Versions /\ v \in Nat /\ v > live /\ v > floor /\ live \in Nat /\ floor \in Nat
    BY StartupAssumption DEF Ahead, StartupTypeOK
<1>2. applied' \in Seq(Versions) /\ Len(applied') = Len(applied) + 1
    BY <1>1 DEF StartupTypeOK
<1>7. applied \in Seq(Versions) /\ \A i \in 1..Len(applied) : applied[i] \in Versions
    BY DEF StartupTypeOK
<1>8. \A i \in 1..Len(applied) : applied[i] \in Nat
    BY <1>7, StartupAssumption
<1>9. /\ \A i \in 1..Len(applied) : applied'[i] = applied[i]
      /\ applied'[Len(applied) + 1] = v
    BY <1>1, <1>7
<1>3. /\ \A i \in 1..Len(applied) : applied'[i] = applied[i] /\ applied[i] \in Nat
      /\ applied'[Len(applied) + 1] = v
    BY <1>8, <1>9
<1>4. \A i \in 1..Len(applied) : applied[i] <= live
  <2> SUFFICES ASSUME NEW i \in 1..Len(applied) PROVE applied[i] <= live
      OBVIOUS
  <2>1. applied \in Seq(Versions) /\ Len(applied) \in Nat /\ DOMAIN applied = 1..Len(applied)
      BY DEF StartupTypeOK
  <2>2. applied # <<>> /\ Len(applied) \in DOMAIN applied /\ i \in DOMAIN applied
      BY <2>1
  <2>3. live = applied[Len(applied)]
      BY <2>2 DEF SchemaInv, AppliedOnce
  <2>7. Len(applied) \in Nat
      BY <2>1
  <2>4. i = Len(applied) \/ i < Len(applied)
      BY <2>7
  <2>5. i < Len(applied) => applied[i] < applied[Len(applied)]
      BY <2>2 DEF SchemaInv, AppliedOnce, Rising
  <2>6. applied[i] \in Nat
      BY <1>3
  <2> QED BY <1>1, <2>3, <2>4, <2>5, <2>6
<1>5. Rising(applied')
  <2> SUFFICES ASSUME NEW i \in DOMAIN applied', NEW j \in DOMAIN applied', i < j
               PROVE  applied'[i] < applied'[j]
      BY DEF Rising
  <2>1. Len(applied) \in Nat /\ i \in 1..(Len(applied) + 1) /\ j \in 1..(Len(applied) + 1)
      BY <1>2 DEF StartupTypeOK
  <2>2. CASE j = Len(applied) + 1
    <3>1. i \in 1..Len(applied)
        BY <2>1, <2>2
    <3> QED BY <1>1, <1>3, <1>4, <2>2, <3>1
  <2>3. CASE j # Len(applied) + 1
    <3>1. i \in 1..Len(applied) /\ j \in 1..Len(applied)
        BY <2>1, <2>3
    <3>2. applied[i] < applied[j]
        BY <3>1 DEF SchemaInv, AppliedOnce, Rising, StartupTypeOK
    <3> QED BY <1>3, <3>1, <3>2
  <2> QED BY <2>2, <2>3
<1>6. live' = applied'[Len(applied')]
    BY <1>2, <1>3
<1> QED BY <1>1, <1>2, <1>5, <1>6 DEF AppliedOnce

LEMMA StartStepKeeps ==
    ASSUME InstalledInv, StartStep
    PROVE  InstalledInv'
<1> USE StartupAssumption
<1>1. CASE Migrate
  <2>1. /\ applied' \in Seq(Versions) /\ live' \in Versions
        /\ AppliedOnce' /\ floor <= live' /\ stage = "migrate"
        /\ UNCHANGED <<stage, crashes, dirs, floor, configured, setup, adoption>>
      BY <1>1, MigrateRises DEF InstalledInv, Migrate
  <2>2. StartupTypeOK'
      BY <2>1 DEF InstalledInv, StartupTypeOK, configured, setup, adoption
  <2> QED BY <2>1, <2>2 DEF InstalledInv, SchemaInv, FounderInv, EditsStay, AdoptionInv,
                            configured, setup, adoption
<1>2. CASE Start
  <2>1. StartupTypeOK'
      BY <1>2 DEF InstalledInv, Start, StartupTypeOK, setup, adoption
  <2> QED BY <1>2, <2>1 DEF InstalledInv, Start, SchemaInv, AppliedOnce, FounderInv, EditsStay,
                            AdoptionInv, setup, adoption
<1>3. CASE Bootstrap
  <2>1. StartupTypeOK'
      BY <1>3 DEF InstalledInv, Bootstrap, StartupTypeOK, configured, setup, adoption
  <2>2. floor' <= live'
      BY <1>3 DEF InstalledInv, Bootstrap, StartupTypeOK
  <2> QED BY <1>3, <2>1, <2>2 DEF InstalledInv, Bootstrap, SchemaInv, AppliedOnce, FounderInv,
                            EditsStay, AdoptionInv, configured, setup, adoption
<1>4. CASE EndMigrate
  <2>1. StartupTypeOK'
      BY <1>4 DEF InstalledInv, EndMigrate, StartupTypeOK, schema, configured, setup, adoption
  <2>2. \A v \in dirs' : v <= live'
    <3>1. \A v \in dirs : v \in Nat /\ ~(v > floor /\ v > live)
        BY <1>4 DEF InstalledInv, EndMigrate, Ahead, StartupTypeOK
    <3>2. floor <= live /\ floor \in Nat /\ live \in Nat
        BY DEF InstalledInv, SchemaInv, StartupTypeOK
    <3> QED BY <1>4, <3>1, <3>2 DEF EndMigrate, schema
  <2> QED BY <1>4, <2>1, <2>2 DEF InstalledInv, EndMigrate, SchemaInv, AppliedOnce, FounderInv,
                            EditsStay, AdoptionInv, schema, configured, setup, adoption
<1>5. CASE Seed
  <2>1. StartupTypeOK'
      BY <1>5 DEF InstalledInv, Seed, Seeded, StartupTypeOK, schema, setup, adoption
  <2>2. EditsStay'
      BY <1>5 DEF InstalledInv, Seed, Seeded, EditsStay, StartupTypeOK
  <2> QED BY <1>5, <2>1, <2>2 DEF InstalledInv, Seed, SchemaInv, AppliedOnce, FounderInv,
                            AdoptionInv, schema, setup, adoption
<1>6. CASE LoadSetupState
  <2>1. StartupTypeOK'
      BY <1>6 DEF InstalledInv, LoadSetupState, StartupTypeOK, schema, configured, adoption
  <2> QED BY <1>6, <2>1 DEF InstalledInv, LoadSetupState, SchemaInv, AppliedOnce, FounderInv,
                            EditsStay, AdoptionInv, schema, configured, adoption
<1>7. CASE Adopt
  <2>1. StartupTypeOK'
      BY <1>7 DEF InstalledInv, Adopt, StartupTypeOK, schema, configured, setup
  <2>2. AdoptionInv'
      BY <1>7 DEF InstalledInv, Adopt, Adopts, AdoptionInv, StartupTypeOK
  <2> QED BY <1>7, <2>1, <2>2 DEF InstalledInv, Adopt, SchemaInv, AppliedOnce, FounderInv,
                            EditsStay, schema, configured, setup
<1>8. CASE Assign
  <2>1. StartupTypeOK'
      BY <1>8 DEF InstalledInv, Assign, StartupTypeOK, schema, configured, setup
  <2>2. AdoptionInv'
      BY <1>8 DEF InstalledInv, Assign, AdoptionInv
  <2> QED BY <1>8, <2>1, <2>2 DEF InstalledInv, Assign, SchemaInv, AppliedOnce, FounderInv,
                            EditsStay, schema, configured, setup
<1> QED BY <1>1, <1>2, <1>3, <1>4, <1>5, <1>6, <1>7, <1>8 DEF StartStep

LEMMA SetupKeeps ==
    ASSUME InstalledInv, NEW v \in Visitors, SetupStep(v)
    PROVE  InstalledInv'
<1> DEFINE Moves(to) == visitor' = [visitor EXCEPT ![v] = to]
<1>0. /\ stage = "serve" /\ stage' = "serve"
      /\ UNCHANGED <<crashes, schema, configured, adoption>>
    BY DEF SetupStep, PostSetup, FindOpen, InsertFounder, InsertAdmins, CommitSetup, RaiseFlag,
           SetupFails, Steps
<1>1. CASE InsertAdmins(v)
  <2>1. /\ founders = {} /\ \A u \in Visitors : visitor[u] # "group"
        /\ Moves("group") /\ UNCHANGED <<done, founders, flag>>
      BY <1>1 DEF InsertAdmins, NameFree, Steps
  <2>2. FounderInv'
      BY <2>1 DEF InstalledInv, FounderInv, StartupTypeOK
  <2>3. StartupTypeOK'
      BY <1>0, <2>1 DEF InstalledInv, StartupTypeOK, schema, configured, adoption
  <2> QED BY <1>0, <2>2, <2>3 DEF InstalledInv, SchemaInv, AppliedOnce, EditsStay, AdoptionInv,
                                  schema, configured, adoption
<1>2. CASE CommitSetup(v)
  <2>1. /\ visitor[v] = "group" /\ Moves("made")
        /\ done' = TRUE /\ founders' = founders \cup {v} /\ flag' = flag
      BY <1>2 DEF CommitSetup, Steps
  <2>2. FounderInv'
      BY <2>1 DEF InstalledInv, FounderInv, StartupTypeOK
  <2>3. StartupTypeOK'
      BY <1>0, <2>1 DEF InstalledInv, StartupTypeOK, schema, configured, adoption
  <2> QED BY <1>0, <2>2, <2>3 DEF InstalledInv, SchemaInv, AppliedOnce, EditsStay, AdoptionInv,
                                  schema, configured, adoption
<1>3. CASE PostSetup(v) \/ FindOpen(v) \/ InsertFounder(v) \/ RaiseFlag(v) \/ SetupFails(v)
  <2>1. /\ \E to \in {"away", "asked", "found", "user"} : Moves(to)
        /\ UNCHANGED <<done, founders>> /\ flag' \in BOOLEAN
      BY <1>3 DEF PostSetup, FindOpen, InsertFounder, RaiseFlag, SetupFails, Steps, InstalledInv,
                  StartupTypeOK
  <2>2. FounderInv'
      BY <2>1 DEF InstalledInv, FounderInv, StartupTypeOK
  <2>3. StartupTypeOK'
      BY <1>0, <2>1 DEF InstalledInv, StartupTypeOK, schema, configured, adoption
  <2> QED BY <1>0, <2>2, <2>3 DEF InstalledInv, SchemaInv, AppliedOnce, EditsStay, AdoptionInv,
                                  schema, configured, adoption
<1> QED BY <1>1, <1>2, <1>3 DEF SetupStep

LEMMA InstalledNext ==
    ASSUME InstalledInv, [StartupNext]_startVars
    PROVE  InstalledInv'
<1>1. CASE StartStep
    BY <1>1, StartStepKeeps
<1>2. CASE \E v \in Visitors : SetupStep(v)
    BY <1>2, SetupKeeps
<1>3. CASE Crash
  <2>2. crashes' \in 0..MaxCrashes
      BY <1>3, StartupAssumption DEF InstalledInv, Crash, StartupTypeOK
  <2>3. cutShort' \in BOOLEAN
      BY <1>3 DEF Crash
  <2>1. StartupTypeOK'
      BY <1>3, <2>2, <2>3 DEF InstalledInv, Crash, StartupTypeOK, schema, configured
  <2> QED BY <1>3, <2>1 DEF InstalledInv, Crash, SchemaInv, AppliedOnce, FounderInv, EditsStay,
                            AdoptionInv, schema, configured
<1>4. CASE EditSetting
  <2>1. StartupTypeOK'
      BY <1>4 DEF InstalledInv, EditSetting, StartupTypeOK, schema, setup, adoption
  <2> QED BY <1>4, <2>1 DEF InstalledInv, EditSetting, SchemaInv, AppliedOnce, FounderInv,
                            EditsStay, AdoptionInv, schema, setup, adoption
<1>5. CASE UNCHANGED startVars
  <2>1. StartupTypeOK'
      BY <1>5 DEF InstalledInv, startVars, StartupTypeOK
  <2> QED BY <1>5, <2>1 DEF InstalledInv, startVars, SchemaInv, AppliedOnce, FounderInv,
                            EditsStay, AdoptionInv
<1> QED BY <1>1, <1>2, <1>3, <1>4, <1>5 DEF StartupNext

\* However often the process died, wherever in its start or in a request for the first
\* setup, the database has one founder, the schema of the release that serves, made once
\* and in order, the settings that were edited by hand, and one adopted repository
\* (MigrationRunner, SetupRoutes, Config, GitOpsMigration).
THEOREM InstallationStaysSound == StartupSpec => []StartupInv
<1>1. StartupSpec => []InstalledInv
    BY InstalledInit, InstalledNext, PTL DEF StartupSpec
<1> QED BY <1>1, InstalledImplies, PTL

-----------------------------------------------------------------------------
(* Serials: they rise for any number of threads, of serials a day and of days *)

\* While nothing has set the counter back it is at or above every number given out.
GivenBelow == behind = "no" => \A s \in given : s <= Number(counter)

SerialInv == SerialTypeOK /\ GivenBelow

-----------------------------------------------------------------------------
\* Number of a counter is a natural number, and it orders counters as their days do.
LEMMA NumberType ==
    ASSUME NEW c \in Counter
    PROVE  Number(c) \in Nat
<1>1. c.day \in Nat /\ c.seq \in Nat
    BY SerialAssumption DEF Counter, Day
<1>2. MaxSeq + 1 \in Nat
    BY SerialAssumption
<1>3. \A m, n \in Nat : m * n \in Nat
    OBVIOUS
<1> QED BY <1>1, <1>2, <1>3 DEF Number

LEMMA NumberRises ==
    ASSUME NEW c \in Counter, NEW d \in Counter,
           c.day < d.day \/ (c.day = d.day /\ c.seq < d.seq)
    PROVE  Number(c) < Number(d)
<1> DEFINE M == MaxSeq + 1
<1>1. /\ c.day \in Nat /\ d.day \in Nat /\ c.seq \in Nat /\ d.seq \in Nat
      /\ c.seq < M /\ M \in Nat
    BY SerialAssumption DEF Counter, Day
<1>2. /\ Number(c) = c.day * M + c.seq
      /\ Number(d) = d.day * M + d.seq
    BY DEF Number
<1> HIDE DEF M
<1>3. CASE c.day = d.day /\ c.seq < d.seq
    <2>1. c.day * M \in Nat
        BY <1>1
    <2> QED BY <1>1, <1>2, <1>3, <2>1
<1>4. CASE c.day < d.day
    <2>1. PICK k \in Nat : d.day = c.day + 1 + k
        <3>1. d.day - c.day - 1 \in Nat /\ d.day = c.day + 1 + (d.day - c.day - 1)
            BY <1>1, <1>4
        <3> QED BY <3>1
    <2>2. (c.day + 1 + k) * M = c.day * M + M + k * M
        BY <1>1
    <2>3. k * M \in Nat /\ c.day * M \in Nat
        BY <1>1
    <2> QED BY <1>1, <1>2, <2>1, <2>2, <2>3
<1> QED BY <1>3, <1>4

\* One more serial of a day is a counter of that day, later than the old one unless
\* that is of a later day.
LEMMA CountedRises ==
    ASSUME SerialTypeOK, NEW day \in Day, NEW c \in Counted(day)
    PROVE  /\ c \in Counter
           /\ ~(day < counter.day) => Number(counter) < Number(c)
<1>1. counter \in Counter /\ counter.day \in Nat /\ counter.seq \in 0..MaxSeq /\ day \in Nat
    BY SerialAssumption DEF SerialTypeOK, Counter, Day
<1>2. CASE counter.day # day
    <2>1. c = [day |-> day, seq |-> 0]
        BY <1>2 DEF Counted
    <2>2. c \in Counter
        BY <2>1, SerialAssumption DEF Counter
    <2>3. ~(day < counter.day) => counter.day < c.day
        BY <1>1, <1>2, <2>1
    <2> QED BY <1>1, <2>2, <2>3, NumberRises
<1>3. CASE counter.day = day
    <2>1. c = [day |-> day, seq |-> counter.seq + 1] /\ ~(counter.seq + 1 > MaxSeq)
        BY <1>3 DEF Counted
    <2>2. c \in Counter
        BY <1>1, <2>1, SerialAssumption DEF Counter
    <2>3. counter.day = c.day /\ counter.seq < c.seq
        BY <1>1, <1>3, <2>1
    <2> QED BY <1>1, <2>2, <2>3, NumberRises
<1> QED BY <1>2, <1>3

-----------------------------------------------------------------------------
LEMMA SerialInvInit == SerialInit => SerialInv
BY SerialAssumption DEF SerialInit, SerialInv, SerialTypeOK, GivenBelow, Day, Counter

\* Only an undisturbed serial and a backup that is not behind keep `behind' as it is.
LEMMA SerialInvNext == SerialInv /\ [SerialNext]_serialVars => SerialInv'
<1> SUFFICES ASSUME SerialInv, [SerialNext]_serialVars PROVE SerialInv'
    OBVIOUS
<1> USE DEF SerialInv
<1>1. ASSUME NEW p \in Pushes, ReadDay(p) PROVE SerialInv'
    BY <1>1 DEF ReadDay, SerialTypeOK, GivenBelow, Number
<1>2. ASSUME NEW p \in Pushes, Issue(p) PROVE SerialInv'
    <2>1. readDay[p] \in Day
        BY <1>2 DEF Issue, SerialTypeOK
    <2>2. /\ counter' \in Counted(readDay[p])
          /\ given' = given \cup {Number(counter')}
        BY <1>2 DEF Issue
    <2>3. /\ counter' \in Counter
          /\ ~(readDay[p] < counter.day) => Number(counter) < Number(counter')
        BY <2>1, <2>2, CountedRises
    <2>4. Number(counter') \in Nat /\ Number(counter) \in Nat
        BY <2>3, NumberType DEF SerialTypeOK
    <2>5. SerialTypeOK'
        BY <1>2, <2>2, <2>3, <2>4 DEF Issue, SerialTypeOK
    <2>6. ASSUME behind' = "no", NEW s \in given' PROVE s <= Number(counter')
        <3>1. behind = "no" /\ ~(readDay[p] < counter.day)
            BY <1>2, <2>6 DEF Issue
        <3>2. CASE s \in given
            <4>1. s <= Number(counter) /\ s \in Nat
                BY <3>1, <3>2 DEF GivenBelow, SerialTypeOK
            <4> QED BY <2>3, <2>4, <3>1, <4>1
        <3>3. CASE s = Number(counter')
            BY <2>4, <3>3
        <3> QED BY <2>2, <2>6, <3>2, <3>3
    <2>7. GivenBelow'
        <3>1. Number(counter)' = Number(counter')
            BY DEF Number
        <3> QED BY <2>6, <3>1 DEF GivenBelow
    <2> QED BY <2>5, <2>7
<1>3. ASSUME NEW p \in Pushes, NoSerial(p) PROVE SerialInv'
    BY <1>3 DEF NoSerial, SerialTypeOK, GivenBelow, Number
<1>4. CASE Midnight
    BY <1>4, SerialAssumption DEF Midnight, SerialTypeOK, GivenBelow, Number, Day
<1>5. CASE KeepCounter
    BY <1>5 DEF KeepCounter, SerialTypeOK, GivenBelow, Number
<1>6. CASE RestoreCounter
    <2>1. SerialTypeOK'
        BY <1>6 DEF RestoreCounter, SerialTypeOK
    <2>2. Number(counter) \in Nat /\ Number(keptCounter) \in Nat
        BY NumberType DEF SerialTypeOK
    <2>3. Number(counter)' = Number(keptCounter)
        BY <1>6 DEF RestoreCounter, Number
    <2>4. behind' = "no" => behind = "no" /\ ~(Number(keptCounter) < Number(counter))
        BY <1>6 DEF RestoreCounter
    <2>5. given' = given /\ given \subseteq Nat
        BY <1>6 DEF RestoreCounter, SerialTypeOK
    <2>6. GivenBelow'
        BY <2>2, <2>3, <2>4, <2>5 DEF GivenBelow
    <2> QED BY <2>1, <2>6
<1>7. CASE UNCHANGED serialVars
    BY <1>7 DEF serialVars, SerialTypeOK, GivenBelow, Number
<1> QED BY <1>1, <1>2, <1>3, <1>4, <1>5, <1>6, <1>7 DEF SerialNext

\* A serial that is issued without the counter being behind is above all before it.
LEMMA IssueRises ==
    ASSUME SerialInv, NEW p \in Pushes, Issue(p), behind' = "no", NEW s \in given
    PROVE  s < Number(counter')
<1>1. readDay[p] \in Day /\ counter' \in Counted(readDay[p])
    BY DEF Issue, SerialInv, SerialTypeOK
<1>2. behind = "no" /\ ~(readDay[p] < counter.day)
    BY DEF Issue
<1>3. counter' \in Counter /\ Number(counter) < Number(counter')
    BY <1>1, <1>2, CountedRises DEF SerialInv
<1>4. s <= Number(counter) /\ s \in Nat
    BY <1>2 DEF SerialInv, GivenBelow, SerialTypeOK
<1>5. Number(counter) \in Nat /\ Number(counter') \in Nat
    BY <1>3, NumberType DEF SerialInv, SerialTypeOK
<1> QED BY <1>3, <1>4, <1>5

\* The serials of an installation rise, whatever pushes ask for them and whenever the day
\* changes, until a backup or a push that read its day too early sets the counter back
\* (SystemConfigRepository.cpp:25-77).
THEOREM SerialsAlwaysRise == SerialSpec => SerialsAreFresh
<1> DEFINE Rises == \A p \in Pushes : Issue(p) =>
                        behind' # "no" \/ \A s \in given : s < Number(counter')
<1>1. SerialInv /\ [SerialNext]_serialVars => [Rises]_serialVars
    BY IssueRises
<1>2. SerialInv => SerialTypeOK
    BY DEF SerialInv
<1> QED
    BY <1>1, <1>2, SerialInvInit, SerialInvNext, PTL DEF SerialSpec, SerialsAreFresh, SerialsRise

-----------------------------------------------------------------------------
(* How often a client may try *)

\* Nothing of client c is as young as a window.
Forgotten(al, t, c) ==
    \A i \in DOMAIN al : al[i].client = c => al[i].at + Window <= t

\* What the bucket b of client c tells of the attempts al at time t: they are all older
\* than a window after it was filled, one filled it, it has lost as many tokens as there
\* were attempts since, and less than a bucket were let through in the window before.
BucketTells(al, t, c, b) ==
    /\ b \in [tokens : 0..MaxRequests, at : 0..LimiterMaxNow]
    /\ b.at <= t
    /\ \A i \in DOMAIN al : al[i].client = c => al[i].at < b.at + Window
    /\ \E i \in DOMAIN al : al[i].client = c /\ al[i].at = b.at
    /\ Cardinality(Attempts(al, c, b.at, b.at + Window)) = MaxRequests - b.tokens
    /\ \A s \in 0..LimiterMaxNow : s <= b.at /\ b.at < s + Window =>
          Cardinality(Attempts(al, c, s, b.at)) < MaxRequests

ClientInv(al, t, c, b) == IF b = NoBucket THEN Forgotten(al, t, c) ELSE BucketTells(al, t, c, b)

LimiterIInv ==
    /\ LimiterInv
    /\ \A i \in DOMAIN allowed : allowed[i].at <= limiterNow
    /\ \A c \in Clients : ClientInv(allowed, limiterNow, c, bucket[c])

Attempt == [client : Clients, at : 0..LimiterMaxNow]

\* Attempts are finitely many.
LEMMA AttemptsFinite ==
    ASSUME NEW al \in Seq(Attempt), NEW c, NEW t, NEW u
    PROVE  IsFiniteSet(Attempts(al, c, t, u)) /\ Cardinality(Attempts(al, c, t, u)) \in Nat
<1>1. IsFiniteSet(1..Len(al))
  BY FS_Interval
<1>2. Attempts(al, c, t, u) \in SUBSET (1..Len(al))
  BY DEF Attempts
<1> QED
  BY <1>1, <1>2, FS_Subset, FS_CardinalityType

\* One more attempt is one more in the spans it falls into, and none in the others.
LEMMA OneMore ==
    ASSUME NEW al \in Seq(Attempt), NEW a \in Attempt, NEW c, NEW t \in Int, NEW u \in Int
    PROVE  LET al2 == Append(al, a) IN
           /\ al2 \in Seq(Attempt)
           /\ DOMAIN al2 = DOMAIN al \cup {Len(al) + 1}
           /\ \A i \in DOMAIN al : al2[i] = al[i]
           /\ al2[Len(al) + 1] = a
           /\ Cardinality(Attempts(al2, c, t, u)) =
                Cardinality(Attempts(al, c, t, u))
                  + (IF a.client = c /\ t <= a.at /\ a.at < u THEN 1 ELSE 0)
<1> DEFINE al2 == Append(al, a)
           n == Len(al) + 1
<1>1. /\ al2 \in Seq(Attempt) /\ DOMAIN al2 = DOMAIN al \cup {n} /\ n \notin DOMAIN al
      /\ \A i \in DOMAIN al : al2[i] = al[i]
      /\ al2[n] = a
  OBVIOUS
<1> HIDE DEF al2, n
<1>2. CASE a.client = c /\ t <= a.at /\ a.at < u
  <2>1. Attempts(al2, c, t, u) = Attempts(al, c, t, u) \cup {n}
    BY <1>1, <1>2 DEF Attempts
  <2>2. n \notin Attempts(al, c, t, u)
    BY <1>1 DEF Attempts
  <2> QED
    BY <2>1, <2>2, <1>1, <1>2, FS_AddElement, AttemptsFinite DEF al2, n
<1>3. CASE ~ (a.client = c /\ t <= a.at /\ a.at < u)
  <2>1. Attempts(al2, c, t, u) = Attempts(al, c, t, u)
    BY <1>1, <1>3 DEF Attempts
  <2> QED
    BY <2>1, <1>1, <1>3, AttemptsFinite DEF al2, n
<1> QED
  BY <1>2, <1>3

\* No member of a set of buckets is the mark of a client that has none.
LEMMA BucketIsNone ==
    ASSUME NEW b \in [tokens : 0..MaxRequests, at : 0..LimiterMaxNow]
    PROVE  b # NoBucket
  BY LimiterAssumption

\* No more attempts fall into a span than into two that cover it.
LEMMA SpansCover ==
    ASSUME NEW al \in Seq(Attempt), NEW c, NEW s \in Int, NEW m \in Int, NEW u \in Int,
           NEW v \in Int, u <= v
    PROVE  Cardinality(Attempts(al, c, s, u))
             <= Cardinality(Attempts(al, c, s, m)) + Cardinality(Attempts(al, c, m, v))
<1> DEFINE S == Attempts(al, c, s, u)
           T == Attempts(al, c, s, m) \cup Attempts(al, c, m, v)
<1>0. \A i \in DOMAIN al : al[i].at \in Int
  <2>1. \A i \in DOMAIN al : al[i] \in Attempt
    OBVIOUS
  <2> QED
    BY <2>1, LimiterAssumption DEF Attempt
<1>1. S \in SUBSET T
  BY <1>0 DEF Attempts
<1>2. IsFiniteSet(T) /\ Cardinality(T) <= Cardinality(Attempts(al, c, s, m))
                                            + Cardinality(Attempts(al, c, m, v))
  <2> DEFINE I == Attempts(al, c, s, m) \cap Attempts(al, c, m, v)
  <2>1. I \in SUBSET Attempts(al, c, s, m)
    OBVIOUS
  <2>2. IsFiniteSet(I) /\ Cardinality(I) \in Nat
    BY <2>1, AttemptsFinite, FS_Subset, FS_CardinalityType
  <2> QED
    <3> DEFINE P == Attempts(al, c, s, m)
               Q == Attempts(al, c, m, v)
    <3>1. /\ IsFiniteSet(P) /\ IsFiniteSet(Q) /\ Cardinality(P) \in Nat
          /\ Cardinality(Q) \in Nat /\ Cardinality(P \cap Q) \in Nat
      BY <2>2, AttemptsFinite
    <3> HIDE DEF P, Q
    <3>2. /\ IsFiniteSet(P \cup Q)
          /\ Cardinality(P \cup Q) = Cardinality(P) + Cardinality(Q) - Cardinality(P \cap Q)
      BY <3>1, FS_Union
    <3>3. Cardinality(P \cup Q) <= Cardinality(P) + Cardinality(Q)
      BY <3>1, <3>2
    <3> QED
      BY <3>2, <3>3 DEF P, Q
<1>3. Cardinality(S) <= Cardinality(T) /\ Cardinality(T) \in Nat /\ Cardinality(S) \in Nat
  BY <1>1, <1>2, FS_Subset, FS_CardinalityType
<1> QED
  BY <1>2, <1>3, AttemptsFinite

\* After the moment a bucket was filled there are fewer attempts than it has lost tokens:
\* one was at that moment.
LEMMA YoungerThanBucket ==
    ASSUME NEW al \in Seq(Attempt), NEW t \in Int, NEW c, NEW b, BucketTells(al, t, c, b),
           NEW s \in Int, NEW u \in Int, b.at < s
    PROVE  Cardinality(Attempts(al, c, s, u)) < MaxRequests - b.tokens
<1> DEFINE S == Attempts(al, c, s, u)
           T == Attempts(al, c, b.at, b.at + Window)
<1>1. b.at \in Int /\ b.tokens \in 0..MaxRequests /\ Window \in Nat /\ MaxRequests \in Nat
  BY LimiterAssumption DEF BucketTells
<1>2. PICK i \in DOMAIN al : al[i].client = c /\ al[i].at = b.at
  BY DEF BucketTells
<1>3. S \in SUBSET T
  <2>1. \A j \in DOMAIN al : al[j] \in Attempt
    OBVIOUS
  <2>2. \A j \in DOMAIN al : al[j].at \in Int
    BY <2>1, LimiterAssumption DEF Attempt
  <2>3. \A j \in DOMAIN al : al[j].client = c => al[j].at < b.at + Window
    BY DEF BucketTells
  <2> QED
    BY <1>1, <2>2, <2>3 DEF Attempts
<1>4. i \in T /\ i \notin S
  BY <1>1, <1>2, LimiterAssumption DEF Attempts, Attempt
<1>5. Cardinality(S) <= Cardinality(T) /\ Cardinality(S) # Cardinality(T)
  BY <1>3, <1>4, FS_Subset, AttemptsFinite
<1> QED
  BY <1>1, <1>5, AttemptsFinite DEF BucketTells

\* Whatever a client's bucket is, no span that holds the present lets two buckets through.
LEMMA PresentLimited ==
    ASSUME NEW al \in Seq(Attempt), NEW t \in 0..LimiterMaxNow, NEW c, NEW b, BucketTells(al, t, c, b),
           NEW s \in 0..LimiterMaxNow, s <= t, t < s + Window
    PROVE  Cardinality(Attempts(al, c, s, s + Window)) < 2 * MaxRequests
<1>1. /\ b.at \in 0..LimiterMaxNow /\ b.tokens \in 0..MaxRequests /\ b.at <= t
      /\ Window \in Nat /\ MaxRequests \in Nat /\ s \in Int /\ t \in Int /\ b.at \in Int
  BY LimiterAssumption DEF BucketTells
<1>2. CASE b.at < s
  <2>1. Cardinality(Attempts(al, c, s, s + Window)) < MaxRequests - b.tokens
    BY <1>1, <1>2, YoungerThanBucket
  <2> QED
    BY <1>1, <2>1, AttemptsFinite
<1>3. CASE s <= b.at
  <2>1. b.at < s + Window
    BY <1>1
  <2>2. Cardinality(Attempts(al, c, s, b.at)) < MaxRequests
    BY <1>1, <1>3, <2>1 DEF BucketTells
  <2>3. Cardinality(Attempts(al, c, s, s + Window))
          <= Cardinality(Attempts(al, c, s, b.at)) + Cardinality(Attempts(al, c, b.at, b.at + Window))
    BY <1>1, <1>3, SpansCover
  <2>4. Cardinality(Attempts(al, c, b.at, b.at + Window)) = MaxRequests - b.tokens
    BY DEF BucketTells
  <2> QED
    BY <1>1, <2>2, <2>3, <2>4, AttemptsFinite
<1> QED
  BY <1>1, <1>2, <1>3

\* An attempt of a client whose attempts are forgotten, or whose bucket is as old as the
\* window, fills a bucket.
LEMMA FirstOfBucket ==
    ASSUME NEW al \in Seq(Attempt), NEW t \in 0..LimiterMaxNow, NEW c \in Clients, NEW b,
           ClientInv(al, t, c, b), b = NoBucket \/ t - b.at >= Window,
           \A i \in DOMAIN al : al[i].at <= t
    PROVE  BucketTells(Append(al, [client |-> c, at |-> t]), t, c, [tokens |-> MaxRequests - 1, at |-> t])
<1> DEFINE a  == [client |-> c, at |-> t]
           al2 == Append(al, a)
           new == [tokens |-> MaxRequests - 1, at |-> t]
<1>1. /\ Window \in Nat \ {0} /\ MaxRequests \in Nat \ {0} /\ LimiterMaxNow \in Nat /\ t \in Int
      /\ a \in Attempt /\ a.client = c /\ a.at = t /\ new.at = t /\ new.tokens = MaxRequests - 1
      /\ new \in [tokens : 0..MaxRequests, at : 0..LimiterMaxNow]
  BY LimiterAssumption DEF Attempt
<1>2. \A i \in DOMAIN al : al[i].at \in Int
  <2>1. \A i \in DOMAIN al : al[i] \in Attempt
    OBVIOUS
  <2> QED
    BY <2>1, LimiterAssumption DEF Attempt
<1>3. \A i \in DOMAIN al : al[i].client = c => al[i].at < t
  <2>1. CASE b = NoBucket
    BY <2>1, <1>1, <1>2 DEF ClientInv, Forgotten
  <2>2. CASE b # NoBucket
    <3>1. BucketTells(al, t, c, b)
      BY <2>2 DEF ClientInv
    <3> QED
      BY <3>1, <2>2, <1>1, <1>2 DEF BucketTells
  <2> QED
    BY <2>1, <2>2
<1> HIDE DEF a, new
<1>4. /\ al2 \in Seq(Attempt) /\ DOMAIN al2 = DOMAIN al \cup {Len(al) + 1}
      /\ \A i \in DOMAIN al : al2[i] = al[i]
      /\ al2[Len(al) + 1] = a
      /\ \A s \in Int, u \in Int : Cardinality(Attempts(al2, c, s, u)) =
            Cardinality(Attempts(al, c, s, u)) + (IF s <= t /\ t < u THEN 1 ELSE 0)
  <2>1. /\ al2 \in Seq(Attempt) /\ DOMAIN al2 = DOMAIN al \cup {Len(al) + 1}
        /\ \A i \in DOMAIN al : al2[i] = al[i]
        /\ al2[Len(al) + 1] = a
    BY <1>1
  <2>2. ASSUME NEW s \in Int, NEW u \in Int
        PROVE  Cardinality(Attempts(al2, c, s, u)) =
                 Cardinality(Attempts(al, c, s, u)) + (IF s <= t /\ t < u THEN 1 ELSE 0)
    <3>1. Cardinality(Attempts(al2, c, s, u)) =
            Cardinality(Attempts(al, c, s, u))
              + (IF a.client = c /\ s <= a.at /\ a.at < u THEN 1 ELSE 0)
      BY <1>1, OneMore
    <3> QED BY <1>1, <3>1
  <2> QED BY <2>1, <2>2
<1> HIDE DEF al2
<1>5. Cardinality(Attempts(al2, c, t, t + Window)) = MaxRequests - new.tokens
  <2>1. Attempts(al, c, t, t + Window) = {}
    BY <1>1, <1>2, <1>3 DEF Attempts
  <2>2. Cardinality(Attempts(al, c, t, t + Window)) = 0
    BY <2>1, FS_EmptySet
  <2> QED
    BY <1>1, <1>4, <2>2
<1>6. ASSUME NEW s \in 0..LimiterMaxNow, s <= t, t < s + Window
      PROVE  Cardinality(Attempts(al2, c, s, t)) < MaxRequests
  <2>1. Cardinality(Attempts(al2, c, s, t)) = Cardinality(Attempts(al, c, s, t))
    BY <1>1, <1>4, <1>6, AttemptsFinite
  <2>2. CASE b = NoBucket
    <3>1. Attempts(al, c, s, t) = {}
      BY <2>2, <1>1, <1>2, <1>6 DEF ClientInv, Forgotten, Attempts
    <3> QED
      BY <3>1, <2>1, <1>1, FS_EmptySet
  <2>3. CASE b # NoBucket
    <3>1. BucketTells(al, t, c, b)
      BY <2>3 DEF ClientInv
    <3>2. b.at < s /\ b.tokens \in 0..MaxRequests
      BY <3>1, <2>3, <1>1, <1>6 DEF BucketTells
    <3>3. Cardinality(Attempts(al, c, s, t)) < MaxRequests - b.tokens
      BY <3>1, <3>2, <1>1, <1>6, YoungerThanBucket
    <3> QED
      BY <3>2, <3>3, <2>1, <1>1, AttemptsFinite
  <2> QED
    BY <2>2, <2>3
<1>7. \A i \in DOMAIN al2 : al2[i].client = c => al2[i].at < t + Window
  BY <1>1, <1>2, <1>3, <1>4
<1>8. \E i \in DOMAIN al2 : al2[i].client = c /\ al2[i].at = t
  BY <1>1, <1>4
<1>9. BucketTells(al2, t, c, new)
  BY <1>1, <1>5, <1>6, <1>7, <1>8 DEF BucketTells
<1> QED
  BY <1>9 DEF al2, a, new

\* An attempt that takes a token of a younger bucket.
LEMMA NextOfBucket ==
    ASSUME NEW al \in Seq(Attempt), NEW t \in 0..LimiterMaxNow, NEW c \in Clients, NEW b,
           BucketTells(al, t, c, b), t - b.at < Window, b.tokens > 0,
           \A i \in DOMAIN al : al[i].at <= t
    PROVE  BucketTells(Append(al, [client |-> c, at |-> t]), t, c, [b EXCEPT !.tokens = @ - 1])
<1> DEFINE a  == [client |-> c, at |-> t]
           al2 == Append(al, a)
           new == [b EXCEPT !.tokens = @ - 1]
<1>1. /\ Window \in Nat \ {0} /\ MaxRequests \in Nat \ {0} /\ LimiterMaxNow \in Nat /\ t \in Int
      /\ b \in [tokens : 0..MaxRequests, at : 0..LimiterMaxNow] /\ b.at \in Int /\ b.at <= t
      /\ b.tokens \in 0..MaxRequests
  BY LimiterAssumption DEF BucketTells
<1>2. /\ a \in Attempt /\ a.client = c /\ a.at = t /\ new.at = b.at /\ new.tokens = b.tokens - 1
      /\ new \in [tokens : 0..MaxRequests, at : 0..LimiterMaxNow]
  BY <1>1 DEF Attempt
<1> HIDE DEF a, new
<1>3. /\ al2 \in Seq(Attempt) /\ DOMAIN al2 = DOMAIN al \cup {Len(al) + 1}
      /\ \A i \in DOMAIN al : al2[i] = al[i]
      /\ al2[Len(al) + 1] = a
      /\ \A s \in Int, u \in Int : Cardinality(Attempts(al2, c, s, u)) =
            Cardinality(Attempts(al, c, s, u)) + (IF s <= t /\ t < u THEN 1 ELSE 0)
  <2>1. /\ al2 \in Seq(Attempt) /\ DOMAIN al2 = DOMAIN al \cup {Len(al) + 1}
        /\ \A i \in DOMAIN al : al2[i] = al[i]
        /\ al2[Len(al) + 1] = a
    BY <1>1, <1>2
  <2>2. ASSUME NEW s \in Int, NEW u \in Int
        PROVE  Cardinality(Attempts(al2, c, s, u)) =
                 Cardinality(Attempts(al, c, s, u)) + (IF s <= t /\ t < u THEN 1 ELSE 0)
    <3>1. Cardinality(Attempts(al2, c, s, u)) =
            Cardinality(Attempts(al, c, s, u))
              + (IF a.client = c /\ s <= a.at /\ a.at < u THEN 1 ELSE 0)
      BY <1>1, <1>2, OneMore
    <3> QED BY <1>1, <1>2, <3>1
  <2> QED BY <2>1, <2>2
<1> HIDE DEF al2
<1>4. Cardinality(Attempts(al2, c, b.at, b.at + Window)) = MaxRequests - new.tokens
  <2>1. Cardinality(Attempts(al, c, b.at, b.at + Window)) = MaxRequests - b.tokens
    BY DEF BucketTells
  <2>2. b.at + Window \in Int /\ t < b.at + Window
    BY <1>1
  <2>3. Cardinality(Attempts(al2, c, b.at, b.at + Window)) =
          Cardinality(Attempts(al, c, b.at, b.at + Window)) + 1
    BY <1>1, <1>3, <2>2
  <2> QED
    BY <1>1, <1>2, <2>1, <2>3
<1>5. ASSUME NEW s \in 0..LimiterMaxNow, s <= b.at, b.at < s + Window
      PROVE  Cardinality(Attempts(al2, c, s, b.at)) < MaxRequests
  <2>1. Cardinality(Attempts(al2, c, s, b.at)) = Cardinality(Attempts(al, c, s, b.at))
    <3>1. s \in Int /\ ~ (s <= t /\ t < b.at)
      BY <1>1
    <3>2. Cardinality(Attempts(al2, c, s, b.at)) = Cardinality(Attempts(al, c, s, b.at)) + 0
      BY <1>1, <1>3, <3>1
    <3> QED
      BY <3>2, AttemptsFinite
  <2> QED
    BY <2>1, <1>5 DEF BucketTells
<1>6. \A i \in DOMAIN al2 : al2[i].client = c => al2[i].at < b.at + Window
  BY <1>1, <1>2, <1>3 DEF BucketTells
<1>7. \E i \in DOMAIN al2 : al2[i].client = c /\ al2[i].at = b.at
  BY <1>1, <1>2, <1>3 DEF BucketTells
<1>8. BucketTells(al2, t, c, new)
  BY <1>1, <1>2, <1>4, <1>5, <1>6, <1>7 DEF BucketTells
<1> QED
  BY <1>8 DEF al2, a, new

\* A bucket that is evicted is older than every window its attempts are in.
LEMMA EvictionForgets ==
    ASSUME NEW al \in Seq(Attempt), NEW t \in 0..LimiterMaxNow, NEW c, NEW b,
           BucketTells(al, t, c, b), t - b.at > 2 * Window
    PROVE  Forgotten(al, t, c)
<1>1. /\ Window \in Nat \ {0} /\ LimiterMaxNow \in Nat /\ t \in Int /\ b.at \in Int
      /\ \A i \in DOMAIN al : al[i].client = c => al[i].at < b.at + Window
  BY LimiterAssumption DEF BucketTells
<1>2. \A i \in DOMAIN al : al[i].at \in Int
  <2>1. \A i \in DOMAIN al : al[i] \in Attempt
    OBVIOUS
  <2> QED
    BY <2>1, LimiterAssumption DEF Attempt
<1> QED
  BY <1>1, <1>2 DEF Forgotten

\* What is known of a client is as true later, if there are no more attempts.
LEMMA ClientLater ==
    ASSUME NEW al \in Seq(Attempt), NEW t \in Int, NEW c, NEW b, ClientInv(al, t, c, b)
    PROVE  ClientInv(al, t + 1, c, b)
<1>1. \A i \in DOMAIN al : al[i].at \in Int
  <2>1. \A i \in DOMAIN al : al[i] \in Attempt
    OBVIOUS
  <2> QED
    BY <2>1, LimiterAssumption DEF Attempt
<1>2. CASE b = NoBucket
  BY <1>1, <1>2, LimiterAssumption DEF ClientInv, Forgotten
<1>3. CASE b # NoBucket
  <2>1. BucketTells(al, t, c, b) /\ b.at \in Int
    BY <1>3, LimiterAssumption DEF ClientInv, BucketTells
  <2> QED
    BY <1>3, <2>1 DEF ClientInv, BucketTells
<1> QED
  BY <1>2, <1>3

\* An attempt of another client changes nothing of what is known of c.
LEMMA OthersAttempt ==
    ASSUME NEW al \in Seq(Attempt), NEW a \in Attempt, NEW t \in Int, NEW c, NEW b,
           a.client # c, ClientInv(al, t, c, b)
    PROVE  ClientInv(Append(al, a), t, c, b)
<1> DEFINE al2 == Append(al, a)
<1>1. /\ al2 \in Seq(Attempt) /\ DOMAIN al2 = DOMAIN al \cup {Len(al) + 1}
      /\ \A i \in DOMAIN al : al2[i] = al[i]
      /\ al2[Len(al) + 1] = a
      /\ \A s \in Int, u \in Int : Cardinality(Attempts(al2, c, s, u)) =
            Cardinality(Attempts(al, c, s, u))
              + (IF a.client = c /\ s <= a.at /\ a.at < u THEN 1 ELSE 0)
  BY OneMore
<1> HIDE DEF al2
<1>2. \A s \in Int, u \in Int : Cardinality(Attempts(al2, c, s, u)) = Cardinality(Attempts(al, c, s, u))
  BY <1>1, AttemptsFinite
<1>3. CASE b = NoBucket
  BY <1>1, <1>3 DEF ClientInv, Forgotten
<1>4. CASE b # NoBucket
  <2>1. BucketTells(al, t, c, b) /\ b.at \in Int /\ b.at + Window \in Int /\ LimiterMaxNow \in Nat
    BY <1>4, LimiterAssumption DEF ClientInv, BucketTells
  <2>2. \A i \in DOMAIN al2 : al2[i].client = c => i \in DOMAIN al /\ al2[i] = al[i]
    BY <1>1
  <2>3. Cardinality(Attempts(al2, c, b.at, b.at + Window)) = MaxRequests - b.tokens
    BY <1>2, <2>1 DEF BucketTells
  <2>4. \A s \in 0..LimiterMaxNow : s <= b.at /\ b.at < s + Window =>
          Cardinality(Attempts(al2, c, s, b.at)) < MaxRequests
    BY <1>2, <2>1 DEF BucketTells
  <2>5. BucketTells(al2, t, c, b)
    BY <1>1, <2>1, <2>2, <2>3, <2>4 DEF BucketTells
  <2> QED
    BY <1>4, <2>5 DEF ClientInv, al2
<1> QED
  BY <1>3, <1>4 DEF al2

\* No attempt falls into a span that is over.
LEMMA SpanOver ==
    ASSUME NEW al \in Seq(Attempt), NEW a \in Attempt, NEW c, NEW s \in Int, NEW u \in Int,
           a.client = c => ~ (s <= a.at /\ a.at < u)
    PROVE  Cardinality(Attempts(Append(al, a), c, s, u)) = Cardinality(Attempts(al, c, s, u))
<1>1. Cardinality(Attempts(Append(al, a), c, s, u)) =
        Cardinality(Attempts(al, c, s, u)) + (IF a.client = c /\ s <= a.at /\ a.at < u THEN 1 ELSE 0)
  BY OneMore
<1> QED
  BY <1>1, AttemptsFinite

\* The initial state.
LEMMA LimiterStarts == LimiterInit => LimiterIInv
<1> SUFFICES ASSUME LimiterInit PROVE LimiterIInv
  OBVIOUS
<1>1. LimiterTypeOK
  BY LimiterAssumption DEF LimiterInit, LimiterTypeOK
<1>2. ASSUME NEW c \in Clients, NEW t \in 0..LimiterMaxNow
      PROVE  Cardinality(Attempts(allowed, c, t, t + Window)) < 2 * MaxRequests
  <2>1. Attempts(allowed, c, t, t + Window) = {}
    BY DEF LimiterInit, Attempts
  <2> QED
    BY <2>1, FS_EmptySet, LimiterAssumption
<1> QED
  BY <1>1, <1>2 DEF LimiterIInv, LimiterInv, AttemptsLimited, LimiterInit, ClientInv, Forgotten

\* A client whose bucket is evicted, or is not.
LEMMA EvictionKeeps ==
    ASSUME LimiterTypeOK, NEW bs, NEW c \in Clients, NEW al \in Seq(Attempt),
           ClientInv(al, limiterNow, c, bs[c])
    PROVE  ClientInv(al, limiterNow, c, Evicted(bs)[c])
<1>1. CASE bs[c] # NoBucket /\ limiterNow - bs[c].at > 2 * Window
  <2>1. BucketTells(al, limiterNow, c, bs[c]) /\ Evicted(bs)[c] = NoBucket
    BY <1>1 DEF ClientInv, Evicted
  <2>2. Forgotten(al, limiterNow, c)
    BY <1>1, <2>1, EvictionForgets DEF LimiterTypeOK
  <2> QED
    BY <2>1, <2>2 DEF ClientInv
<1>2. CASE ~ (bs[c] # NoBucket /\ limiterNow - bs[c].at > 2 * Window)
  <2>1. Evicted(bs)[c] = bs[c]
    BY <1>2 DEF Evicted
  <2> QED
    BY <2>1
<1> QED
  BY <1>1, <1>2

\* What an attempt makes of the attempts and of the bucket of its client.
LEMMA AllowDoes ==
    ASSUME LimiterIInv, NEW c \in Clients, Allow(c)
    PROVE  \E b \in [tokens : 0..MaxRequests, at : 0..LimiterMaxNow] :
             /\ bucket' \in {[bucket EXCEPT ![c] = b], Evicted([bucket EXCEPT ![c] = b])}
             /\ BucketTells(allowed', limiterNow, c, b)
             /\ allowed' \in {allowed, Append(allowed, [client |-> c, at |-> limiterNow])}
             /\ limiterNow' = limiterNow
<1> USE DEF Attempt
<1>1. /\ bucket \in [Clients -> [tokens : 0..MaxRequests, at : 0..LimiterMaxNow] \cup {NoBucket}]
      /\ limiterNow \in 0..LimiterMaxNow /\ allowed \in Seq(Attempt)
      /\ \A i \in DOMAIN allowed : allowed[i].at <= limiterNow
      /\ ClientInv(allowed, limiterNow, c, bucket[c])
      /\ MaxRequests \in Nat \ {0} /\ Window \in Nat \ {0} /\ limiterNow \in Int
      /\ limiterNow' = limiterNow
  BY LimiterAssumption DEF LimiterIInv, LimiterInv, LimiterTypeOK, Allow
<1> DEFINE more  == Append(allowed, [client |-> c, at |-> limiterNow])
           fresh == [tokens |-> MaxRequests - 1, at |-> limiterNow]
<1>2. ASSUME bucket[c] = NoBucket \/ limiterNow - bucket[c].at >= Window
      PROVE  BucketTells(more, limiterNow, c, fresh)
  BY <1>1, <1>2, FirstOfBucket
<1>3. CASE bucket[c] = NoBucket
  <2>1. fresh \in [tokens : 0..MaxRequests, at : 0..LimiterMaxNow] /\ fresh = FirstBucket
    BY <1>1 DEF FirstBucket
  <2>2. bucket' \in {[bucket EXCEPT ![c] = fresh], Evicted([bucket EXCEPT ![c] = fresh])}
    BY <1>3, <2>1 DEF Allow
  <2>3. allowed' = more
    BY <1>3 DEF Allow
  <2> QED
    BY <1>1, <1>2, <1>3, <2>1, <2>2, <2>3
<1>4. CASE bucket[c] # NoBucket /\ limiterNow - bucket[c].at >= Window
  <2>1. fresh \in [tokens : 0..MaxRequests, at : 0..LimiterMaxNow]
    BY <1>1
  <2>2. Refilled(bucket[c]) = [tokens |-> MaxRequests, at |-> limiterNow]
    BY <1>4 DEF Refilled
  <2>3. [[tokens |-> MaxRequests, at |-> limiterNow] EXCEPT !.tokens = IF @ > 0 THEN @ - 1 ELSE 0] = fresh
    BY <1>1
  <2>4. bucket' \in {[bucket EXCEPT ![c] = fresh], Evicted([bucket EXCEPT ![c] = fresh])}
    BY <1>4, <2>2, <2>3 DEF Allow
  <2>5. allowed' = more
    BY <1>1, <1>4, <2>2 DEF Allow
  <2> QED
    BY <1>1, <1>2, <1>4, <2>1, <2>4, <2>5
<1>5. CASE bucket[c] # NoBucket /\ ~ (limiterNow - bucket[c].at >= Window)
  <2> DEFINE b   == bucket[c]
             new == [b EXCEPT !.tokens = IF @ > 0 THEN @ - 1 ELSE 0]
  <2>1. BucketTells(allowed, limiterNow, c, b)
    BY <1>1, <1>5 DEF ClientInv
  <2>2. b \in [tokens : 0..MaxRequests, at : 0..LimiterMaxNow] /\ Refilled(b) = b
    BY <1>1, <1>5 DEF Refilled
  <2>3. b.tokens \in 0..MaxRequests /\ b.at \in 0..LimiterMaxNow
    BY <2>2
  <2>4. /\ bucket' \in {[bucket EXCEPT ![c] = new], Evicted([bucket EXCEPT ![c] = new])}
        /\ allowed' = IF b.tokens > 0 THEN more ELSE allowed
    BY <1>5, <2>2 DEF Allow
  <2>5. new \in [tokens : 0..MaxRequests, at : 0..LimiterMaxNow]
    <3>1. (IF b.tokens > 0 THEN b.tokens - 1 ELSE 0) \in 0..MaxRequests
      BY <1>1, <2>3
    <3> QED
      BY <2>2, <3>1
  <2>6. CASE b.tokens > 0
    <3>1. new = [b EXCEPT !.tokens = @ - 1]
      BY <2>6
    <3>2. limiterNow - b.at < Window
      BY <1>1, <1>5, <2>3
    <3> HIDE DEF b
    <3>3. BucketTells(more, limiterNow, c, [b EXCEPT !.tokens = @ - 1])
      BY <1>1, <2>1, <2>6, <3>2, NextOfBucket
    <3> QED
      BY <1>1, <2>4, <2>5, <2>6, <3>1, <3>3
  <2>7. CASE ~ (b.tokens > 0)
    <3>1. new = b
      BY <2>2, <2>3, <2>7
    <3> QED
      BY <1>1, <2>1, <2>4, <2>5, <2>7, <3>1
  <2> QED
    BY <2>6, <2>7
<1> QED
  BY <1>3, <1>4, <1>5

\* Every attempt, eviction and tick keeps it.
LEMMA LimiterSteps == LimiterIInv /\ [LimiterNext]_limiterVars => LimiterIInv'
<1> SUFFICES ASSUME LimiterIInv, [LimiterNext]_limiterVars PROVE LimiterIInv'
  OBVIOUS
<1> DEFINE Buckets == [tokens : 0..MaxRequests, at : 0..LimiterMaxNow]
<1>1. /\ bucket \in [Clients -> Buckets \cup {NoBucket}]
      /\ limiterNow \in 0..LimiterMaxNow /\ allowed \in Seq(Attempt)
      /\ \A i \in DOMAIN allowed : allowed[i].at <= limiterNow
      /\ \A c \in Clients : ClientInv(allowed, limiterNow, c, bucket[c])
      /\ MaxRequests \in Nat \ {0} /\ Window \in Nat \ {0} /\ LimiterMaxNow \in Nat
      /\ LimiterTypeOK /\ limiterNow \in Int
      /\ \A c \in Clients, t \in 0..LimiterMaxNow :
            Cardinality(Attempts(allowed, c, t, t + Window)) < 2 * MaxRequests
  BY LimiterAssumption DEF LimiterIInv, LimiterInv, LimiterTypeOK, AttemptsLimited, Attempt
<1>2. CASE LimiterTick
  <2>1. /\ limiterNow' = limiterNow + 1 /\ limiterNow' \in 0..LimiterMaxNow
        /\ bucket' = bucket /\ allowed' = allowed
    BY <1>1, <1>2 DEF LimiterTick
  <2>2. \A c \in Clients : ClientInv(allowed, limiterNow + 1, c, bucket[c])
    BY <1>1, ClientLater
  <2>3. \A i \in DOMAIN allowed : allowed[i].at <= limiterNow + 1
    <3>1. \A i \in DOMAIN allowed : allowed[i] \in Attempt
      BY <1>1
    <3>2. \A i \in DOMAIN allowed : allowed[i].at \in Int
      BY <1>1, <3>1 DEF Attempt
    <3> QED
      BY <1>1, <3>2
  <2> QED
    BY <1>1, <2>1, <2>2, <2>3
    DEF LimiterIInv, LimiterInv, LimiterTypeOK, AttemptsLimited, Attempt
<1>3. CASE EvictStale
  <2>1. bucket' = Evicted(bucket) /\ limiterNow' = limiterNow /\ allowed' = allowed
    BY <1>3 DEF EvictStale
  <2>2. \A c \in Clients : ClientInv(allowed, limiterNow, c, Evicted(bucket)[c])
    BY <1>1, EvictionKeeps
  <2>3. Evicted(bucket) \in [Clients -> Buckets \cup {NoBucket}]
    BY <1>1 DEF Evicted
  <2> QED
    BY <1>1, <2>1, <2>2, <2>3
    DEF LimiterIInv, LimiterInv, LimiterTypeOK, AttemptsLimited, Attempt
<1>4. ASSUME NEW c \in Clients, Allow(c) PROVE LimiterIInv'
  <2> DEFINE a == [client |-> c, at |-> limiterNow]
  <2>1. PICK b \in Buckets :
           /\ bucket' \in {[bucket EXCEPT ![c] = b], Evicted([bucket EXCEPT ![c] = b])}
           /\ BucketTells(allowed', limiterNow, c, b)
           /\ allowed' \in {allowed, Append(allowed, a)}
           /\ limiterNow' = limiterNow
    BY <1>4, AllowDoes
  <2> DEFINE mine == [bucket EXCEPT ![c] = b]
  <2>2. /\ a \in Attempt /\ a.client = c /\ a.at = limiterNow
        /\ allowed' \in Seq(Attempt) /\ Append(allowed, a) \in Seq(Attempt)
    <3>1. a \in Attempt /\ a.client = c /\ a.at = limiterNow
      BY <1>1 DEF Attempt
    <3>2. Append(allowed, a) \in Seq(Attempt)
      BY <1>1, <3>1
    <3> QED
      BY <1>1, <2>1, <3>1, <3>2
  <2>3. /\ mine \in [Clients -> Buckets \cup {NoBucket}] /\ mine[c] = b
        /\ \A d \in Clients : d # c => mine[d] = bucket[d]
    BY <1>1
  <2> HIDE DEF mine, a
  <2>4. ASSUME NEW d \in Clients PROVE ClientInv(allowed', limiterNow, d, mine[d])
    <3>1. CASE d = c
      BY <2>1, <2>3, <3>1, BucketIsNone DEF ClientInv
    <3>2. CASE d # c /\ allowed' = allowed
      BY <1>1, <2>3, <3>2
    <3>3. CASE d # c /\ allowed' = Append(allowed, a)
      BY <1>1, <2>2, <2>3, <3>3, OthersAttempt
    <3> QED
      BY <2>1, <3>1, <3>2, <3>3 DEF a
  <2>5. /\ \A d \in Clients : ClientInv(allowed', limiterNow, d, bucket'[d])
        /\ bucket' \in [Clients -> Buckets \cup {NoBucket}]
    <3>1. CASE bucket' = mine
      BY <2>3, <2>4, <3>1
    <3>2. CASE bucket' = Evicted(mine)
      <4>1. \A d \in Clients : ClientInv(allowed', limiterNow, d, Evicted(mine)[d])
        BY <1>1, <2>2, <2>4, EvictionKeeps
      <4>2. Evicted(mine) \in [Clients -> Buckets \cup {NoBucket}]
        BY <2>3 DEF Evicted
      <4> QED
        BY <3>2, <4>1, <4>2
    <3> QED
      BY <2>1, <3>1, <3>2 DEF mine
  <2>6. \A i \in DOMAIN allowed' : allowed'[i].at <= limiterNow
    <3>1. CASE allowed' = allowed
      BY <1>1, <3>1
    <3>2. CASE allowed' = Append(allowed, a)
      <4>1. /\ DOMAIN allowed' = DOMAIN allowed \cup {Len(allowed) + 1}
            /\ \A i \in DOMAIN allowed : allowed'[i] = allowed[i]
            /\ allowed'[Len(allowed) + 1] = a
        BY <1>1, <2>2, <3>2
      <4>2. limiterNow <= limiterNow
        BY <1>1
      <4> QED
        BY <1>1, <2>2, <4>1, <4>2
    <3> QED
      BY <2>1, <3>1, <3>2 DEF a
  <2>7. ASSUME NEW d \in Clients, NEW t \in 0..LimiterMaxNow
        PROVE  Cardinality(Attempts(allowed', d, t, t + Window)) < 2 * MaxRequests
    <3>1. CASE d = c /\ t <= limiterNow /\ limiterNow < t + Window
      BY <1>1, <2>1, <2>2, <3>1, PresentLimited
    <3>2. CASE allowed' = allowed
      BY <1>1, <3>2
    <3>3. CASE allowed' = Append(allowed, a) /\ ~ (d = c /\ t <= limiterNow /\ limiterNow < t + Window)
      <4>1. t \in Int /\ t + Window \in Int
        BY <1>1
      <4>2. Cardinality(Attempts(Append(allowed, a), d, t, t + Window))
              = Cardinality(Attempts(allowed, d, t, t + Window))
        BY <1>1, <2>2, <3>3, <4>1, SpanOver
      <4> QED
        BY <1>1, <3>3, <4>2
    <3> QED
      BY <2>1, <3>1, <3>2, <3>3 DEF a
  <2> QED
    BY <1>1, <2>1, <2>2, <2>5, <2>6, <2>7
    DEF LimiterIInv, LimiterInv, LimiterTypeOK, AttemptsLimited, Attempt
<1>5. CASE UNCHANGED limiterVars
  BY <1>5 DEF LimiterIInv, LimiterInv, LimiterTypeOK, AttemptsLimited, limiterVars
<1> QED
  BY <1>2, <1>3, <1>4, <1>5 DEF LimiterNext

\* LimiterInv: whenever a window begins, fewer attempts than two buckets hold are let through,
\* whatever is evicted.
THEOREM AttemptsStayLimited == LimiterSpec => []LimiterInv
<1>1. LimiterIInv => LimiterInv
  BY DEF LimiterIInv
<1> QED
  BY <1>1, LimiterStarts, LimiterSteps, PTL DEF LimiterSpec
===============================================================================
