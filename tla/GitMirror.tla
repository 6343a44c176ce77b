------------------------------- MODULE GitMirror -------------------------------
(***************************************************************************)
(* GitRepoManager and the GitRepoMirror of one git repository.  Threads    *)
(* that push or capture a zone commit its snapshot, the backup task        *)
(* commits its file, an administrator reloads the mirror or points it to   *)
(* another remote, and others push to the remotes too.                     *)
(*                                                                         *)
(* A branch is the sequence of its commits and a commit the files it has,  *)
(* each a version: 0 for a file that is not there.  Every zone has its own *)
(* file and the zone's mutex lets one thread at a time write it, so a      *)
(* writer stands for both.  The backup's writer is the scheduled task; the *)
(* route that commits the same file is left out.  What libgit2 does is     *)
(* modelled as far as the code relies on it.                               *)
(***************************************************************************)
EXTENDS Integers, SequencesExt

CONSTANTS
    Zones,       \* the zones that have this repository
    Backups,     \* the backup file, if it is committed to this repository
    Outside,     \* the file other clients of the remote write
    Nobody,      \* the holder of a free mutex
    Branches, Default,
    BranchOf,    \* BranchOf[w]: the branch writer w commits to
    Urls,        \* the remotes the repository's row may name
    MaxVersion,  \* bound: versions of a file
    MaxCommits   \* bound: commits of a branch a commit still adds one to

Writers == Zones \cup Backups
Paths   == Writers \cup {Outside}

NoUrl == "none"

ASSUME GitAssumption ==
    /\ NoUrl \notin Urls
    /\ Outside \notin Writers /\ Nobody \notin Writers /\ Zones \cap Backups = {}
    /\ Default \in Branches /\ BranchOf \in [Writers -> Branches]
    /\ MaxVersion \in Nat \ {0} /\ MaxCommits \in Nat

VARIABLES
    version,  \* version[w]: what w's snapshot would hold if it were built now
    remote,   \* remote[u][b]: branch b at remote u
    url,      \* git_repos.remote_url
    origin,   \* the remote the local clone has as origin; NoUrl before the clone
    local,    \* local[b]: the clone's branch b, empty if it has none
    tracked,  \* tracked[b]: its origin/b
    head,     \* the branch HEAD names
    tree,     \* tree[p]: the file in the working directory
    loaded,   \* the manager has a GitRepoMirror of the repository
    manager,  \* the holder of the manager's mutex
    lock,     \* the holder of the mirror's mutex
    gitPc, built, hasFetched, \* of each writer: its step, its snapshot, and whether
                        \* its fetch worked
    torn      \* the mirror was destroyed while a writer has it: from here the
              \* process may do anything, and only its restart is modelled

clone   == <<origin, local, tracked, head, tree>>
process == <<loaded, manager, lock, gitPc, built, hasFetched, torn>>
gitVars    == <<version, remote, url, clone, process>>

NoFiles == [p \in Paths |-> 0]

FilesOf(branch) == IF branch = <<>> THEN NoFiles ELSE Last(branch)

\* Every variable has its type, and a mirror that is loaded has a clone with the
\* default branch: initialize throws when it has none.
GitTypeOK ==
    LET Branch == Seq([Paths -> 0..MaxVersion])
    IN  /\ version \in [Writers -> 0..MaxVersion]
        /\ remote \in [Urls -> [Branches -> Branch]]
        /\ url \in Urls
        /\ origin \in Urls \cup {NoUrl}
        /\ local \in [Branches -> Branch]
        /\ tracked \in [Branches -> Branch]
        /\ head \in Branches
        /\ tree \in [Paths -> 0..MaxVersion]
        /\ loaded \in BOOLEAN
        /\ loaded => origin # NoUrl /\ local[Default] # <<>>
        /\ manager \in Writers \cup {Nobody}
        /\ lock \in Writers \cup {Nobody}
        /\ gitPc \in [Writers -> {"idle", "probe", "export", "sync", "write", "commit", "push"}]
        /\ built \in [Writers -> 0..MaxVersion]
        /\ hasFetched \in [Writers -> BOOLEAN]
        /\ torn \in BOOLEAN

\* Before the first start nothing is cloned and the remotes have one commit.
GitInit ==
    /\ version = [w \in Writers |-> 1]
    /\ remote = [u \in Urls |-> [b \in Branches |->
                   IF b = Default THEN <<[NoFiles EXCEPT ![Outside] = 1]>> ELSE <<>>]]
    /\ url \in Urls
    /\ origin = NoUrl
    /\ local = [b \in Branches |-> <<>>]
    /\ tracked = [b \in Branches |-> <<>>]
    /\ head = Default
    /\ tree = NoFiles
    /\ loaded = FALSE
    /\ manager = Nobody
    /\ lock = Nobody
    /\ gitPc = [w \in Writers |-> "idle"]
    /\ built = [w \in Writers |-> 0]
    /\ hasFetched = [w \in Writers |-> FALSE]
    /\ torn = FALSE

-----------------------------------------------------------------------------
(* The manager: the mirror object and the clone it opens *)

\* The clone is made of remote u the first time and opened ever after; its
\* origin stays the remote it was cloned from.  The pull that follows fetches.
Open(u) ==
    \/ /\ origin = NoUrl
       /\ origin' = u
       /\ local' = [local EXCEPT ![Default] = remote[u][Default]]
       /\ tracked' = remote[u]
       /\ head' = Default
       /\ tree' = FilesOf(remote[u][Default])
    \/ /\ origin # NoUrl
       /\ tracked' \in {tracked, remote[origin]}
       /\ UNCHANGED <<origin, local, head, tree>>

\* The writers that keep a pointer to the mirror, or may, without the manager's mutex.
Running == {w \in Zones : gitPc[w] # "idle"}

\* PUT and DELETE: the row gets its remote_url, and reloadRepo a new mirror if
\* the row is enabled and its clone opens.  The mutex of the manager is taken,
\* that of the mirror is not: a writer may be using the mirror it destroys.
Reload ==
    /\ manager = Nobody /\ ~torn
    /\ \E u \in Urls :
          /\ url' = u
          /\ \/ loaded' = TRUE /\ Open(u)
             \/ loaded' = FALSE /\ UNCHANGED clone
    /\ torn' = (Running # {})
    /\ UNCHANGED <<version, remote, manager, lock, gitPc, built, hasFetched>>

\* pullAll and pullRepo; a fetch that fails is logged.
Pull ==
    /\ manager = Nobody /\ ~torn
    /\ loaded /\ lock = Nobody
    /\ tracked' = remote[origin]
    /\ UNCHANGED <<version, remote, url, origin, local, head, tree, process>>

\* The process dies and starts again: initialize.
GitRestart ==
    /\ \/ loaded' = TRUE /\ Open(url)
       \/ loaded' = FALSE /\ UNCHANGED clone
    /\ manager' = Nobody
    /\ lock' = Nobody
    /\ gitPc' = [w \in Writers |-> "idle"]
    /\ built' = [w \in Writers |-> 0]
    /\ hasFetched' = [w \in Writers |-> FALSE]
    /\ torn' = FALSE
    /\ UNCHANGED <<version, remote, url>>

-----------------------------------------------------------------------------
(* commitZoneSnapshot and writeAndCommit *)

Step(w, s) == gitPc' = [gitPc EXCEPT ![w] = s]

Room == \A b \in Branches : /\ Len(local[b]) < MaxCommits
                            /\ \A u \in Urls : Len(remote[u][b]) < MaxCommits

\* A zone's commit looks the mirror up under the manager's mutex, does nothing
\* if there is none, and else keeps the pointer and gives the mutex back.  The
\* backup task exports the configuration first and holds no mutex meanwhile.
GitBegin(w) ==
    /\ gitPc[w] = "idle"
    /\ Room
    /\ \/ /\ w \in Zones
          /\ manager = Nobody /\ loaded
          /\ Step(w, "probe")
          /\ UNCHANGED built
       \/ /\ w \in Backups
          /\ built' = [built EXCEPT ![w] = version[w]]
          /\ Step(w, "export")
    /\ UNCHANGED <<version, remote, url, clone, loaded, manager, lock, hasFetched, torn>>

\* Leaving commitZoneSnapshot or writeAndCommit.
Finish(w) ==
    /\ Step(w, "idle")
    /\ built' = [built EXCEPT ![w] = 0]
    /\ hasFetched' = [hasFetched EXCEPT ![w] = FALSE]
    /\ manager' = IF manager = w THEN Nobody ELSE manager
    /\ UNCHANGED torn

\* writeAndCommit holds the manager's mutex until it is done, and throws if there
\* is no mirror.
GitEnter(w) ==
    /\ gitPc[w] = "export"
    /\ manager = Nobody
    /\ \/ /\ loaded
          /\ manager' = w
          /\ Step(w, "sync")
          /\ UNCHANGED <<built, hasFetched, torn>>
       \/ /\ ~loaded
          /\ Finish(w)
    /\ UNCHANGED <<version, remote, url, clone, loaded, lock>>

\* The probe finds the remote reachable, or says so from its cache, and the
\* snapshot is built from the rows of now.
GitProbe(w) ==
    /\ gitPc[w] = "probe"
    /\ built' = [built EXCEPT ![w] = version[w]]
    /\ Step(w, "sync")
    /\ UNCHANGED <<version, remote, url, clone, loaded, manager, lock, hasFetched, torn>>

GitUnreachable(w) ==
    /\ gitPc[w] = "probe"
    /\ Finish(w)
    /\ UNCHANGED <<version, remote, url, clone, loaded, lock>>

\* A forced checkout or reset from the files of one commit to those of another
\* leaves alone what neither has: untracked files stay.
Switch(files, from, to) ==
    [p \in Paths |-> IF from[p] = 0 /\ to[p] = 0 THEN files[p] ELSE to[p]]

\* checkoutBranch: the local branch, else the remote's, else one made of HEAD.
Base(b) ==
    IF local[b] # <<>> THEN local[b]
    ELSE IF tracked[b] # <<>> THEN tracked[b] ELSE local[head]

\* Mutant of TakeLock: the mutex is not taken.
TakeNoLock(w) == UNCHANGED lock

TakeLock(w) ==
    /\ lock = Nobody
    /\ lock' = w

\* Mutant of ResetTo: the fetch is not followed by a reset.
ResetToNothing(there, base) == base

\* The reset of the branch to the remote's, if the remote has it.
ResetTo(there, base) == IF there # <<>> THEN there ELSE base

\* commitSnapshot takes the mirror's mutex, checks the branch out, fetches and,
\* if that worked and the remote has the branch, resets to it.
GitSync(w) ==
    LET b    == BranchOf[w]
        base == Base(b)
        out  == Switch(tree, FilesOf(local[head]), FilesOf(base))
    IN  /\ gitPc[w] = "sync"
        /\ TakeLock(w)
        /\ head' = b
        /\ \/ /\ tracked' = remote[origin]
              /\ LET there == ResetTo(remote[origin][b], base)
                 IN  /\ local' = [local EXCEPT ![b] = there]
                     /\ tree' = Switch(out, FilesOf(base), FilesOf(there))
              /\ hasFetched' = [hasFetched EXCEPT ![w] = TRUE]
           \/ /\ local' = [local EXCEPT ![b] = base]
              /\ tree' = out
              /\ hasFetched' = [hasFetched EXCEPT ![w] = FALSE]
              /\ UNCHANGED tracked
        /\ Step(w, "write")
        /\ UNCHANGED <<version, remote, url, origin, loaded, manager, built, torn>>

GitWrite(w) ==
    /\ gitPc[w] = "write"
    /\ tree' = [tree EXCEPT ![w] = built[w]]
    /\ Step(w, "commit")
    /\ UNCHANGED <<version, remote, url, origin, local, tracked, head,
                   loaded, manager, lock, built, hasFetched, torn>>

\* git_index_add_all: whatever is in the working directory is committed.
GitCommit(w) ==
    /\ gitPc[w] = "commit"
    /\ local' = [local EXCEPT ![head] = Append(@, tree)]
    /\ Step(w, "push")
    /\ UNCHANGED <<version, remote, url, origin, tracked, head, tree,
                   loaded, manager, lock, built, hasFetched, torn>>

Unlock == lock' = Nobody

\* Mutant of Accepts: the push is forced.
AcceptsAll(old, new) == TRUE

\* The remote takes the branch if it only adds commits: the push is not forced.
Accepts(old, new) == IsPrefix(old, new)

GitPush(w) ==
    LET b == BranchOf[w]
    IN  /\ gitPc[w] = "push"
        /\ Accepts(remote[origin][b], local[b])
        /\ remote' = [remote EXCEPT ![origin][b] = local[b]]
        /\ tracked' = [tracked EXCEPT ![b] = local[b]]
        /\ head' = Default
        /\ tree' = Switch(tree, FilesOf(local[head]), FilesOf(Base(Default)))
        /\ local' = [local EXCEPT ![Default] = Base(Default)]
        /\ Unlock
        /\ Finish(w)
        /\ UNCHANGED <<version, url, origin, loaded>>

\* The server refuses the reference, which git_remote_push only tells a callback
\* the code does not set: the commit counts as made.
GitPushRefused(w) ==
    /\ gitPc[w] = "push"
    /\ head' = Default
    /\ tree' = Switch(tree, FilesOf(local[head]), FilesOf(Base(Default)))
    /\ local' = [local EXCEPT ![Default] = Base(Default)]
    /\ Unlock
    /\ Finish(w)
    /\ UNCHANGED <<version, remote, url, origin, tracked, loaded>>

\* The push is rejected or does not get through - or does, and the answer does
\* not come back.  The exception leaves the clone on the branch.
GitPushFails(w) ==
    LET b == BranchOf[w]
    IN  /\ gitPc[w] = "push"
        /\ \/ UNCHANGED remote
           \/ /\ Accepts(remote[origin][b], local[b])
              /\ remote' = [remote EXCEPT ![origin][b] = local[b]]
        /\ Unlock
        /\ Finish(w)
        /\ UNCHANGED <<version, url, clone, loaded>>

Commit(w) ==
    \/ GitBegin(w)
    \/ GitEnter(w)
    \/ GitProbe(w)
    \/ GitUnreachable(w)
    \/ GitSync(w)
    \/ GitWrite(w)
    \/ GitCommit(w)
    \/ GitPush(w)
    \/ GitPushRefused(w)
    \/ GitPushFails(w)

-----------------------------------------------------------------------------
(* The rest of the world *)

\* The zone or the configuration is edited, so its next snapshot is another.
Change ==
    /\ \E w \in Writers :
          /\ version[w] < MaxVersion
          /\ version' = [version EXCEPT ![w] = @ + 1]
    /\ UNCHANGED <<remote, url, clone, process>>

\* Another client pushes to a remote.
Foreign ==
    /\ \E u \in Urls, b \in Branches :
          LET files == FilesOf(remote[u][b])
          IN  /\ remote[u][b] # <<>>
              /\ Len(remote[u][b]) < MaxCommits
              /\ files[Outside] < MaxVersion
              /\ remote' = [remote EXCEPT ![u][b] = Append(@, [files EXCEPT ![Outside] = @ + 1])]
    /\ UNCHANGED <<version, url, clone, process>>

GitNext ==
    \/ \E w \in Writers : ~torn /\ Commit(w)
    \/ Reload \/ Pull \/ GitRestart
    \/ Change \/ Foreign

GitSpec == GitInit /\ [][GitNext]_gitVars

-----------------------------------------------------------------------------
(* Properties *)

Ends(w) == gitPc[w] = "push" /\ gitPc'[w] = "idle" /\ ~torn

\* A commit never takes a file of the remote back to an older version, nor away:
\* not the zone's own and not another zone's, not after a failed push or fetch,
\* a restart, or a push of somebody else's.
NothingGoesBack ==
    [][(\E w \in Writers : Ends(w)) =>
          \A u \in Urls, b \in Branches, p \in Paths :
              FilesOf(remote'[u][b])[p] >= FilesOf(remote[u][b])[p]]_gitVars

\* What a push changes is the writer's branch, which then has the snapshot that
\* was built for it: no other writer got between the write and the push.
PushedIsBuilt ==
    [][\A w \in Writers : Ends(w) /\ remote' # remote =>
          /\ FilesOf(remote'[origin][BranchOf[w]])[w] = built[w]
          /\ \A u \in Urls, b \in Branches :
                <<u, b>> # <<origin, BranchOf[w]>> => remote'[u][b] = remote[u][b]]_gitVars

\* A writer whose fetch worked can push, unless the remote has moved since:
\* commits that earlier failed pushes left in the clone are not in its way.
FetchedIsPushable ==
    \A w \in Writers :
        /\ gitPc[w] = "push" /\ hasFetched[w] /\ ~torn
        /\ remote[origin][BranchOf[w]] = tracked[BranchOf[w]]
        => Accepts(remote[origin][BranchOf[w]], local[BranchOf[w]])

\* A writer holds the mirror's mutex from its fetch to its push, and only the
\* backup task is ever inside the manager for longer than a lookup.
LocksHeld ==
    \A w \in Writers : ~torn =>
        /\ gitPc[w] \in {"write", "commit", "push"} <=> lock = w
        /\ w \in Backups /\ gitPc[w] \notin {"idle", "export"} <=> manager = w

\* What must hold of a mirror between any two steps of its writers: the clone of a loaded
\* mirror is whole, its locks keep the writers apart, and no failure of the past keeps a
\* writer from pushing.
GitInv == GitTypeOK /\ LocksHeld /\ FetchedIsPushable
=============================================================================
