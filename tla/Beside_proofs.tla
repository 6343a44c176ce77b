---------------------------- MODULE Beside_proofs -----------------------------
(***************************************************************************)
(* Proofs about what stands beside a deployment: the git mirror and its    *)
(* remotes (GitMirror.tla), the variables a record mentions                *)
(* (Variables.tla), what is asked of a record before it is written         *)
(* (Validator.tla) and the requests that write many (Templates.tla).  The  *)
(* parts share no state and nothing of one is used in the proof of another.*)
(*                                                                         *)
(* A branch of the mirror is a growing history: no commit has an older     *)
(* version of a file than the commit before it.  That is so because a      *)
(* commit takes the working directory, which the reset has filled from the *)
(* branch it extends, and because what a writer puts into its file is      *)
(* newer than anything of that file there is.  An unforced push then       *)
(* cannot take a file back.                                                *)
(***************************************************************************)
EXTENDS GitMirror, Variables, Validator, Templates, FiniteSetTheorems, TLAPS

-----------------------------------------------------------------------------
(* The git mirror and its remotes *)

Files   == [Paths -> 0..MaxVersion]
History == Seq(Files)

-----------------------------------------------------------------------------
(* Histories *)

\* No commit has an older version of a file than one before it.
Grows(s) == \A i, j \in DOMAIN s : i <= j => \A p \in Paths : s[i][p] <= s[j][p]

LEMMA VersionsAre ==
    /\ MaxVersion \in Nat
    /\ \A n \in 0..MaxVersion : n \in Nat
    /\ \A f \in Files, p \in Paths : f[p] \in 0..MaxVersion
BY GitAssumption DEF Files

LEMMA EmptyHistory ==
    /\ NoFiles \in Files /\ <<>> \in History /\ Grows(<<>>)
    /\ FilesOf(<<>>) = NoFiles /\ \A p \in Paths : NoFiles[p] = 0
<1>1. NoFiles \in Files /\ \A p \in Paths : NoFiles[p] = 0
    BY GitAssumption DEF NoFiles, Files
<1>2. <<>> \in History /\ Grows(<<>>)
    BY DEF History, Grows
<1>3. FilesOf(<<>>) = NoFiles
    BY DEF FilesOf
<1> QED BY <1>1, <1>2, <1>3

LEMMA FilesOfType ==
    ASSUME NEW s \in History
    PROVE  /\ FilesOf(s) \in Files
           /\ s # <<>> => FilesOf(s) = s[Len(s)] /\ Len(s) \in DOMAIN s
<1>1. CASE s = <<>>
    BY <1>1, EmptyHistory
<1>2. CASE s # <<>>
  <2>1. Len(s) \in DOMAIN s /\ s[Len(s)] \in Files
      BY <1>2 DEF History
  <2> QED BY <1>2, <2>1 DEF FilesOf, Last
<1> QED BY <1>1, <1>2

\* The last commit of a growing history has the newest versions.
LEMMA LastIsNewest ==
    ASSUME NEW s \in History, Grows(s), NEW i \in DOMAIN s, NEW p \in Paths
    PROVE  s[i][p] <= FilesOf(s)[p]
<1>1. s # <<>> /\ Len(s) \in DOMAIN s /\ i <= Len(s)
    BY DEF History
<1> QED BY <1>1, FilesOfType DEF Grows

LEMMA AppendGrows ==
    ASSUME NEW s \in History, NEW f \in Files
    PROVE  /\ Append(s, f) \in History
           /\ Append(s, f) # <<>>
           /\ FilesOf(Append(s, f)) = f
           /\ Grows(s) /\ (\A p \in Paths : FilesOf(s)[p] <= f[p]) => Grows(Append(s, f))
<1> DEFINE t == Append(s, f)
<1>1. /\ t \in History /\ Len(s) \in Nat /\ Len(t) = Len(s) + 1 /\ DOMAIN t = 1..(Len(s) + 1)
      /\ DOMAIN s = 1..Len(s)
      /\ t[Len(s) + 1] = f /\ \A i \in 1..Len(s) : t[i] = s[i]
  <2>1. Len(s) \in Nat /\ DOMAIN s = 1..Len(s)
      BY DEF History
  <2>2. t \in History /\ Len(t) = Len(s) + 1
      BY DEF History
  <2>3. DOMAIN t = 1..(Len(s) + 1)
      BY <2>2 DEF History
  <2>4. t[Len(s) + 1] = f /\ \A i \in 1..Len(s) : t[i] = s[i]
      BY DEF History
  <2> HIDE DEF t
  <2> QED BY <2>1, <2>2, <2>3, <2>4
<1>2. t # <<>>
  <2>1. Len(t) # 0
      BY <1>1
  <2>2. Len(<<>>) = 0
      OBVIOUS
  <2> HIDE DEF t
  <2> QED BY <2>1, <2>2
<1>3. FilesOf(t) = f
    BY <1>1, <1>2 DEF FilesOf, Last
<1>4. ASSUME Grows(s), \A p \in Paths : FilesOf(s)[p] <= f[p]
      PROVE  Grows(t)
  <2> SUFFICES ASSUME NEW i \in DOMAIN t, NEW j \in DOMAIN t, i <= j, NEW p \in Paths
               PROVE  t[i][p] <= t[j][p]
      BY DEF Grows
  <2> HIDE DEF t
  <2>1. i \in 1..(Len(s) + 1) /\ j \in 1..(Len(s) + 1) /\ Len(s) \in Nat
      BY <1>1
  <2>2. CASE j \in 1..Len(s)
    <3>1. i \in 1..Len(s)
        BY <2>1, <2>2
    <3>2. s[i][p] <= s[j][p]
        BY <1>1, <1>4, <2>2, <3>1 DEF Grows
    <3> QED BY <1>1, <2>2, <3>1, <3>2
  <2>3. CASE j = Len(s) + 1 /\ i \in 1..Len(s)
    <3>1. s[i][p] <= FilesOf(s)[p]
        BY <1>1, <1>4, <2>3, LastIsNewest
    <3>2. FilesOf(s)[p] <= f[p]
        BY <1>4
    <3>3. s[i] \in Files /\ FilesOf(s) \in Files
        BY <1>1, <2>3, FilesOfType DEF History
    <3>4. s[i][p] \in Nat /\ FilesOf(s)[p] \in Nat /\ f[p] \in Nat
        BY <3>3, VersionsAre
    <3> QED BY <1>1, <2>3, <3>1, <3>2, <3>4
  <2>4. CASE j = Len(s) + 1 /\ i = Len(s) + 1
    <3>1. f[p] \in Nat
        BY VersionsAre
    <3> QED BY <1>1, <2>4, <3>1
  <2> QED BY <2>1, <2>2, <2>3, <2>4
<1> QED BY <1>1, <1>2, <1>3, <1>4

LEMMA PrefixIs ==
    ASSUME NEW s \in History, NEW t \in History
    PROVE  /\ IsPrefix(s, s) /\ IsPrefix(<<>>, t)
           /\ IsPrefix(s, t) => /\ Len(s) <= Len(t)
                                /\ \A i \in DOMAIN s : i \in DOMAIN t /\ s[i] = t[i]
           /\ \A f \in Files : IsPrefix(s, t) => IsPrefix(s, Append(t, f))
<1>1. Len(s) \in Nat /\ Len(t) \in Nat /\ DOMAIN s = 1..Len(s) /\ DOMAIN t = 1..Len(t)
    BY DEF History
<1>2. IsPrefix(s, s)
    BY <1>1 DEF IsPrefix, History
<1>3. IsPrefix(<<>>, t)
  <2>1. Len(<<>>) = 0 /\ 0 <= Len(t)
      BY <1>1
  <2>2. SubSeq(<<>>, 1, 0) = SubSeq(t, 1, 0)
      BY DEF History
  <2> QED BY <2>1, <2>2 DEF IsPrefix
<1>4. ASSUME IsPrefix(s, t)
      PROVE  Len(s) <= Len(t) /\ \A i \in DOMAIN s : i \in DOMAIN t /\ s[i] = t[i]
  <2>1. Len(s) <= Len(t) /\ SubSeq(s, 1, Len(s)) = SubSeq(t, 1, Len(s))
      BY <1>4 DEF IsPrefix
  <2>2. \A i \in 1..Len(s) : /\ SubSeq(s, 1, Len(s))[i] = s[i]
                             /\ SubSeq(t, 1, Len(s))[i] = t[i]
      BY <1>1, <2>1 DEF History
  <2> QED BY <1>1, <2>1, <2>2
<1>5. ASSUME NEW f \in Files, IsPrefix(s, t) PROVE IsPrefix(s, Append(t, f))
  <2>1. Len(s) <= Len(t) /\ SubSeq(s, 1, Len(s)) = SubSeq(t, 1, Len(s))
      BY <1>5 DEF IsPrefix
  <2>2. Len(Append(t, f)) = Len(t) + 1 /\ Append(t, f) \in History
      BY DEF History
  <2>3. SubSeq(Append(t, f), 1, Len(s)) = SubSeq(t, 1, Len(s))
      BY <1>1, <2>1 DEF History
  <2> QED BY <1>1, <2>1, <2>2, <2>3 DEF IsPrefix
<1> QED BY <1>2, <1>3, <1>4, <1>5

\* A branch that only got commits more has no file of an older version.
LEMMA LongerIsNewer ==
    ASSUME NEW s \in History, NEW t \in History, IsPrefix(s, t), Grows(t), NEW p \in Paths
    PROVE  /\ FilesOf(s)[p] <= FilesOf(t)[p]
           /\ s # <<>> => t # <<>>
<1>1. CASE s = <<>>
  <2>1. FilesOf(s)[p] = 0 /\ FilesOf(t)[p] \in Nat
      BY <1>1, EmptyHistory, FilesOfType, VersionsAre
  <2> QED BY <1>1, <2>1
<1>2. CASE s # <<>>
  <2>1. FilesOf(s) = s[Len(s)] /\ Len(s) \in DOMAIN s
      BY <1>2, FilesOfType
  <2>2. Len(s) \in DOMAIN t /\ t[Len(s)] = s[Len(s)]
      BY <2>1, PrefixIs
  <2>3. t # <<>>
      BY <2>2
  <2> QED BY <2>1, <2>2, <2>3, LastIsNewest
<1> QED BY <1>1, <1>2

-----------------------------------------------------------------------------
(* The inductive invariant *)

Holding(w) == gitPc[w] \in {"write", "commit", "push"}
Has(w)     == gitPc[w] \in {"export", "sync", "write", "commit", "push"}

\* The newest version of w's file there can be: what w has built is behind all others
\* that were built before, and only w builds them.
Cap(w) == IF Has(w) THEN built[w] ELSE version[w]
Caps   == [w \in Writers |-> Cap(w)]

\* A growing history without a file newer than caps allows.
Sound(s, caps) ==
    /\ s \in History /\ Grows(s)
    /\ \A w \in Writers : FilesOf(s)[w] <= caps[w]

SoundTree(files, caps) == \A w \in Writers : files[w] <= caps[w]

\* Every branch anywhere is one, and the default branch is nowhere empty.
HistoryInv ==
    /\ \A w \in Writers : built[w] <= version[w]
    /\ \A b \in Branches : /\ Sound(local[b], Caps) /\ Sound(tracked[b], Caps)
                           /\ \A u \in Urls : Sound(remote[u][b], Caps)
    /\ SoundTree(tree, Caps)
    /\ \A u \in Urls : remote[u][Default] # <<>>
    /\ origin # NoUrl => local[Default] # <<>>

\* The steps the two kinds of writers can be at, and that they have a mirror.
PlaceInv ==
    \A w \in Writers :
        /\ gitPc[w] = "export" => w \in Backups
        /\ gitPc[w] = "probe" => w \in Zones
        /\ gitPc[w] \notin {"idle", "export"} /\ ~torn => loaded

\* What the holder of the mirror's mutex finds and has done.
Progress(w) ==
    /\ head = BranchOf[w]
    /\ hasFetched[w] => IsPrefix(tracked[BranchOf[w]], local[BranchOf[w]])
    /\ gitPc[w] # "push" => \A p \in Paths : FilesOf(local[BranchOf[w]])[p] <= tree[p]
    /\ gitPc[w] = "commit" => tree[w] = built[w]
    /\ gitPc[w] = "push" => FilesOf(local[BranchOf[w]])[w] = built[w]

HolderInv == \A w \in Writers : Holding(w) /\ ~torn => Progress(w)

GitIInv == GitTypeOK /\ LocksHeld /\ HistoryInv /\ PlaceInv /\ HolderInv

LEMMA PcType ==
    ASSUME GitTypeOK, NEW w \in Writers
    PROVE  gitPc[w] \in {"idle", "probe", "export", "sync", "write", "commit", "push"}
BY DEF GitTypeOK

LEMMA CapsType ==
    ASSUME GitTypeOK
    PROVE  /\ Caps \in [Writers -> 0..MaxVersion]
           /\ \A w \in Writers : Caps[w] \in Nat /\ Caps[w] = Cap(w)
<1>1. \A w \in Writers : Cap(w) \in 0..MaxVersion
    BY DEF Cap, GitTypeOK
<1> QED BY <1>1, VersionsAre DEF Caps

LEMMA HistoryType ==
    ASSUME GitTypeOK
    PROVE  /\ \A b \in Branches : /\ local[b] \in History /\ tracked[b] \in History
                                  /\ \A u \in Urls : remote[u][b] \in History
           /\ tree \in Files
           /\ local \in [Branches -> History] /\ tracked \in [Branches -> History]
           /\ remote \in [Urls -> [Branches -> History]]
BY DEF GitTypeOK, History, Files

\* Sound histories stay so when the caps rise.
LEMMA SoundStays ==
    ASSUME NEW s, NEW caps \in [Writers -> Nat], NEW more \in [Writers -> Nat],
           \A w \in Writers : caps[w] <= more[w], Sound(s, caps)
    PROVE  Sound(s, more)
<1> SUFFICES ASSUME NEW w \in Writers PROVE FilesOf(s)[w] <= more[w]
    BY DEF Sound
<1>1. FilesOf(s)[w] <= caps[w] /\ caps[w] <= more[w] /\ s \in History
    BY DEF Sound
<1>2. FilesOf(s)[w] \in Nat
    BY <1>1, FilesOfType, VersionsAre DEF Paths
<1> QED BY <1>1, <1>2

LEMMA TreeStays ==
    ASSUME NEW f \in Files, NEW caps \in [Writers -> Nat], NEW more \in [Writers -> Nat],
           \A w \in Writers : caps[w] <= more[w], SoundTree(f, caps)
    PROVE  SoundTree(f, more)
<1> SUFFICES ASSUME NEW w \in Writers PROVE f[w] <= more[w]
    BY DEF SoundTree
<1>1. f[w] <= caps[w] /\ caps[w] <= more[w] /\ f[w] \in Nat
    BY VersionsAre DEF SoundTree, Paths
<1> QED BY <1>1

\* A forced checkout gives a tree of the versions it had or those of the target, and
\* none older than the target's.
LEMMA SwitchIs ==
    ASSUME NEW files \in Files, NEW from \in Files, NEW to \in Files
    PROVE  /\ Switch(files, from, to) \in Files
           /\ \A p \in Paths : to[p] <= Switch(files, from, to)[p]
           /\ \A caps \in [Writers -> Nat] :
                SoundTree(files, caps) /\ SoundTree(to, caps) =>
                    SoundTree(Switch(files, from, to), caps)
<1>1. Switch(files, from, to) \in Files
    BY DEF Switch, Files
<1>2. \A p \in Paths : Switch(files, from, to)[p] =
                          IF from[p] = 0 /\ to[p] = 0 THEN files[p] ELSE to[p]
    BY DEF Switch
<1>3. \A p \in Paths : files[p] \in Nat /\ to[p] \in Nat
    BY VersionsAre
<1>4. \A p \in Paths : to[p] <= Switch(files, from, to)[p]
    BY <1>2, <1>3
<1>5. ASSUME NEW caps \in [Writers -> Nat], SoundTree(files, caps), SoundTree(to, caps)
      PROVE  SoundTree(Switch(files, from, to), caps)
    BY <1>2, <1>5 DEF SoundTree, Paths
<1> QED BY <1>1, <1>4, <1>5

LEMMA BaseIs ==
    ASSUME GitTypeOK, NEW b \in Branches
    PROVE  /\ Base(b) \in History
           /\ \E c \in Branches : Base(b) = local[c] \/ Base(b) = tracked[c]
           /\ local[b] # <<>> => Base(b) = local[b]
<1>1. head \in Branches
    BY DEF GitTypeOK
<1>2. \E c \in Branches : Base(b) = local[c] \/ Base(b) = tracked[c]
    BY <1>1 DEF Base
<1> QED BY <1>2, HistoryType DEF Base

\* No step lowers a cap.
CapsRise == \A w \in Writers : Cap(w) <= Cap(w)'

\* What is left to show of a step whose histories are old ones or new and sound.
LEMMA HistoryKept ==
    ASSUME GitTypeOK, GitTypeOK', HistoryInv, CapsRise,
           \A w \in Writers : built'[w] <= version'[w],
           \A b \in Branches : Sound(local'[b], Caps) \/ Sound(local'[b], Caps'),
           \A b \in Branches : Sound(tracked'[b], Caps) \/ Sound(tracked'[b], Caps'),
           \A u \in Urls, b \in Branches :
               Sound(remote'[u][b], Caps) \/ Sound(remote'[u][b], Caps'),
           SoundTree(tree', Caps) \/ SoundTree(tree', Caps'),
           \A u \in Urls : remote'[u][Default] # <<>>,
           origin' # NoUrl => local'[Default] # <<>>
    PROVE  HistoryInv'
<1>1. /\ Caps \in [Writers -> Nat] /\ Caps' \in [Writers -> Nat]
      /\ \A w \in Writers : Caps[w] <= Caps'[w]
  <2>1. Caps \in [Writers -> 0..MaxVersion] /\ \A w \in Writers : Caps[w] \in Nat /\ Caps[w] = Cap(w)
      BY CapsType
  <2>2. \A w \in Writers : Cap(w)' \in 0..MaxVersion
      BY DEF Cap, GitTypeOK
  <2>3. Caps' \in [Writers -> Nat] /\ \A w \in Writers : Caps'[w] = Cap(w)'
      BY <2>2, VersionsAre DEF Caps
  <2> QED BY <2>1, <2>3, VersionsAre DEF CapsRise
<1> DEFINE more == Caps'
<1>2. more \in [Writers -> Nat] /\ \A w \in Writers : Caps[w] <= more[w]
    BY <1>1
<1> HIDE DEF more
<1>3. \A s : Sound(s, Caps) => Sound(s, more)
    BY <1>1, <1>2, SoundStays
<1>4. tree' \in Files /\ (SoundTree(tree', Caps) => SoundTree(tree', more))
  <2>1. \A f \in Files : SoundTree(f, Caps) => SoundTree(f, more)
      BY <1>1, <1>2, TreeStays
  <2>2. tree' \in Files
      BY DEF GitTypeOK, Files
  <2> QED BY <2>1, <2>2
<1>5. more = Caps'
    BY DEF more
<1> QED BY <1>3, <1>4, <1>5 DEF HistoryInv

-----------------------------------------------------------------------------
(* The steps of a writer *)

\* What step w of a writer leaves of the others.
OthersStay(w) ==
    \A v \in Writers : v # w =>
        gitPc'[v] = gitPc[v] /\ built'[v] = built[v] /\ hasFetched'[v] = hasFetched[v]

LEMMA StepIs ==
    ASSUME GitTypeOK, NEW w \in Writers,
           NEW s \in {"idle", "probe", "export", "sync", "write", "commit", "push"}, Step(w, s)
    PROVE  /\ gitPc'[w] = s /\ \A v \in Writers : v # w => gitPc'[v] = gitPc[v]
           /\ gitPc' \in [Writers -> {"idle", "probe", "export", "sync", "write", "commit", "push"}]
BY DEF Step, GitTypeOK

LEMMA FinishIs ==
    ASSUME GitTypeOK, NEW w \in Writers, Finish(w)
    PROVE  /\ gitPc'[w] = "idle" /\ OthersStay(w)
           /\ built'[w] = 0 /\ hasFetched'[w] = FALSE
           /\ gitPc' \in [Writers -> {"idle", "probe", "export", "sync", "write", "commit", "push"}]
           /\ built' \in [Writers -> 0..MaxVersion] /\ hasFetched' \in [Writers -> BOOLEAN]
           /\ manager' \in Writers \cup {Nobody} /\ torn' = torn
           /\ manager' = IF manager = w THEN Nobody ELSE manager
<1>1. Step(w, "idle")
    BY DEF Finish
<1>2. 0 \in 0..MaxVersion
    BY VersionsAre
<1>3. /\ built'[w] = 0 /\ \A v \in Writers : v # w => built'[v] = built[v]
      /\ built' \in [Writers -> 0..MaxVersion]
    BY <1>2 DEF Finish, GitTypeOK
<1>4. /\ hasFetched'[w] = FALSE /\ \A v \in Writers : v # w => hasFetched'[v] = hasFetched[v]
      /\ hasFetched' \in [Writers -> BOOLEAN]
    BY DEF Finish, GitTypeOK
<1>5. /\ manager' \in Writers \cup {Nobody} /\ torn' = torn
      /\ manager' = IF manager = w THEN Nobody ELSE manager
    BY DEF Finish, GitTypeOK
<1> QED BY <1>1, <1>3, <1>4, <1>5, StepIs DEF OthersStay

LEMMA WriterCaps ==
    ASSUME GitTypeOK, GitTypeOK', HistoryInv, NEW w \in Writers, OthersStay(w),
           version' = version,
           \/ Has(w) /\ Has(w)' /\ built'[w] = built[w]
           \/ Has(w)' /\ built'[w] = version[w]
           \/ ~Has(w)'
    PROVE  CapsRise
<1> SUFFICES ASSUME NEW v \in Writers PROVE Cap(v) <= Cap(v)'
    BY DEF CapsRise
<1>1. version[v] \in Nat /\ built[v] \in Nat /\ built[v] <= version[v]
    BY VersionsAre DEF GitTypeOK, HistoryInv
<1>2. CASE v # w
    BY <1>1, <1>2 DEF OthersStay, Cap, Has
<1>3. CASE v = w
    BY <1>1, <1>3 DEF Cap
<1> QED BY <1>2, <1>3

\* Nobody else holds the mutex of a mirror that w holds, or that is free.
LEMMA HoldsAlone ==
    ASSUME LocksHeld, ~torn, NEW w \in Writers, lock \in {w, Nobody},
           NEW v \in Writers, v # w
    PROVE  ~Holding(v)
BY GitAssumption DEF LocksHeld, Holding

\* The histories of a step that does not touch them.
LEMMA HistoryUntouched ==
    ASSUME GitTypeOK, GitTypeOK', HistoryInv, CapsRise, UNCHANGED <<remote, clone>>,
           \A w \in Writers : built'[w] <= version'[w]
    PROVE  HistoryInv'
<1>1. UNCHANGED <<remote, origin, local, tracked, tree>>
    BY DEF clone
<1>2. /\ \A b \in Branches : /\ Sound(local'[b], Caps) /\ Sound(tracked'[b], Caps)
                             /\ \A u \in Urls : Sound(remote'[u][b], Caps)
      /\ SoundTree(tree', Caps)
      /\ \A u \in Urls : remote'[u][Default] # <<>>
      /\ origin' # NoUrl => local'[Default] # <<>>
    BY <1>1 DEF HistoryInv
<1> QED BY <1>2, HistoryKept

\* The steps before a writer has the mirror's mutex.
Lookup(w) == GitBegin(w) \/ GitEnter(w) \/ GitProbe(w) \/ GitUnreachable(w)

LEMMA LookupFrame ==
    ASSUME GitIInv, NEW w \in Writers, Lookup(w), ~torn
    PROVE  /\ GitTypeOK' /\ OthersStay(w) /\ ~Holding(w) /\ ~Holding(w)' /\ ~torn'
           /\ UNCHANGED <<version, remote, url, clone, loaded, lock>>
           /\ gitPc'[w] \in {"idle", "probe", "export", "sync"}
           /\ \/ Has(w) /\ Has(w)' /\ built'[w] = built[w]
              \/ Has(w)' /\ built'[w] = version[w]
              \/ ~Has(w)' /\ built'[w] \in {0, built[w]}
<1>0. GitTypeOK
    BY DEF GitIInv
<1>1. UNCHANGED <<version, remote, url, clone, loaded, lock>>
    BY DEF Lookup, GitBegin, GitEnter, GitProbe, GitUnreachable
<1>2. ASSUME /\ gitPc' \in [Writers -> {"idle", "probe", "export", "sync", "write", "commit", "push"}]
             /\ built' \in [Writers -> 0..MaxVersion] /\ hasFetched' \in [Writers -> BOOLEAN]
             /\ manager' \in Writers \cup {Nobody} /\ torn' = torn
      PROVE  GitTypeOK'
  <2>1. UNCHANGED <<version, remote, url, origin, local, tracked, head, tree, loaded, lock>>
      BY <1>1 DEF clone
  <2> QED BY <1>0, <1>2, <2>1 DEF GitTypeOK
<1>3. CASE GitBegin(w)
  <2>1. CASE Step(w, "probe") /\ UNCHANGED built
    <3>1. UNCHANGED <<built, manager, hasFetched, torn>> /\ gitPc[w] = "idle"
        BY <1>3, <2>1 DEF GitBegin
    <3>2. /\ gitPc'[w] = "probe" /\ \A v \in Writers : v # w => gitPc'[v] = gitPc[v]
          /\ gitPc' \in [Writers -> {"idle", "probe", "export", "sync", "write", "commit", "push"}]
        BY <1>0, <2>1, StepIs
    <3>3. GitTypeOK'
        BY <1>0, <1>2, <3>1, <3>2 DEF GitTypeOK
    <3> QED BY <1>1, <3>1, <3>2, <3>3 DEF OthersStay, Holding, Has
  <2>2. CASE built' = [built EXCEPT ![w] = version[w]] /\ Step(w, "export")
    <3>1. UNCHANGED <<manager, hasFetched, torn>> /\ gitPc[w] = "idle"
        BY <1>3 DEF GitBegin
    <3>2. /\ gitPc'[w] = "export" /\ \A v \in Writers : v # w => gitPc'[v] = gitPc[v]
          /\ gitPc' \in [Writers -> {"idle", "probe", "export", "sync", "write", "commit", "push"}]
        BY <1>0, <2>2, StepIs
    <3>3. /\ built'[w] = version[w] /\ \A v \in Writers : v # w => built'[v] = built[v]
          /\ built' \in [Writers -> 0..MaxVersion]
        BY <1>0, <2>2 DEF GitTypeOK
    <3>4. GitTypeOK'
        BY <1>0, <1>2, <3>1, <3>2, <3>3 DEF GitTypeOK
    <3> QED BY <1>1, <3>1, <3>2, <3>3, <3>4 DEF OthersStay, Holding, Has
  <2> QED BY <1>3, <2>1, <2>2 DEF GitBegin
<1>4. CASE GitEnter(w)
  <2>1. CASE manager' = w /\ Step(w, "sync") /\ UNCHANGED <<built, hasFetched, torn>>
    <3>1. gitPc[w] = "export"
        BY <1>4 DEF GitEnter
    <3>2. /\ gitPc'[w] = "sync" /\ \A v \in Writers : v # w => gitPc'[v] = gitPc[v]
          /\ gitPc' \in [Writers -> {"idle", "probe", "export", "sync", "write", "commit", "push"}]
        BY <1>0, <2>1, StepIs
    <3>3. GitTypeOK'
        BY <1>0, <1>2, <2>1, <3>2 DEF GitTypeOK
    <3> QED BY <1>1, <2>1, <3>1, <3>2, <3>3 DEF OthersStay, Holding, Has
  <2>2. CASE Finish(w)
    <3>1. gitPc[w] = "export"
        BY <1>4 DEF GitEnter
    <3>2. GitTypeOK'
        BY <1>0, <1>2, <2>2, FinishIs
    <3> QED BY <1>0, <1>1, <2>2, <3>1, <3>2, FinishIs DEF Holding, Has
  <2> QED BY <1>4, <2>1, <2>2 DEF GitEnter
<1>5. CASE GitProbe(w)
  <2>1. /\ UNCHANGED <<manager, hasFetched, torn>> /\ gitPc[w] = "probe"
        /\ built' = [built EXCEPT ![w] = version[w]] /\ Step(w, "sync")
      BY <1>5 DEF GitProbe
  <2>2. /\ gitPc'[w] = "sync" /\ \A v \in Writers : v # w => gitPc'[v] = gitPc[v]
        /\ gitPc' \in [Writers -> {"idle", "probe", "export", "sync", "write", "commit", "push"}]
      BY <1>0, <2>1, StepIs
  <2>3. /\ built'[w] = version[w] /\ \A v \in Writers : v # w => built'[v] = built[v]
        /\ built' \in [Writers -> 0..MaxVersion]
      BY <1>0, <2>1 DEF GitTypeOK
  <2>4. GitTypeOK'
      BY <1>0, <1>2, <2>1, <2>2, <2>3 DEF GitTypeOK
  <2> QED BY <1>1, <2>1, <2>2, <2>3, <2>4 DEF OthersStay, Holding, Has
<1>6. CASE GitUnreachable(w)
  <2>1. gitPc[w] = "probe" /\ Finish(w)
      BY <1>6 DEF GitUnreachable
  <2>2. GitTypeOK'
      BY <1>0, <1>2, <2>1, FinishIs
  <2> QED BY <1>0, <1>1, <2>1, <2>2, FinishIs DEF Holding, Has
<1> QED BY <1>3, <1>4, <1>5, <1>6 DEF Lookup

LEMMA LookupKeeps ==
    ASSUME GitIInv, NEW w \in Writers, Lookup(w), ~torn
    PROVE  GitIInv'
<1>1. /\ GitTypeOK /\ GitTypeOK' /\ OthersStay(w) /\ ~Holding(w) /\ ~Holding(w)' /\ ~torn'
      /\ UNCHANGED <<version, remote, url, clone, loaded, lock>>
      /\ gitPc'[w] \in {"idle", "probe", "export", "sync"}
      /\ \/ Has(w) /\ Has(w)' /\ built'[w] = built[w]
         \/ Has(w)' /\ built'[w] = version[w]
         \/ ~Has(w)' /\ built'[w] \in {0, built[w]}
    BY LookupFrame DEF GitIInv
<1>2. HistoryInv'
  <2>1. CapsRise
      BY <1>1, WriterCaps DEF GitIInv
  <2>2. \A v \in Writers : built'[v] <= version'[v]
    <3>1. \A v \in Writers : version[v] \in Nat /\ built[v] \in Nat /\ built[v] <= version[v]
        BY <1>1, VersionsAre DEF GitTypeOK, GitIInv, HistoryInv
    <3> QED BY <1>1, <3>1 DEF OthersStay
  <2> QED BY <1>1, <2>1, <2>2, HistoryUntouched DEF GitIInv
<1>3. /\ gitPc'[w] = "export" => w \in Backups
      /\ gitPc'[w] = "probe" => w \in Zones
      /\ gitPc'[w] \notin {"idle", "export"} => loaded
  <2>1. gitPc'[w] = "sync" => loaded /\ gitPc[w] \in {"export", "probe"}
      BY <1>1, StepIs, FinishIs DEF Lookup, GitBegin, GitEnter, GitProbe, GitUnreachable,
                                   GitIInv, PlaceInv
  <2>2. gitPc'[w] = "probe" => w \in Zones /\ loaded
      BY <1>1, StepIs, FinishIs DEF Lookup, GitBegin, GitEnter, GitProbe, GitUnreachable
  <2>3. gitPc'[w] = "export" => w \in Backups
      BY <1>1, StepIs, FinishIs DEF Lookup, GitBegin, GitEnter, GitProbe, GitUnreachable
  <2> QED BY <1>1, <2>1, <2>2, <2>3
<1>4. PlaceInv'
    BY <1>1, <1>3 DEF GitIInv, PlaceInv, OthersStay
<1>5. LocksHeld'
  <2> SUFFICES ASSUME NEW v \in Writers
               PROVE  /\ (gitPc'[v] \in {"write", "commit", "push"}) <=> (lock' = v)
                      /\ (v \in Backups /\ gitPc'[v] \notin {"idle", "export"}) <=> (manager' = v)
      BY DEF LocksHeld
  <2>1. /\ (gitPc[v] \in {"write", "commit", "push"}) <=> (lock = v)
        /\ (v \in Backups /\ gitPc[v] \notin {"idle", "export"}) <=> (manager = v)
      BY DEF GitIInv, LocksHeld
  <2>2. (gitPc'[v] \in {"write", "commit", "push"}) <=> (lock' = v)
    <3>1. lock' = lock
        BY <1>1
    <3>2. CASE v = w
        BY <1>1, <2>1, <3>1, <3>2 DEF Holding
    <3>3. CASE v # w
        BY <1>1, <2>1, <3>1, <3>3 DEF OthersStay
    <3> QED BY <3>2, <3>3
  <2>3. CASE v # w
    <3>1. (manager' = v) <=> (manager = v)
      <4>1. \/ manager' = manager
            \/ manager \in {w, Nobody} /\ manager' \in {w, Nobody}
          BY DEF Lookup, GitBegin, GitEnter, GitProbe, GitUnreachable, Finish
      <4>2. v # Nobody
          BY GitAssumption
      <4> QED BY <2>3, <4>1, <4>2
    <3> QED BY <1>1, <2>1, <2>2, <2>3, <3>1 DEF OthersStay
  <2>4. CASE v = w
    <3>1. CASE GitBegin(w) \/ GitProbe(w)
      <4>1. manager' = manager /\ gitPc[w] \in {"idle", "probe"}
          BY <3>1 DEF GitBegin, GitProbe
      <4>2. GitProbe(w) => w \in Zones /\ w \notin Backups
          BY GitAssumption DEF GitProbe, GitIInv, PlaceInv
      <4>3. GitBegin(w) => gitPc[w] = "idle" /\ (gitPc'[w] = "export" \/ w \notin Backups)
          BY <1>1, StepIs, GitAssumption DEF GitBegin
      <4> QED BY <2>1, <2>2, <2>4, <3>1, <4>1, <4>2, <4>3
    <3>2. CASE GitEnter(w) /\ ~Finish(w)
      <4>1. manager' = w /\ gitPc'[w] = "sync" /\ w \in Backups
          BY <1>1, <3>2, StepIs DEF GitEnter, GitIInv, PlaceInv
      <4> QED BY <2>2, <2>4, <4>1
    <3>3. CASE Finish(w)
      <4>1. manager' # w /\ gitPc'[w] = "idle"
          BY <1>1, <3>3, FinishIs, GitAssumption
      <4> QED BY <2>2, <2>4, <4>1
    <3> QED BY <3>1, <3>2, <3>3 DEF Lookup, GitUnreachable
  <2> QED BY <2>3, <2>4
<1>6. HolderInv'
  <2> SUFFICES ASSUME NEW v \in Writers, Holding(v)' PROVE Progress(v)'
      BY DEF HolderInv
  <2>1. v # w
      BY <1>1
  <2>2. gitPc'[v] = gitPc[v] /\ built'[v] = built[v] /\ hasFetched'[v] = hasFetched[v]
      BY <1>1, <2>1 DEF OthersStay
  <2>3. Holding(v)
      BY <2>2 DEF Holding
  <2>4. UNCHANGED <<local, tracked, head, tree>>
      BY <1>1 DEF clone
  <2>5. Progress(v)
      BY <2>3 DEF GitIInv, HolderInv
  <2> QED BY <2>2, <2>4, <2>5 DEF Progress
<1> QED BY <1>1, <1>2, <1>4, <1>5, <1>6 DEF GitIInv

\* The mutexes after a step of the writer that takes, holds or gives back the mirror's.
LEMMA HolderLocks ==
    ASSUME LocksHeld, PlaceInv, HolderInv, ~torn, ~torn', loaded' = loaded,
           NEW w \in Writers, OthersStay(w),
           \/ /\ gitPc[w] = "sync" /\ gitPc'[w] = "write"
              /\ lock = Nobody /\ lock' = w /\ manager' = manager
           \/ /\ Holding(w) /\ Holding(w)' /\ UNCHANGED <<lock, manager>>
           \/ /\ gitPc[w] = "push" /\ gitPc'[w] = "idle" /\ lock' = Nobody
              /\ manager' = IF manager = w THEN Nobody ELSE manager,
           Holding(w)' => Progress(w)'
    PROVE  LocksHeld' /\ PlaceInv' /\ HolderInv'
<1>0. /\ Nobody # w /\ \A v \in Writers : v # Nobody
      /\ Holding(w) => lock = w
    BY GitAssumption DEF LocksHeld, Holding
<1>1. lock \in {w, Nobody}
    BY <1>0 DEF Holding
<1>2. ASSUME NEW v \in Writers, v # w
      PROVE  /\ ~Holding(v) /\ ~Holding(v)' /\ lock' # v
             /\ gitPc'[v] = gitPc[v] /\ (manager' = v <=> manager = v)
  <2>1. ~Holding(v) /\ gitPc'[v] = gitPc[v]
      BY <1>1, <1>2, HoldsAlone DEF OthersStay
  <2>2. ~Holding(v)'
      BY <2>1 DEF Holding
  <2>3. lock' # v
      BY <1>0, <1>1, <1>2
  <2>4. manager' = v <=> manager = v
      BY <1>0, <1>2
  <2> QED BY <2>1, <2>2, <2>3, <2>4
<1>3. LocksHeld'
  <2> SUFFICES ASSUME NEW v \in Writers
               PROVE  /\ (gitPc'[v] \in {"write", "commit", "push"}) <=> (lock' = v)
                      /\ (v \in Backups /\ gitPc'[v] \notin {"idle", "export"}) <=> (manager' = v)
      BY DEF LocksHeld
  <2>1. /\ (gitPc[v] \in {"write", "commit", "push"}) <=> (lock = v)
        /\ (v \in Backups /\ gitPc[v] \notin {"idle", "export"}) <=> (manager = v)
      BY DEF LocksHeld
  <2>2. CASE v # w
      BY <1>2, <2>1, <2>2 DEF Holding
  <2>3. CASE v = w
      BY <1>0, <2>1, <2>3 DEF Holding
  <2> QED BY <2>2, <2>3
<1>4. PlaceInv'
  <2> SUFFICES ASSUME NEW v \in Writers
               PROVE  /\ gitPc'[v] = "export" => v \in Backups
                      /\ gitPc'[v] = "probe" => v \in Zones
                      /\ gitPc'[v] \notin {"idle", "export"} => loaded'
      BY DEF PlaceInv
  <2>1. CASE v # w
      BY <1>2, <2>1 DEF PlaceInv
  <2>2. CASE v = w
      BY <2>2 DEF PlaceInv, Holding
  <2> QED BY <2>1, <2>2
<1>5. HolderInv'
    BY <1>2 DEF HolderInv
<1> QED BY <1>3, <1>4, <1>5

LEMMA GitSyncKeeps ==
    ASSUME GitIInv, NEW w \in Writers, GitSync(w), ~torn
    PROVE  GitIInv'
<1> DEFINE b    == BranchOf[w]
           base == Base(b)
           out  == Switch(tree, FilesOf(local[head]), FilesOf(base))
<1>0. GitTypeOK /\ b \in Branches /\ head \in Branches
    BY GitAssumption DEF GitIInv, GitTypeOK
<1>1. /\ gitPc[w] = "sync" /\ lock = Nobody /\ lock' = w /\ head' = b
      /\ Step(w, "write")
      /\ UNCHANGED <<version, remote, url, origin, loaded, manager, built, torn>>
    BY DEF GitSync, TakeLock
<1>2. /\ gitPc'[w] = "write" /\ \A v \in Writers : v # w => gitPc'[v] = gitPc[v]
      /\ gitPc' \in [Writers -> {"idle", "probe", "export", "sync", "write", "commit", "push"}]
    BY <1>0, <1>1, StepIs
<1>3. /\ base \in History /\ Sound(base, Caps)
      /\ local[b] # <<>> => base = local[b]
  <2>1. /\ base \in History /\ \E c \in Branches : base = local[c] \/ base = tracked[c]
        /\ local[b] # <<>> => base = local[b]
      BY <1>0, BaseIs
  <2> HIDE DEF base
  <2> QED BY <2>1 DEF GitIInv, HistoryInv
<1>4. origin \in Urls
    BY <1>1 DEF GitIInv, GitTypeOK, PlaceInv
<1>5. /\ out \in Files /\ SoundTree(out, Caps)
      /\ \A p \in Paths : FilesOf(base)[p] <= out[p]
  <2>1. tree \in Files /\ FilesOf(local[head]) \in Files /\ FilesOf(base) \in Files
      BY <1>0, <1>3, HistoryType, FilesOfType
  <2>2. SoundTree(tree, Caps) /\ SoundTree(FilesOf(base), Caps)
      BY <1>3 DEF GitIInv, HistoryInv, Sound, SoundTree
  <2>3. Caps \in [Writers -> Nat]
      BY <1>0, CapsType, VersionsAre
  <2> HIDE DEF base
  <2> QED BY <2>1, <2>2, <2>3, SwitchIs
<1>6. PICK there \in History, fetched \in BOOLEAN :
         /\ Sound(there, Caps) /\ (local[b] # <<>> /\ ~fetched => there = local[b])
         /\ local' = [local EXCEPT ![b] = there]
         /\ tree' \in Files /\ SoundTree(tree', Caps) /\ \A p \in Paths : FilesOf(there)[p] <= tree'[p]
         /\ hasFetched' = [hasFetched EXCEPT ![w] = fetched]
         /\ IF fetched THEN /\ tracked' = remote[origin]
                            /\ there = IF remote[origin][b] # <<>> THEN remote[origin][b] ELSE base
            ELSE tracked' = tracked
  <2> HIDE DEF base, out
  <2>1. CASE /\ local' = [local EXCEPT ![b] = base] /\ tree' = out
             /\ hasFetched' = [hasFetched EXCEPT ![w] = FALSE] /\ UNCHANGED tracked
      BY <1>3, <1>5, <2>1
  <2>2. CASE /\ tracked' = remote[origin]
             /\ LET there == ResetTo(remote[origin][b], base)
                IN  /\ local' = [local EXCEPT ![b] = there]
                    /\ tree' = Switch(out, FilesOf(base), FilesOf(there))
             /\ hasFetched' = [hasFetched EXCEPT ![w] = TRUE]
    <3> DEFINE there == IF remote[origin][b] # <<>> THEN remote[origin][b] ELSE base
    <3>1. /\ tracked' = remote[origin] /\ local' = [local EXCEPT ![b] = there]
          /\ tree' = Switch(out, FilesOf(base), FilesOf(there))
          /\ hasFetched' = [hasFetched EXCEPT ![w] = TRUE]
        BY <2>2 DEF ResetTo
    <3>2. there \in History /\ Sound(there, Caps)
        BY <1>0, <1>3, <1>4, HistoryType DEF GitIInv, HistoryInv
    <3>3. there = IF remote[origin][b] # <<>> THEN remote[origin][b] ELSE base
        OBVIOUS
    <3> HIDE DEF there
    <3>4. FilesOf(there) \in Files /\ FilesOf(base) \in Files
        BY <1>3, <3>2, FilesOfType
    <3>5. SoundTree(FilesOf(there), Caps) /\ Caps \in [Writers -> Nat]
        BY <1>0, <3>2, CapsType, VersionsAre DEF Sound, SoundTree
    <3>6. /\ tree' \in Files /\ SoundTree(tree', Caps)
          /\ \A p \in Paths : FilesOf(there)[p] <= tree'[p]
        BY <1>5, <3>1, <3>4, <3>5, SwitchIs
    <3> QED BY <3>1, <3>2, <3>3, <3>6
  <2>3. \/ /\ tracked' = remote[origin]
           /\ LET there == ResetTo(remote[origin][b], base)
              IN  /\ local' = [local EXCEPT ![b] = there]
                  /\ tree' = Switch(out, FilesOf(base), FilesOf(there))
           /\ hasFetched' = [hasFetched EXCEPT ![w] = TRUE]
        \/ /\ local' = [local EXCEPT ![b] = base] /\ tree' = out
           /\ hasFetched' = [hasFetched EXCEPT ![w] = FALSE] /\ UNCHANGED tracked
      BY DEF GitSync, base, out
  <2> QED BY <2>1, <2>2, <2>3
<1> HIDE DEF base, out
<1>7. /\ local'[b] = there /\ \A c \in Branches : c # b => local'[c] = local[c]
      /\ local' \in [Branches -> History]
      /\ tracked' \in [Branches -> History]
      /\ \A c \in Branches : Sound(tracked'[c], Caps)
      /\ hasFetched'[w] = fetched /\ \A v \in Writers : v # w => hasFetched'[v] = hasFetched[v]
      /\ hasFetched' \in [Writers -> BOOLEAN]
  <2>1. local'[b] = there /\ (\A c \in Branches : c # b => local'[c] = local[c]) /\ local' \in [Branches -> History]
      BY <1>0, <1>6, HistoryType
  <2>2. tracked' \in [Branches -> History] /\ \A c \in Branches : Sound(tracked'[c], Caps)
      BY <1>0, <1>4, <1>6, HistoryType DEF GitIInv, HistoryInv
  <2>3. /\ hasFetched'[w] = fetched /\ \A v \in Writers : v # w => hasFetched'[v] = hasFetched[v]
        /\ hasFetched' \in [Writers -> BOOLEAN]
      BY <1>0, <1>6 DEF GitTypeOK
  <2> QED BY <2>1, <2>2, <2>3
<1>8. local'[Default] # <<>>
  <2>1. local[Default] # <<>> /\ remote[origin][Default] # <<>>
      BY <1>4, GitAssumption DEF GitIInv, HistoryInv
  <2>2. CASE b = Default
      BY <1>3, <1>6, <1>7, <2>1, <2>2
  <2>3. CASE b # Default
      BY <1>7, <2>1, <2>3, GitAssumption
  <2> QED BY <2>2, <2>3
<1>9. GitTypeOK'
  <2>1. tree' \in Files /\ head' \in Branches /\ lock' \in Writers
      BY <1>0, <1>1, <1>6
  <2> QED BY <1>0, <1>1, <1>2, <1>7, <1>8, <2>1 DEF GitTypeOK, History, Files
<1>10. OthersStay(w)
    BY <1>1, <1>2, <1>7 DEF OthersStay
<1>11. HistoryInv'
  <2>1. CapsRise
      BY <1>0, <1>1, <1>2, <1>9, <1>10, WriterCaps DEF GitIInv, Has
  <2>2. \A c \in Branches : Sound(local'[c], Caps)
      BY <1>6, <1>7 DEF GitIInv, HistoryInv
  <2>3. \A u \in Urls, c \in Branches : Sound(remote'[u][c], Caps)
      BY <1>1 DEF GitIInv, HistoryInv
  <2>4. \A v \in Writers : built'[v] <= version'[v]
      BY <1>1 DEF GitIInv, HistoryInv
  <2>5. \A u \in Urls : remote'[u][Default] # <<>>
      BY <1>1 DEF GitIInv, HistoryInv
  <2> QED BY <1>0, <1>6, <1>7, <1>8, <1>9, <2>1, <2>2, <2>3, <2>4, <2>5, HistoryKept DEF GitIInv
<1>12. Progress(w)'
  <2>1. fetched => IsPrefix(tracked'[b], local'[b])
    <3>1. CASE fetched /\ remote[origin][b] # <<>>
        BY <1>6, <1>7, <3>1, PrefixIs
    <3>2. CASE fetched /\ remote[origin][b] = <<>>
        BY <1>6, <1>7, <3>2, PrefixIs
    <3> QED BY <3>1, <3>2
  <2> QED BY <1>1, <1>2, <1>6, <1>7, <2>1 DEF Progress
<1>13. LocksHeld' /\ PlaceInv' /\ HolderInv'
    BY <1>1, <1>2, <1>10, <1>12, HolderLocks DEF GitIInv
<1> QED BY <1>9, <1>11, <1>13 DEF GitIInv

\* The snapshot is newer than the branch's file, as every file of w is capped by it.
LEMMA GitWriteKeeps ==
    ASSUME GitIInv, NEW w \in Writers, GitWrite(w), ~torn
    PROVE  GitIInv'
<1> DEFINE b == BranchOf[w]
<1>0. GitTypeOK /\ b \in Branches /\ w \in Paths
    BY GitAssumption DEF GitIInv, Paths
<1>1. /\ gitPc[w] = "write" /\ tree' = [tree EXCEPT ![w] = built[w]] /\ Step(w, "commit")
      /\ UNCHANGED <<version, remote, url, origin, local, tracked, head,
                     loaded, manager, lock, built, hasFetched, torn>>
    BY DEF GitWrite
<1>2. /\ gitPc'[w] = "commit" /\ \A v \in Writers : v # w => gitPc'[v] = gitPc[v]
      /\ gitPc' \in [Writers -> {"idle", "probe", "export", "sync", "write", "commit", "push"}]
    BY <1>0, <1>1, StepIs
<1>3. /\ tree' \in Files /\ tree'[w] = built[w]
      /\ \A p \in Paths : p # w => tree'[p] = tree[p]
    BY <1>0, <1>1 DEF GitTypeOK, Files
<1>4. Caps[w] = built[w] /\ \A v \in Writers : Caps[v] \in Nat
    BY <1>0, <1>1, CapsType DEF Cap, Has
<1>5. GitTypeOK'
    BY <1>0, <1>1, <1>2, <1>3 DEF GitTypeOK, Files
<1>6. OthersStay(w)
    BY <1>1, <1>2 DEF OthersStay
<1>7. HistoryInv'
  <2>1. CapsRise
      BY <1>0, <1>1, <1>2, <1>5, <1>6, WriterCaps DEF GitIInv, Has
  <2>2. SoundTree(tree', Caps)
    <3>1. \A v \in Writers : tree[v] <= Caps[v]
        BY DEF GitIInv, HistoryInv, SoundTree
    <3> QED BY <1>3, <1>4, <3>1 DEF SoundTree, Paths
  <2>3. \A c \in Branches : Sound(local'[c], Caps) /\ Sound(tracked'[c], Caps)
      BY <1>1 DEF GitIInv, HistoryInv
  <2>4. \A u \in Urls, c \in Branches : Sound(remote'[u][c], Caps)
      BY <1>1 DEF GitIInv, HistoryInv
  <2>5. /\ \A v \in Writers : built'[v] <= version'[v]
        /\ \A u \in Urls : remote'[u][Default] # <<>>
        /\ origin' # NoUrl => local'[Default] # <<>>
      BY <1>1 DEF GitIInv, HistoryInv
  <2> QED BY <1>0, <1>5, <2>1, <2>2, <2>3, <2>4, <2>5, HistoryKept DEF GitIInv
<1>8. Progress(w)'
  <2>1. Progress(w)
      BY <1>1 DEF GitIInv, HolderInv, Holding
  <2>2. \A p \in Paths : FilesOf(local[b])[p] <= tree[p]
      BY <1>1, <2>1 DEF Progress
  <2>3. FilesOf(local[b])[w] <= built[w]
    <3>1. Sound(local[b], Caps)
        BY <1>0 DEF GitIInv, HistoryInv
    <3> QED BY <1>4, <3>1 DEF Sound
  <2>4. \A p \in Paths : FilesOf(local'[b])[p] <= tree'[p]
      BY <1>1, <1>3, <2>2, <2>3
  <2> QED BY <1>1, <1>2, <1>3, <2>1, <2>4 DEF Progress
<1>9. LocksHeld' /\ PlaceInv' /\ HolderInv'
  <2>1. Holding(w) /\ Holding(w)'
      BY <1>1, <1>2 DEF Holding
  <2> QED BY <1>1, <1>6, <1>8, <2>1, HolderLocks DEF GitIInv
<1> QED BY <1>5, <1>7, <1>9 DEF GitIInv

\* The working directory is no older than the branch it is committed to.
LEMMA GitCommitKeeps ==
    ASSUME GitIInv, NEW w \in Writers, GitCommit(w), ~torn
    PROVE  GitIInv'
<1> DEFINE b    == BranchOf[w]
           more == Append(local[b], tree)
<1>0. GitTypeOK /\ b \in Branches /\ tree \in Files /\ local[b] \in History
    BY GitAssumption, HistoryType DEF GitIInv
<1>1. /\ gitPc[w] = "commit" /\ local' = [local EXCEPT ![head] = Append(@, tree)] /\ Step(w, "push")
      /\ UNCHANGED <<version, remote, url, origin, tracked, head, tree,
                     loaded, manager, lock, built, hasFetched, torn>>
    BY DEF GitCommit
<1>2. /\ gitPc'[w] = "push" /\ \A v \in Writers : v # w => gitPc'[v] = gitPc[v]
      /\ gitPc' \in [Writers -> {"idle", "probe", "export", "sync", "write", "commit", "push"}]
    BY <1>0, <1>1, StepIs
<1>3. Progress(w)
    BY <1>1 DEF GitIInv, HolderInv, Holding
<1>4. /\ more \in History /\ more # <<>> /\ FilesOf(more) = tree /\ Grows(more)
    BY <1>0, <1>1, <1>3, AppendGrows DEF Progress, GitIInv, HistoryInv, Sound
<1>5. Sound(more, Caps)
    BY <1>4 DEF Sound, SoundTree, GitIInv, HistoryInv
<1>6. local' = [local EXCEPT ![b] = more]
    BY <1>1, <1>3 DEF Progress
<1> HIDE DEF more
<1>7. /\ local'[b] = more /\ \A c \in Branches : c # b => local'[c] = local[c]
      /\ local' \in [Branches -> History]
    BY <1>0, <1>4, <1>6, HistoryType
<1>8. local'[Default] # <<>> \/ local'[Default] = local[Default]
    BY <1>4, <1>7, GitAssumption
<1>9. GitTypeOK'
    BY <1>0, <1>1, <1>2, <1>7, <1>8 DEF GitTypeOK, History, Files
<1>10. OthersStay(w)
    BY <1>1, <1>2 DEF OthersStay
<1>11. HistoryInv'
  <2>1. CapsRise
      BY <1>0, <1>1, <1>2, <1>9, <1>10, WriterCaps DEF GitIInv, Has
  <2>2. \A c \in Branches : Sound(local'[c], Caps) /\ Sound(tracked'[c], Caps)
      BY <1>1, <1>5, <1>7 DEF GitIInv, HistoryInv
  <2>3. \A u \in Urls, c \in Branches : Sound(remote'[u][c], Caps)
      BY <1>1 DEF GitIInv, HistoryInv
  <2>4. /\ \A v \in Writers : built'[v] <= version'[v]
        /\ \A u \in Urls : remote'[u][Default] # <<>>
        /\ SoundTree(tree', Caps)
      BY <1>1 DEF GitIInv, HistoryInv
  <2>5. origin' # NoUrl => local'[Default] # <<>>
      BY <1>1, <1>8 DEF GitIInv, HistoryInv
  <2> QED BY <1>0, <1>9, <2>1, <2>2, <2>3, <2>4, <2>5, HistoryKept DEF GitIInv
<1>12. Progress(w)'
  <2>1. hasFetched[w] => IsPrefix(tracked[b], more)
    <3>1. IsPrefix(tracked[b], local[b]) => IsPrefix(tracked[b], Append(local[b], tree))
        BY <1>0, HistoryType, PrefixIs
    <3> QED BY <1>3, <3>1 DEF Progress, more
  <2>2. FilesOf(more)[w] = built[w]
      BY <1>1, <1>3, <1>4 DEF Progress
  <2> QED BY <1>1, <1>2, <1>3, <1>7, <2>1, <2>2 DEF Progress
<1>13. LocksHeld' /\ PlaceInv' /\ HolderInv'
  <2>1. Holding(w) /\ Holding(w)'
      BY <1>1, <1>2 DEF Holding
  <2> QED BY <1>1, <1>10, <1>12, <2>1, HolderLocks DEF GitIInv
<1> QED BY <1>9, <1>11, <1>13 DEF GitIInv

\* Giving up the clone: the default branch is checked out, or nothing is.
GoesHome ==
    /\ head' = Default
    /\ tree' = Switch(tree, FilesOf(local[head]), FilesOf(Base(Default)))
    /\ local' = [local EXCEPT ![Default] = Base(Default)]

StaysThere == UNCHANGED <<head, tree, local>>

LEMMA HomeIs ==
    ASSUME GitIInv, GoesHome \/ StaysThere
    PROVE  /\ head' \in Branches /\ tree' \in Files /\ SoundTree(tree', Caps)
           /\ local' \in [Branches -> History]
           /\ \A c \in Branches : Sound(local'[c], Caps)
           /\ local[Default] # <<>> => local'[Default] # <<>>
<1>0. GitTypeOK /\ Default \in Branches /\ Caps \in [Writers -> Nat] /\ head \in Branches
    BY GitAssumption, CapsType, VersionsAre DEF GitIInv, GitTypeOK
<1>1. CASE StaysThere
  <2>1. UNCHANGED <<head, tree, local>>
      BY <1>1 DEF StaysThere
  <2> QED BY <1>0, <2>1, HistoryType DEF GitIInv, HistoryInv
<1>2. CASE GoesHome
  <2> DEFINE base == Base(Default)
  <2>1. /\ base \in History /\ Sound(base, Caps)
        /\ local[Default] # <<>> => base = local[Default]
    <3>1. /\ base \in History /\ \E c \in Branches : base = local[c] \/ base = tracked[c]
          /\ local[Default] # <<>> => base = local[Default]
        BY <1>0, BaseIs
    <3> HIDE DEF base
    <3> QED BY <3>1 DEF GitIInv, HistoryInv
  <2>2. /\ head' = Default /\ tree' = Switch(tree, FilesOf(local[head]), FilesOf(base))
        /\ local' = [local EXCEPT ![Default] = base]
      BY <1>2 DEF GoesHome
  <2> HIDE DEF base
  <2>3. /\ local'[Default] = base /\ \A c \in Branches : c # Default => local'[c] = local[c]
        /\ local' \in [Branches -> History]
      BY <1>0, <2>1, <2>2, HistoryType
  <2>4. tree' \in Files /\ SoundTree(tree', Caps)
    <3>1. tree \in Files /\ FilesOf(local[head]) \in Files /\ FilesOf(base) \in Files
        BY <1>0, <2>1, HistoryType, FilesOfType
    <3>2. SoundTree(tree, Caps) /\ SoundTree(FilesOf(base), Caps)
        BY <2>1 DEF GitIInv, HistoryInv, Sound, SoundTree
    <3> QED BY <1>0, <2>2, <3>1, <3>2, SwitchIs
  <2>5. \A c \in Branches : Sound(local'[c], Caps)
      BY <2>1, <2>3 DEF GitIInv, HistoryInv
  <2> QED BY <1>0, <2>1, <2>2, <2>3, <2>4, <2>5
<1> QED BY <1>1, <1>2

\* What the remotes have after w's push, if it gets through.
PushesTo(w) ==
    /\ Accepts(remote[origin][BranchOf[w]], local[BranchOf[w]])
    /\ remote' = [remote EXCEPT ![origin][BranchOf[w]] = local[BranchOf[w]]]

LEMMA PushSets ==
    ASSUME GitTypeOK, NEW w \in Writers, origin \in Urls, PushesTo(w)
    PROVE  /\ remote' \in [Urls -> [Branches -> History]]
           /\ remote'[origin][BranchOf[w]] = local[BranchOf[w]]
           /\ \A u \in Urls, b \in Branches :
                <<u, b>> # <<origin, BranchOf[w]>> => remote'[u][b] = remote[u][b]
           /\ IsPrefix(remote[origin][BranchOf[w]], local[BranchOf[w]])
<1> DEFINE b == BranchOf[w]
           s == local[b]
<1>0. b \in Branches /\ s \in History /\ remote \in [Urls -> [Branches -> History]]
    BY GitAssumption, HistoryType
<1>1. remote' = [remote EXCEPT ![origin][b] = s] /\ IsPrefix(remote[origin][b], s)
    BY DEF PushesTo, Accepts
<1> HIDE DEF b, s
<1>2. remote' = [remote EXCEPT ![origin] = [remote[origin] EXCEPT ![b] = s]]
    BY <1>1
<1>3. [remote[origin] EXCEPT ![b] = s] \in [Branches -> History]
    BY <1>0
<1>4. /\ remote' \in [Urls -> [Branches -> History]]
      /\ remote'[origin] = [remote[origin] EXCEPT ![b] = s]
      /\ \A u \in Urls : u # origin => remote'[u] = remote[u]
    BY <1>0, <1>2, <1>3
<1>5. remote'[origin][b] = s /\ \A c \in Branches : c # b => remote'[origin][c] = remote[origin][c]
    BY <1>0, <1>4
<1> QED BY <1>1, <1>4, <1>5 DEF b, s

\* The three ways a push ends.
LEMMA PushEnds ==
    ASSUME GitIInv, NEW w \in Writers, ~torn,
           GitPush(w) \/ GitPushRefused(w) \/ GitPushFails(w)
    PROVE  /\ gitPc[w] = "push" /\ origin \in Urls /\ Unlock /\ Finish(w)
           /\ UNCHANGED <<version, url, origin, loaded>>
           /\ GoesHome \/ StaysThere
           /\ UNCHANGED remote \/ PushesTo(w)
           /\ tracked' = tracked \/ tracked' = [tracked EXCEPT ![BranchOf[w]] = local[BranchOf[w]]]
<1>1. gitPc[w] = "push" /\ Unlock /\ Finish(w)
    BY DEF GitPush, GitPushRefused, GitPushFails
<1>2. UNCHANGED <<version, url, origin, loaded>>
    BY DEF GitPush, GitPushRefused, GitPushFails, clone
<1>3. origin \in Urls
    BY <1>1 DEF GitIInv, GitTypeOK, PlaceInv
<1>4. GoesHome \/ StaysThere
    BY DEF GitPush, GitPushRefused, GitPushFails, clone, GoesHome, StaysThere
<1>5. UNCHANGED remote \/ PushesTo(w)
    BY DEF GitPush, GitPushRefused, GitPushFails, PushesTo
<1>6. tracked' = tracked \/ tracked' = [tracked EXCEPT ![BranchOf[w]] = local[BranchOf[w]]]
    BY DEF GitPush, GitPushRefused, GitPushFails, clone
<1> QED BY <1>1, <1>2, <1>3, <1>4, <1>5, <1>6

LEMMA PushKeeps ==
    ASSUME GitIInv, NEW w \in Writers, ~torn,
           GitPush(w) \/ GitPushRefused(w) \/ GitPushFails(w)
    PROVE  GitIInv'
<1> DEFINE b == BranchOf[w]
<1>0. GitTypeOK /\ b \in Branches /\ Sound(local[b], Caps) /\ local[b] \in History
    BY GitAssumption, HistoryType DEF GitIInv, HistoryInv
<1>1. /\ gitPc[w] = "push" /\ origin \in Urls /\ Unlock /\ Finish(w)
      /\ UNCHANGED <<version, url, origin, loaded>>
      /\ UNCHANGED remote \/ PushesTo(w)
      /\ tracked' = tracked \/ tracked' = [tracked EXCEPT ![b] = local[b]]
    BY PushEnds
<1>2. /\ head' \in Branches /\ tree' \in Files /\ SoundTree(tree', Caps)
      /\ local' \in [Branches -> History]
      /\ \A c \in Branches : Sound(local'[c], Caps)
      /\ local[Default] # <<>> => local'[Default] # <<>>
    BY PushEnds, HomeIs
<1>3. /\ gitPc'[w] = "idle" /\ OthersStay(w) /\ built'[w] = 0
      /\ gitPc' \in [Writers -> {"idle", "probe", "export", "sync", "write", "commit", "push"}]
      /\ built' \in [Writers -> 0..MaxVersion] /\ hasFetched' \in [Writers -> BOOLEAN]
      /\ manager' \in Writers \cup {Nobody} /\ torn' = torn
      /\ manager' = IF manager = w THEN Nobody ELSE manager
    BY <1>0, <1>1, FinishIs
<1>4. tracked' \in [Branches -> History] /\ \A c \in Branches : Sound(tracked'[c], Caps)
  <2>1. tracked \in [Branches -> History] /\ \A c \in Branches : Sound(tracked[c], Caps)
      BY <1>0, HistoryType DEF GitIInv, HistoryInv
  <2>2. CASE tracked' = tracked
      BY <2>1, <2>2
  <2>3. CASE tracked' = [tracked EXCEPT ![b] = local[b]]
    <3>1. tracked'[b] = local[b] /\ \A c \in Branches : c # b => tracked'[c] = tracked[c]
        BY <1>0, <2>1, <2>3
    <3>2. tracked' \in [Branches -> History]
        BY <1>0, <2>1, <2>3
    <3> QED BY <1>0, <2>1, <3>1, <3>2
  <2> QED BY <1>1, <2>2, <2>3
<1>5. /\ remote' \in [Urls -> [Branches -> History]]
      /\ \A u \in Urls, c \in Branches : Sound(remote'[u][c], Caps)
      /\ \A u \in Urls : remote'[u][Default] # <<>>
  <2>1. /\ remote \in [Urls -> [Branches -> History]]
        /\ \A u \in Urls, c \in Branches : Sound(remote[u][c], Caps)
        /\ \A u \in Urls : remote[u][Default] # <<>>
      BY <1>0, HistoryType DEF GitIInv, HistoryInv
  <2>2. CASE UNCHANGED remote
      BY <2>1, <2>2
  <2>3. CASE PushesTo(w)
    <3>1. /\ remote' \in [Urls -> [Branches -> History]] /\ remote'[origin][b] = local[b]
          /\ \A u \in Urls, c \in Branches : <<u, c>> # <<origin, b>> => remote'[u][c] = remote[u][c]
          /\ IsPrefix(remote[origin][b], local[b])
        BY <1>0, <1>1, <2>3, PushSets
    <3>2. remote[origin][b] # <<>> => local[b] # <<>>
        BY <1>0, <1>1, <2>1, <3>1, GitAssumption, LongerIsNewer DEF Sound, Paths
    <3>3. ASSUME NEW u \in Urls PROVE remote'[u][Default] # <<>>
        BY <2>1, <3>1, <3>2, GitAssumption
    <3>4. ASSUME NEW u \in Urls, NEW c \in Branches PROVE Sound(remote'[u][c], Caps)
        BY <1>0, <2>1, <3>1
    <3> QED BY <3>1, <3>3, <3>4
  <2> QED BY <1>1, <2>2, <2>3
<1>6. lock' = Nobody
    BY <1>1 DEF Unlock
<1>7. GitTypeOK'
    BY <1>0, <1>1, <1>2, <1>3, <1>4, <1>5, <1>6 DEF GitTypeOK, History, Files
<1>8. HistoryInv'
  <2>1. CapsRise
      BY <1>0, <1>1, <1>3, <1>7, WriterCaps DEF GitIInv, Has
  <2>2. \A v \in Writers : built'[v] <= version'[v]
    <3>1. \A v \in Writers : version[v] \in Nat /\ built[v] <= version[v]
        BY <1>0, VersionsAre DEF GitTypeOK, GitIInv, HistoryInv
    <3> QED BY <1>1, <1>3, <3>1 DEF OthersStay
  <2>3. origin' # NoUrl => local'[Default] # <<>>
      BY <1>1, <1>2 DEF GitIInv, HistoryInv
  <2> QED BY <1>0, <1>2, <1>4, <1>5, <1>7, <2>1, <2>2, <2>3, HistoryKept DEF GitIInv
<1>9. LocksHeld' /\ PlaceInv' /\ HolderInv'
  <2>1. ~Holding(w)'
      BY <1>3 DEF Holding
  <2> QED BY <1>1, <1>3, <1>6, <2>1, HolderLocks DEF GitIInv
<1> QED BY <1>7, <1>8, <1>9 DEF GitIInv

-----------------------------------------------------------------------------
(* The other steps *)

LEMMA CapsStay ==
    ASSUME GitTypeOK, UNCHANGED <<version, gitPc, built>>
    PROVE  CapsRise
<1> SUFFICES ASSUME NEW w \in Writers PROVE Cap(w) <= Cap(w)'
    BY DEF CapsRise
<1>1. version[w] \in Nat /\ built[w] \in Nat
    BY VersionsAre DEF GitTypeOK
<1>2. Cap(w) \in Nat /\ Cap(w)' = Cap(w)
    BY <1>1 DEF Cap, Has
<1> QED BY <1>2

LEMMA OpenIs ==
    ASSUME GitIInv, NEW u \in Urls, Open(u)
    PROVE  /\ origin' \in Urls /\ head' \in Branches
           /\ local' \in [Branches -> History] /\ tracked' \in [Branches -> History]
           /\ tree' \in Files /\ SoundTree(tree', Caps)
           /\ \A b \in Branches : Sound(local'[b], Caps) /\ Sound(tracked'[b], Caps)
           /\ local'[Default] # <<>>
<1>0. /\ GitTypeOK /\ Default \in Branches
      /\ \A v \in Urls : /\ remote[v] \in [Branches -> History] /\ remote[v][Default] # <<>>
                         /\ \A b \in Branches : Sound(remote[v][b], Caps)
      /\ local \in [Branches -> History] /\ tracked \in [Branches -> History]
      /\ \A b \in Branches : Sound(local[b], Caps) /\ Sound(tracked[b], Caps)
    BY GitAssumption, HistoryType DEF GitIInv, HistoryInv
<1>1. CASE /\ origin = NoUrl /\ origin' = u
           /\ local' = [local EXCEPT ![Default] = remote[u][Default]]
           /\ tracked' = remote[u] /\ head' = Default
           /\ tree' = FilesOf(remote[u][Default])
  <2> DEFINE base == remote[u][Default]
  <2>1. base \in History /\ base # <<>> /\ Sound(base, Caps)
      BY <1>0
  <2>2. local' = [local EXCEPT ![Default] = base] /\ tree' = FilesOf(base)
      BY <1>1
  <2> HIDE DEF base
  <2>3. /\ local'[Default] = base /\ \A b \in Branches : b # Default => local'[b] = local[b]
        /\ local' \in [Branches -> History]
      BY <1>0, <2>1, <2>2
  <2>4. tree' \in Files /\ SoundTree(tree', Caps)
      BY <2>1, <2>2, FilesOfType DEF Sound, SoundTree
  <2>5. tracked' \in [Branches -> History] /\ \A b \in Branches : Sound(tracked'[b], Caps)
      BY <1>0, <1>1
  <2>6. \A b \in Branches : Sound(local'[b], Caps)
      BY <1>0, <2>1, <2>3
  <2> QED BY <1>0, <1>1, <2>1, <2>3, <2>4, <2>5, <2>6
<1>2. CASE /\ origin # NoUrl /\ tracked' \in {tracked, remote[origin]}
           /\ UNCHANGED <<origin, local, head, tree>>
  <2>1. origin \in Urls /\ head \in Branches /\ tree \in Files /\ SoundTree(tree, Caps)
        /\ local[Default] # <<>>
      BY <1>0, <1>2, HistoryType DEF GitTypeOK, GitIInv, HistoryInv
  <2>2. tracked' \in [Branches -> History] /\ \A b \in Branches : Sound(tracked'[b], Caps)
      BY <1>0, <1>2, <2>1
  <2> QED BY <1>0, <1>2, <2>1, <2>2
<1> QED BY <1>1, <1>2 DEF Open

\* A reload and a restart make a mirror or none.
LEMMA MadeOrNone ==
    ASSUME GitIInv, NEW u \in Urls,
           \/ loaded' = TRUE /\ Open(u)
           \/ loaded' = FALSE /\ UNCHANGED clone
    PROVE  /\ origin' \in Urls \cup {NoUrl} /\ head' \in Branches
           /\ local' \in [Branches -> History] /\ tracked' \in [Branches -> History]
           /\ tree' \in Files /\ SoundTree(tree', Caps) /\ loaded' \in BOOLEAN
           /\ \A b \in Branches : Sound(local'[b], Caps) /\ Sound(tracked'[b], Caps)
           /\ origin' # NoUrl => local'[Default] # <<>>
           /\ loaded' => origin' # NoUrl
<1>1. CASE loaded' = TRUE /\ Open(u)
    BY <1>1, OpenIs, GitAssumption
<1>2. CASE loaded' = FALSE /\ UNCHANGED clone
  <2>1. UNCHANGED <<origin, local, tracked, head, tree>>
      BY <1>2 DEF clone
  <2> QED BY <1>2, <2>1, HistoryType DEF GitIInv, GitTypeOK, HistoryInv
<1> QED BY <1>1, <1>2

\* Nobody uses the mirror when the manager's mutex is free and no zone is at its commit.
LEMMA ReloadKeeps ==
    ASSUME GitIInv, Reload
    PROVE  GitIInv'
<1>0. GitTypeOK
    BY DEF GitIInv
<1>1. /\ manager = Nobody /\ ~torn /\ url' \in Urls
      /\ UNCHANGED <<version, remote, manager, lock, gitPc, built, hasFetched>>
    BY DEF Reload
<1>2. /\ origin' \in Urls \cup {NoUrl} /\ head' \in Branches
      /\ local' \in [Branches -> History] /\ tracked' \in [Branches -> History]
      /\ tree' \in Files /\ SoundTree(tree', Caps) /\ loaded' \in BOOLEAN
      /\ \A b \in Branches : Sound(local'[b], Caps) /\ Sound(tracked'[b], Caps)
      /\ origin' # NoUrl => local'[Default] # <<>>
      /\ loaded' => origin' # NoUrl
    BY MadeOrNone DEF Reload
<1>3. torn' = (Running # {})
    BY DEF Reload
<1>4. torn' \in BOOLEAN
    BY <1>3
<1>5. GitTypeOK'
    BY <1>0, <1>1, <1>2, <1>4 DEF GitTypeOK, History, Files
<1>6. HistoryInv'
  <2>1. CapsRise
      BY <1>0, <1>1, CapsStay
  <2>2. \A u \in Urls, b \in Branches : Sound(remote'[u][b], Caps)
      BY <1>1 DEF GitIInv, HistoryInv
  <2>3. /\ \A v \in Writers : built'[v] <= version'[v]
        /\ \A u \in Urls : remote'[u][Default] # <<>>
      BY <1>1 DEF GitIInv, HistoryInv
  <2> QED BY <1>0, <1>2, <1>5, <2>1, <2>2, <2>3, HistoryKept DEF GitIInv
<1>7. ASSUME ~torn', NEW w \in Writers PROVE gitPc[w] \in {"idle", "export"}
  <2>1. CASE w \in Zones
    <3>1. Running = {}
        BY <1>3, <1>7
    <3> QED BY <2>1, <3>1 DEF Running
  <2>2. CASE w \in Backups
      BY <1>1, <2>2, GitAssumption DEF GitIInv, LocksHeld
  <2> QED BY <2>1, <2>2 DEF Writers
<1>8. LocksHeld'
    BY <1>1 DEF GitIInv, LocksHeld
<1>9. PlaceInv'
    BY <1>1, <1>7 DEF GitIInv, PlaceInv
<1>10. HolderInv'
    BY <1>1, <1>7 DEF HolderInv, Holding
<1> QED BY <1>5, <1>6, <1>8, <1>9, <1>10 DEF GitIInv

LEMMA PullKeeps ==
    ASSUME GitIInv, Pull
    PROVE  GitIInv'
<1>0. GitTypeOK /\ origin \in Urls
    BY DEF GitIInv, GitTypeOK, Pull
<1>1. /\ manager = Nobody /\ ~torn /\ lock = Nobody /\ tracked' = remote[origin]
      /\ UNCHANGED <<version, remote, url, origin, local, head, tree,
                     loaded, manager, lock, gitPc, built, hasFetched, torn>>
    BY DEF Pull, process
<1>2. tracked' \in [Branches -> History] /\ \A b \in Branches : Sound(tracked'[b], Caps)
    BY <1>0, <1>1, HistoryType DEF GitIInv, HistoryInv
<1>3. GitTypeOK'
    BY <1>0, <1>1, <1>2 DEF GitTypeOK, History, Files
<1>4. HistoryInv'
  <2>1. CapsRise
      BY <1>0, <1>1, CapsStay
  <2>2. /\ \A b \in Branches : Sound(local'[b], Caps)
        /\ \A u \in Urls, b \in Branches : Sound(remote'[u][b], Caps)
        /\ SoundTree(tree', Caps)
      BY <1>1 DEF GitIInv, HistoryInv
  <2>3. /\ \A v \in Writers : built'[v] <= version'[v]
        /\ \A u \in Urls : remote'[u][Default] # <<>>
        /\ origin' # NoUrl => local'[Default] # <<>>
      BY <1>1 DEF GitIInv, HistoryInv
  <2> QED BY <1>0, <1>2, <1>3, <2>1, <2>2, <2>3, HistoryKept DEF GitIInv
<1>5. ASSUME NEW w \in Writers PROVE ~Holding(w)
    BY <1>1, GitAssumption DEF GitIInv, LocksHeld, Holding
<1>6. LocksHeld' /\ PlaceInv'
    BY <1>1 DEF GitIInv, LocksHeld, PlaceInv
<1>7. HolderInv'
    BY <1>1, <1>5 DEF HolderInv, Holding
<1> QED BY <1>3, <1>4, <1>6, <1>7 DEF GitIInv

LEMMA RestartKeeps ==
    ASSUME GitIInv, GitRestart
    PROVE  GitIInv'
<1>0. GitTypeOK /\ 0 \in 0..MaxVersion
    BY VersionsAre DEF GitIInv
<1>1. /\ manager' = Nobody /\ lock' = Nobody /\ torn' = FALSE
      /\ gitPc' = [w \in Writers |-> "idle"] /\ built' = [w \in Writers |-> 0]
      /\ hasFetched' = [w \in Writers |-> FALSE]
      /\ UNCHANGED <<version, remote, url>>
    BY DEF GitRestart
<1>2. /\ origin' \in Urls \cup {NoUrl} /\ head' \in Branches
      /\ local' \in [Branches -> History] /\ tracked' \in [Branches -> History]
      /\ tree' \in Files /\ SoundTree(tree', Caps) /\ loaded' \in BOOLEAN
      /\ \A b \in Branches : Sound(local'[b], Caps) /\ Sound(tracked'[b], Caps)
      /\ origin' # NoUrl => local'[Default] # <<>>
      /\ loaded' => origin' # NoUrl
  <2>1. url \in Urls
      BY <1>0 DEF GitTypeOK
  <2> QED BY <2>1, MadeOrNone DEF GitRestart
<1>3. \A w \in Writers : gitPc'[w] = "idle" /\ built'[w] = 0
    BY <1>1
<1>4. GitTypeOK'
    BY <1>0, <1>1, <1>2 DEF GitTypeOK, History, Files
<1>5. \A w \in Writers : version[w] \in Nat /\ built[w] \in Nat /\ built[w] <= version[w]
    BY <1>0, VersionsAre DEF GitTypeOK, GitIInv, HistoryInv
<1>6. HistoryInv'
  <2>1. CapsRise
      BY <1>1, <1>3, <1>5 DEF CapsRise, Cap, Has
  <2>2. \A u \in Urls, b \in Branches : Sound(remote'[u][b], Caps)
      BY <1>1 DEF GitIInv, HistoryInv
  <2>3. /\ \A v \in Writers : built'[v] <= version'[v]
        /\ \A u \in Urls : remote'[u][Default] # <<>>
      BY <1>1, <1>3, <1>5 DEF GitIInv, HistoryInv
  <2> QED BY <1>0, <1>2, <1>4, <2>1, <2>2, <2>3, HistoryKept DEF GitIInv
<1>7. LocksHeld'
    BY <1>1, <1>3, GitAssumption DEF LocksHeld
<1>8. PlaceInv' /\ HolderInv'
    BY <1>3 DEF PlaceInv, HolderInv, Holding
<1> QED BY <1>4, <1>6, <1>7, <1>8 DEF GitIInv

LEMMA ChangeKeeps ==
    ASSUME GitIInv, Change
    PROVE  GitIInv'
<1>0. GitTypeOK
    BY DEF GitIInv
<1>1. UNCHANGED <<remote, url, origin, local, tracked, head, tree,
                  loaded, manager, lock, gitPc, built, hasFetched, torn>>
    BY DEF Change, clone, process
<1>2. PICK w \in Writers : version[w] < MaxVersion /\ version' = [version EXCEPT ![w] = @ + 1]
    BY DEF Change
<1>3. \A v \in Writers : version[v] \in Nat /\ built[v] \in Nat /\ built[v] <= version[v]
    BY <1>0, VersionsAre DEF GitTypeOK, GitIInv, HistoryInv
<1>4. /\ version' \in [Writers -> 0..MaxVersion]
      /\ \A v \in Writers : version[v] <= version'[v]
      /\ \A v \in Writers : version'[v] \in Nat
  <2>1. version[w] + 1 \in 0..MaxVersion
      BY <1>2, <1>3, VersionsAre
  <2>2. version \in [Writers -> 0..MaxVersion]
      BY <1>0 DEF GitTypeOK
  <2>3. version' \in [Writers -> 0..MaxVersion]
      BY <1>2, <2>1, <2>2
  <2>4. \A v \in Writers : version'[v] = IF v = w THEN version[v] + 1 ELSE version[v]
      BY <1>2, <2>2
  <2> QED BY <1>3, <2>3, <2>4
<1>5. GitTypeOK'
    BY <1>0, <1>1, <1>4 DEF GitTypeOK
<1>6. HistoryInv'
  <2>1. CapsRise
      BY <1>1, <1>3, <1>4 DEF CapsRise, Cap, Has
  <2>2. \A v \in Writers : built'[v] <= version'[v]
      BY <1>1, <1>3, <1>4
  <2> QED BY <1>0, <1>1, <1>5, <2>1, <2>2, HistoryUntouched DEF GitIInv, clone
<1>7. LocksHeld' /\ PlaceInv'
    BY <1>1 DEF GitIInv, LocksHeld, PlaceInv
<1>8. HolderInv'
    BY <1>1 DEF GitIInv, HolderInv, Holding, Progress
<1> QED BY <1>5, <1>6, <1>7, <1>8 DEF GitIInv

\* A client elsewhere adds a commit that differs in its own file alone.
LEMMA ForeignKeeps ==
    ASSUME GitIInv, Foreign
    PROVE  GitIInv'
<1>0. /\ GitTypeOK /\ remote \in [Urls -> [Branches -> History]]
      /\ \A u \in Urls, b \in Branches : Sound(remote[u][b], Caps)
    BY HistoryType DEF GitIInv, HistoryInv
<1>1. UNCHANGED <<version, url, origin, local, tracked, head, tree,
                  loaded, manager, lock, gitPc, built, hasFetched, torn>>
    BY DEF Foreign, clone, process
<1>2. PICK u \in Urls, b \in Branches :
        /\ FilesOf(remote[u][b])[Outside] < MaxVersion
        /\ remote' = [remote EXCEPT ![u][b] =
              Append(@, [FilesOf(remote[u][b]) EXCEPT ![Outside] = @ + 1])]
    BY DEF Foreign
<1> DEFINE s     == remote[u][b]
           files == FilesOf(s)
           f     == [files EXCEPT ![Outside] = @ + 1]
           t     == Append(s, f)
<1>3. s \in History /\ Sound(s, Caps) /\ files \in Files /\ Outside \in Paths
    BY <1>0, FilesOfType DEF Paths
<1>4. /\ f \in Files /\ \A p \in Paths : files[p] <= f[p]
      /\ \A w \in Writers : f[w] = files[w]
  <2>1. files[Outside] < MaxVersion /\ \A p \in Paths : files[p] \in Nat
    <3>1. files[Outside] < MaxVersion
        BY <1>2
    <3>2. \A p \in Paths : files[p] \in 0..MaxVersion
        BY <1>3, VersionsAre
    <3>3. \A p \in Paths : files[p] \in Nat
      <4> HIDE DEF files, s
      <4> QED BY <3>2, VersionsAre, Zenon
    <3> QED BY <3>1, <3>3
  <2> HIDE DEF files, s
  <2>2. files[Outside] + 1 \in 0..MaxVersion
    <3>1. files[Outside] \in Nat
        BY <1>3, <2>1
    <3> QED BY <2>1, <3>1, VersionsAre
  <2>3. \A p \in Paths : f[p] = IF p = Outside THEN files[p] + 1 ELSE files[p]
      BY <1>3 DEF Files
  <2>4. f \in Files
      BY <1>3, <2>2 DEF Files
  <2>5. \A w \in Writers : w \in Paths /\ w # Outside
      BY GitAssumption DEF Paths
  <2> QED BY <2>1, <2>3, <2>4, <2>5
<1>5. remote' = [remote EXCEPT ![u][b] = t]
    BY <1>2
<1> HIDE DEF f, files, s
<1>6. t \in History /\ t # <<>> /\ Sound(t, Caps)
  <2>1. t \in History /\ t # <<>> /\ FilesOf(t) = f
      BY <1>3, <1>4, AppendGrows
  <2>2. Grows(t)
      BY <1>3, <1>4, AppendGrows DEF Sound, files
  <2>3. \A w \in Writers : f[w] <= Caps[w]
      BY <1>3, <1>4 DEF Sound, files
  <2> QED BY <2>1, <2>2, <2>3 DEF Sound
<1> HIDE DEF t
<1>7. /\ remote' \in [Urls -> [Branches -> History]]
      /\ \A v \in Urls, c \in Branches :
           remote'[v][c] = IF v = u /\ c = b THEN t ELSE remote[v][c]
  <2>1. remote' = [remote EXCEPT ![u] = [remote[u] EXCEPT ![b] = t]]
      BY <1>5
  <2>2. [remote[u] EXCEPT ![b] = t] \in [Branches -> History]
      BY <1>0, <1>6
  <2>3. \A c \in Branches : [remote[u] EXCEPT ![b] = t][c] = IF c = b THEN t ELSE remote[u][c]
      BY <1>0
  <2>4. /\ remote' \in [Urls -> [Branches -> History]]
        /\ remote'[u] = [remote[u] EXCEPT ![b] = t]
        /\ \A v \in Urls : v # u => remote'[v] = remote[v]
      BY <1>0, <2>1, <2>2
  <2> QED BY <2>3, <2>4
<1>8. GitTypeOK'
    BY <1>0, <1>1, <1>7 DEF GitTypeOK, History, Files
<1>9. HistoryInv'
  <2>1. CapsRise
      BY <1>0, <1>1, CapsStay
  <2>2. \A v \in Urls, c \in Branches : Sound(remote'[v][c], Caps)
      BY <1>0, <1>6, <1>7
  <2>3. \A v \in Urls : remote'[v][Default] # <<>>
      BY <1>6, <1>7, GitAssumption DEF GitIInv, HistoryInv
  <2>4. /\ \A c \in Branches : Sound(local'[c], Caps) /\ Sound(tracked'[c], Caps)
        /\ SoundTree(tree', Caps)
        /\ \A v \in Writers : built'[v] <= version'[v]
        /\ origin' # NoUrl => local'[Default] # <<>>
      BY <1>1 DEF GitIInv, HistoryInv
  <2> QED BY <1>0, <1>8, <2>1, <2>2, <2>3, <2>4, HistoryKept DEF GitIInv
<1>10. LocksHeld' /\ PlaceInv'
    BY <1>1 DEF GitIInv, LocksHeld, PlaceInv
<1>11. HolderInv'
    BY <1>1 DEF GitIInv, HolderInv, Holding, Progress
<1> QED BY <1>8, <1>9, <1>10, <1>11 DEF GitIInv
LEMMA GitStarts ==
    ASSUME GitInit
    PROVE  GitIInv
<1> DEFINE first == [NoFiles EXCEPT ![Outside] = 1]
<1>0. /\ 0 \in 0..MaxVersion /\ 1 \in 0..MaxVersion
      /\ Outside \in Paths /\ Default \in Branches
      /\ \A w \in Writers : w \in Paths /\ w # Outside
    BY GitAssumption DEF Paths
<1>1. /\ first \in Files /\ \A w \in Writers : first[w] = 0
  <2>1. NoFiles \in [Paths -> 0..MaxVersion] /\ \A p \in Paths : NoFiles[p] = 0
      BY EmptyHistory DEF Files
  <2> QED BY <1>0, <2>1 DEF Files
<1> HIDE DEF first
<1>2. /\ <<first>> \in History /\ <<first>> # <<>> /\ Grows(<<first>>) /\ FilesOf(<<first>>) = first
  <2>1. <<first>> = Append(<<>>, first)
      OBVIOUS
  <2>2. \A p \in Paths : FilesOf(<<>>)[p] <= first[p]
    <3>1. \A p \in Paths : FilesOf(<<>>)[p] = 0 /\ first[p] \in Nat
        BY <1>1, EmptyHistory, VersionsAre
    <3> QED BY <3>1
  <2> QED BY <1>1, <2>1, <2>2, EmptyHistory, AppendGrows
<1>3. /\ version = [w \in Writers |-> 1] /\ built = [w \in Writers |-> 0]
      /\ gitPc = [w \in Writers |-> "idle"] /\ hasFetched = [w \in Writers |-> FALSE]
      /\ local = [b \in Branches |-> <<>>] /\ tracked = [b \in Branches |-> <<>>]
      /\ url \in Urls /\ origin = NoUrl /\ head = Default /\ tree = NoFiles
      /\ loaded = FALSE /\ manager = Nobody /\ lock = Nobody /\ torn = FALSE
    BY DEF GitInit
<1>4. remote = [u \in Urls |-> [b \in Branches |-> IF b = Default THEN <<first>> ELSE <<>>]]
    BY DEF GitInit, first
<1>5. \A u \in Urls, b \in Branches : remote[u][b] = IF b = Default THEN <<first>> ELSE <<>>
    BY <1>4
<1>6. remote \in [Urls -> [Branches -> History]]
    BY <1>2, <1>4, EmptyHistory
<1>7. GitTypeOK
  <2>1. version \in [Writers -> 0..MaxVersion] /\ built \in [Writers -> 0..MaxVersion]
      BY <1>0, <1>3
  <2>2. tree \in Files /\ local \in [Branches -> History] /\ tracked \in [Branches -> History]
      BY <1>3, EmptyHistory
  <2>3. hasFetched \in [Writers -> BOOLEAN]
        /\ gitPc \in [Writers -> {"idle", "probe", "export", "sync", "write", "commit", "push"}]
      BY <1>3
  <2> QED BY <1>0, <1>3, <1>6, <2>1, <2>2, <2>3 DEF GitTypeOK, History, Files
<1>8. \A w \in Writers : Caps[w] = 1
    BY <1>3 DEF Caps, Cap, Has
<1>9. HistoryInv
  <2>1. \A w \in Writers : built[w] <= version[w]
      BY <1>3
  <2>2. Sound(<<>>, Caps)
      BY <1>0, <1>8, EmptyHistory DEF Sound
  <2>3. Sound(<<first>>, Caps)
      BY <1>1, <1>2, <1>8 DEF Sound
  <2>4. SoundTree(tree, Caps)
      BY <1>0, <1>3, <1>8, EmptyHistory DEF SoundTree
  <2>5. \A b \in Branches : local[b] = <<>> /\ tracked[b] = <<>>
      BY <1>3
  <2>6. \A u \in Urls, b \in Branches : Sound(remote[u][b], Caps)
      BY <1>5, <2>2, <2>3
  <2>7. \A u \in Urls : remote[u][Default] # <<>>
      BY <1>0, <1>2, <1>5
  <2> QED BY <1>3, <2>1, <2>2, <2>4, <2>5, <2>6, <2>7 DEF HistoryInv
<1>10. LocksHeld
    BY <1>3, GitAssumption DEF LocksHeld
<1>11. PlaceInv /\ HolderInv
    BY <1>3 DEF PlaceInv, HolderInv, Holding
<1> QED BY <1>7, <1>9, <1>10, <1>11 DEF GitIInv

LEMMA GitStep ==
    ASSUME GitIInv, [GitNext]_gitVars
    PROVE  GitIInv'
<1>1. CASE \E w \in Writers : ~torn /\ Commit(w)
  <2>1. PICK w \in Writers : ~torn /\ Commit(w)
      BY <1>1
  <2>2. CASE Lookup(w)
      BY <2>1, <2>2, LookupKeeps
  <2>3. CASE GitSync(w)
      BY <2>1, <2>3, GitSyncKeeps
  <2>4. CASE GitWrite(w)
      BY <2>1, <2>4, GitWriteKeeps
  <2>5. CASE GitCommit(w)
      BY <2>1, <2>5, GitCommitKeeps
  <2>6. CASE GitPush(w) \/ GitPushRefused(w) \/ GitPushFails(w)
      BY <2>1, <2>6, PushKeeps
  <2> QED BY <2>1, <2>2, <2>3, <2>4, <2>5, <2>6 DEF Commit, Lookup
<1>2. CASE Reload
    BY <1>2, ReloadKeeps
<1>3. CASE Pull
    BY <1>3, PullKeeps
<1>4. CASE GitRestart
    BY <1>4, RestartKeeps
<1>5. CASE Change
    BY <1>5, ChangeKeeps
<1>6. CASE Foreign
    BY <1>6, ForeignKeeps
<1>7. CASE UNCHANGED gitVars
  <2>1. UNCHANGED <<version, remote, url, origin, local, tracked, head, tree,
                    loaded, manager, lock, gitPc, built, hasFetched, torn>>
      BY <1>7 DEF gitVars, clone, process
  <2>2. GitTypeOK'
      BY <2>1 DEF GitIInv, GitTypeOK
  <2>3. HistoryInv'
    <3>1. CapsRise
        BY <2>1, CapsStay DEF GitIInv
    <3>2. \A w \in Writers : built'[w] <= version'[w]
        BY <2>1 DEF GitIInv, HistoryInv
    <3> QED BY <2>1, <2>2, <3>1, <3>2, HistoryUntouched DEF GitIInv, clone
  <2>4. LocksHeld' /\ PlaceInv'
      BY <2>1 DEF GitIInv, LocksHeld, PlaceInv
  <2>5. HolderInv'
      BY <2>1 DEF GitIInv, HolderInv, Holding, Progress
  <2> QED BY <2>2, <2>3, <2>4, <2>5 DEF GitIInv
<1> QED BY <1>1, <1>2, <1>3, <1>4, <1>5, <1>6, <1>7 DEF GitNext

LEMMA GitHolds == GitSpec => []GitIInv
<1>1. GitInit => GitIInv
    BY GitStarts
<1>2. GitIInv /\ [GitNext]_gitVars => GitIInv'
    BY GitStep
<1> QED BY <1>1, <1>2, PTL DEF GitSpec

\* Between any two steps of its writers a loaded mirror has a whole clone, its mutexes
\* keep the writers apart, and a writer that has fetched can push unless the remote moved.
THEOREM MirrorStaysWhole == GitSpec => []GitInv
<1>1. GitIInv => GitInv
  <2> SUFFICES ASSUME GitIInv PROVE FetchedIsPushable
      BY DEF GitIInv, GitInv
  <2> SUFFICES ASSUME NEW w \in Writers, gitPc[w] = "push", hasFetched[w], ~torn,
                      remote[origin][BranchOf[w]] = tracked[BranchOf[w]]
               PROVE  IsPrefix(remote[origin][BranchOf[w]], local[BranchOf[w]])
      BY DEF FetchedIsPushable, Accepts
  <2> QED BY DEF GitIInv, HolderInv, Holding, Progress
<1> QED BY <1>1, GitHolds, PTL

\* What a step does to the remotes when a writer's commit ends with it.
LEMMA EndingStep ==
    ASSUME GitIInv, [GitNext]_gitVars, NEW w \in Writers, Ends(w)
    PROVE  \/ UNCHANGED remote
           \/ origin \in Urls /\ PushesTo(w)
<1>1. gitPc[w] = "push" /\ gitPc'[w] = "idle" /\ ~torn /\ GitTypeOK
    BY DEF Ends, GitIInv
<1>2. CASE \E v \in Writers : ~torn /\ Commit(v)
  <2>1. PICK v \in Writers : ~torn /\ Commit(v)
      BY <1>2
  <2>2. CASE GitPush(v) \/ GitPushRefused(v) \/ GitPushFails(v)
    <3>1. /\ OthersStay(v) /\ (UNCHANGED remote \/ PushesTo(v)) /\ origin \in Urls
        BY <1>1, <2>2, PushEnds, FinishIs
    <3>2. v = w
        BY <1>1, <3>1 DEF OthersStay
    <3> QED BY <3>1, <3>2
  <2>3. CASE Lookup(v)
      BY <2>3 DEF Lookup, GitBegin, GitEnter, GitProbe, GitUnreachable
  <2>4. CASE GitSync(v) \/ GitWrite(v) \/ GitCommit(v)
      BY <2>4 DEF GitSync, GitWrite, GitCommit
  <2> QED BY <2>1, <2>2, <2>3, <2>4 DEF Commit, Lookup
<1>3. CASE Reload \/ Pull \/ GitRestart
    BY <1>3 DEF Reload, Pull, GitRestart
<1>4. CASE Change \/ Foreign
  <2>1. gitPc' = gitPc
      BY <1>4 DEF Change, Foreign, process
  <2> QED BY <1>1, <2>1
<1>5. CASE UNCHANGED gitVars
    BY <1>5 DEF gitVars
<1> QED BY <1>2, <1>3, <1>4, <1>5 DEF GitNext

\* A push sets the writer's branch to what was built for it and touches no other branch:
\* no other writer got between its write and its push.
THEOREM BranchGetsWhatWasBuilt == GitSpec => PushedIsBuilt
<1>1. ASSUME GitIInv, [GitNext]_gitVars
      PROVE  \A w \in Writers : Ends(w) /\ remote' # remote =>
                 /\ FilesOf(remote'[origin][BranchOf[w]])[w] = built[w]
                 /\ \A u \in Urls, b \in Branches :
                       <<u, b>> # <<origin, BranchOf[w]>> => remote'[u][b] = remote[u][b]
  <2> SUFFICES ASSUME NEW w \in Writers, Ends(w), remote' # remote
               PROVE  /\ FilesOf(remote'[origin][BranchOf[w]])[w] = built[w]
                      /\ \A u \in Urls, b \in Branches :
                            <<u, b>> # <<origin, BranchOf[w]>> => remote'[u][b] = remote[u][b]
      OBVIOUS
  <2>1. origin \in Urls /\ PushesTo(w) /\ GitTypeOK
      BY <1>1, EndingStep DEF GitIInv
  <2>2. /\ remote'[origin][BranchOf[w]] = local[BranchOf[w]]
        /\ \A u \in Urls, b \in Branches :
              <<u, b>> # <<origin, BranchOf[w]>> => remote'[u][b] = remote[u][b]
      BY <2>1, PushSets
  <2>3. FilesOf(local[BranchOf[w]])[w] = built[w]
      BY <1>1 DEF Ends, GitIInv, HolderInv, Holding, Progress
  <2> QED BY <2>2, <2>3
<1> QED BY <1>1, GitHolds, PTL DEF GitSpec, PushedIsBuilt

\* No commit of a snapshot or a backup takes a file of any remote back to an older version
\* or away, whatever failed, restarted or was pushed by others before.
THEOREM RemotesOnlyAdvance == GitSpec => NothingGoesBack
<1>1. ASSUME GitIInv, [GitNext]_gitVars
      PROVE  (\E w \in Writers : Ends(w)) =>
                 \A u \in Urls, b \in Branches, p \in Paths :
                     FilesOf(remote'[u][b])[p] >= FilesOf(remote[u][b])[p]
  <2> SUFFICES ASSUME NEW w \in Writers, Ends(w), NEW u \in Urls, NEW b \in Branches, NEW p \in Paths
               PROVE  FilesOf(remote'[u][b])[p] >= FilesOf(remote[u][b])[p]
      OBVIOUS
  <2>1. GitTypeOK /\ remote[u][b] \in History /\ FilesOf(remote[u][b])[p] \in Nat
      BY <1>1, HistoryType, FilesOfType, VersionsAre DEF GitIInv
  <2>2. CASE UNCHANGED remote
      BY <2>1, <2>2
  <2>3. CASE origin \in Urls /\ PushesTo(w)
    <3> DEFINE c == BranchOf[w]
    <3>1. /\ remote'[origin][c] = local[c]
          /\ \A v \in Urls, d \in Branches : <<v, d>> # <<origin, c>> => remote'[v][d] = remote[v][d]
          /\ IsPrefix(remote[origin][c], local[c])
        BY <2>1, <2>3, PushSets
    <3>2. CASE <<u, b>> = <<origin, c>>
      <4>1. local[c] \in History /\ Grows(local[c]) /\ c \in Branches
          BY <1>1, <2>1, HistoryType, GitAssumption DEF GitIInv, HistoryInv, Sound
      <4>2. u = origin /\ b = c
          BY <3>2
      <4>3. FilesOf(remote[u][b])[p] <= FilesOf(local[c])[p] /\ FilesOf(local[c])[p] \in Nat
          BY <2>1, <3>1, <4>1, <4>2, LongerIsNewer, FilesOfType, VersionsAre
      <4> QED BY <2>1, <3>1, <4>2, <4>3
    <3>3. CASE <<u, b>> # <<origin, c>>
        BY <2>1, <3>1, <3>3
    <3> QED BY <3>2, <3>3
  <2> QED BY <1>1, <2>2, <2>3, EndingStep
<1> QED BY <1>1, GitHolds, PTL DEF GitSpec, NothingGoesBack

-----------------------------------------------------------------------------
(* The variables of a zone and their expansion in a push *)

\* As long as no two requests looked for one name at once, a name found free is free yet,
\* and only one request has found it so.
FreeInv ==
    apart => \A e \in Editors : request[e] # Unresolved =>
        /\ \A v \in variables : v.scope = "global" => v.name # request[e]
        /\ \A f \in Editors : request[f] = request[e] => f = e

\* What the preview has gone through was expanded without the context of a push.
PreviewInv ==
    stage = "preview" =>
        \A i \in DOMAIN expanded : expanded[i] \in [template[i] -> Meanings]

\* While nothing is edited, what a pass has read is what it would read now.
CalmInv ==
    /\ calm /\ stage = "preview" =>
          \A i \in DOMAIN expanded : expanded[i] \in Expand(template[i], {})
    /\ calm /\ stage = "snapshot" =>
          /\ \A i \in Lines : deployed[i] \in Expand(template[i], {})
          /\ \A i \in DOMAIN expanded : expanded[i] \in Stored(i)

VariablesIInv == VariablesTypeOK /\ GlobalsAreOne /\ FreeInv /\ PreviewInv /\ CalmInv

LEMMA DaysAre == MaxDay \in Nat /\ MaxVarId \in Nat /\ 0 \in 0..MaxDay /\ 0 \in 0..MaxVarId
BY VariablesAssumption

\* The rows as the table's constraints have them.
TableIs(rs, n) ==
    /\ rs \subseteq Variable
    /\ \A v \in rs : v.id <= n
    /\ \A v, w \in rs :
         v.id = w.id \/ (v.scope = "zone" /\ w.scope = "zone" /\ v.name = w.name) => v = w

LEMMA VariableIs ==
    ASSUME NEW v \in Variable
    PROVE  /\ v.id \in 1..MaxVarId /\ v.id \in Nat /\ v.name \in VarNames
           /\ v.scope \in {"global", "zone"} /\ v.kind \in {"static", "dynamic"}
           /\ v.text \in VarValues
BY VariablesAssumption DEF Variable

-----------------------------------------------------------------------------
(* Meanings *)

LEMMA MeaningType ==
    ASSUME VariablesTypeOK, NEW n, NEW context \in SUBSET Context
    PROVE  Meaning(n, context) \subseteq Meanings
<1>1. CASE n = "sys.date"
  <2>1. day \in 0..MaxDay
      BY DEF VariablesTypeOK
  <2>2. n \in SystemNames
      BY <1>1 DEF SystemNames
  <2>3. [of |-> n, day |-> day] \in [of : SystemNames, day : 0..MaxDay]
      BY <2>1, <2>2
  <2>4. [of : SystemNames, day : 0..MaxDay] \subseteq Meanings
      BY DEF Meanings
  <2> DEFINE date == [of |-> n, day |-> day]
  <2>5. date \in Meanings
      BY <2>3, <2>4
  <2>6. n \notin Context
      BY <1>1 DEF Context
  <2>7. Meaning(n, context) = {date}
      BY <1>1, <2>6 DEF Meaning
  <2> HIDE DEF date
  <2> QED BY <2>5, <2>7
<1>2. CASE n # "sys.date" /\ n \in Context
  <2>1. \A c \in Context : [of |-> c, day |-> 0] \in Meanings
      BY DaysAre DEF Meanings, SystemNames, Context
  <2>2. Meaning(n, context) = {[of |-> c, day |-> 0] : c \in context \cap {n}}
      BY <1>2 DEF Meaning
  <2> QED BY <2>1, <2>2
<1>3. CASE n # "sys.date" /\ n \notin Context
  <2>1. \A k : Nearest(n, k) \subseteq variables
      BY DEF Nearest, OfKind
  <2>2. \A v \in variables : v.text \in VarValues
      BY VariableIs DEF VariablesTypeOK
  <2>3. \A x \in VarValues : /\ [of |-> "value", value |-> x] \in Meanings
                             /\ [of |-> "time", format |-> x, day |-> day] \in Meanings
      BY DEF Meanings, VariablesTypeOK
  <2>4. Meaning(n, context) =
           IF Nearest(n, "static") # {}
             THEN {[of |-> "value", value |-> v.text] : v \in Nearest(n, "static")}
             ELSE {[of |-> "time", format |-> v.text, day |-> day] : v \in Nearest(n, "dynamic")}
      BY <1>3 DEF Meaning
  <2>5. \A v \in Nearest(n, "static") : [of |-> "value", value |-> v.text] \in Meanings
      BY <2>1, <2>2, <2>3
  <2>6. \A v \in Nearest(n, "dynamic") : [of |-> "time", format |-> v.text, day |-> day] \in Meanings
      BY <2>1, <2>2, <2>3
  <2> QED BY <2>4, <2>5, <2>6
<1> QED BY <1>1, <1>2, <1>3

\* The context of a push only adds meanings.
LEMMA ContextAdds ==
    ASSUME NEW n
    PROVE  Meaning(n, {}) \subseteq Meaning(n, Context)
<1>1. CASE n = "sys.date"
    BY <1>1 DEF Meaning
<1>2. CASE n # "sys.date" /\ n \in Context
    BY <1>2 DEF Meaning
<1>3. CASE n # "sys.date" /\ n \notin Context
    BY <1>3 DEF Meaning
<1> QED BY <1>1, <1>2, <1>3

\* Where global names are unique a name has one meaning at most.
LEMMA OneMeaning ==
    ASSUME VariablesTypeOK, GlobalsAreOne, apart, NEW n, NEW context,
           NEW x \in Meaning(n, context), NEW y \in Meaning(n, context)
    PROVE  x = y
<1>1. \A k : \A v, w \in Nearest(n, k) : v = w
  <2> SUFFICES ASSUME NEW k, NEW v \in Nearest(n, k), NEW w \in Nearest(n, k) PROVE v = w
      OBVIOUS
  <2>1. v \in variables /\ w \in variables /\ v.name = n /\ w.name = n /\ v.scope = w.scope
      BY DEF Nearest, OfKind
  <2>2. v.scope \in {"global", "zone"}
      BY <2>1, VariableIs DEF VariablesTypeOK
  <2>3. CASE v.scope = "zone"
      BY <2>1, <2>3 DEF VariablesTypeOK
  <2>4. CASE v.scope = "global"
      BY <2>1, <2>4 DEF GlobalsAreOne
  <2> QED BY <2>2, <2>3, <2>4
<1>2. CASE n = "sys.date"
    BY <1>2 DEF Meaning
<1>3. CASE n # "sys.date" /\ n \in Context
  <2>1. Meaning(n, context) = {[of |-> c, day |-> 0] : c \in context \cap {n}}
      BY <1>3 DEF Meaning
  <2> QED BY <2>1
<1>4. CASE n # "sys.date" /\ n \notin Context
  <2>1. Meaning(n, context) =
           IF Nearest(n, "static") # {}
             THEN {[of |-> "value", value |-> v.text] : v \in Nearest(n, "static")}
             ELSE {[of |-> "time", format |-> v.text, day |-> day] : v \in Nearest(n, "dynamic")}
      BY <1>4 DEF Meaning
  <2>2. CASE Nearest(n, "static") # {}
    <3>1. PICK v \in Nearest(n, "static") : x = [of |-> "value", value |-> v.text]
        BY <2>1, <2>2
    <3>2. PICK w \in Nearest(n, "static") : y = [of |-> "value", value |-> w.text]
        BY <2>1, <2>2
    <3>3. v = w
        BY <1>1
    <3> QED BY <3>1, <3>2, <3>3
  <2>3. CASE Nearest(n, "static") = {}
    <3>1. PICK v \in Nearest(n, "dynamic") : x = [of |-> "time", format |-> v.text, day |-> day]
        BY <2>1, <2>3
    <3>2. PICK w \in Nearest(n, "dynamic") : y = [of |-> "time", format |-> w.text, day |-> day]
        BY <2>1, <2>3
    <3>3. v = w
        BY <1>1
    <3> QED BY <3>1, <3>2, <3>3
  <2> QED BY <2>2, <2>3
<1> QED BY <1>2, <1>3, <1>4

\* An expansion depends on the variables, the day and the template alone.
LEMMA ExpansionsStay ==
    ASSUME UNCHANGED <<variables, day, template>>
    PROVE  \A i \in Lines : /\ Expand(template[i], {})' = Expand(template[i], {})
                            /\ Stored(i)' = Stored(i)
<1>1. \A n, k : Nearest(n, k)' = Nearest(n, k)
    BY DEF Nearest, OfKind
<1>2. \A n, context : Meaning(n, context)' = Meaning(n, context)
    BY <1>1 DEF Meaning, Context
<1>3. \A t, context : Expand(t, context)' = Expand(t, context)
    BY <1>2 DEF Expand
<1> QED BY <1>3 DEF Stored, Context

LEMMA ExpandIs ==
    ASSUME NEW t, NEW context, NEW x \in Expand(t, context)
    PROVE  /\ x = [n \in t |-> x[n]]
           /\ \A n \in t : x[n] \in Meaning(n, context)
<1>1. /\ x \in [t -> UNION {Meaning(n, context) : n \in t}]
      /\ \A n \in t : x[n] \in Meaning(n, context)
    BY DEF Expand
<1> QED BY <1>1

LEMMA ExpandType ==
    ASSUME VariablesTypeOK, NEW t, NEW context \in SUBSET Context, NEW x \in Expand(t, context)
    PROVE  x \in [t -> Meanings]
<1>1. /\ x = [n \in t |-> x[n]]
      /\ \A n \in t : x[n] \in Meaning(n, context)
    BY ExpandIs
<1>2. \A n \in t : x[n] \in Meanings
    BY <1>1, MeaningType
<1> QED BY <1>1, <1>2

\* With one meaning of every name, what is expanded in a push is what the preview said.
LEMMA SameExpansion ==
    ASSUME VariablesTypeOK, GlobalsAreOne, apart, NEW t,
           NEW x \in Expand(t, {}), NEW y \in Expand(t, Context)
    PROVE  x = y
<1>1. /\ x = [n \in t |-> x[n]] /\ \A n \in t : x[n] \in Meaning(n, {})
      /\ y = [n \in t |-> y[n]] /\ \A n \in t : y[n] \in Meaning(n, Context)
    BY ExpandIs
<1>2. \A n \in t : x[n] \in Meaning(n, Context)
    BY <1>1, ContextAdds
<1>3. \A n \in t : x[n] = y[n]
    BY <1>1, <1>2, OneMeaning
<1> QED BY <1>1, <1>3

LEMMA ExpandsInContext ==
    ASSUME NEW t, NEW x \in Expand(t, {})
    PROVE  x \in Expand(t, Context)
<1>1. x = [n \in t |-> x[n]] /\ \A n \in t : x[n] \in Meaning(n, {})
    BY ExpandIs
<1>2. \A n \in t : x[n] \in Meaning(n, Context)
    BY <1>1, ContextAdds
<1>3. x \in [t -> UNION {Meaning(n, Context) : n \in t}]
    BY <1>1, <1>2
<1> QED BY <1>2, <1>3 DEF Expand

-----------------------------------------------------------------------------
(* The requests *)

LEMMA InsertKeeps ==
    ASSUME VariablesIInv, NEW n \in VarNames, NEW s \in {"global", "zone"},
           NEW k \in {"static", "dynamic"}, NEW x \in VarValues, Insert(n, s, k, x),
           s = "zone" => ~Taken(n, "zone")
    PROVE  /\ TableIs(variables', lastVar') /\ lastVar' \in 0..MaxVarId
           /\ \A v \in variables' : v \in variables \/ (v.name = n /\ v.scope = s)
           /\ \A v, w \in variables' : v \notin variables /\ w \notin variables => v = w
<1> DEFINE new == [id |-> lastVar + 1, name |-> n, scope |-> s, kind |-> k, text |-> x]
<1>0. TableIs(variables, lastVar) /\ lastVar \in 0..MaxVarId /\ lastVar \in Nat
    BY DaysAre DEF VariablesIInv, VariablesTypeOK, TableIs
<1>1. /\ lastVar < MaxVarId /\ lastVar' = lastVar + 1
      /\ variables' = variables \cup {new}
    BY DEF Insert
<1>2. lastVar + 1 \in 1..MaxVarId /\ lastVar' \in 0..MaxVarId
    BY <1>0, <1>1, DaysAre
<1>3. new \in Variable /\ new.id = lastVar + 1 /\ new.name = n /\ new.scope = s
    BY <1>2 DEF Variable
<1> HIDE DEF new
<1>4. \A v \in variables : v \in Variable /\ v.id \in Nat /\ v.id <= lastVar /\ v.id # new.id
    BY <1>0, <1>3, VariableIs DEF TableIs
<1>5. \A v \in variables : ~(v.scope = "zone" /\ new.scope = "zone" /\ v.name = new.name)
    BY <1>3 DEF Taken
<1>6. ASSUME NEW v \in variables', NEW w \in variables',
             v.id = w.id \/ (v.scope = "zone" /\ w.scope = "zone" /\ v.name = w.name)
      PROVE  v = w
  <2>1. CASE v \in variables /\ w \in variables
      BY <1>0, <1>6, <2>1 DEF TableIs
  <2>2. CASE v = new /\ w \in variables
      BY <1>4, <1>5, <1>6, <2>2
  <2>3. CASE v \in variables /\ w = new
      BY <1>4, <1>5, <1>6, <2>3
  <2> QED BY <1>1, <2>1, <2>2, <2>3
<1>7. \A v \in variables' : v \in Variable /\ v.id <= lastVar'
    BY <1>0, <1>1, <1>3, <1>4
<1>8. TableIs(variables', lastVar')
    BY <1>6, <1>7 DEF TableIs
<1> QED BY <1>1, <1>2, <1>3, <1>8

\* What is left to show of a request.
LEMMA RequestKeeps ==
    ASSUME VariablesIInv, TableIs(variables', lastVar'), lastVar' \in 0..MaxVarId,
           request' \in [Editors -> VarNames \cup {Unresolved}],
           UNCHANGED <<day, template, passVars>>,
           calm' = FALSE \/ (calm' = calm /\ variables' = variables),
           apart' \in BOOLEAN, GlobalsAreOne', FreeInv'
    PROVE  VariablesIInv'
<1>1. UNCHANGED <<day, template, stage, expanded, deployed>>
    BY DEF passVars
<1>2. calm' \in BOOLEAN
    BY DEF VariablesIInv, VariablesTypeOK
<1>3. VariablesTypeOK'
    BY <1>1, <1>2 DEF VariablesIInv, VariablesTypeOK, TableIs
<1>4. PreviewInv'
    BY <1>1 DEF VariablesIInv, PreviewInv
<1>5. CalmInv'
  <2>1. CASE calm' = FALSE
      BY <2>1 DEF CalmInv
  <2>2. CASE calm' = calm /\ variables' = variables
    <3>1. CalmInv
        BY DEF VariablesIInv
    <3>2. \A i \in Lines : /\ Expand(template[i], {})' = Expand(template[i], {})
                           /\ Stored(i)' = Stored(i)
        BY <1>1, <2>2, ExpansionsStay
    <3>3. Lines' = Lines /\ DOMAIN expanded \subseteq Lines
        BY DEF Lines, VariablesIInv, VariablesTypeOK
    <3> QED BY <1>1, <2>2, <3>1, <3>2, <3>3 DEF CalmInv
  <2> QED BY <2>1, <2>2
<1> QED BY <1>3, <1>4, <1>5 DEF VariablesIInv

LEMMA VariableRequestKeeps ==
    ASSUME VariablesIInv, VariableRequest
    PROVE  VariablesIInv'
<1>0. /\ VariablesTypeOK /\ GlobalsAreOne /\ FreeInv
      /\ TableIs(variables, lastVar) /\ lastVar \in 0..MaxVarId
      /\ request \in [Editors -> VarNames \cup {Unresolved}] /\ apart \in BOOLEAN
    BY DEF VariablesIInv, VariablesTypeOK, TableIs
<1>1. ASSUME NEW n \in VarNames, NEW e \in Editors, PostGlobal(e, n)
      PROVE  VariablesIInv'
  <2>1. /\ request[e] = Unresolved /\ ~Taken(n, "global")
        /\ request' = [request EXCEPT ![e] = n]
        /\ apart' = (apart /\ \A f \in Editors : request[f] # n)
        /\ UNCHANGED <<variables, lastVar, day, template, passVars, calm>>
      BY <1>1 DEF PostGlobal
  <2>2. /\ request'[e] = n /\ \A f \in Editors : f # e => request'[f] = request[f]
        /\ request' \in [Editors -> VarNames \cup {Unresolved}]
      BY <1>0, <2>1
  <2>3. apart' \in BOOLEAN
      BY <2>1
  <2>4. apart' => apart /\ \A f \in Editors : request[f] # n
      BY <2>1
  <2>5. GlobalsAreOne'
      BY <1>0, <2>1, <2>4 DEF GlobalsAreOne
  <2>6. FreeInv'
    <3> SUFFICES ASSUME apart', NEW f \in Editors, request'[f] # Unresolved
                 PROVE  /\ \A v \in variables' : v.scope = "global" => v.name # request'[f]
                        /\ \A g \in Editors : request'[g] = request'[f] => g = f
        BY DEF FreeInv
    <3>1. apart /\ (\A g \in Editors : request[g] # n) /\ variables' = variables
        BY <2>1, <2>4
    <3>2. CASE f = e
        BY <2>1, <2>2, <3>1, <3>2 DEF Taken
    <3>3. CASE f # e
        BY <1>0, <2>2, <3>1, <3>3 DEF FreeInv
    <3> QED BY <3>2, <3>3
  <2> QED BY <1>0, <2>1, <2>2, <2>3, <2>5, <2>6, RequestKeeps
<1>2. ASSUME NEW k \in {"static", "dynamic"}, NEW x \in VarValues, NEW e \in Editors,
             InsertGlobal(e, k, x)
      PROVE  VariablesIInv'
  <2> DEFINE n == request[e]
  <2>1. /\ n # Unresolved /\ n \in VarNames /\ Insert(n, "global", k, x)
        /\ request' = [request EXCEPT ![e] = Unresolved]
      BY <1>0, <1>2 DEF InsertGlobal
  <2>2. /\ TableIs(variables', lastVar') /\ lastVar' \in 0..MaxVarId
        /\ \A v \in variables' : v \in variables \/ (v.name = n /\ v.scope = "global")
        /\ \A v, w \in variables' : v \notin variables /\ w \notin variables => v = w
      BY <2>1, InsertKeeps
  <2>3. UNCHANGED <<day, template, passVars, apart>> /\ calm' = FALSE
      BY <2>1 DEF Insert
  <2>4. /\ request'[e] = Unresolved /\ \A f \in Editors : f # e => request'[f] = request[f]
        /\ request' \in [Editors -> VarNames \cup {Unresolved}]
      BY <1>0, <2>1
  <2>5. apart => /\ \A v \in variables : v.scope = "global" => v.name # n
                 /\ \A f \in Editors : request[f] = n => f = e
      BY <1>0, <2>1 DEF FreeInv
  <2> HIDE DEF n
  <2>6. GlobalsAreOne'
    <3> SUFFICES ASSUME apart', NEW v \in variables', NEW w \in variables',
                        v.scope = "global", w.scope = "global", v.name = w.name
                 PROVE  v = w
        BY DEF GlobalsAreOne
    <3>1. apart
        BY <2>3
    <3>2. CASE v \in variables /\ w \in variables
        BY <1>0, <3>1, <3>2 DEF GlobalsAreOne
    <3>3. CASE v \notin variables /\ w \in variables
        BY <2>2, <2>5, <3>1, <3>3
    <3>4. CASE v \in variables /\ w \notin variables
        BY <2>2, <2>5, <3>1, <3>4
    <3>5. CASE v \notin variables /\ w \notin variables
        BY <2>2, <3>5
    <3> QED BY <3>2, <3>3, <3>4, <3>5
  <2>7. FreeInv'
    <3> SUFFICES ASSUME apart', NEW f \in Editors, request'[f] # Unresolved
                 PROVE  /\ \A v \in variables' : v.scope = "global" => v.name # request'[f]
                        /\ \A g \in Editors : request'[g] = request'[f] => g = f
        BY DEF FreeInv
    <3>1. apart /\ f # e /\ request'[f] = request[f] /\ request[f] # n
        BY <2>3, <2>4, <2>5
    <3>2. /\ \A v \in variables : v.scope = "global" => v.name # request[f]
          /\ \A g \in Editors : request[g] = request[f] => g = f
        BY <1>0, <2>4, <3>1 DEF FreeInv
    <3> QED BY <2>2, <2>4, <3>1, <3>2
  <2> QED BY <1>0, <2>2, <2>3, <2>4, <2>6, <2>7, RequestKeeps
<1>3. ASSUME NEW k \in {"static", "dynamic"}, NEW x \in VarValues, NEW n \in VarNames,
             PostZone(n, k, x)
      PROVE  VariablesIInv'
  <2>1. ~Taken(n, "zone") /\ Insert(n, "zone", k, x) /\ UNCHANGED request
      BY <1>3 DEF PostZone
  <2>2. /\ TableIs(variables', lastVar') /\ lastVar' \in 0..MaxVarId
        /\ \A v \in variables' : v \in variables \/ (v.name = n /\ v.scope = "zone")
      BY <2>1, InsertKeeps
  <2>3. UNCHANGED <<day, template, passVars, apart>> /\ calm' = FALSE
      BY <2>1 DEF Insert
  <2>4. \A v \in variables' : v.scope = "global" => v \in variables
      BY <2>2
  <2>5. GlobalsAreOne' /\ FreeInv'
      BY <1>0, <2>1, <2>3, <2>4 DEF GlobalsAreOne, FreeInv
  <2> QED BY <1>0, <2>1, <2>2, <2>3, <2>5, RequestKeeps
<1>4. ASSUME NEW v \in variables, DeleteVariable(v)
      PROVE  VariablesIInv'
  <2>1. /\ variables' \subseteq variables /\ calm' = FALSE
        /\ UNCHANGED <<lastVar, request, day, template, passVars, apart>>
      BY <1>4 DEF DeleteVariable
  <2>2. TableIs(variables', lastVar')
      BY <1>0, <2>1 DEF TableIs
  <2>3. GlobalsAreOne' /\ FreeInv'
      BY <1>0, <2>1 DEF GlobalsAreOne, FreeInv
  <2> QED BY <1>0, <2>1, <2>2, <2>3, RequestKeeps
<1>5. ASSUME NEW v \in variables, NEW x \in VarValues, PutVariable(v, x)
      PROVE  VariablesIInv'
  <2> DEFINE new == [v EXCEPT !.text = x]
  <2>1. /\ variables' = (variables \ {v}) \cup {new} /\ calm' = FALSE
        /\ UNCHANGED <<lastVar, request, day, template, passVars, apart>>
      BY <1>5 DEF PutVariable
  <2>2. v \in Variable
      BY <1>0 DEF TableIs
  <2>3. /\ new \in Variable /\ new.id = v.id /\ new.name = v.name /\ new.scope = v.scope
      BY <2>2 DEF Variable
  <2> HIDE DEF new
  \* The row that stands for one of variables'.
  <2> DEFINE Old(w) == IF w = new THEN v ELSE w
  <2>4. \A w \in variables' : /\ Old(w) \in variables /\ w \in Variable
                              /\ w.id = Old(w).id /\ w.name = Old(w).name
                              /\ w.scope = Old(w).scope
      BY <1>0, <2>1, <2>3 DEF TableIs
  <2>5. \A w, u \in variables' : Old(w) = Old(u) => w = u
      BY <2>1
  <2> HIDE DEF Old
  <2>6. TableIs(variables', lastVar')
    <3>1. \A w \in variables' : w \in Variable /\ w.id <= lastVar'
        BY <1>0, <2>1, <2>4 DEF TableIs
    <3>2. \A w, u \in variables' :
             w.id = u.id \/ (w.scope = "zone" /\ u.scope = "zone" /\ w.name = u.name) => w = u
      <4> SUFFICES ASSUME NEW w \in variables', NEW u \in variables',
                          w.id = u.id \/ (w.scope = "zone" /\ u.scope = "zone" /\ w.name = u.name)
                   PROVE  w = u
          OBVIOUS
      <4>1. Old(w) = Old(u)
          BY <1>0, <2>4 DEF TableIs
      <4> QED BY <2>5, <4>1
    <3> QED BY <3>1, <3>2 DEF TableIs
  <2>7. GlobalsAreOne'
    <3> SUFFICES ASSUME apart', NEW w \in variables', NEW u \in variables',
                        w.scope = "global", u.scope = "global", w.name = u.name
                 PROVE  w = u
        BY DEF GlobalsAreOne
    <3>1. Old(w) = Old(u)
        BY <1>0, <2>1, <2>4 DEF GlobalsAreOne
    <3> QED BY <2>5, <3>1
  <2>8. FreeInv'
      BY <1>0, <2>1, <2>4 DEF FreeInv
  <2> QED BY <1>0, <2>1, <2>6, <2>7, <2>8, RequestKeeps
<1> QED BY <1>1, <1>2, <1>3, <1>4, <1>5 DEF VariableRequest

-----------------------------------------------------------------------------
(* The push *)

\* What a record's expansion adds to the pass.
LEMMA WithAdds ==
    ASSUME VariablesTypeOK, NEW i \in Lines, NEW x, expanded' = With(i, x)
    PROVE  /\ DOMAIN expanded' = DOMAIN expanded \cup {i} /\ DOMAIN expanded' \subseteq Lines
           /\ \A j \in DOMAIN expanded' : expanded'[j] = x \/ expanded'[j] = expanded[j]
           /\ \A j \in DOMAIN expanded' : j # i => j \in DOMAIN expanded /\ expanded'[j] = expanded[j]
           /\ expanded'[i] = x
           /\ x \in Expansions =>
                \E done \in SUBSET Lines : expanded' \in [done -> Expansions]
<1>1. PICK done \in SUBSET Lines : expanded \in [done -> Expansions]
    BY DEF VariablesTypeOK
<1>2. /\ DOMAIN expanded' = done \cup {i}
      /\ \A j \in done \cup {i} : expanded'[j] = IF j = i THEN x ELSE expanded[j]
      /\ expanded' = [j \in done \cup {i} |-> IF j = i THEN x ELSE expanded[j]]
    BY <1>1 DEF With
<1>3. x \in Expansions => expanded' \in [done \cup {i} -> Expansions]
    BY <1>1, <1>2
<1>4. done \cup {i} \in SUBSET Lines
    BY <1>1
<1> QED BY <1>1, <1>2, <1>3, <1>4

LEMMA NothingExpanded ==
    ASSUME expanded' = <<>>
    PROVE  /\ \E done \in SUBSET Lines : expanded' \in [done -> Expansions]
           /\ \A i : i \notin DOMAIN expanded'
<1>1. {} \in SUBSET Lines /\ <<>> \in [{} -> Expansions]
    OBVIOUS
<1>2. DOMAIN <<>> = {}
    OBVIOUS
<1> QED BY <1>1, <1>2

\* What is left to show of a step of the push.
LEMMA PassKeeps ==
    ASSUME VariablesIInv, UNCHANGED <<rowVars, day, template>>, calm' \in BOOLEAN,
           stage' \in {"idle", "preview", "snapshot"},
           \E done \in SUBSET Lines : expanded' \in [done -> Expansions],
           deployed' \in [Lines -> Expansions],
           \A i \in Lines : (deployed'[i] = Unresolved) = (stage' # "snapshot"),
           PreviewInv', CalmInv'
    PROVE  VariablesIInv'
<1>1. UNCHANGED <<variables, lastVar, request, apart, day, template>>
    BY DEF rowVars
<1>2. VariablesTypeOK'
    BY <1>1 DEF VariablesIInv, VariablesTypeOK
<1>3. GlobalsAreOne' /\ FreeInv'
    BY <1>1 DEF VariablesIInv, GlobalsAreOne, FreeInv
<1> QED BY <1>2, <1>3 DEF VariablesIInv

\* The same of a step that leaves the push at its preview, or ends or begins it.
LEMMA RawKeeps ==
    ASSUME VariablesIInv, UNCHANGED <<rowVars, day, template, deployed>>, calm' \in BOOLEAN,
           stage # "snapshot", stage' \in {"idle", "preview"},
           \E done \in SUBSET Lines : expanded' \in [done -> Expansions],
           PreviewInv', CalmInv'
    PROVE  VariablesIInv'
<1>1. /\ deployed' \in [Lines -> Expansions]
      /\ \A i \in Lines : (deployed'[i] = Unresolved) = (stage' # "snapshot")
  <2>1. deployed' = deployed /\ stage' # "snapshot"
      OBVIOUS
  <2> QED BY <2>1 DEF VariablesIInv, VariablesTypeOK
<1> QED BY <1>1, PassKeeps

LEMMA PreviewKeeps ==
    ASSUME VariablesIInv, NEW i \in Lines, PreviewLine(i)
    PROVE  VariablesIInv'
<1>0. VariablesTypeOK /\ PreviewInv /\ CalmInv /\ calm \in BOOLEAN
    BY DEF VariablesIInv, VariablesTypeOK
<1>1. PICK x \in Expand(template[i], {}) : expanded' = With(i, x)
    BY DEF PreviewLine
<1>2. /\ stage = "preview" /\ stage' = "preview" /\ calm' = calm
      /\ UNCHANGED <<rowVars, day, template, deployed>>
      /\ UNCHANGED <<variables, day, template>>
    BY DEF PreviewLine, rowVars
<1>3. x \in [template[i] -> Meanings] /\ template[i] \in Texts
    BY <1>0, ExpandType DEF VariablesTypeOK
<1>4. x \in Expansions
    BY <1>3 DEF Expansions
<1>5. /\ DOMAIN expanded' = DOMAIN expanded \cup {i} /\ DOMAIN expanded' \subseteq Lines
      /\ \A j \in DOMAIN expanded' : j # i => j \in DOMAIN expanded /\ expanded'[j] = expanded[j]
      /\ expanded'[i] = x
      /\ \E done \in SUBSET Lines : expanded' \in [done -> Expansions]
    BY <1>0, <1>1, <1>4, WithAdds
<1>6. PreviewInv'
    BY <1>0, <1>2, <1>3, <1>5 DEF PreviewInv
<1>7. \A j \in Lines : Expand(template[j], {})' = Expand(template[j], {})
    BY <1>2, ExpansionsStay
<1>8. CalmInv'
  <2>1. calm => \A j \in DOMAIN expanded' : expanded'[j] \in Expand(template[j], {})
      BY <1>0, <1>1, <1>2, <1>5 DEF CalmInv
  <2> QED BY <1>2, <1>5, <1>7, <2>1 DEF CalmInv
<1> QED BY <1>0, <1>2, <1>5, <1>6, <1>8, RawKeeps

LEMMA SnapshotKeeps ==
    ASSUME VariablesIInv, NEW i \in Lines, SnapshotLine(i)
    PROVE  VariablesIInv'
<1>0. VariablesTypeOK /\ PreviewInv /\ CalmInv /\ calm \in BOOLEAN
    BY DEF VariablesIInv, VariablesTypeOK
<1>1. PICK x \in Stored(i) : expanded' = With(i, x)
    BY DEF SnapshotLine
<1>2. /\ stage = "snapshot" /\ stage' = "snapshot" /\ calm' = calm /\ deployed' = deployed
      /\ UNCHANGED <<rowVars, day, template>>
      /\ UNCHANGED <<variables, day, template>>
    BY DEF SnapshotLine, rowVars
<1>3. x \in Expansions
  <2>1. CASE x = Unresolved
      BY <2>1 DEF Expansions
  <2>2. CASE x # Unresolved
    <3>1. x \in Expand(template[i], Context) /\ template[i] \in Texts
        BY <1>0, <1>1, <2>2 DEF Stored, VariablesTypeOK
    <3>2. x \in [template[i] -> Meanings]
        BY <1>0, <3>1, ExpandType
    <3> QED BY <3>1, <3>2 DEF Expansions
  <2> QED BY <2>1, <2>2
<1>4. /\ DOMAIN expanded' = DOMAIN expanded \cup {i} /\ DOMAIN expanded' \subseteq Lines
      /\ \A j \in DOMAIN expanded' : j # i => j \in DOMAIN expanded /\ expanded'[j] = expanded[j]
      /\ expanded'[i] = x
      /\ \E done \in SUBSET Lines : expanded' \in [done -> Expansions]
    BY <1>0, <1>1, <1>3, WithAdds
<1>5. PreviewInv'
    BY <1>2 DEF PreviewInv
<1>6. \A j \in Lines : /\ Expand(template[j], {})' = Expand(template[j], {})
                       /\ Stored(j)' = Stored(j)
    BY <1>2, ExpansionsStay
<1>7. CalmInv'
  <2>1. calm => /\ \A j \in DOMAIN expanded' : expanded'[j] \in Stored(j)
                /\ \A j \in Lines : deployed[j] \in Expand(template[j], {})
      BY <1>0, <1>1, <1>2, <1>4 DEF CalmInv
  <2>2. Lines' = Lines
      BY DEF Lines
  <2> QED BY <1>2, <1>4, <1>6, <2>1, <2>2 DEF CalmInv
<1>8. /\ deployed' \in [Lines -> Expansions]
      /\ \A j \in Lines : (deployed'[j] = Unresolved) = (stage' # "snapshot")
    BY <1>0, <1>2 DEF VariablesTypeOK
<1> QED BY <1>0, <1>2, <1>4, <1>5, <1>7, <1>8, PassKeeps

LEMMA DeployKeeps ==
    ASSUME VariablesIInv, Deploys
    PROVE  VariablesIInv'
<1>0. VariablesTypeOK /\ PreviewInv /\ CalmInv /\ calm \in BOOLEAN
    BY DEF VariablesIInv, VariablesTypeOK
<1>1. /\ stage = "preview" /\ stage' = "snapshot" /\ calm' = calm
      /\ deployed' = expanded /\ expanded' = <<>> /\ Rest = {}
      /\ UNCHANGED <<rowVars, day, template>>
      /\ UNCHANGED <<variables, day, template>>
    BY DEF Deploys, rowVars
<1>2. DOMAIN expanded = Lines /\ expanded \in [Lines -> Expansions]
  <2>1. PICK done \in SUBSET Lines : expanded \in [done -> Expansions]
      BY <1>0 DEF VariablesTypeOK
  <2>2. DOMAIN expanded = done
      BY <2>1
  <2>3. done = Lines
      BY <1>1, <2>1, <2>2 DEF Rest
  <2> QED BY <2>1, <2>2, <2>3
<1>3. \A i \in Lines : expanded[i] # Unresolved
    BY <1>0, <1>1, <1>2, VariablesAssumption DEF PreviewInv, VariablesTypeOK
<1>4. \A i \in Lines : (deployed'[i] = Unresolved) = (stage' # "snapshot")
    BY <1>1, <1>3
<1>5. /\ \E done \in SUBSET Lines : expanded' \in [done -> Expansions]
      /\ \A i : i \notin DOMAIN expanded'
    BY <1>1, NothingExpanded
<1>6. \A j \in Lines : Expand(template[j], {})' = Expand(template[j], {})
    BY <1>1, ExpansionsStay
<1>7. PreviewInv'
    BY <1>1 DEF PreviewInv
<1>8. CalmInv'
  <2>1. calm => \A j \in Lines : deployed'[j] \in Expand(template[j], {})
      BY <1>0, <1>1, <1>2 DEF CalmInv
  <2>2. Lines' = Lines
      BY DEF Lines
  <2> QED BY <1>1, <1>5, <1>6, <2>1, <2>2 DEF CalmInv
<1> QED BY <1>0, <1>1, <1>2, <1>4, <1>5, <1>7, <1>8, PassKeeps

LEMMA StoreKeeps ==
    ASSUME VariablesIInv, Stores
    PROVE  VariablesIInv'
<1>1. /\ stage' = "idle" /\ calm' = calm /\ deployed' = Raw /\ expanded' = <<>>
      /\ UNCHANGED <<rowVars, day, template>> /\ calm' \in BOOLEAN
    BY DEF Stores, VariablesIInv, VariablesTypeOK
<1>2. Unresolved \in Expansions
    BY DEF Expansions
<1>3. deployed' \in [Lines -> Expansions] /\ \A i \in Lines : deployed'[i] = Unresolved
    BY <1>1, <1>2 DEF Raw
<1>4. \E done \in SUBSET Lines : expanded' \in [done -> Expansions]
    BY <1>1, NothingExpanded
<1>5. \A i \in Lines : (deployed'[i] = Unresolved) = (stage' # "snapshot")
    BY <1>1, <1>3
<1>6. PreviewInv' /\ CalmInv'
    BY <1>1 DEF PreviewInv, CalmInv
<1> QED BY <1>1, <1>3, <1>4, <1>5, <1>6, PassKeeps

\* A push that begins, or ends at its preview.
LEMMA EndKeeps ==
    ASSUME VariablesIInv,
           PushBegins \/ ReturnsEarly \/ \E i \in Lines : PreviewThrows(i)
    PROVE  VariablesIInv'
<1>1. /\ UNCHANGED <<rowVars, day, template, deployed>> /\ calm' \in BOOLEAN
      /\ stage # "snapshot" /\ stage' \in {"idle", "preview"} /\ expanded' = <<>>
    BY DEF PushBegins, ReturnsEarly, PreviewThrows, VariablesIInv, VariablesTypeOK
<1>2. /\ \E done \in SUBSET Lines : expanded' \in [done -> Expansions]
      /\ \A i : i \notin DOMAIN expanded'
    BY <1>1, NothingExpanded
<1>3. PreviewInv' /\ CalmInv'
    BY <1>1, <1>2 DEF PreviewInv, CalmInv
<1> QED BY <1>1, <1>2, <1>3, RawKeeps

LEMMA DayKeeps ==
    ASSUME VariablesIInv, NextDay
    PROVE  VariablesIInv'
<1>1. /\ day < MaxDay /\ day' = day + 1 /\ calm' = FALSE
      /\ UNCHANGED <<variables, lastVar, request, apart, template, stage, expanded, deployed>>
    BY DEF NextDay, rowVars, passVars
<1>2. VariablesTypeOK /\ day \in 0..MaxDay
    BY DEF VariablesIInv, VariablesTypeOK
<1>3. day' \in 0..MaxDay
    BY <1>1, <1>2, DaysAre
<1>4. VariablesTypeOK'
    BY <1>1, <1>2, <1>3 DEF VariablesTypeOK
<1>5. GlobalsAreOne' /\ FreeInv' /\ PreviewInv'
    BY <1>1 DEF VariablesIInv, GlobalsAreOne, FreeInv, PreviewInv
<1>6. CalmInv'
    BY <1>1 DEF CalmInv
<1> QED BY <1>4, <1>5, <1>6 DEF VariablesIInv

LEMMA VariablesInduction == VariablesSpec => []VariablesIInv
<1>1. VariablesInit => VariablesIInv
  <2> SUFFICES ASSUME VariablesInit PROVE VariablesIInv
      OBVIOUS
  <2>1. /\ {} \in SUBSET Lines /\ expanded \in [{} -> Expansions] /\ DOMAIN expanded = {}
      BY DEF VariablesInit
  <2>2. Unresolved \in Expansions
      BY DEF Expansions
  <2>3. deployed \in [Lines -> Expansions] /\ \A i \in Lines : deployed[i] = Unresolved
      BY <2>2 DEF VariablesInit, Raw
  <2>4. \A i \in Lines : (deployed[i] = Unresolved) = (stage # "snapshot")
      BY <2>3 DEF VariablesInit
  <2>5. request \in [Editors -> VarNames \cup {Unresolved}] /\ \A e \in Editors : request[e] = Unresolved
      BY DEF VariablesInit
  <2>6. VariablesTypeOK
      BY <2>1, <2>3, <2>4, <2>5, DaysAre DEF VariablesInit, VariablesTypeOK
  <2>7. GlobalsAreOne /\ FreeInv /\ PreviewInv /\ CalmInv
      BY <2>5 DEF VariablesInit, GlobalsAreOne, FreeInv, PreviewInv, CalmInv
  <2> QED BY <2>6, <2>7 DEF VariablesIInv
<1>2. VariablesIInv /\ [VariablesNext]_variableVars => VariablesIInv'
  <2> SUFFICES ASSUME VariablesIInv, [VariablesNext]_variableVars PROVE VariablesIInv'
      OBVIOUS
  <2>1. CASE VariableRequest
      BY <2>1, VariableRequestKeeps
  <2>2. CASE NextDay
      BY <2>2, DayKeeps
  <2>3. CASE PushBegins \/ ReturnsEarly \/ \E i \in Lines : PreviewThrows(i)
      BY <2>3, EndKeeps
  <2>4. CASE Deploys
      BY <2>4, DeployKeeps
  <2>5. CASE Stores
      BY <2>5, StoreKeeps
  <2>6. CASE \E i \in Lines : PreviewLine(i)
      BY <2>6, PreviewKeeps
  <2>7. CASE \E i \in Lines : SnapshotLine(i)
      BY <2>7, SnapshotKeeps
  <2>8. CASE UNCHANGED variableVars
    <3>1. UNCHANGED <<variables, lastVar, request, day, template, stage, expanded, deployed, calm, apart>>
        BY <2>8 DEF variableVars
    <3>2. VariablesTypeOK' /\ GlobalsAreOne' /\ FreeInv' /\ PreviewInv'
        BY <3>1 DEF VariablesIInv, VariablesTypeOK, GlobalsAreOne, FreeInv, PreviewInv
    <3>3. \A i \in Lines : /\ Expand(template[i], {})' = Expand(template[i], {})
                           /\ Stored(i)' = Stored(i)
        BY <3>1, ExpansionsStay
    <3>4. Lines' = Lines /\ DOMAIN expanded \subseteq Lines /\ CalmInv
        BY DEF Lines, VariablesIInv, VariablesTypeOK
    <3>5. CalmInv'
        BY <3>1, <3>3, <3>4 DEF CalmInv
    <3> QED BY <3>2, <3>5 DEF VariablesIInv
  <2> QED BY <2>1, <2>2, <2>3, <2>4, <2>5, <2>6, <2>7, <2>8 DEF VariablesNext
<1> QED BY <1>1, <1>2, PTL DEF VariablesSpec

\* The rows of the variables table satisfy its constraints whatever requests, pushes and
\* midnights interleave, and a global name has two rows only where two requests looked
\* for it at once (VariableRepository.cpp:36).
THEOREM VariablesStayATable == VariablesSpec => []VariablesInv
<1>1. VariablesIInv => VariablesInv
    BY DEF VariablesIInv, VariablesInv
<1> QED BY <1>1, VariablesInduction, PTL

\* The snapshot of an undisturbed push says what it deployed, one meaning for a name
\* that several records mention, although every record is expanded by reads of its own.
THEOREM SnapshotSaysWhatWasDeployed == VariablesSpec => SnapshotTells
<1>1. VariablesIInv /\ [VariablesNext]_variableVars =>
        [stage = "snapshot" /\ stage' = "idle" /\ calm /\ apart =>
           /\ expanded = deployed
           /\ \A i, j \in Lines : \A n \in template[i] \cap template[j] :
                deployed[i][n] = deployed[j][n]]_variableVars
  <2> SUFFICES ASSUME VariablesIInv, VariablesNext, stage = "snapshot", stage' = "idle", calm, apart
               PROVE  /\ expanded = deployed
                      /\ \A i, j \in Lines : \A n \in template[i] \cap template[j] :
                           deployed[i][n] = deployed[j][n]
      OBVIOUS
  <2>1. VariablesTypeOK /\ GlobalsAreOne /\ CalmInv
      BY DEF VariablesIInv
  <2>2. Rest = {}
      BY DEF VariablesNext, VariableRequest, PostGlobal, InsertGlobal, PostZone, Insert, PutVariable,
             DeleteVariable, NextDay, PushBegins, ReturnsEarly, Deploys, Stores, PreviewLine,
             PreviewThrows, SnapshotLine, passVars
  <2>3. DOMAIN expanded = Lines /\ expanded \in [Lines -> Expansions]
    <3>1. PICK done \in SUBSET Lines : expanded \in [done -> Expansions]
        BY <2>1 DEF VariablesTypeOK
    <3>2. DOMAIN expanded = done
        BY <3>1
    <3>3. done = Lines
        BY <2>2, <3>1, <3>2 DEF Rest
    <3> QED BY <3>1, <3>2, <3>3
  <2>4. \A i \in Lines : deployed[i] \in Expand(template[i], {}) /\ expanded[i] \in Stored(i)
      BY <2>1, <2>3 DEF CalmInv
  <2>5. \A i \in Lines : expanded[i] \in Expand(template[i], Context)
    <3> SUFFICES ASSUME NEW i \in Lines PROVE expanded[i] \in Expand(template[i], Context)
        OBVIOUS
    <3>1. deployed[i] \in Expand(template[i], Context)
        BY <2>4, ExpandsInContext
    <3> QED BY <2>4, <3>1 DEF Stored
  <2>6. \A i \in Lines : deployed[i] = expanded[i]
      BY <2>1, <2>4, <2>5, SameExpansion
  <2>7. deployed \in [Lines -> Expansions]
      BY <2>1 DEF VariablesTypeOK
  <2>8. expanded = deployed
      BY <2>3, <2>6, <2>7
  <2>9. ASSUME NEW i \in Lines, NEW j \in Lines, NEW n \in template[i] \cap template[j]
        PROVE  deployed[i][n] = deployed[j][n]
    <3>1. deployed[i][n] \in Meaning(n, {}) /\ deployed[j][n] \in Meaning(n, {})
        BY <2>4, ExpandIs
    <3> QED BY <2>1, <3>1, OneMeaning
  <2> QED BY <2>8, <2>9
<1> QED BY <1>1, VariablesInduction, PTL DEF VariablesSpec, SnapshotTells

-----------------------------------------------------------------------------
(* The rules about the names of a zone *)

\* Rows as the table has them: ids up to n, one row of each.
TableOf(rs, n) ==
    /\ rs \subseteq CheckedRows!Row
    /\ \A r, s \in rs : r.id <= n /\ (r.id = s.id => r = s)

\* What a request has been allowed to write was not refused next to the rows it saw.
AllowedInv ==
    \A o \in Askers : asking[o] # Unasked => ~Refused(asking[o].key, asking[o].seen)

ValidatorIInv == ValidatorTypeOK /\ AllowedInv

LEMMA RowIs ==
    ASSUME NEW r \in CheckedRows!Row
    PROVE  /\ r.id \in 1..MaxCheckedId /\ r.id \in Nat /\ r.id # 0
           /\ r.key \in Owners \X Types /\ r.pending \in BOOLEAN
BY ValidatorAssumption DEF CheckedRows!Row, CheckedRows!Ids

LEMMA NewRowIs ==
    ASSUME NEW i \in 1..MaxCheckedId, NEW k \in Owners \X Types
    PROVE  /\ CheckedRows!NewRow(i, k, 0) \in CheckedRows!Row
           /\ CheckedRows!NewRow(i, k, 0).id = i /\ CheckedRows!NewRow(i, k, 0).key = k
BY DEF CheckedRows!NewRow, CheckedRows!Row, CheckedRows!Ids

\* Two fields of a row change.
LEMMA ChangedRowIs ==
    ASSUME NEW r \in CheckedRows!Row, NEW k \in Owners \X Types
    PROVE  LET x == [r EXCEPT !.key = k, !.content = 0]
           IN  x \in CheckedRows!Row /\ x.id = r.id /\ x.key = k /\ x.pending = r.pending
BY DEF CheckedRows!Row

LEMMA MarkedRowIs ==
    ASSUME NEW r \in CheckedRows!Row, NEW b \in BOOLEAN
    PROVE  LET x == [r EXCEPT !.pending = b]
           IN  x \in CheckedRows!Row /\ x.id = r.id
BY DEF CheckedRows!Row

-----------------------------------------------------------------------------
(* The rows stay a table *)

LEMMA InsertKeepsTable ==
    ASSUME NEW rs, NEW n \in 0..MaxCheckedId, TableOf(rs, n), n < MaxCheckedId,
           NEW k \in Owners \X Types
    PROVE  /\ TableOf(CheckedRows!Create(rs, n + 1, k, 0), n + 1)
           /\ n + 1 \in 1..MaxCheckedId
<1> DEFINE new == CheckedRows!NewRow(n + 1, k, 0)
<1>1. n \in Nat /\ n + 1 \in 1..MaxCheckedId /\ n + 1 \in 0..MaxCheckedId
    BY ValidatorAssumption
<1>2. new \in CheckedRows!Row /\ new.id = n + 1
    BY <1>1, NewRowIs
<1>3. CheckedRows!Create(rs, n + 1, k, 0) = rs \cup {new}
    BY DEF CheckedRows!Create
<1> HIDE DEF new
<1>4. \A r \in rs : r \in CheckedRows!Row /\ r.id \in Nat /\ r.id <= n /\ r.id <= n + 1 /\ r.id # n + 1
    BY <1>1, RowIs DEF TableOf
<1>5. ASSUME NEW r \in rs \cup {new}, NEW s \in rs \cup {new}
      PROVE  r.id <= n + 1 /\ (r.id = s.id => r = s)
    BY <1>1, <1>2, <1>4, <1>5 DEF TableOf
<1> QED BY <1>1, <1>2, <1>3, <1>4, <1>5 DEF TableOf

LEMMA UpdateIs ==
    ASSUME NEW rs, NEW n, TableOf(rs, n), NEW i, NEW k \in Owners \X Types
    PROVE  /\ TableOf(CheckedRows!Update(rs, i, k, 0), n)
           /\ \A x \in CheckedRows!Update(rs, i, k, 0) :
                \E r \in rs : /\ x.id = r.id /\ x.pending = r.pending
                              /\ IF r.id = i THEN x.key = k ELSE x = r
<1> DEFINE u(r)  == [r EXCEPT !.key = k, !.content = 0]
           rs2   == CheckedRows!Update(rs, i, k, 0)
<1>1. \A r \in rs : r \in CheckedRows!Row
    BY DEF TableOf
<1>2. \A r \in rs : u(r) \in CheckedRows!Row /\ u(r).id = r.id /\ u(r).key = k
                    /\ u(r).pending = r.pending
    BY <1>1, ChangedRowIs
<1>3. rs2 = {IF r.id = i THEN u(r) ELSE r : r \in rs}
    BY DEF CheckedRows!Update
<1> HIDE DEF u, rs2
<1>4. ASSUME NEW x \in rs2
      PROVE  /\ x \in CheckedRows!Row /\ x.id <= n
             /\ \E r \in rs : /\ x.id = r.id /\ x.pending = r.pending
                              /\ x = IF r.id = i THEN u(r) ELSE r
                              /\ IF r.id = i THEN x.key = k ELSE x = r
  <2>1. PICK r \in rs : x = IF r.id = i THEN u(r) ELSE r
      BY <1>3, <1>4
  <2>2. r \in CheckedRows!Row /\ r.id <= n
      BY <1>1 DEF TableOf
  <2> QED BY <1>2, <2>1, <2>2
<1>5. ASSUME NEW x \in rs2, NEW y \in rs2, x.id = y.id
      PROVE  x = y
  <2>1. PICK r \in rs : x.id = r.id /\ x = IF r.id = i THEN u(r) ELSE r
      BY <1>4
  <2>2. PICK s \in rs : y.id = s.id /\ y = IF s.id = i THEN u(s) ELSE s
      BY <1>4
  <2>3. r = s
      BY <1>5, <2>1, <2>2 DEF TableOf
  <2> QED BY <2>1, <2>2, <2>3
<1>6. TableOf(rs2, n)
    BY <1>4, <1>5 DEF TableOf
<1> QED BY <1>4, <1>6 DEF rs2

LEMMA MarkKeepsTable ==
    ASSUME NEW rs, NEW n, TableOf(rs, n), NEW i, NEW b \in BOOLEAN
    PROVE  TableOf(CheckedRows!Mark(rs, i, b), n)
<1> DEFINE m(r) == [r EXCEPT !.pending = b]
           rs2  == CheckedRows!Mark(rs, i, b)
<1>1. \A r \in rs : r \in CheckedRows!Row
    BY DEF TableOf
<1>2. \A r \in rs : m(r) \in CheckedRows!Row /\ m(r).id = r.id
    BY <1>1, MarkedRowIs
<1>3. rs2 = {IF r.id = i THEN m(r) ELSE r : r \in rs}
    BY DEF CheckedRows!Mark
<1> HIDE DEF m, rs2
<1>4. ASSUME NEW x \in rs2
      PROVE  /\ x \in CheckedRows!Row /\ x.id <= n
             /\ \E r \in rs : x.id = r.id /\ x = IF r.id = i THEN m(r) ELSE r
  <2>1. PICK r \in rs : x = IF r.id = i THEN m(r) ELSE r
      BY <1>3, <1>4
  <2>2. r \in CheckedRows!Row /\ r.id <= n
      BY <1>1 DEF TableOf
  <2> QED BY <1>2, <2>1, <2>2
<1>5. ASSUME NEW x \in rs2, NEW y \in rs2, x.id = y.id
      PROVE  x = y
  <2>1. PICK r \in rs : x.id = r.id /\ x = IF r.id = i THEN m(r) ELSE r
      BY <1>4
  <2>2. PICK s \in rs : y.id = s.id /\ y = IF s.id = i THEN m(s) ELSE s
      BY <1>4
  <2>3. r = s
      BY <1>5, <2>1, <2>2 DEF TableOf
  <2> QED BY <2>1, <2>2, <2>3
<1>6. TableOf(rs2, n)
    BY <1>4, <1>5 DEF TableOf
<1> QED BY <1>6 DEF rs2

\* A write of a row for key k, as a request that has asked and one that has not do it.
Writes(i, k) == InsertRow(k) \/ ChangeRow(i, k)

LEMMA WritesKeepTable ==
    ASSUME ValidatorTypeOK, NEW i, NEW k \in Owners \X Types, Writes(i, k)
    PROVE  TableOf(checkedRows', lastChecked') /\ lastChecked' \in 0..MaxCheckedId
<1>1. TableOf(checkedRows, lastChecked) /\ lastChecked \in 0..MaxCheckedId
    BY DEF ValidatorTypeOK, TableOf
<1>2. CASE InsertRow(k)
  <2>1. /\ lastChecked < MaxCheckedId /\ lastChecked' = lastChecked + 1
        /\ checkedRows' = CheckedRows!Create(checkedRows, lastChecked + 1, k, 0)
      BY <1>2 DEF InsertRow
  <2>2. /\ TableOf(CheckedRows!Create(checkedRows, lastChecked + 1, k, 0), lastChecked + 1)
        /\ lastChecked + 1 \in 1..MaxCheckedId
      BY <1>1, <2>1, InsertKeepsTable
  <2>3. \A j \in 1..MaxCheckedId : j \in 0..MaxCheckedId
      BY ValidatorAssumption
  <2> QED BY <2>1, <2>2, <2>3
<1>3. CASE ChangeRow(i, k)
    BY <1>1, <1>3, UpdateIs DEF ChangeRow
<1> QED BY <1>2, <1>3 DEF Writes

LEMMA ValidatorStep ==
    ASSUME ValidatorIInv, [ValidatorNext]_validatorVars
    PROVE  ValidatorIInv'
<1>0. ValidatorTypeOK /\ TableOf(checkedRows, lastChecked) /\ lastChecked \in 0..MaxCheckedId
    BY DEF ValidatorIInv, ValidatorTypeOK, TableOf
<1>1. ASSUME TableOf(checkedRows', lastChecked'), lastChecked' \in 0..MaxCheckedId,
             asking' \in [Askers -> Allowed \cup {Unasked}], AllowedInv'
      PROVE  ValidatorIInv'
    BY <1>1 DEF ValidatorIInv, ValidatorTypeOK, TableOf
<1>2. ASSUME NEW o \in Askers, NEW i \in 0..MaxCheckedId, NEW k \in Owners \X Types, Validate(o, i, k)
      PROVE  ValidatorIInv'
  <2> DEFINE a == [id |-> i, key |-> k, seen |-> Existing(i)]
  <2>1. asking' = [asking EXCEPT ![o] = a] /\ ~Refused(k, Existing(i))
        /\ UNCHANGED <<checkedRows, lastChecked>>
      BY <1>2 DEF Validate
  <2>2. Existing(i) \in SUBSET CheckedRows!Row
      BY <1>0 DEF Existing, CheckedRows!Active, TableOf
  <2>3. a \in Allowed /\ a.key = k /\ a.seen = Existing(i)
      BY <2>2 DEF Allowed
  <2> HIDE DEF a
  <2>4. /\ asking'[o] = a /\ \A p \in Askers : p # o => asking'[p] = asking[p]
        /\ asking' \in [Askers -> Allowed \cup {Unasked}]
      BY <1>0, <2>1, <2>3 DEF ValidatorTypeOK
  <2>5. AllowedInv'
      BY <2>1, <2>3, <2>4 DEF ValidatorIInv, AllowedInv
  <2> QED BY <1>0, <1>1, <2>1, <2>4, <2>5
<1>3. ASSUME NEW o \in Askers, WriteAllowed(o)
      PROVE  ValidatorIInv'
  <2>1. asking[o] \in Allowed /\ asking[o].key \in Owners \X Types
      BY <1>0, <1>3 DEF WriteAllowed, ValidatorTypeOK, Allowed
  <2>2. Writes(asking[o].id, asking[o].key)
      BY <1>3 DEF WriteAllowed, Writes
  <2>3. TableOf(checkedRows', lastChecked') /\ lastChecked' \in 0..MaxCheckedId
      BY <1>0, <2>1, <2>2, WritesKeepTable
  <2>4. /\ asking'[o] = Unasked /\ \A p \in Askers : p # o => asking'[p] = asking[p]
        /\ asking' \in [Askers -> Allowed \cup {Unasked}]
      BY <1>0, <1>3 DEF WriteAllowed, ValidatorTypeOK
  <2>5. AllowedInv'
      BY <2>4 DEF ValidatorIInv, AllowedInv
  <2> QED BY <1>1, <2>3, <2>4, <2>5
<1>4. ASSUME TableOf(checkedRows', lastChecked'), lastChecked' \in 0..MaxCheckedId, UNCHANGED asking
      PROVE  ValidatorIInv'
  <2>1. asking' \in [Askers -> Allowed \cup {Unasked}]
      BY <1>0, <1>4 DEF ValidatorTypeOK
  <2>2. AllowedInv'
      BY <1>4 DEF ValidatorIInv, AllowedInv
  <2> QED BY <1>1, <1>4, <2>1, <2>2
<1>5. ASSUME NEW k \in Owners \X Types, WriteUnasked(k)
      PROVE  ValidatorIInv'
  <2>1. \E i : Writes(i, k)
      BY <1>5 DEF WriteUnasked, Writes
  <2>2. TableOf(checkedRows', lastChecked') /\ lastChecked' \in 0..MaxCheckedId
      BY <1>0, <2>1, WritesKeepTable
  <2> QED BY <1>4, <1>5, <2>2 DEF WriteUnasked
<1>6. ASSUME NEW i \in 1..MaxCheckedId, NEW b \in BOOLEAN, MarkRow(i, b)
      PROVE  ValidatorIInv'
    BY <1>0, <1>4, <1>6, MarkKeepsTable DEF MarkRow
<1>7. CASE PurgeMarked
  <2>1. TableOf(checkedRows', lastChecked')
      BY <1>0, <1>7 DEF PurgeMarked, CheckedRows!HardDeletePending, TableOf
  <2> QED BY <1>0, <1>4, <1>7, <2>1 DEF PurgeMarked
<1>8. CASE UNCHANGED validatorVars
    BY <1>0, <1>4, <1>8 DEF validatorVars
<1> QED BY <1>2, <1>3, <1>5, <1>6, <1>7, <1>8 DEF ValidatorNext

LEMMA ValidatorHolds == ValidatorSpec => []ValidatorIInv
<1>1. ValidatorInit => ValidatorIInv
  <2> SUFFICES ASSUME ValidatorInit PROVE ValidatorIInv
      OBVIOUS
  <2>1. 0 \in 0..MaxCheckedId
      BY ValidatorAssumption
  <2> QED BY <2>1 DEF ValidatorInit, ValidatorIInv, ValidatorTypeOK, AllowedInv
<1>2. ValidatorIInv /\ [ValidatorNext]_validatorVars => ValidatorIInv'
    BY ValidatorStep
<1> QED BY <1>1, <1>2, PTL DEF ValidatorSpec

-----------------------------------------------------------------------------
(* What was asked for first *)

\* A pair of rows of which one is a CNAME of the other's name.
Clash(r, s) == r.id # s.id /\ r.key[1] = s.key[1] /\ r.key[2] = "CNAME"

\* Rows that only clash as they did before make no conflict.
LEMMA NoNewConflict ==
    ASSUME NEW rs, NEW rs2,
           \A r, s \in rs2 : Clash(r, s) =>
               \E q, t \in rs : Clash(q, t) /\ q.id = r.id /\ t.id = s.id
    PROVE  Conflicts(rs2) \subseteq Conflicts(rs)
<1> SUFFICES ASSUME NEW p \in Conflicts(rs2) PROVE p \in Conflicts(rs)
    OBVIOUS
<1>1. PICK r \in rs2, s \in rs2 : p = {r.id, s.id} /\ Clash(r, s)
    BY DEF Conflicts, Clash
<1>2. PICK q \in rs, t \in rs : Clash(q, t) /\ q.id = r.id /\ t.id = s.id
    BY <1>1
<1>3. p = {q.id, t.id} /\ p \in SUBSET {x.id : x \in rs}
    BY <1>1, <1>2
<1> QED BY <1>2, <1>3 DEF Conflicts, Clash

\* A row of a key that is not refused clashes with none of the rows it was held against.
LEMMA NotRefusedIsApart ==
    ASSUME NEW k \in Owners \X Types, NEW rs \in SUBSET CheckedRows!Row, ~Refused(k, rs),
           NEW r \in rs, NEW x, x.key = k
    PROVE  ~Clash(x, r) /\ ~Clash(r, x)
<1>1. r.key \in Owners \X Types
    BY RowIs
<1>2. k = <<k[1], k[2]>> /\ r.key = <<r.key[1], r.key[2]>>
    BY <1>1
<1>3. CASE Clash(x, r)
    BY <1>3 DEF Clash, Refused
<1>4. CASE Clash(r, x)
    BY <1>2, <1>4 DEF Clash, Refused
<1> QED BY <1>3, <1>4

\* The write of a request that meets the rows it was held against.
LEMMA WriteAddsNone ==
    ASSUME ValidatorIInv, NEW o \in Askers, WriteAllowed(o),
           asking[o].seen = Existing(asking[o].id)
    PROVE  Conflicts(CheckedRows!Active(checkedRows')) \subseteq
           Conflicts(CheckedRows!Active(checkedRows))
<1> DEFINE i == asking[o].id
           k == asking[o].key
<1>0. TableOf(checkedRows, lastChecked) /\ lastChecked \in 0..MaxCheckedId
    BY DEF ValidatorIInv, ValidatorTypeOK, TableOf
<1>1. k \in Owners \X Types /\ i \in 0..MaxCheckedId
    BY DEF WriteAllowed, ValidatorIInv, ValidatorTypeOK, Allowed
<1>2. ~Refused(k, Existing(i))
    BY DEF WriteAllowed, ValidatorIInv, AllowedInv
<1>3. IF i = 0 THEN InsertRow(k) ELSE ChangeRow(i, k)
    BY DEF WriteAllowed
<1> HIDE DEF i, k
<1>4. Existing(i) \in SUBSET CheckedRows!Row
    BY <1>0 DEF Existing, CheckedRows!Active, TableOf
<1>5. \A x : \A r \in Existing(i) : x.key = k => ~Clash(x, r) /\ ~Clash(r, x)
    BY <1>1, <1>2, <1>4, NotRefusedIsApart
<1> SUFFICES ASSUME NEW r \in CheckedRows!Active(checkedRows'),
                    NEW s \in CheckedRows!Active(checkedRows'), Clash(r, s)
             PROVE  \E q, t \in CheckedRows!Active(checkedRows) :
                        Clash(q, t) /\ q.id = r.id /\ t.id = s.id
    BY NoNewConflict
<1>6. r \in checkedRows' /\ s \in checkedRows' /\ ~r.pending /\ ~s.pending
    BY DEF CheckedRows!Active
<1>7. CASE i = 0
  <2> DEFINE new == CheckedRows!NewRow(lastChecked + 1, k, 0)
  <2>1. checkedRows' = checkedRows \cup {new}
      BY <1>3, <1>7 DEF InsertRow, CheckedRows!Create
  <2>2. lastChecked < MaxCheckedId
      BY <1>3, <1>7 DEF InsertRow
  <2>3. new.key = k
      BY DEF CheckedRows!NewRow
  <2> HIDE DEF new
  <2>4. \A x \in CheckedRows!Active(checkedRows) : x \in Existing(i)
      BY <1>0, <1>7, RowIs DEF Existing, CheckedRows!Active, TableOf
  <2>5. \A x \in checkedRows : ~x.pending => x \in CheckedRows!Active(checkedRows)
      BY DEF CheckedRows!Active
  <2>6. CASE r \in checkedRows /\ s \in checkedRows
      BY <1>6, <2>5, <2>6
  <2>7. CASE r = new /\ s \in checkedRows
      BY <1>5, <1>6, <2>3, <2>4, <2>5, <2>7
  <2>8. CASE r \in checkedRows /\ s = new
      BY <1>5, <1>6, <2>3, <2>4, <2>5, <2>8
  <2>9. ~(r = new /\ s = new)
      BY DEF Clash
  <2> QED BY <1>6, <2>1, <2>6, <2>7, <2>8, <2>9
<1>8. CASE i # 0
  <2>1. checkedRows' = CheckedRows!Update(checkedRows, i, k, 0)
      BY <1>3, <1>8 DEF ChangeRow
  <2>2. \A x \in checkedRows' : \E y \in checkedRows :
            /\ x.id = y.id /\ x.pending = y.pending
            /\ IF y.id = i THEN x.key = k ELSE x = y
      BY <1>0, <1>1, <2>1, UpdateIs
  <2>3. \A x \in CheckedRows!Active(checkedRows') :
            \/ x.id = i /\ x.key = k
            \/ x.id # i /\ x \in CheckedRows!Active(checkedRows) /\ x \in Existing(i)
      BY <2>2 DEF CheckedRows!Active, Existing
  <2>4. CASE r.id = i /\ s.id = i
      BY <2>4 DEF Clash
  <2>5. CASE r.id = i /\ s.id # i
      BY <1>5, <2>3, <2>5
  <2>6. CASE r.id # i /\ s.id = i
      BY <1>5, <2>3, <2>6
  <2>7. CASE r.id # i /\ s.id # i
      BY <2>3, <2>7
  <2> QED BY <2>4, <2>5, <2>6, <2>7
<1> QED BY <1>7, <1>8

\* The rows stay a table, and a request that was validated against the rows it meets when
\* it writes adds no conflict, whatever conflicts there were before.
THEOREM AskingKeepsTheRules == ValidatorSpec => RulesAreKept
<1>1. ASSUME ValidatorIInv, [ValidatorNext]_validatorVars
      PROVE  \A o \in Askers :
                /\ asking[o] # Unasked /\ asking'[o] = Unasked
                /\ asking[o].seen = Existing(asking[o].id)
                => Conflicts(CheckedRows!Active(checkedRows')) \subseteq
                   Conflicts(CheckedRows!Active(checkedRows))
  <2> SUFFICES ASSUME NEW o \in Askers, asking[o] # Unasked, asking'[o] = Unasked,
                      asking[o].seen = Existing(asking[o].id)
               PROVE  Conflicts(CheckedRows!Active(checkedRows')) \subseteq
                      Conflicts(CheckedRows!Active(checkedRows))
      OBVIOUS
  <2>1. asking \in [Askers -> Allowed \cup {Unasked}]
      BY <1>1 DEF ValidatorIInv, ValidatorTypeOK
  <2>2. ASSUME NEW p \in Askers, p # o, NEW a, asking' = [asking EXCEPT ![p] = a]
        PROVE  FALSE
      BY <2>1, <2>2
  <2>3. WriteAllowed(o)
    <3>1. CASE \E p \in Askers, i \in 0..MaxCheckedId, k \in Owners \X Types : Validate(p, i, k)
        BY <2>2, <3>1 DEF Validate
    <3>2. CASE \E p \in Askers : WriteAllowed(p)
        BY <2>2, <3>2 DEF WriteAllowed
    <3>3. CASE asking' = asking
        BY <3>3
    <3> QED BY <1>1, <3>1, <3>2, <3>3 DEF ValidatorNext, WriteUnasked, MarkRow, PurgeMarked,
                                          validatorVars
  <2> QED BY <1>1, <2>3, WriteAddsNone
<1>2. ValidatorIInv => ValidatorTypeOK
    BY DEF ValidatorIInv
<1> QED BY <1>1, <1>2, ValidatorHolds, PTL DEF ValidatorSpec, RulesAreKept, AllowedIsSound

-----------------------------------------------------------------------------
(* Snippets, templates and batches *)

\* Templates.  The types in full: what a request holds at each of its steps.
Whats == {"none", "snippet put", "template put", "once", "link", "apply", "snippet", "unlink", "batch"}
Steps == {"idle", "replace", "flag first", "set", "flag", "template", "expect", "compare", "list",
          "write", "clear", "link", "delete"}

RecordSeq  == Seq(Wanted)
SnippetSeq == Seq(Snippets)
WriteSets  == UNION {[is -> Write] : is \in SUBSET Nat}

Call == [what : Whats, at : Steps, of : TemplateIds \cup Snippets \cup {NoRow},
         list : {NoRow} \cup SnippetSeq, seen : {NoRow} \cup SnippetSeq, expected : RecordSeq,
         keys : SUBSET Slots, ids : SUBSET Int, writes : WriteSets,
         current : SUBSET ZoneRows!Row, alone : BOOLEAN, before : SUBSET ZoneRows!Row]

\* What fits the step, whatever is left to do
CallFits(c) ==
    /\ c \in Call
    /\ c.at = "idle" <=> c.what = "none"
    /\ DOMAIN c.writes \subseteq DOMAIN c.expected
    /\ c.at = "replace" => c.of \in Snippets /\ c.expected \in RecordLists
    /\ c.at \in {"flag first", "set", "flag", "template", "expect", "compare", "link"} => c.of \in TemplateIds
    /\ c.at = "flag first" => c.list \in {NoRow} \cup SnippetLists
    /\ c.at \in {"set", "flag"} => c.list \in SnippetLists
    /\ c.at \in {"flag first", "set", "flag"} => c.what = "template put"
    /\ c.at = "template" => c.what = "apply"
    /\ c.at = "expect" => c.what \in {"apply", "link", "once"} /\ c.list \in SnippetSeq
    /\ c.at = "compare" => c.what = "apply"
    /\ c.at = "list" => c.what \in {"apply", "snippet"}
    /\ c.at = "write" => c.what \in {"apply", "snippet", "once"}

CallOK(c) ==
    /\ CallFits(c)
    /\ c.at = "expect" => c.list # <<>>
    /\ c.at = "write" => DOMAIN c.writes # {}

\* An application that is alone has seen the list its zone is to be like.
ReviewOf(c, z, ts) ==
    c.what = "apply" /\ c.alone =>
        /\ z.link = c.of
        /\ c.at # "template" => c.seen = ts[c.of]

\* What an undisturbed request that applies records has done: nothing until it writes, then
\* what is no longer to be written.
Mine(c) == {i \in DOMAIN c.expected : c.expected[i].key \in c.keys}

WritesFit(c) ==
    \A i \in DOMAIN c.writes :
        /\ i \in Mine(c)
        /\ c.writes[i].key = c.expected[i].key /\ c.writes[i].content = c.expected[i].content
        /\ c.writes[i].how = "create" => Rows(c.before, c.expected[i].key) = {}
        /\ c.writes[i].how = "update" => Rows(c.before, c.expected[i].key) # {}

DoneSoFar(c, hs) ==
    /\ \A i \in DOMAIN c.writes :
          Rows(hs, c.expected[i].key) = Rows(c.before, c.expected[i].key)
    /\ \A i \in Mine(c) \ DOMAIN c.writes : \E r \in hs :
          Rows(hs, c.expected[i].key) = {r} /\ r.content = c.expected[i].content
    /\ \A k \in Slots : (\A i \in Mine(c) : c.expected[i].key # k) =>
          Rows(hs, k) = Rows(c.before, k)

AppliedOf(c, hs) ==
    c.what \in {"apply", "snippet"} /\ c.alone =>
        /\ c.at \in {"template", "expect", "compare", "list"} => c.before = hs
        /\ c.at = "write" => c.current = c.before
        /\ c.at \in {"list", "write", "clear"} => WritesFit(c)
        /\ c.at = "clear" => DOMAIN c.writes = {}
        /\ c.at \in {"list", "write", "clear"} /\ OneOfAKind(c) => DoneSoFar(c, hs)

CallInv(c, z, ts, hs) == CallOK(c) /\ ReviewOf(c, z, ts) /\ AppliedOf(c, hs)

TablesInv ==
    /\ snippets \in [Snippets -> {NoRow} \cup RecordSeq]
    /\ templates \in [TemplateIds -> {NoRow} \cup SnippetSeq]
    /\ \A t \in TemplateIds : templates[t] # NoRow =>
           \A i \in DOMAIN templates[t] : snippets[templates[t][i]] # NoRow
    /\ zone \in [link : TemplateIds \cup {NoRow}, pending : BOOLEAN]
    /\ zone.link # NoRow => templates[zone.link] # NoRow
    /\ held \subseteq ZoneRows!Row /\ lastId \in 0 .. MaxRowId
    /\ \A r \in held : r.id <= lastId
    /\ \A r, q \in held : r.id = q.id => r = q

CallsInv ==
    /\ calls = [o \in Operators |-> calls[o]]
    /\ \A o \in Operators : CallInv(calls[o], zone, templates, held)

\* A linked zone that was compared with another list has a request that is about to mark it.
MarkInv ==
    zone.link # NoRow /\ ~zone.pending /\ reviewed # NoRow /\ reviewed # templates[zone.link] =>
        \E o \in Operators : calls[o].at = "flag" /\ calls[o].of = zone.link

TemplatesIInv == TablesInv /\ CallsInv /\ MarkInv

-----------------------------------------------------------------------------
LEMMA NonEmptyHas ==
    ASSUME NEW S, NEW s \in Seq(S), s # <<>>
    PROVE  1 \in DOMAIN s
<1>1. Len(s) \in Nat /\ DOMAIN s = 1..Len(s)
  OBVIOUS
<1>2. Len(s) # 0
  OBVIOUS
<1> QED
  BY <1>1, <1>2

LEMMA EmptyFits == <<>> \in RecordSeq /\ <<>> \in SnippetSeq /\ <<>> \in WriteSets /\ DOMAIN <<>> = {}
<1>1. DOMAIN <<>> = {}
  OBVIOUS
<1>2. <<>> \in [{} -> Write]
  OBVIOUS
<1> QED
  BY <1>1, <1>2 DEF RecordSeq, SnippetSeq, WriteSets

LEMMA IdleOK == CallOK(Idle) /\ Idle.what = "none" /\ Idle.at = "idle"
<1>1. Idle \in Call
  BY EmptyFits DEF Idle, Call, Whats, Steps
<1> QED
  BY <1>1, EmptyFits DEF Idle, CallOK, CallFits

\* What another request has changed takes nothing from what fits the step.
LEMMA DisturbedOK ==
    ASSUME NEW c, CallOK(c)
    PROVE  /\ CallOK(Disturbed(c)) /\ Disturbed(c).alone = FALSE
           /\ Disturbed(c).at = c.at /\ Disturbed(c).of = c.of /\ Disturbed(c).what = c.what
<1>1. c \in Call
  BY DEF CallOK, CallFits
<1>2. /\ Disturbed(c) \in Call /\ Disturbed(c).alone = FALSE
      /\ Disturbed(c).at = c.at /\ Disturbed(c).of = c.of /\ Disturbed(c).what = c.what
      /\ Disturbed(c).list = c.list /\ Disturbed(c).expected = c.expected
      /\ Disturbed(c).writes = c.writes
  BY <1>1, EmptyFits DEF Disturbed, Call
<1> QED
  BY <1>2 DEF CallOK, CallFits

\* A request that applies nothing has no more to fit than its steps.
LEMMA PlainCall ==
    ASSUME NEW c, CallOK(c), c.what \notin {"apply", "snippet"}, NEW z, NEW ts, NEW hs
    PROVE  CallInv(c, z, ts, hs)
  BY DEF CallInv, ReviewOf, AppliedOf

LEMMA GoesKeeps ==
    ASSUME CallsInv, NEW o \in Operators, NEW c, Goes(o, c),
           CallInv(c, zone', templates', held')
    PROVE  /\ CallsInv'
           /\ calls'[o] = c
           /\ \A p \in Operators : p # o =>
                 calls'[p].at = calls[p].at /\ calls'[p].of = calls[p].of /\ calls'[p].what = calls[p].what
<1>1. ASSUME NEW p \in Operators
      PROVE  /\ CallInv(calls'[p], zone', templates', held')
             /\ p = o => calls'[p] = c
             /\ p # o => calls'[p].at = calls[p].at /\ calls'[p].of = calls[p].of
                                                    /\ calls'[p].what = calls[p].what
  <2>1. CASE p = o
    BY <2>1 DEF Goes, CallsInv
  <2>2. CASE p # o /\ shared' = shared
    <3>1. calls'[p] = calls[p] /\ zone' = zone /\ templates' = templates /\ held' = held
      BY <2>2 DEF Goes, CallsInv, shared
    <3> QED
      BY <3>1, <2>2 DEF CallsInv
  <2>3. CASE p # o /\ shared' # shared /\ calls[p] = Idle
    <3>1. calls'[p] = Idle
      BY <2>3 DEF Goes
    <3> QED
      BY <2>3, <3>1, IdleOK, PlainCall
  <2>4. CASE p # o /\ shared' # shared /\ calls[p] # Idle
    <3>1. calls'[p] = Disturbed(calls[p]) /\ CallOK(calls[p])
      BY <2>4 DEF Goes, CallsInv, CallInv
    <3>2. /\ CallOK(calls'[p]) /\ calls'[p].alone = FALSE
          /\ calls'[p].at = calls[p].at /\ calls'[p].of = calls[p].of /\ calls'[p].what = calls[p].what
      BY <3>1, DisturbedOK
    <3> QED
      BY <2>4, <3>2 DEF CallInv, ReviewOf, AppliedOf
  <2> QED
    BY <2>1, <2>2, <2>3, <2>4
<1>2. calls' = [p \in Operators |-> calls'[p]]
  BY DEF Goes, CallsInv
<1> QED
  BY <1>1, <1>2 DEF CallsInv

\* The mark, where the zone and the list of its template are as they were and it was not
\* the marking that was done.
LEMMA MarkStays ==
    ASSUME TablesInv, CallsInv, MarkInv, NEW o \in Operators, NEW c, Goes(o, c),
           CallInv(c, zone', templates', held'), calls[o].at # "flag",
           zone' = zone, reviewed' = reviewed,
           zone.link # NoRow => templates'[zone.link] = templates[zone.link]
    PROVE  MarkInv'
<1>1. \A p \in Operators : p # o => calls'[p].at = calls[p].at /\ calls'[p].of = calls[p].of
  BY GoesKeeps
<1> QED
  BY <1>1 DEF MarkInv

\* A request that goes on to apply nothing, or is over.
LEMMA PlainStep ==
    ASSUME CallsInv, NEW o \in Operators, NEW c, Goes(o, c),
           CallOK(c), c.what \notin {"apply", "snippet"}
    PROVE  CallsInv' /\ calls'[o] = c /\ CallInv(c, zone', templates', held')
<1>1. CallInv(c, zone', templates', held')
  BY PlainCall
<1> QED
  BY <1>1, GoesKeeps

LEMMA OverStep ==
    ASSUME CallsInv, NEW o \in Operators, Over(o)
    PROVE  /\ CallsInv' /\ calls'[o] = Idle /\ CallInv(Idle, zone', templates', held')
           /\ Goes(o, Idle)
  BY PlainStep, IdleOK DEF Over

\* What comes after the snippets are read, or after the last write.
LEMMA OnwardKeeps ==
    ASSUME NEW c, NEW z, NEW ts, NEW hs, CallFits(c), ReviewOf(c, z, ts), AppliedOf(c, hs),
           c.at \in {"expect", "write"}
    PROVE  CallInv(Onward(c), z, ts, hs)
<1> DEFINE d == Onward(c)
<1>1. c \in Call
  BY DEF CallFits
<1>2. CASE c.at = "expect" /\ c.list = <<>> /\ c.what = "apply"
  <2>1. d = [c EXCEPT !.at = "compare"]
    BY <1>2 DEF Onward
  <2>2. /\ d \in Call /\ d.at = "compare" /\ d.what = c.what /\ d.of = c.of /\ d.alone = c.alone
        /\ d.seen = c.seen /\ d.before = c.before /\ d.writes = c.writes /\ d.expected = c.expected
    BY <1>1, <2>1 DEF Call, Steps
  <2> HIDE DEF d
  <2>3. CallOK(d)
    BY <1>2, <2>2 DEF CallOK, CallFits
  <2> QED
    BY <1>2, <2>2, <2>3 DEF CallInv, ReviewOf, AppliedOf, d
<1>3. CASE c.at = "expect" /\ c.list = <<>> /\ c.what = "link"
  <2>1. d = [c EXCEPT !.at = "link"]
    BY <1>3 DEF Onward
  <2>2. /\ d \in Call /\ d.at = "link" /\ d.what = c.what /\ d.of = c.of
        /\ d.writes = c.writes /\ d.expected = c.expected
    BY <1>1, <2>1 DEF Call, Steps
  <2> HIDE DEF d
  <2>3. CallOK(d)
    BY <1>3, <2>2 DEF CallOK, CallFits
  <2> QED
    BY <1>3, <2>2, <2>3, PlainCall DEF d
<1>4. CASE c.at = "expect" /\ c.list = <<>> /\ c.what = "once"
  <2>1. CASE c.expected = <<>>
    BY <1>4, <2>1, IdleOK, PlainCall DEF Onward
  <2>2. CASE c.expected # <<>>
    <3> DEFINE ws == [i \in DOMAIN c.expected |-> AsWrite(c.expected[i], "create")]
    <3>1. d = [c EXCEPT !.at = "write", !.writes = ws]
      BY <1>4, <2>2 DEF Onward
    <3>2. DOMAIN ws = DOMAIN c.expected /\ DOMAIN ws # {} /\ ws \in WriteSets
      <4>1. c.expected \in RecordSeq
        BY <1>1 DEF Call
      <4>2. DOMAIN c.expected \in SUBSET Nat /\ \A i \in DOMAIN c.expected : c.expected[i] \in Wanted
        BY <4>1 DEF RecordSeq
      <4>3. DOMAIN c.expected # {}
        BY <2>2, <4>1, NonEmptyHas DEF RecordSeq
      <4>4. \A i \in DOMAIN c.expected : AsWrite(c.expected[i], "create") \in Write
        BY <4>2 DEF AsWrite, Write, Wanted
      <4>5. ws \in [DOMAIN c.expected -> Write]
        BY <4>4
      <4> QED
        BY <4>2, <4>3, <4>5 DEF WriteSets
    <3> HIDE DEF ws
    <3>3. /\ d \in Call /\ d.at = "write" /\ d.what = c.what /\ d.of = c.of
          /\ d.writes = ws /\ d.expected = c.expected
      BY <1>1, <3>1, <3>2 DEF Call, Steps
    <3> HIDE DEF d
    <3>4. CallOK(d)
      BY <1>4, <3>2, <3>3 DEF CallOK, CallFits
    <3> QED
      BY <1>4, <3>3, <3>4, PlainCall DEF d
  <2> QED
    BY <2>1, <2>2
<1>5. CASE c.at = "write" /\ DOMAIN c.writes = {} /\ c.what = "apply"
  <2>1. d = [c EXCEPT !.at = "clear"]
    BY <1>5 DEF Onward
  <2>2. /\ d \in Call /\ d.at = "clear" /\ d.what = c.what /\ d.of = c.of /\ d.alone = c.alone
        /\ d.seen = c.seen /\ d.before = c.before /\ d.writes = c.writes /\ d.expected = c.expected
        /\ d.keys = c.keys
    BY <1>1, <2>1 DEF Call, Steps
  <2> HIDE DEF d
  <2>3. CallOK(d)
    BY <1>5, <2>2 DEF CallOK, CallFits
  <2>4. ReviewOf(d, z, ts)
    BY <1>5, <2>2 DEF ReviewOf
  <2>5. AppliedOf(d, hs)
    BY <1>5, <2>2 DEF AppliedOf, WritesFit, DoneSoFar, Mine, OneOfAKind
  <2> QED
    BY <2>3, <2>4, <2>5 DEF CallInv, d
<1>6. CASE c.at = "write" /\ DOMAIN c.writes = {} /\ c.what # "apply"
  BY <1>6, IdleOK, PlainCall DEF Onward
<1>7. CASE c.at = "expect" /\ c.list # <<>>
  <2>1. d = c
    BY <1>7 DEF Onward
  <2> QED
    BY <1>7, <2>1 DEF CallInv, CallOK
<1>8. CASE c.at = "write" /\ DOMAIN c.writes # {}
  <2>1. d = c
    BY <1>8 DEF Onward
  <2> QED
    BY <1>8, <2>1 DEF CallInv, CallOK
<1> QED
  BY <1>2, <1>3, <1>4, <1>5, <1>6, <1>7, <1>8 DEF CallFits

\* A request that begins.
LEMMA BeginsWith ==
    ASSUME TablesInv, NEW w \in Whats, NEW at \in Steps
    PROVE  LET b == Begins(w, at) IN
           /\ b \in Call
           /\ b.what = w /\ b.at = at /\ b.alone = TRUE /\ b.before = held
           /\ b.expected = <<>> /\ b.writes = <<>> /\ DOMAIN b.writes = {}
<1>1. Idle \in Call /\ Idle.alone = TRUE /\ Idle.expected = <<>> /\ Idle.writes = <<>>
  BY IdleOK DEF CallOK, CallFits, Idle
<1>2. held \in SUBSET ZoneRows!Row
  BY DEF TablesInv
<1> QED
  BY <1>1, <1>2, EmptyFits DEF Begins, Call

\* What a template lists is a snippet.
LEMMA EntryIsSnippet ==
    ASSUME TablesInv, NEW t \in TemplateIds, templates[t] # NoRow
    PROVE  \A i \in DOMAIN templates[t] : templates[t][i] \in Snippets
<1>1. templates[t] \in SnippetSeq
  BY DEF TablesInv
<1> QED
  BY <1>1 DEF SnippetSeq

\* An interval with a member of a set that is closed under going on is in it.
LEMMA IntervalInduction ==
    ASSUME NEW n \in Nat, NEW S, 0 \in S, \A i \in 0..n : i < n /\ i \in S => i + 1 \in S
    PROVE  0..n \subseteq S
<1> SUFFICES ASSUME NEW m \in 0..n, m \notin S PROVE FALSE
    OBVIOUS
<1> DEFINE F == {i \in 0..m : i \notin S}
           G == F \ {m}
           f == [i \in F |-> i - 1]
<1>1. IsFiniteSet(F)
  <2>1. IsFiniteSet(0..m)
      BY FS_Interval
  <2> QED BY <2>1, FS_Subset
<1>2. m \in F
    OBVIOUS
<1>3. IsFiniteSet(G) /\ Cardinality(G) = Cardinality(F) - 1 /\ Cardinality(F) \in Nat
    BY <1>1, <1>2, FS_RemoveElement, FS_CardinalityType
<1>4. \A i \in F : i - 1 \in G
    OBVIOUS
<1>5. f \in [F -> G]
    BY <1>4
<1>6. \A i, j \in F : f[i] = f[j] => i = j
    OBVIOUS
<1> HIDE DEF F, G, f
<1>7. Cardinality(G) < Cardinality(F)
    BY <1>3
<1>8. \E i, j \in F : i # j /\ f[i] = f[j]
    BY <1>1, <1>3, <1>5, <1>7, FS_PigeonHole
<1> QED BY <1>6, <1>8

\* A set of numbers that has any has a first.
LEMMA FirstIsIn ==
    ASSUME NEW is \in SUBSET Nat, is # {}
    PROVE  First(is) \in is
<1>1. \E i \in is : \A j \in is : i <= j
  <2> SUFFICES ASSUME \A i \in is : \E j \in is : j < i PROVE FALSE
    OBVIOUS
  <2>1. PICK n \in is : TRUE
    OBVIOUS
  <2> DEFINE S == {i \in 0..n : \A j \in is : i <= j}
  <2>2. 0 \in S
    OBVIOUS
  <2>3. \A i \in 0..n : i < n /\ i \in S => i + 1 \in S
    <3> SUFFICES ASSUME NEW i \in 0..n, i < n, i \in S PROVE i + 1 \in S
      OBVIOUS
    <3>1. i \notin is
      OBVIOUS
    <3> QED
      BY <3>1
  <2> HIDE DEF S
  <2>4. 0..n \subseteq S
    BY <2>1, <2>2, <2>3, IntervalInduction
  <2>5. n \in S
    BY <2>1, <2>4
  <2> QED
    BY <2>1, <2>5 DEF S
<1> QED
  BY <1>1 DEF First

\* The statements of Records.tla keep the rows a table.
Table(rs, n) ==
    /\ rs \subseteq ZoneRows!Row
    /\ \A r \in rs : r.id <= n
    /\ \A r, q \in rs : r.id = q.id => r = q

LEMMA RowType ==
    ASSUME NEW r \in ZoneRows!Row
    PROVE  r.id \in Nat /\ r.id \in ZoneRows!Ids /\ r.key \in Slots /\ r.content \in Worths
  BY TemplatesAssumption DEF ZoneRows!Row, ZoneRows!Ids

LEMMA CreateKeepsTable ==
    ASSUME NEW rs, NEW n \in 0..MaxRowId, Table(rs, n), n < MaxRowId, NEW k \in Slots, NEW w \in Worths
    PROVE  Table(ZoneRows!Create(rs, n + 1, k, w), n + 1)
<1> DEFINE new == ZoneRows!NewRow(n + 1, k, w)
<1>1. new \in ZoneRows!Row /\ new.id = n + 1
  BY TemplatesAssumption DEF ZoneRows!NewRow, ZoneRows!Row, ZoneRows!Ids
<1>2. \A r \in rs : r.id \in Nat /\ r.id <= n
  BY RowType DEF Table
<1> HIDE DEF new
<1> QED
  BY <1>1, <1>2 DEF Table, ZoneRows!Create, new

LEMMA ImageKeepsTable ==
    ASSUME NEW rs, NEW n, Table(rs, n), NEW f, NEW qs,
           f \in [rs -> ZoneRows!Row], \A r \in rs : f[r].id = r.id,
           qs = {f[r] : r \in rs}
    PROVE  Table(qs, n)
  BY DEF Table

LEMMA UpdateKeepsTable ==
    ASSUME NEW rs, NEW n, Table(rs, n), NEW i, NEW k \in Slots, NEW w \in Worths
    PROVE  Table(ZoneRows!Update(rs, i, k, w), n)
<1> DEFINE f == [r \in rs |-> IF r.id = i THEN [r EXCEPT !.key = k, !.content = w] ELSE r]
<1>1. \A r \in rs : f[r] \in ZoneRows!Row /\ f[r].id = r.id
  BY DEF Table, ZoneRows!Row
<1>2. f \in [rs -> ZoneRows!Row] /\ \A r \in rs : f[r].id = r.id
  BY <1>1
<1>3. ZoneRows!Update(rs, i, k, w) = {f[r] : r \in rs}
  BY DEF ZoneRows!Update
<1> HIDE DEF f
<1> QED
  BY <1>2, <1>3, ImageKeepsTable

LEMMA MergedKeepsTable ==
    ASSUME NEW n, Table(held, n), NEW ids, NEW w \in Worths
    PROVE  Table(Merged(ids, w), n)
<1> DEFINE f == [r \in held |-> IF r.id \in ids THEN [r EXCEPT !.content = w] ELSE r]
<1>1. \A r \in held : f[r] \in ZoneRows!Row /\ f[r].id = r.id
  BY DEF Table, ZoneRows!Row
<1>2. f \in [held -> ZoneRows!Row] /\ \A r \in held : f[r].id = r.id
  BY <1>1
<1>3. Merged(ids, w) = {f[r] : r \in held}
  BY DEF Merged
<1> HIDE DEF f
<1> QED
  BY <1>2, <1>3, ImageKeepsTable

LEMMA MarkingKeepsTable ==
    ASSUME NEW n, Table(held, n), NEW ids
    PROVE  Table({IF r.id \in ids THEN [r EXCEPT !.pending = TRUE] ELSE r : r \in held}, n)
<1> DEFINE f == [r \in held |-> IF r.id \in ids THEN [r EXCEPT !.pending = TRUE] ELSE r]
<1>1. \A r \in held : f[r] \in ZoneRows!Row /\ f[r].id = r.id
  BY DEF Table, ZoneRows!Row
<1>2. f \in [held -> ZoneRows!Row] /\ \A r \in held : f[r].id = r.id
  BY <1>1
<1>3. {IF r.id \in ids THEN [r EXCEPT !.pending = TRUE] ELSE r : r \in held} = {f[r] : r \in held}
  OBVIOUS
<1> HIDE DEF f
<1> QED
  BY <1>2, <1>3, ImageKeepsTable

\* A batch that is inserted
LEMMA AddedKeepsTable ==
    ASSUME lastId \in 0..MaxRowId, Table(held, lastId), NEW rs \in RecordSeq,
           lastId + Len(rs) <= MaxRowId
    PROVE  Table(held \cup Added(rs), lastId + Len(rs))
<1>1. \A i \in DOMAIN rs : i \in 1..Len(rs) /\ rs[i] \in Wanted
  BY DEF RecordSeq
<1>2. Len(rs) \in Nat
  BY DEF RecordSeq
<1>3. \A q \in Added(rs) : \E i \in 1..Len(rs) :
         /\ q = ZoneRows!NewRow(lastId + i, rs[i].key, rs[i].content)
         /\ q \in ZoneRows!Row /\ q.id = lastId + i
  <2> SUFFICES ASSUME NEW i \in DOMAIN rs
               PROVE  LET q == ZoneRows!NewRow(lastId + i, rs[i].key, rs[i].content)
                      IN  q \in ZoneRows!Row /\ q.id = lastId + i
    BY <1>1 DEF Added
  <2>1. i \in 1..Len(rs) /\ rs[i].key \in Slots /\ rs[i].content \in Worths
    BY <1>1 DEF Wanted
  <2>2. lastId + i \in 1..MaxRowId
    BY <1>2, <2>1, TemplatesAssumption
  <2> QED
    BY <2>1, <2>2 DEF ZoneRows!NewRow, ZoneRows!Row, ZoneRows!Ids
<1>4. \A r \in held : r.id \in Nat /\ r.id <= lastId
  BY RowType DEF Table
<1>5. \A q \in Added(rs) : q \in ZoneRows!Row /\ q.id > lastId /\ q.id <= lastId + Len(rs)
  BY <1>2, <1>3, TemplatesAssumption
<1>6. \A q, p \in Added(rs) : q.id = p.id => q = p
  BY <1>3, TemplatesAssumption
<1> QED
  BY <1>2, <1>4, <1>5, <1>6, TemplatesAssumption DEF Table

-----------------------------------------------------------------------------
\* Snippets
LEMMA SnippetPut ==
    ASSUME TablesInv, NEW s \in Snippets, NEW rs \in RecordLists
    PROVE  LET c == [Begins("snippet put", "replace") EXCEPT !.of = s, !.expected = rs]
           IN  CallOK(c) /\ c.what = "snippet put"
<1> DEFINE b == Begins("snippet put", "replace")
           c == [b EXCEPT !.of = s, !.expected = rs]
<1>1. /\ b \in Call /\ b.what = "snippet put" /\ b.at = "replace" /\ DOMAIN b.writes = {}
  <2>1. "snippet put" \in Whats /\ "replace" \in Steps
    BY DEF Whats, Steps
  <2> QED
    BY <2>1, BeginsWith
<1>2. rs \in RecordSeq
  BY TemplatesAssumption DEF RecordSeq, Wanted
<1> HIDE DEF b
<1>3. /\ c \in Call /\ c.what = "snippet put" /\ c.at = "replace" /\ c.of = s /\ c.expected = rs
      /\ c.writes = b.writes
  BY <1>1, <1>2 DEF Call
<1> HIDE DEF c
<1>4. CallOK(c)
  BY <1>1, <1>3 DEF CallOK, CallFits
<1> QED
  BY <1>3, <1>4 DEF b, c

LEMMA AsksIdle ==
    ASSUME NEW o, Asks(o)
    PROVE  calls[o] = Idle /\ calls[o].at = "idle" /\ calls[o].at # "flag"
  BY IdleOK DEF Asks

LEMMA SnippetsStep ==
    ASSUME TemplatesIInv, NEW o \in Operators,
           \/ \E s \in Snippets : DeleteSnippet(o, s)
           \/ \E s \in Snippets, rs \in RecordLists : NewSnippet(o, s, rs) \/ PutSnippet(o, s, rs)
           \/ ReplaceRecords(o)
    PROVE  TemplatesIInv'
<1> USE DEF TemplatesIInv
<1>1. ASSUME NEW s \in Snippets, DeleteSnippet(o, s) PROVE TemplatesIInv'
  <2>1. CallsInv' /\ CallInv(Idle, zone', templates', held') /\ Goes(o, Idle)
    BY <1>1, OverStep DEF DeleteSnippet
  <2>2. MarkInv'
    BY <1>1, <2>1, AsksIdle, MarkStays DEF DeleteSnippet
  <2>3. TablesInv'
    BY <1>1 DEF DeleteSnippet, Deletable, InTemplate, TablesInv
  <2> QED
    BY <2>1, <2>2, <2>3
<1>2. ASSUME NEW s \in Snippets, NEW rs \in RecordLists, NewSnippet(o, s, rs) PROVE TemplatesIInv'
  <2> DEFINE c == [Begins("snippet put", "replace") EXCEPT !.of = s, !.expected = rs]
  <2>1. CallOK(c) /\ c.what = "snippet put" /\ Goes(o, c)
    BY <1>2, SnippetPut DEF NewSnippet
  <2> HIDE DEF c
  <2>2. CallsInv' /\ CallInv(c, zone', templates', held')
    BY <2>1, PlainStep
  <2>3. MarkInv'
    BY <1>2, <2>1, <2>2, AsksIdle, MarkStays DEF NewSnippet
  <2>4. TablesInv'
    BY <1>2, EmptyFits, EntryIsSnippet, TemplatesAssumption DEF NewSnippet, TablesInv
  <2> QED
    BY <2>2, <2>3, <2>4
<1>3. ASSUME NEW s \in Snippets, NEW rs \in RecordLists, PutSnippet(o, s, rs) PROVE TemplatesIInv'
  <2> DEFINE c == [Begins("snippet put", "replace") EXCEPT !.of = s, !.expected = rs]
  <2>1. CallOK(c) /\ c.what = "snippet put" /\ Goes(o, c)
    BY <1>3, SnippetPut DEF PutSnippet
  <2> HIDE DEF c
  <2>2. CallsInv' /\ CallInv(c, zone', templates', held')
    BY <2>1, PlainStep
  <2>3. MarkInv'
    BY <1>3, <2>1, <2>2, AsksIdle, MarkStays DEF PutSnippet, shared
  <2>4. TablesInv'
    BY <1>3 DEF PutSnippet, TablesInv, shared
  <2> QED
    BY <2>2, <2>3, <2>4
<1>4. ASSUME ReplaceRecords(o) PROVE TemplatesIInv'
  <2>1. CallsInv' /\ CallInv(Idle, zone', templates', held') /\ Goes(o, Idle)
    BY <1>4, OverStep DEF ReplaceRecords
  <2>2. MarkInv'
    BY <1>4, <2>1, MarkStays DEF ReplaceRecords, At
  <2>3. calls[o].of \in Snippets /\ calls[o].expected \in RecordLists
    BY <1>4 DEF ReplaceRecords, At, CallsInv, CallInv, CallOK, CallFits
  <2>4. calls[o].expected \in RecordSeq /\ calls[o].expected # NoRow
    BY <2>3, TemplatesAssumption DEF RecordSeq, Wanted
  <2>5. TablesInv'
    BY <1>4, <2>3, <2>4 DEF ReplaceRecords, TablesInv
  <2> QED
    BY <2>1, <2>2, <2>5
<1> QED
  BY <1>1, <1>2, <1>3, <1>4

-----------------------------------------------------------------------------
\* Templates
LEMMA FlaggedKeeps ==
    ASSUME TablesInv, NEW t
    PROVE  /\ Flagged(t) \in [link : TemplateIds \cup {NoRow}, pending : BOOLEAN]
           /\ Flagged(t).link = zone.link
           /\ Flagged(t).pending \/ Flagged(t) = zone
           /\ zone.link = t => Flagged(t).pending
<1>1. zone \in [link : TemplateIds \cup {NoRow}, pending : BOOLEAN]
  BY DEF TablesInv
<1> QED
  BY <1>1 DEF Flagged

LEMMA TemplatePut ==
    ASSUME TablesInv, NEW t \in TemplateIds, NEW l \in SnippetLists \cup {NoRow}, NEW at \in {"set", "flag first"},
           at = "set" => l # NoRow
    PROVE  LET c == [Begins("template put", at) EXCEPT !.of = t, !.list = l]
           IN  CallOK(c) /\ c.what = "template put"
<1> DEFINE b == Begins("template put", at)
           c == [b EXCEPT !.of = t, !.list = l]
<1>1. b \in Call /\ b.what = "template put" /\ b.at = at /\ DOMAIN b.writes = {}
  <2>1. "template put" \in Whats /\ at \in Steps
    BY DEF Whats, Steps
  <2> QED
    BY <2>1, BeginsWith
<1>2. l \in {NoRow} \cup SnippetSeq
  BY TemplatesAssumption DEF SnippetSeq
<1> HIDE DEF b
<1>3. /\ c \in Call /\ c.what = "template put" /\ c.at = at /\ c.of = t /\ c.list = l
      /\ c.writes = b.writes
  BY <1>1, <1>2 DEF Call
<1> HIDE DEF c
<1>4. CallOK(c)
  BY <1>1, <1>3 DEF CallOK, CallFits
<1> QED
  BY <1>3, <1>4 DEF b, c

LEMMA NewTemplateStep ==
    ASSUME TemplatesIInv, NEW o \in Operators, NEW t \in TemplateIds, NEW l \in SnippetLists \cup {NoRow},
           NewTemplate(o, t, l)
    PROVE  TemplatesIInv'
<1> USE DEF TemplatesIInv
<1>1. TablesInv'
  BY EmptyFits, TemplatesAssumption DEF NewTemplate, TablesInv
<1>2. zone.link # NoRow => templates'[zone.link] = templates[zone.link]
  BY DEF NewTemplate, TablesInv
<1>3. CASE l = NoRow
  <2>1. CallsInv' /\ CallInv(Idle, zone', templates', held') /\ Goes(o, Idle)
    BY <1>3, OverStep DEF NewTemplate, Over
  <2> QED
    BY <1>1, <1>2, <2>1, AsksIdle, MarkStays DEF NewTemplate
<1>4. CASE l # NoRow
  <2> DEFINE c == [Begins("template put", "set") EXCEPT !.of = t, !.list = l]
  <2>1. CallOK(c) /\ c.what = "template put" /\ Goes(o, c)
    BY <1>4, TemplatePut DEF NewTemplate
  <2> HIDE DEF c
  <2>2. CallsInv' /\ CallInv(c, zone', templates', held')
    BY <2>1, PlainStep
  <2> QED
    BY <1>1, <1>2, <2>1, <2>2, AsksIdle, MarkStays DEF NewTemplate
<1> QED
  BY <1>3, <1>4

LEMMA PutTemplateStep ==
    ASSUME TemplatesIInv, NEW o \in Operators, NEW t \in TemplateIds, NEW l \in SnippetLists \cup {NoRow},
           PutTemplate(o, t, l)
    PROVE  TemplatesIInv'
<1> USE DEF TemplatesIInv
<1> DEFINE c == [Begins("template put", "flag first") EXCEPT !.of = t, !.list = l]
<1>1. CallOK(c) /\ c.what = "template put" /\ Goes(o, c)
  BY TemplatePut DEF PutTemplate
<1> HIDE DEF c
<1>2. CallsInv' /\ CallInv(c, zone', templates', held')
  BY <1>1, PlainStep
<1>3. MarkInv'
  BY <1>1, <1>2, AsksIdle, MarkStays DEF PutTemplate, shared
<1>4. TablesInv'
  BY DEF PutTemplate, TablesInv, shared
<1> QED
  BY <1>2, <1>3, <1>4

\* A step that marks the zone of the template, or leaves the zone alone if it is of another.
LEMMA FlagFirstStep ==
    ASSUME TemplatesIInv, NEW o \in Operators, FlagFirst(o)
    PROVE  TemplatesIInv'
<1> USE DEF TemplatesIInv
<1> DEFINE c == calls[o]
           d == IF c.list = NoRow THEN Idle ELSE [c EXCEPT !.at = "set"]
<1>1. CallOK(c) /\ c.at = "flag first" /\ Goes(o, d)
  BY DEF FlagFirst, At, CallsInv, CallInv
<1>2. CallOK(d) /\ d.what \notin {"apply", "snippet"}
  <2>1. CASE c.list = NoRow
    BY <2>1, IdleOK
  <2>2. CASE c.list # NoRow
    <3>0. c \in Call
      BY <1>1 DEF CallOK, CallFits
    <3>1. /\ d \in Call /\ d.at = "set" /\ d.what = c.what /\ d.of = c.of /\ d.list = c.list
          /\ d.writes = c.writes /\ d.expected = c.expected
      BY <3>0, <2>2 DEF Call, Steps
    <3> HIDE DEF d, c
    <3> QED
      BY <1>1, <2>2, <3>1 DEF CallOK, CallFits
  <2> QED
    BY <2>1, <2>2
<1> HIDE DEF d
<1>3. CallsInv' /\ CallInv(d, zone', templates', held')
  BY <1>1, <1>2, PlainStep
<1>4. TablesInv'
  BY FlaggedKeeps DEF FlagFirst, TablesInv
<1>5. MarkInv'
  <2>1. CASE zone'.pending
    BY <2>1 DEF MarkInv
  <2>2. CASE zone' = zone
    BY <1>1, <1>3, <2>2, MarkStays DEF FlagFirst
  <2> QED
    BY <2>1, <2>2, FlaggedKeeps DEF FlagFirst
<1> QED
  BY <1>3, <1>4, <1>5

LEMMA SetSnippetsStep ==
    ASSUME TemplatesIInv, NEW o \in Operators, SetSnippets(o)
    PROVE  TemplatesIInv'
<1> USE DEF TemplatesIInv
<1> DEFINE c  == calls[o]
           ok == templates[c.of] # NoRow /\ \A i \in DOMAIN c.list : snippets[c.list[i]] # NoRow
<1>1. CallOK(c) /\ c.at = "set" /\ c.of \in TemplateIds /\ c.list \in SnippetLists /\ c \in Call
  BY DEF SetSnippets, At, CallsInv, CallInv, CallOK, CallFits
<1>2. c.list \in SnippetSeq /\ c.list # NoRow
  BY <1>1, TemplatesAssumption DEF SnippetSeq
<1>3. CASE ok
  <2> DEFINE d == [c EXCEPT !.at = "flag"]
  <2>1. Goes(o, d) /\ templates' = [templates EXCEPT ![c.of] = c.list]
    BY <1>3 DEF SetSnippets
  <2>2. /\ d \in Call /\ d.at = "flag" /\ d.what = c.what /\ d.of = c.of /\ d.list = c.list
        /\ d.writes = c.writes /\ d.expected = c.expected
    BY <1>1 DEF Call, Steps
  <2> HIDE DEF d
  <2>3. CallOK(d) /\ d.what \notin {"apply", "snippet"}
    BY <1>1, <2>2 DEF CallOK, CallFits
  <2>4. CallsInv' /\ CallInv(d, zone', templates', held') /\ calls'[o] = d
    BY <2>1, <2>3, PlainStep
  <2>5. TablesInv'
    BY <1>1, <1>2, <1>3, <2>1 DEF SetSnippets, TablesInv
  <2>6. MarkInv'
    <3>1. CASE zone.link = c.of
      BY <2>2, <2>4, <3>1 DEF MarkInv, SetSnippets
    <3>2. CASE zone.link # c.of
      <4>1. zone.link # NoRow => templates'[zone.link] = templates[zone.link]
        BY <3>2, <1>1, <2>1 DEF TablesInv
      <4> QED
        BY <1>1, <2>1, <2>4, <4>1, MarkStays DEF SetSnippets
    <3> QED
      BY <3>1, <3>2
  <2> QED
    BY <2>4, <2>5, <2>6
<1>4. CASE ~ ok
  <2>1. Over(o) /\ templates' = templates
    BY <1>4 DEF SetSnippets
  <2>2. CallsInv' /\ CallInv(Idle, zone', templates', held') /\ Goes(o, Idle)
    BY <2>1, OverStep
  <2> QED
    BY <1>1, <2>1, <2>2, MarkStays DEF SetSnippets, TablesInv
<1> QED
  BY <1>3, <1>4

LEMMA FlagStep ==
    ASSUME TemplatesIInv, NEW o \in Operators, Flag(o)
    PROVE  TemplatesIInv'
<1> USE DEF TemplatesIInv
<1>1. CallsInv' /\ Goes(o, Idle) /\ CallInv(Idle, zone', templates', held')
  BY OverStep DEF Flag
<1>2. TablesInv'
  BY FlaggedKeeps DEF Flag, TablesInv
<1>3. MarkInv'
  <2>1. CASE zone'.pending
    BY <2>1 DEF MarkInv
  <2>2. CASE zone' = zone /\ zone.link # calls[o].of
    <3>1. \A p \in Operators : p # o => calls'[p].at = calls[p].at /\ calls'[p].of = calls[p].of
      BY <1>1, GoesKeeps
    <3> QED
      BY <2>2, <3>1 DEF MarkInv, Flag
  <2> QED
    BY <2>1, <2>2, FlaggedKeeps DEF Flag
<1> QED
  BY <1>1, <1>2, <1>3

LEMMA DeleteTemplateStep ==
    ASSUME TemplatesIInv, NEW o \in Operators, NEW t \in TemplateIds, DeleteTemplate(o, t)
    PROVE  TemplatesIInv'
<1> USE DEF TemplatesIInv
<1>1. CallsInv' /\ Goes(o, Idle) /\ CallInv(Idle, zone', templates', held')
  BY OverStep DEF DeleteTemplate
<1>2. /\ Unlinked(t) \in [link : TemplateIds \cup {NoRow}, pending : BOOLEAN]
      /\ zone.link = t => Unlinked(t).link = NoRow
      /\ zone.link # t => Unlinked(t) = zone
  BY DEF Unlinked, TablesInv
<1>3. TablesInv'
  BY <1>2 DEF DeleteTemplate, TablesInv
<1>4. MarkInv'
  <2>1. CASE zone.link = t
    BY <1>2, <2>1 DEF MarkInv, DeleteTemplate
  <2>2. CASE zone.link # t
    <3>1. zone' = zone /\ (zone.link # NoRow => templates'[zone.link] = templates[zone.link])
      BY <1>2, <2>2 DEF DeleteTemplate, TablesInv
    <3> QED
      BY <1>1, <3>1, AsksIdle, MarkStays DEF DeleteTemplate
  <2> QED
    BY <2>1, <2>2
<1> QED
  BY <1>1, <1>3, <1>4

LEMMA LinkStep ==
    ASSUME TemplatesIInv, NEW o \in Operators, Link(o)
    PROVE  TemplatesIInv'
<1> USE DEF TemplatesIInv
<1>1. CallsInv' /\ Goes(o, Idle) /\ CallInv(Idle, zone', templates', held')
  BY OverStep DEF Link
<1>2. calls[o].of \in TemplateIds /\ calls[o].at # "flag"
  BY DEF Link, At, CallsInv, CallInv, CallOK, CallFits
<1>3. TablesInv'
  BY <1>2 DEF Link, TablesInv
<1>4. MarkInv'
  BY <1>1, <1>2, MarkStays DEF Link, MarkInv
<1> QED
  BY <1>1, <1>3, <1>4

LEMMA UnlinkStep ==
    ASSUME TemplatesIInv, NEW o \in Operators, Unlink(o)
    PROVE  TemplatesIInv'
<1> USE DEF TemplatesIInv
<1> DEFINE c == Begins("unlink", "clear")
<1>1. /\ c \in Call /\ c.what = "unlink" /\ c.at = "clear" /\ DOMAIN c.writes = {}
  <2>1. "unlink" \in Whats /\ "clear" \in Steps
    BY DEF Whats, Steps
  <2> QED
    BY <2>1, BeginsWith
<1>2. Goes(o, c)
  BY DEF Unlink
<1> HIDE DEF c
<1>3. CallOK(c)
  BY <1>1 DEF CallOK, CallFits
<1>4. CallsInv'
  BY <1>1, <1>2, <1>3, PlainStep
<1> QED
  BY <1>4 DEF Unlink, TablesInv, MarkInv

LEMMA PushTemplateStep ==
    ASSUME TemplatesIInv, NEW o \in Operators, NEW t \in TemplateIds, NEW b \in BOOLEAN,
           PushTemplate(o, t, b)
    PROVE  TemplatesIInv'
<1> USE DEF TemplatesIInv
<1> DEFINE w == IF b THEN "link" ELSE "once"
           a == Begins(w, "expect")
           c == [a EXCEPT !.of = t, !.list = templates[t]]
<1>1. w \in {"link", "once"} /\ a \in Call /\ a.what = w /\ a.at = "expect" /\ DOMAIN a.writes = {}
  <2>1. w \in Whats /\ "expect" \in Steps /\ w \in {"link", "once"}
    BY DEF Whats, Steps
  <2> QED
    BY <2>1, BeginsWith
<1>2. templates[t] \in SnippetSeq
  BY DEF PushTemplate, TablesInv
<1>3. Goes(o, Onward(c))
  BY DEF PushTemplate
<1> HIDE DEF a, w
<1>4. /\ c \in Call /\ c.what = w /\ c.at = "expect" /\ c.of = t /\ c.list = templates[t]
      /\ c.writes = a.writes /\ c.expected = a.expected
  BY <1>1, <1>2 DEF Call
<1> HIDE DEF c
<1>5. CallFits(c)
  BY <1>1, <1>2, <1>4 DEF CallFits
<1>6. CallInv(Onward(c), zone', templates', held')
  <2>1. ReviewOf(c, zone', templates') /\ AppliedOf(c, held')
    BY <1>1, <1>4 DEF ReviewOf, AppliedOf
  <2> QED
    BY <1>4, <1>5, <2>1, OnwardKeeps
<1>7. CallsInv'
  BY <1>3, <1>6, GoesKeeps
<1>8. MarkInv'
  BY <1>3, <1>6, AsksIdle, MarkStays DEF PushTemplate, shared
<1> QED
  BY <1>7, <1>8 DEF PushTemplate, TablesInv, shared

-----------------------------------------------------------------------------
\* Batches and single edits
LEMMA HeldStep ==
    ASSUME TemplatesIInv, NEW o \in Operators, NEW c, Goes(o, c), CallOK(c),
           c.what \notin {"apply", "snippet"}, calls[o].at # "flag",
           UNCHANGED <<snippets, templates, zone, reviewed>>,
           lastId' \in 0..MaxRowId, Table(held', lastId')
    PROVE  TemplatesIInv'
<1> USE DEF TemplatesIInv
<1>1. CallsInv' /\ CallInv(c, zone', templates', held')
  BY PlainStep
<1>2. MarkInv'
  BY <1>1, MarkStays
<1>3. TablesInv'
  BY DEF TablesInv, Table
<1> QED
  BY <1>1, <1>2, <1>3

\* Batches, edits and the push keep the ids of the rows apart.
LEMMA RecordsStep ==
    ASSUME TemplatesIInv, NEW o \in Operators, RecordRequest(o) \/ BatchDelete(o)
    PROVE  TemplatesIInv'
<1> USE DEF TemplatesIInv
<1>1. Table(held, lastId) /\ lastId \in 0..MaxRowId /\ TablesInv
  BY DEF TablesInv, Table
<1>2. CallOK(Idle) /\ Idle.what \notin {"apply", "snippet"}
  BY IdleOK
<1>3. ASSUME NEW rs \in RecordLists, BatchCreate(o, rs) PROVE TemplatesIInv'
  <2>1. rs \in RecordSeq
    BY TemplatesAssumption DEF RecordSeq, Wanted
  <2>2. Table(held', lastId')
    BY <1>1, <1>3, <2>1, AddedKeepsTable DEF BatchCreate
  <2>3. lastId' \in 0..MaxRowId
    <3>1. Len(rs) \in Nat
      BY <2>1 DEF RecordSeq
    <3> QED
      BY <1>1, <1>3, <3>1, TemplatesAssumption DEF BatchCreate
  <2> QED
    BY <1>2, <1>3, <2>2, <2>3, AsksIdle, HeldStep DEF BatchCreate, Over
<1>4. ASSUME NEW w \in Worths, NEW updates, NEW deletes \in SUBSET Int,
             BatchUpdate(o, updates, w, deletes)
      PROVE  TemplatesIInv'
  <2>1. Table(held', lastId')
    <3>1. Table(Merged(updates, w), lastId)
      BY <1>1, MergedKeepsTable
    <3> QED
      BY <1>1, <1>4, <3>1 DEF BatchUpdate
  <2>2. lastId' \in 0..MaxRowId
    BY <1>1, <1>4 DEF BatchUpdate
  <2> DEFINE b == Begins("batch", "delete")
             c == [b EXCEPT !.ids = deletes]
  <2>3. b \in Call /\ b.what = "batch" /\ b.at = "delete" /\ DOMAIN b.writes = {}
    <3>1. "batch" \in Whats /\ "delete" \in Steps
      BY DEF Whats, Steps
    <3> QED
      BY <1>1, <3>1, BeginsWith
  <2>4. Goes(o, c) \/ Goes(o, Idle)
    BY <1>4 DEF BatchUpdate
  <2> HIDE DEF b
  <2>5. c \in Call /\ c.what = "batch" /\ c.at = "delete" /\ c.writes = b.writes
    BY <2>3 DEF Call
  <2> HIDE DEF c
  <2>6. CallOK(c)
    BY <2>3, <2>5 DEF CallOK, CallFits
  <2>7. calls[o].at # "flag" /\ UNCHANGED <<snippets, templates, zone, reviewed>>
    BY <1>4, AsksIdle DEF BatchUpdate
  <2> QED
    BY <1>2, <2>1, <2>2, <2>4, <2>5, <2>6, <2>7, HeldStep
<1>5. ASSUME NEW i \in ZoneRows!Ids, NEW k \in Slots, NEW w \in Worths, EditRow(o, i, k, w)
      PROVE  TemplatesIInv'
  <2>1. Table(held', lastId')
    BY <1>1, <1>5, UpdateKeepsTable DEF EditRow
  <2> QED
    BY <1>1, <1>2, <1>5, <2>1, AsksIdle, HeldStep DEF EditRow, Over
<1>6. ASSUME PurgeRows(o) PROVE TemplatesIInv'
  <2>1. Table(held', lastId')
    BY <1>1, <1>6 DEF PurgeRows, ZoneRows!HardDeletePending, Table
  <2> QED
    BY <1>1, <1>2, <1>6, <2>1, AsksIdle, HeldStep DEF PurgeRows, Over
<1>7. ASSUME BatchDelete(o) PROVE TemplatesIInv'
  <2>1. Table(held', lastId')
    BY <1>1, <1>7, MarkingKeepsTable DEF BatchDelete
  <2> QED
    BY <1>1, <1>2, <1>7, <2>1, HeldStep DEF BatchDelete, Over, At
<1>8. ASSUME RecordRequest(o) PROVE TemplatesIInv'
  <2>1. \/ \E rs \in RecordLists : BatchCreate(o, rs)
        \/ \E i \in 1..lastId + 1, j \in 1..lastId + 1, w \in Worths :
              \E updates \in {{}, {i}}, deletes \in {{}, {j}} : BatchUpdate(o, updates, w, deletes)
        \/ \E i \in ZoneRows!Ids, k \in Slots, w \in Worths : EditRow(o, i, k, w)
        \/ PurgeRows(o)
    BY <1>8 DEF RecordRequest
  <2>2. CASE \E rs \in RecordLists : BatchCreate(o, rs)
    BY <1>3, <2>2
  <2>3. CASE \E i \in 1..lastId + 1, j \in 1..lastId + 1, w \in Worths :
              \E updates \in {{}, {i}}, deletes \in {{}, {j}} : BatchUpdate(o, updates, w, deletes)
    <3>1. PICK i \in 1..lastId + 1, j \in 1..lastId + 1, w \in Worths :
             \E updates \in {{}, {i}}, deletes \in {{}, {j}} : BatchUpdate(o, updates, w, deletes)
      BY <2>3
    <3>2. PICK updates \in {{}, {i}}, deletes \in {{}, {j}} : BatchUpdate(o, updates, w, deletes)
      BY <3>1
    <3>3. deletes \in SUBSET Int
      BY <1>1, TemplatesAssumption
    <3> QED
      BY <1>4, <3>2, <3>3
  <2>4. CASE \E i \in ZoneRows!Ids, k \in Slots, w \in Worths : EditRow(o, i, k, w)
    BY <1>5, <2>4
  <2> QED
    BY <1>6, <2>1, <2>2, <2>3, <2>4
<1> QED
  BY <1>7, <1>8

-----------------------------------------------------------------------------
\* Applying: the steps that read
LEMMA UndisturbingStep ==
    ASSUME TemplatesIInv, NEW o \in Operators, NEW c, Goes(o, c), calls[o].at # "flag",
           UNCHANGED shared, UNCHANGED <<lastId, reviewed>>,
           CallInv(c, zone, templates, held)
    PROVE  TemplatesIInv'
<1> USE DEF TemplatesIInv
<1>1. UNCHANGED <<snippets, templates, zone, held>>
  BY DEF shared
<1>2. CallsInv' /\ CallInv(c, zone', templates', held')
  BY <1>1, GoesKeeps
<1>3. MarkInv'
  BY <1>1, <1>2, MarkStays
<1> QED
  BY <1>1, <1>2, <1>3 DEF TablesInv

LEMMA ApplyTemplateStep ==
    ASSUME TemplatesIInv, NEW o \in Operators, NEW keys \in SUBSET Slots, ApplyTemplate(o, keys)
    PROVE  TemplatesIInv'
<1> USE DEF TemplatesIInv
<1> DEFINE b == Begins("apply", "template")
           c == [b EXCEPT !.of = zone.link, !.keys = keys]
<1>1. /\ b \in Call /\ b.what = "apply" /\ b.at = "template" /\ DOMAIN b.writes = {}
      /\ b.before = held
  <2>1. "apply" \in Whats /\ "template" \in Steps /\ TablesInv
    BY DEF Whats, Steps
  <2> HIDE DEF TemplatesIInv
  <2>2. /\ b \in Call /\ b.what = "apply" /\ b.at = "template" /\ DOMAIN b.writes = {}
    BY <2>1, BeginsWith
  <2>3. b.before = held
    BY DEF Begins, Idle
  <2> QED
    BY <2>2, <2>3
<1>2. Goes(o, c) /\ zone.link \in TemplateIds
  BY DEF ApplyTemplate, TablesInv
<1> HIDE DEF b
<1>3. /\ c \in Call /\ c.what = "apply" /\ c.at = "template" /\ c.of = zone.link
      /\ c.writes = b.writes /\ c.before = held
  BY <1>1, <1>2 DEF Call
<1> HIDE DEF c
<1>4. CallOK(c)
  BY <1>1, <1>2, <1>3 DEF CallOK, CallFits
<1>5. CallInv(c, zone, templates, held)
  BY <1>3, <1>4 DEF CallInv, ReviewOf, AppliedOf
<1> QED
  BY <1>2, <1>5, AsksIdle, UndisturbingStep DEF ApplyTemplate

LEMMA FindTemplateStep ==
    ASSUME TemplatesIInv, NEW o \in Operators, FindTemplate(o)
    PROVE  TemplatesIInv'
<1> USE DEF TemplatesIInv
<1> DEFINE c == calls[o]
           l == templates[c.of]
           d == [c EXCEPT !.at = "expect", !.list = l, !.seen = l]
<1>1. /\ CallInv(c, zone, templates, held) /\ CallOK(c) /\ c \in Call /\ c.at = "template"
      /\ c.what = "apply" /\ c.of \in TemplateIds
  BY DEF FindTemplate, At, CallsInv, CallInv, CallOK, CallFits
<1>2. Goes(o, IF l = NoRow THEN Idle ELSE Onward(d))
  BY DEF FindTemplate
<1>3. CASE l = NoRow
  <2>1. CallInv(Idle, zone, templates, held)
    BY IdleOK, PlainCall
  <2> QED
    BY <1>1, <1>2, <1>3, <2>1, UndisturbingStep DEF FindTemplate
<1>4. CASE l # NoRow
  <2>1. l \in SnippetSeq
    BY <1>1, <1>4 DEF TablesInv
  <2>2. /\ d \in Call /\ d.at = "expect" /\ d.what = "apply" /\ d.of = c.of /\ d.list = l
        /\ d.seen = l /\ d.alone = c.alone /\ d.before = c.before /\ d.writes = c.writes
        /\ d.expected = c.expected
    BY <1>1, <2>1 DEF Call, Steps
  <2>3. Goes(o, Onward(d))
    BY <1>2, <1>4
  <2> HIDE DEF d
  <2>5. CallFits(d)
    BY <1>1, <2>1, <2>2 DEF CallFits, CallOK
  <2>6. ReviewOf(d, zone, templates) /\ AppliedOf(d, held)
    BY <1>1, <2>2 DEF CallInv, ReviewOf, AppliedOf
  <2>7. CallInv(Onward(d), zone, templates, held)
    BY <2>2, <2>5, <2>6, OnwardKeeps
  <2> QED
    BY <1>1, <2>3, <2>7, UndisturbingStep DEF FindTemplate
<1> QED
  BY <1>3, <1>4

LEMMA ExpectStep ==
    ASSUME TemplatesIInv, NEW o \in Operators, Expect(o)
    PROVE  TemplatesIInv'
<1> USE DEF TemplatesIInv
<1> DEFINE c  == calls[o]
           rs == snippets[Head(c.list)]
           more == IF rs = NoRow THEN c.expected ELSE c.expected \o rs
           d  == [c EXCEPT !.list = Tail(@), !.expected = more]
<1>1. /\ CallInv(c, zone, templates, held) /\ CallOK(c) /\ c \in Call /\ c.at = "expect"
      /\ c.list \in SnippetSeq /\ c.list # <<>> /\ c.expected \in RecordSeq
  BY DEF Expect, At, CallsInv, CallInv, CallOK, CallFits, Call
<1>2. Head(c.list) \in Snippets /\ Tail(c.list) \in SnippetSeq
  BY <1>1 DEF SnippetSeq
<1>3. rs \in {NoRow} \cup RecordSeq
  BY <1>2 DEF TablesInv
<1>4. more \in RecordSeq /\ DOMAIN c.expected \subseteq DOMAIN more
  <2>1. CASE rs = NoRow
    BY <1>1, <2>1
  <2>2. CASE rs # NoRow
    <3> DEFINE es == c.expected
    <3>1. rs \in Seq(Wanted) /\ es \in Seq(Wanted) /\ more = es \o rs
      BY <1>1, <1>3, <2>2 DEF RecordSeq
    <3> HIDE DEF rs, es, more
    <3>2. /\ es \o rs \in Seq(Wanted) /\ Len(es \o rs) = Len(es) + Len(rs)
          /\ Len(es) \in Nat /\ Len(rs) \in Nat
          /\ DOMAIN es = 1..Len(es) /\ DOMAIN (es \o rs) = 1..Len(es \o rs)
      BY <3>1
    <3>3. DOMAIN es \subseteq DOMAIN (es \o rs)
      BY <3>2
    <3> QED
      BY <3>1, <3>2, <3>3 DEF RecordSeq, es
  <2> QED
    BY <2>1, <2>2
<1>5. Goes(o, Onward(d))
  BY DEF Expect
<1> HIDE DEF more
<1>6. /\ d \in Call /\ d.at = "expect" /\ d.what = c.what /\ d.of = c.of /\ d.list = Tail(c.list)
      /\ d.seen = c.seen /\ d.alone = c.alone /\ d.before = c.before /\ d.writes = c.writes
      /\ d.expected = more
  BY <1>1, <1>2, <1>4 DEF Call
<1> HIDE DEF d
<1>7. CallFits(d)
  BY <1>1, <1>2, <1>4, <1>6 DEF CallFits, CallOK
<1>8. ReviewOf(d, zone, templates) /\ AppliedOf(d, held)
  BY <1>1, <1>6 DEF CallInv, ReviewOf, AppliedOf
<1>9. CallInv(Onward(d), zone, templates, held)
  BY <1>6, <1>7, <1>8, OnwardKeeps
<1> QED
  BY <1>1, <1>5, <1>9, UndisturbingStep DEF Expect

\* A list of records that are to be written.
LEMMA WritesOf ==
    ASSUME NEW es \in RecordSeq, NEW is \in SUBSET (DOMAIN es), NEW how,
           \A i \in is : how[i] \in {"create", "update", "either"},
           NEW ws, ws = [i \in is |-> AsWrite(es[i], how[i])]
    PROVE  /\ ws \in WriteSets /\ DOMAIN ws = is
           /\ \A i \in is : ws[i].key = es[i].key /\ ws[i].content = es[i].content /\ ws[i].how = how[i]
<1>1. is \in SUBSET Nat /\ \A i \in is : es[i] \in Wanted
  BY DEF RecordSeq
<1>2. \A i \in is : AsWrite(es[i], how[i]) \in Write
  BY <1>1 DEF AsWrite, Write, Wanted
<1>3. ws \in [is -> Write]
  BY <1>2
<1> QED
  BY <1>1, <1>3 DEF WriteSets, AsWrite

LEMMA CompareStep ==
    ASSUME TemplatesIInv, NEW o \in Operators, Compare(o)
    PROVE  TemplatesIInv'
<1> USE DEF TemplatesIInv
<1> DEFINE c  == calls[o]
           is == {j \in DOMAIN c.expected : c.expected[j].key \in c.keys /\ Differs(c.expected[j], held)}
           how == [i \in is |-> IF Rows(held, c.expected[i].key) = {} THEN "create" ELSE "update"]
           ws == ComplianceDiff(c.expected, held, c.keys)
           d  == [c EXCEPT !.at = "list", !.writes = ws]
<1>1. /\ CallInv(c, zone, templates, held) /\ CallOK(c) /\ c \in Call /\ c.at = "compare"
      /\ c.what = "apply" /\ c.expected \in RecordSeq
  BY DEF Compare, At, CallsInv, CallInv, CallOK, CallFits, Call
<1>2. ws = [i \in is |-> AsWrite(c.expected[i], how[i])]
  BY DEF ComplianceDiff
<1>3. is \in SUBSET (DOMAIN c.expected) /\ \A i \in is : how[i] \in {"create", "update", "either"}
  OBVIOUS
<1>4. Goes(o, d)
  BY DEF Compare
<1> HIDE DEF ws
<1>5. /\ ws \in WriteSets /\ DOMAIN ws = is
      /\ \A i \in is : ws[i].key = c.expected[i].key /\ ws[i].content = c.expected[i].content
                       /\ ws[i].how = how[i]
  <2> DEFINE es == c.expected
  <2>1. es \in RecordSeq /\ is \in SUBSET (DOMAIN es) /\ ws = [i \in is |-> AsWrite(es[i], how[i])]
    BY <1>1, <1>2, <1>3
  <2>2. \A i \in is : how[i] \in {"create", "update", "either"}
    BY <1>3
  <2> HIDE DEF is, how, c, es
  <2>3. /\ ws \in WriteSets /\ DOMAIN ws = is
        /\ \A i \in is : ws[i].key = es[i].key /\ ws[i].content = es[i].content
                         /\ ws[i].how = how[i]
    BY <2>1, <2>2, WritesOf
  <2> QED
    BY <2>3 DEF es
<1>6. /\ d \in Call /\ d.at = "list" /\ d.what = "apply" /\ d.of = c.of /\ d.seen = c.seen
      /\ d.alone = c.alone /\ d.before = c.before /\ d.writes = ws /\ d.expected = c.expected
      /\ d.keys = c.keys
  BY <1>1, <1>5 DEF Call, Steps
<1> HIDE DEF d
<1>7. CallOK(d)
  BY <1>1, <1>5, <1>6 DEF CallFits, CallOK
<1>8. ReviewOf(d, zone, templates)
  BY <1>1, <1>6 DEF CallInv, ReviewOf
<1>9. ASSUME c.alone PROVE WritesFit(d) /\ (OneOfAKind(d) => DoneSoFar(d, held)) /\ d.before = held
  <2>1. d.before = held
    BY <1>1, <1>6, <1>9 DEF CallInv, AppliedOf
  <2>2. WritesFit(d)
    BY <1>5, <1>6, <2>1 DEF WritesFit, Mine
  <2>3. ASSUME OneOfAKind(d), NEW i \in Mine(d) \ DOMAIN d.writes
        PROVE  \E r \in held : Rows(held, d.expected[i].key) = {r} /\ r.content = d.expected[i].content
    <3> DEFINE rs == Rows(held, d.expected[i].key)
    <3>1. ~ Differs(d.expected[i], held)
      BY <1>5, <1>6, <2>3 DEF Mine
    <3>2. rs # {} /\ Latest(rs).content = d.expected[i].content
      BY <3>1 DEF Differs
    <3>3. PICK r \in rs : TRUE
      BY <3>2
    <3>4. rs = {r} /\ r \in held /\ r.id \in Nat
      <4>1. \A q \in rs : q = r
        BY <2>1, <2>3, <3>3 DEF OneOfAKind, Rows
      <4>2. r \in held /\ r \in ZoneRows!Row
        BY <3>3 DEF Rows, TablesInv
      <4> HIDE DEF rs
      <4> QED
        BY <3>3, <4>1, <4>2, RowType
    <3> HIDE DEF rs
    <3>5. Latest(rs) = r
      BY <3>4 DEF Latest
    <3> QED
      BY <3>2, <3>4, <3>5 DEF rs
  <2> QED
    BY <2>1, <2>2, <2>3 DEF DoneSoFar
<1>10. AppliedOf(d, held)
  BY <1>6, <1>9 DEF AppliedOf
<1> QED
  BY <1>1, <1>4, <1>7, <1>8, <1>10, UndisturbingStep DEF Compare, CallInv

LEMMA ApplySnippetStep ==
    ASSUME TemplatesIInv, NEW o \in Operators, NEW s \in Snippets, ApplySnippet(o, s)
    PROVE  TemplatesIInv'
<1> USE DEF TemplatesIInv
<1> DEFINE es == snippets[s]
           how == [i \in DOMAIN es |-> "either"]
           ws == [i \in DOMAIN es |-> AsWrite(es[i], "either")]
           b  == Begins("snippet", "list")
           d  == [b EXCEPT !.of = s, !.keys = Slots, !.expected = es, !.writes = ws]
<1>1. es \in RecordSeq
  BY DEF ApplySnippet, TablesInv
<1>2. Goes(o, d)
  BY DEF ApplySnippet
<1>3. ws = [i \in DOMAIN es |-> AsWrite(es[i], how[i])]
  OBVIOUS
<1>4. DOMAIN es \in SUBSET (DOMAIN es) /\ \A i \in DOMAIN es : how[i] \in {"create", "update", "either"}
  OBVIOUS
<1>5. /\ ws \in WriteSets /\ DOMAIN ws = DOMAIN es
      /\ \A i \in DOMAIN es : ws[i].key = es[i].key /\ ws[i].content = es[i].content
                              /\ ws[i].how = "either"
  <2>1. \A i \in DOMAIN es : how[i] = "either"
    OBVIOUS
  <2> HIDE DEF es, how, ws
  <2> QED
    BY <1>1, <1>3, <1>4, <2>1, WritesOf
<1>6. b \in Call /\ b.what = "snippet" /\ b.at = "list"
  <2>1. "snippet" \in Whats /\ "list" \in Steps /\ TablesInv
    BY DEF Whats, Steps
  <2> HIDE DEF TemplatesIInv
  <2> QED
    BY <2>1, BeginsWith
<1>7. b.before = held
  BY DEF Begins, Idle
<1> HIDE DEF b, ws, es
<1>8. /\ d \in Call /\ d.at = "list" /\ d.what = "snippet" /\ d.before = held /\ d.writes = ws
      /\ d.expected = es /\ d.keys = Slots
  BY <1>1, <1>5, <1>6, <1>7 DEF Call
<1> HIDE DEF d
<1>9. CallOK(d)
  BY <1>5, <1>8 DEF CallOK, CallFits
<1>10. ReviewOf(d, zone, templates)
  BY <1>8 DEF ReviewOf
<1>11. Mine(d) = DOMAIN es
  <2>1. \A i \in DOMAIN es : es[i].key \in Slots
    <3>1. \A i \in DOMAIN es : es[i] \in Wanted
      BY <1>1 DEF RecordSeq
    <3> QED
      BY <3>1 DEF Wanted
  <2> QED
    BY <1>8, <2>1 DEF Mine
<1>12. AppliedOf(d, held)
  BY <1>5, <1>8, <1>11 DEF AppliedOf, WritesFit, DoneSoFar
<1> QED
  BY <1>2, <1>9, <1>10, <1>12, AsksIdle, UndisturbingStep DEF ApplySnippet, CallInv

LEMMA ListStep ==
    ASSUME TemplatesIInv, NEW o \in Operators, List(o)
    PROVE  TemplatesIInv'
<1> USE DEF TemplatesIInv
<1> DEFINE c == calls[o]
           d == [c EXCEPT !.at = "write", !.current = held]
<1>1. /\ CallInv(c, zone, templates, held) /\ CallOK(c) /\ c \in Call /\ c.at = "list"
      /\ c.what \in {"apply", "snippet"} /\ held \in SUBSET ZoneRows!Row
  BY DEF List, At, CallsInv, CallInv, CallOK, CallFits, TablesInv
<1>2. Goes(o, Onward(d))
  BY DEF List
<1>3. /\ d \in Call /\ d.at = "write" /\ d.what = c.what /\ d.of = c.of /\ d.list = c.list
      /\ d.seen = c.seen /\ d.alone = c.alone /\ d.before = c.before /\ d.writes = c.writes
      /\ d.expected = c.expected /\ d.keys = c.keys /\ d.current = held
  BY <1>1 DEF Call, Steps
<1> HIDE DEF d
<1>4. CallFits(d)
  BY <1>1, <1>3 DEF CallFits, CallOK
<1>5. ReviewOf(d, zone, templates)
  BY <1>1, <1>3 DEF CallInv, ReviewOf
<1>6. AppliedOf(d, held)
  <2> SUFFICES ASSUME c.alone
               PROVE  /\ d.current = d.before /\ WritesFit(d)
                      /\ OneOfAKind(d) => DoneSoFar(d, held)
    BY <1>3 DEF AppliedOf
  <2>1. c.before = held /\ WritesFit(c) /\ (OneOfAKind(c) => DoneSoFar(c, held))
    BY <1>1 DEF CallInv, AppliedOf
  <2>2. Mine(d) = Mine(c)
    BY <1>3 DEF Mine
  <2>3. WritesFit(d)
    BY <1>3, <2>1, <2>2 DEF WritesFit
  <2>4. OneOfAKind(d) => OneOfAKind(c)
    BY <1>3 DEF OneOfAKind
  <2>5. DoneSoFar(c, held) => DoneSoFar(d, held)
    BY <1>3, <2>2 DEF DoneSoFar
  <2> QED
    BY <1>3, <2>1, <2>3, <2>4, <2>5
<1>7. CallInv(Onward(d), zone, templates, held)
  BY <1>3, <1>4, <1>5, <1>6, OnwardKeeps
<1> QED
  BY <1>1, <1>2, <1>7, UndisturbingStep DEF List

LEMMA ClearStep ==
    ASSUME TemplatesIInv, NEW o \in Operators, Clear(o)
    PROVE  TemplatesIInv'
<1> USE DEF TemplatesIInv
<1>1. CallsInv' /\ Goes(o, Idle) /\ CallInv(Idle, zone', templates', held')
  BY OverStep DEF Clear
<1>2. TablesInv'
  BY DEF Clear, TablesInv
<1>3. zone'.link = zone.link
  BY DEF Clear, TablesInv
<1>4. MarkInv'
  <2>1. CASE calls[o].what = "apply" /\ calls[o].alone
    <3>1. calls[o].seen = templates[zone.link]
      BY <2>1 DEF Clear, At, CallsInv, CallInv, ReviewOf
    <3> QED
      BY <2>1, <3>1, <1>3 DEF Clear, MarkInv
  <2>2. CASE ~ (calls[o].what = "apply" /\ calls[o].alone)
    BY <2>2 DEF Clear, MarkInv
  <2> QED
    BY <2>1, <2>2
<1> QED
  BY <1>1, <1>2, <1>4

-----------------------------------------------------------------------------
\* Applying: the steps that write

\* One write of an undisturbed request: the record of that kind is then the listed one, and
\* the only one of the kind; those of other kinds are as they were.
LEMMA WriteTells ==
    ASSUME TablesInv, NEW o \in Operators, WriteNext(o), CallOK(calls[o]), WritesFit(calls[o]),
           calls[o].current = calls[o].before, OneOfAKind(calls[o]), DoneSoFar(calls[o], held),
           NEW i, i = First(DOMAIN calls[o].writes), i \in DOMAIN calls[o].writes,
           NEW k, k = calls[o].expected[i].key, k \in Slots
    PROVE  /\ \E r \in held' : Rows(held', k) = {r} /\ r.content = calls[o].expected[i].content
           /\ \A l \in Slots : l # k => Rows(held', l) = Rows(held, l)
<1> DEFINE c     == calls[o]
           w     == c.writes[i]
           v     == c.expected[i].content
           known == Rows(held, k)
<1>1. /\ known = Rows(c.before, k) /\ known = Rows(c.current, w.key)
      /\ w.key = k /\ w.content = v
      /\ w.how = "create" => known = {}
      /\ w.how = "update" => known # {}
  BY DEF WritesFit, DoneSoFar
<1>2. w.how \in {"create", "update", "either"}
  <2>1. c.writes \in WriteSets
    BY DEF CallOK, CallFits, Call
  <2> QED
    BY <2>1 DEF WriteSets, Write
<1>3. CASE known = {}
  <2> DEFINE n == ZoneRows!NewRow(lastId + 1, k, v)
  <2>1. w.how = "create" \/ (w.how = "either" /\ Rows(c.current, w.key) = {})
    BY <1>1, <1>2, <1>3
  <2>2. held' = ZoneRows!Create(held, lastId + 1, w.key, w.content)
    BY <2>1 DEF WriteNext
  <2>3. held' = held \cup {n}
    BY <1>1, <2>2 DEF ZoneRows!Create
  <2>4. n.key = k /\ n.content = v
    BY DEF ZoneRows!NewRow
  <2> HIDE DEF n
  <2>5. Rows(held', k) = {n} /\ n \in held'
    BY <1>3, <2>3, <2>4 DEF Rows
  <2>6. \A l \in Slots : l # k => Rows(held', l) = Rows(held, l)
    BY <2>3, <2>4 DEF Rows
  <2> QED
    BY <2>4, <2>5, <2>6
<1>4. CASE known # {}
  <2>1. PICK q \in known : TRUE
    BY <1>4
  <2>2. q \in held /\ q \in ZoneRows!Row /\ q.key = k /\ q.id \in Nat
    BY <2>1, RowType DEF Rows, TablesInv
  <2>3. known = {q}
    BY <1>1, <2>1 DEF OneOfAKind, Rows
  <2> HIDE DEF known
  <2>4. Earliest(known) = q
    BY <2>2, <2>3 DEF Earliest
  <2>5. ~ (w.how = "create" \/ (w.how = "either" /\ Rows(c.current, w.key) = {}))
        /\ Rows(c.current, w.key) # {} /\ Earliest(Rows(c.current, w.key)) = q
    BY <1>1, <1>4, <2>4
  <2>6. held' = ZoneRows!Update(held, q.id, w.key, w.content)
    BY <2>5 DEF WriteNext
  <2> DEFINE n == [q EXCEPT !.key = k, !.content = v]
  <2>7. \A r \in held : r.id = q.id <=> r = q
    BY <2>2 DEF TablesInv
  <2>8. held' = {IF r = q THEN n ELSE r : r \in held}
    <3>1. held' = {IF r.id = q.id THEN [r EXCEPT !.key = k, !.content = v] ELSE r : r \in held}
      <4>1. held' = ZoneRows!Update(held, q.id, k, v)
        BY <1>1, <2>6
      <4> HIDE DEF v, w, c
      <4> QED
        BY <4>1 DEF ZoneRows!Update
    <3> HIDE DEF v
    <3> QED
      BY <2>7, <3>1
  <2>9. n.key = k /\ n.content = v
    BY <2>2 DEF ZoneRows!Row
  <2> HIDE DEF n
  <2>10. n \in held' /\ \A r \in held : r.key = k => r = q
    BY <2>2, <2>3, <2>8 DEF Rows, known
  <2>11. Rows(held', k) = {n}
    BY <2>8, <2>9, <2>10 DEF Rows
  <2>12. \A l \in Slots : l # k => Rows(held', l) = Rows(held, l)
    BY <2>2, <2>8, <2>9 DEF Rows
  <2> QED
    BY <2>9, <2>10, <2>11, <2>12
<1> QED
  BY <1>3, <1>4

\* What is left of a request that has written one record.
LEMMA Written ==
    ASSUME NEW c, CallOK(c), c.at = "write", NEW i, i = First(DOMAIN c.writes),
           NEW e, e = [c EXCEPT !.writes = [j \in DOMAIN @ \ {i} |-> @[j]]]
    PROVE  /\ i \in DOMAIN c.writes /\ i \in DOMAIN c.expected
           /\ c.expected[i].key \in Slots
           /\ c.writes[i].key \in Slots /\ c.writes[i].content \in Worths
           /\ CallFits(e) /\ DOMAIN e.writes = DOMAIN c.writes \ {i}
           /\ \A j \in DOMAIN e.writes : e.writes[j] = c.writes[j]
           /\ e.what = c.what /\ e.at = c.at /\ e.of = c.of /\ e.list = c.list /\ e.seen = c.seen
           /\ e.expected = c.expected /\ e.keys = c.keys /\ e.current = c.current
           /\ e.alone = c.alone /\ e.before = c.before
<1> DEFINE ws   == c.writes
           rest == [j \in DOMAIN ws \ {i} |-> ws[j]]
<1>1. c \in Call /\ DOMAIN ws \subseteq DOMAIN c.expected /\ DOMAIN ws # {} /\ ws \in WriteSets
      /\ c.expected \in RecordSeq
  BY DEF CallOK, CallFits, Call
<1>2. e = [c EXCEPT !.writes = rest]
  BY <1>1 DEF Call
<1>3. DOMAIN ws \in SUBSET Nat /\ \A j \in DOMAIN ws : ws[j] \in Write
  BY <1>1 DEF WriteSets
<1>4. i \in DOMAIN ws
  BY <1>1, <1>3, FirstIsIn
<1>5. \A j \in DOMAIN c.expected : c.expected[j] \in Wanted
  BY <1>1 DEF RecordSeq
<1>6. rest \in [DOMAIN ws \ {i} -> Write]
  BY <1>3
<1>7. rest \in WriteSets /\ DOMAIN rest = DOMAIN ws \ {i} /\ \A j \in DOMAIN rest : rest[j] = ws[j]
  BY <1>3, <1>6 DEF WriteSets
<1> HIDE DEF rest
<1>8. /\ e \in Call /\ e.writes = rest
      /\ e.what = c.what /\ e.at = c.at /\ e.of = c.of /\ e.list = c.list /\ e.seen = c.seen
      /\ e.expected = c.expected /\ e.keys = c.keys /\ e.current = c.current
      /\ e.alone = c.alone /\ e.before = c.before
  BY <1>1, <1>2, <1>7 DEF Call
<1>9. CallFits(e)
  BY <1>1, <1>7, <1>8 DEF CallOK, CallFits
<1>10. i \in DOMAIN c.expected /\ c.expected[i].key \in Slots
  BY <1>1, <1>4, <1>5 DEF Wanted
<1>11. ws[i].key \in Slots /\ ws[i].content \in Worths
  BY <1>3, <1>4 DEF Write
<1> QED
  BY <1>4, <1>7, <1>8, <1>9, <1>10, <1>11

\* What an undisturbed request has done so far, one write later.
LEMMA WrittenDone ==
    ASSUME TablesInv, NEW o \in Operators, WriteNext(o), CallOK(calls[o]), calls[o].at = "write",
           AppliedOf(calls[o], held),
           NEW e, e = [calls[o] EXCEPT !.writes =
                          [j \in DOMAIN @ \ {First(DOMAIN calls[o].writes)} |-> @[j]]]
    PROVE  AppliedOf(e, held')
<1> DEFINE c == calls[o]
           i == First(DOMAIN c.writes)
           k == c.expected[i].key
<1>1. /\ i \in DOMAIN c.writes /\ i \in DOMAIN c.expected /\ k \in Slots
      /\ DOMAIN e.writes = DOMAIN c.writes \ {i}
      /\ \A j \in DOMAIN e.writes : e.writes[j] = c.writes[j]
      /\ e.what = c.what /\ e.at = c.at
      /\ e.expected = c.expected /\ e.keys = c.keys /\ e.current = c.current
      /\ e.alone = c.alone /\ e.before = c.before
  <2> DEFINE es == e
  <2> HIDE DEF i
  <2>1. i = First(DOMAIN c.writes) /\ e = [c EXCEPT !.writes = [j \in DOMAIN @ \ {i} |-> @[j]]]
    BY DEF i
  <2> HIDE DEF c
  <2>2. CallOK(c) /\ c.at = "write"
    BY DEF c
  <2> QED
    BY <2>1, <2>2, Written DEF c
<1> SUFFICES ASSUME c.what \in {"apply", "snippet"}, c.alone
             PROVE  /\ e.current = e.before /\ WritesFit(e)
                    /\ OneOfAKind(e) => DoneSoFar(e, held')
  BY <1>1 DEF AppliedOf
<1>2. c.current = c.before /\ WritesFit(c) /\ (OneOfAKind(c) => DoneSoFar(c, held))
  BY DEF AppliedOf
<1>3. Mine(e) = Mine(c)
  BY <1>1 DEF Mine
<1>4. WritesFit(e)
  <2> HIDE DEF c, i, k
  <2> SUFFICES ASSUME NEW j \in DOMAIN e.writes
               PROVE  /\ j \in Mine(e)
                      /\ e.writes[j].key = e.expected[j].key /\ e.writes[j].content = e.expected[j].content
                      /\ e.writes[j].how = "create" => Rows(e.before, e.expected[j].key) = {}
                      /\ e.writes[j].how = "update" => Rows(e.before, e.expected[j].key) # {}
    BY DEF WritesFit
  <2>1. j \in DOMAIN c.writes /\ e.writes[j] = c.writes[j]
    BY <1>1
  <2>2. /\ j \in Mine(c)
        /\ c.writes[j].key = c.expected[j].key /\ c.writes[j].content = c.expected[j].content
        /\ c.writes[j].how = "create" => Rows(c.before, c.expected[j].key) = {}
        /\ c.writes[j].how = "update" => Rows(c.before, c.expected[j].key) # {}
    BY <1>2, <2>1 DEF WritesFit
  <2>3. e.expected[j] = c.expected[j] /\ e.before = c.before
    BY <1>1
  <2> QED
    BY <1>3, <2>1, <2>2, <2>3
<1>5. ASSUME OneOfAKind(e) PROVE DoneSoFar(e, held')
  <2>1. OneOfAKind(c) /\ DoneSoFar(c, held)
    BY <1>1, <1>2, <1>5 DEF OneOfAKind
  <2>2. /\ \E r \in held' : Rows(held', k) = {r} /\ r.content = c.expected[i].content
        /\ \A l \in Slots : l # k => Rows(held', l) = Rows(held, l)
    BY <1>1, <1>2, <2>1, WriteTells
  <2>3. \A j \in Mine(c) : j # i => c.expected[j].key # k /\ c.expected[j].key \in Slots
    <3>1. \A j \in Mine(c) : j # i => c.expected[j].key # k
      BY <1>1, <2>1 DEF OneOfAKind, Mine
    <3>2. c.expected \in RecordSeq
      BY DEF CallOK, CallFits, Call
    <3>3. \A j \in DOMAIN c.expected : c.expected[j] \in Wanted
      <4> HIDE DEF c
      <4> QED
        BY <3>2 DEF RecordSeq
    <3> QED
      BY <3>1, <3>3 DEF Mine, Wanted
  <2>4. i \in Mine(c) /\ DOMAIN c.writes \subseteq Mine(c)
    BY <1>1, <1>2 DEF WritesFit
  <2> HIDE DEF c, i, k
  <2>5. \A j \in DOMAIN e.writes :
           Rows(held', e.expected[j].key) = Rows(e.before, e.expected[j].key)
    BY <1>1, <2>1, <2>2, <2>3, <2>4 DEF DoneSoFar
  <2>6. ASSUME NEW j \in Mine(e) \ DOMAIN e.writes
        PROVE  \E r \in held' : Rows(held', e.expected[j].key) = {r} /\ r.content = e.expected[j].content
    <3>1. CASE j = i
      BY <1>1, <2>2, <3>1 DEF k
    <3>2. CASE j # i
      <4>1. j \in Mine(c) \ DOMAIN c.writes
        BY <1>1, <1>3, <2>6, <3>2
      <4>2. PICK r \in held : Rows(held, c.expected[j].key) = {r} /\ r.content = c.expected[j].content
        BY <2>1, <4>1 DEF DoneSoFar
      <4>3. Rows(held', c.expected[j].key) = {r}
        BY <2>2, <2>3, <3>2, <4>1, <4>2
      <4>4. r \in held'
        BY <4>3 DEF Rows
      <4> QED
        BY <1>1, <4>2, <4>3, <4>4
    <3> QED
      BY <3>1, <3>2
  <2>7. \A l \in Slots : (\A j \in Mine(e) : e.expected[j].key # l) => Rows(held', l) = Rows(e.before, l)
    <3> SUFFICES ASSUME NEW l \in Slots, \A j \in Mine(e) : e.expected[j].key # l
                 PROVE  Rows(held', l) = Rows(e.before, l)
      OBVIOUS
    <3>1. \A j \in Mine(c) : c.expected[j].key # l
      BY <1>1, <1>3
    <3>2. l # k
      BY <2>4, <3>1 DEF k
    <3>3. Rows(held, l) = Rows(c.before, l)
      BY <2>1, <3>1 DEF DoneSoFar
    <3> QED
      BY <1>1, <2>2, <3>2, <3>3
  <2> QED
    BY <2>5, <2>6, <2>7 DEF DoneSoFar
<1> QED
  BY <1>1, <1>2, <1>4, <1>5

\* A write keeps the invariant, whatever others have done to the rows it was to write.
LEMMA WriteNextStep ==
    ASSUME TemplatesIInv, NEW o \in Operators, WriteNext(o)
    PROVE  TemplatesIInv'
<1> USE DEF TemplatesIInv
<1> DEFINE c == calls[o]
           i == First(DOMAIN c.writes)
           e == [c EXCEPT !.writes = [j \in DOMAIN @ \ {i} |-> @[j]]]
           w == c.writes[i]
<1>1. CallOK(c) /\ c.at = "write" /\ ReviewOf(c, zone, templates) /\ AppliedOf(c, held)
      /\ UNCHANGED <<snippets, templates, zone, reviewed>>
  BY DEF WriteNext, At, CallsInv, CallInv
<1>2. /\ w.key \in Slots /\ w.content \in Worths
      /\ CallFits(e) /\ e.what = c.what /\ e.at = c.at /\ e.of = c.of /\ e.seen = c.seen /\ e.alone = c.alone
  BY <1>1, Written
<1>3. lastId' \in 0..MaxRowId /\ Table(held', lastId')
  <2>1. Table(held, lastId) /\ lastId \in 0..MaxRowId
    BY DEF TablesInv, Table
  <2>2. CASE lastId < MaxRowId /\ lastId' = lastId + 1
             /\ held' = ZoneRows!Create(held, lastId + 1, w.key, w.content)
    <3>1. lastId' \in 0..MaxRowId
      BY <2>1, <2>2, TemplatesAssumption
    <3> HIDE DEF w
    <3> QED
      BY <1>2, <2>1, <2>2, <3>1, CreateKeepsTable
  <2>3. CASE lastId' = lastId /\ held' = held
    BY <2>1, <2>3
  <2>4. CASE lastId' = lastId /\ held' = ZoneRows!Update(held, Earliest(Rows(c.current, w.key)).id, w.key, w.content)
    <3> HIDE DEF w
    <3> QED
      BY <1>2, <2>1, <2>4, UpdateKeepsTable
  <2> QED
    BY <2>2, <2>3, <2>4 DEF WriteNext
<1>4. Goes(o, Idle) \/ Goes(o, Onward(e))
  BY DEF WriteNext
<1>5. CASE Goes(o, Idle)
  BY <1>1, <1>3, <1>5, IdleOK, HeldStep
<1>6. CASE Goes(o, Onward(e))
  <2>1. AppliedOf(e, held')
    BY <1>1, WrittenDone
  <2> HIDE DEF e
  <2>2. ReviewOf(e, zone', templates')
    BY <1>1, <1>2 DEF ReviewOf
  <2>3. CallInv(Onward(e), zone', templates', held')
    BY <1>1, <1>2, <2>1, <2>2, OnwardKeeps
  <2>4. CallsInv'
    BY <1>6, <2>3, GoesKeeps
  <2>5. MarkInv'
    BY <1>1, <1>6, <2>3, MarkStays
  <2>6. TablesInv'
    BY <1>1, <1>3 DEF TablesInv, Table
  <2> QED
    BY <2>4, <2>5, <2>6
<1> QED
  BY <1>4, <1>5, <1>6

-----------------------------------------------------------------------------
\* The tables of a service that starts.
LEMMA TemplatesBegin == TemplatesInit => TemplatesIInv
<1> SUFFICES ASSUME TemplatesInit PROVE TemplatesIInv
  OBVIOUS
<1>1. PICK t \in TemplateIds \cup {NoRow}, l \in SnippetLists :
         /\ zone = [link |-> t, pending |-> t # NoRow]
         /\ templates = [u \in TemplateIds |-> IF u = t THEN l ELSE NoRow]
  BY DEF TemplatesInit
<1>2. l \in SnippetSeq /\ l # NoRow
  BY TemplatesAssumption DEF SnippetSeq
<1>3. \A s \in Snippets : snippets[s] \in RecordSeq /\ snippets[s] # NoRow
  <2>1. \A s \in Snippets : snippets[s] \in RecordLists
    BY DEF TemplatesInit
  <2> QED
    BY <2>1, TemplatesAssumption DEF RecordSeq, Wanted
<1>4. snippets \in [Snippets -> {NoRow} \cup RecordSeq]
  <2>1. snippets \in [Snippets -> RecordLists]
    BY DEF TemplatesInit
  <2> QED
    BY <1>3, <2>1
<1>5. templates \in [TemplateIds -> {NoRow} \cup SnippetSeq]
  BY <1>1, <1>2
<1>6. \A u \in TemplateIds : templates[u] # NoRow =>
         \A i \in DOMAIN templates[u] : snippets[templates[u][i]] # NoRow
  <2>1. \A i \in DOMAIN l : l[i] \in Snippets
    BY <1>2 DEF SnippetSeq
  <2> QED
    BY <1>1, <1>3, <2>1
<1>7. zone.link # NoRow => templates[zone.link] # NoRow
  BY <1>1, <1>2
<1>8. zone \in [link : TemplateIds \cup {NoRow}, pending : BOOLEAN]
  BY <1>1
<1>9. TablesInv
  BY <1>4, <1>5, <1>6, <1>7, <1>8, TemplatesAssumption DEF TablesInv, TemplatesInit
<1>10. CallsInv
  <2>1. calls = [o \in Operators |-> Idle]
    BY DEF TemplatesInit
  <2>2. CallInv(Idle, zone, templates, held)
    BY IdleOK, PlainCall
  <2> QED
    BY <2>1, <2>2 DEF CallsInv
<1>11. MarkInv
  BY DEF MarkInv, TemplatesInit
<1> QED
  BY <1>9, <1>10, <1>11 DEF TemplatesIInv

\* Every step of every request keeps the invariant.
LEMMA TemplatesSteps ==
    ASSUME TemplatesIInv, [TemplatesNext]_templateVars
    PROVE  TemplatesIInv'
<1>1. CASE TemplatesNext
  <2>1. PICK o \in Operators :
           SnippetRequest(o) \/ TemplateRequest(o) \/ RecordRequest(o) \/ Continue(o)
    BY <1>1 DEF TemplatesNext
  <2>2. CASE SnippetRequest(o)
    BY <2>2, SnippetsStep, ApplySnippetStep DEF SnippetRequest
  <2>3. CASE TemplateRequest(o)
    BY <2>3, DeleteTemplateStep, PushTemplateStep, NewTemplateStep, PutTemplateStep, UnlinkStep,
       ApplyTemplateStep DEF TemplateRequest
  <2>4. CASE RecordRequest(o)
    BY <2>4, RecordsStep
  <2>5. CASE Continue(o)
    BY <2>5, SnippetsStep, FlagFirstStep, SetSnippetsStep, FlagStep, LinkStep, FindTemplateStep,
       ExpectStep, CompareStep, ListStep, WriteNextStep, ClearStep, RecordsStep DEF Continue
  <2> QED
    BY <2>1, <2>2, <2>3, <2>4, <2>5
<1>2. CASE UNCHANGED templateVars
  <2>1. TablesInv'
    BY <1>2 DEF TemplatesIInv, TablesInv, templateVars
  <2>2. CallsInv' /\ MarkInv'
    BY <1>2 DEF TemplatesIInv, CallsInv, MarkInv, templateVars
  <2> QED
    BY <2>1, <2>2 DEF TemplatesIInv
<1> QED
  BY <1>1, <1>2

\* What TemplatesIInv says of the tables, of every request at each of its steps and of the mark
\* holds in every state of the service.
THEOREM TemplatesReachable == TemplatesSpec => []TemplatesIInv
  BY TemplatesBegin, TemplatesSteps, PTL DEF TemplatesSpec

\* No request leaves a reference to a template, a snippet or a zone that is gone, and a linked
\* zone without a mark was compared with the list its template has now, unless the request
\* that cleared the mark was disturbed (POST /zones/<id>/template/apply, PUT /templates/<id>).
THEOREM TemplatesStayWhole == TemplatesSpec => []TemplatesInv
<1>1. ASSUME TemplatesIInv PROVE TemplatesInv
  <2>1. \A s \in Snippets : snippets[s] # NoRow =>
           \A i \in DOMAIN snippets[s] : snippets[s][i] \in Wanted
    <3> SUFFICES ASSUME NEW s \in Snippets, snippets[s] # NoRow
                 PROVE  \A i \in DOMAIN snippets[s] : snippets[s][i] \in Wanted
      OBVIOUS
    <3>1. snippets[s] \in Seq(Wanted)
      BY <1>1 DEF TemplatesIInv, TablesInv, RecordSeq
    <3> QED
      BY <3>1
  <2>2. \A o \in Operators : \A i \in DOMAIN calls[o].writes : calls[o].writes[i] \in Write
    <3> SUFFICES ASSUME NEW o \in Operators
                 PROVE  \A i \in DOMAIN calls[o].writes : calls[o].writes[i] \in Write
      OBVIOUS
    <3>1. calls[o].writes \in WriteSets
      BY <1>1 DEF TemplatesIInv, CallsInv, CallInv, CallOK, CallFits, Call
    <3> QED
      BY <3>1 DEF WriteSets
  <2>3. TemplatesTypeOK
    BY <1>1, <2>1, <2>2 DEF TemplatesTypeOK, TemplatesIInv, TablesInv
  <2>4. FlagTells
    <3>1. Idle.at # "flag"
      BY IdleOK
    <3> QED
      BY <1>1, <3>1 DEF FlagTells, TemplatesIInv, MarkInv
  <2> QED
    BY <2>3, <2>4 DEF TemplatesInv
<1> QED
  BY <1>1, TemplatesReachable, PTL

\* A step is the step of one request: one that comes in, or one that goes on.
LEMMA StepOfOne ==
    ASSUME NEW o \in Operators,
           SnippetRequest(o) \/ TemplateRequest(o) \/ RecordRequest(o) \/ Continue(o)
    PROVE  (\E d : Goes(o, d)) /\ (calls[o] = Idle \/ Continue(o))
<1> USE DEF Over, Asks
<1>1. CASE SnippetRequest(o)
  BY <1>1 DEF SnippetRequest, DeleteSnippet, ApplySnippet, NewSnippet, PutSnippet
<1>2. CASE TemplateRequest(o)
  BY <1>2 DEF TemplateRequest, DeleteTemplate, PushTemplate, NewTemplate, PutTemplate, Unlink,
     ApplyTemplate
<1>3. CASE RecordRequest(o)
  BY <1>3 DEF RecordRequest, BatchCreate, BatchUpdate, EditRow, PurgeRows
<1>4. CASE Continue(o)
  <2>1. ReplaceRecords(o) \/ FlagFirst(o) \/ SetSnippets(o) \/ Flag(o) \/ Link(o) => \E d : Goes(o, d)
    BY DEF ReplaceRecords, FlagFirst, SetSnippets, Flag, Link
  <2>2. FindTemplate(o) \/ Expect(o) \/ Compare(o) \/ List(o) => \E d : Goes(o, d)
    BY DEF FindTemplate, Expect, Compare, List
  <2>3. WriteNext(o) \/ Clear(o) \/ BatchDelete(o) => \E d : Goes(o, d)
    BY DEF WriteNext, Clear, BatchDelete
  <2> QED
    BY <1>4, <2>1, <2>2, <2>3 DEF Continue
<1> QED
  BY <1>1, <1>2, <1>3, <1>4

\* The request whose write it is, is the one whose turn it is.
LEMMA EndsItself ==
    ASSUME TemplatesIInv, TemplatesNext, NEW o \in Operators,
           calls[o].at \in {"write", "clear"}, calls'[o] = Idle
    PROVE  calls'[o] = calls[o] \/ WriteNext(o) \/ Clear(o)
<1> DEFINE c == calls[o]
<1>1. CallOK(c) /\ c.what # "none"
  BY DEF TemplatesIInv, CallsInv, CallInv, CallOK, CallFits
<1>2. PICK p \in Operators :
         SnippetRequest(p) \/ TemplateRequest(p) \/ RecordRequest(p) \/ Continue(p)
  BY DEF TemplatesNext
<1>3. PICK d : Goes(p, d)
  BY <1>2, StepOfOne
<1>4. p = o
  <2> SUFFICES ASSUME p # o PROVE FALSE
    OBVIOUS
  <2>1. c # Idle
    BY <1>1, IdleOK
  <2>2. CASE shared' = shared
    <3>1. calls'[o] = c
      BY <1>3, <2>2 DEF Goes, TemplatesIInv, CallsInv
    <3> QED
      BY <2>1, <3>1
  <2>3. CASE shared' # shared
    <3>1. calls'[o] = Disturbed(c)
      BY <1>3, <2>1, <2>3 DEF Goes
    <3>2. calls'[o].what = c.what
      BY <1>1, <3>1, DisturbedOK
    <3> QED
      BY <1>1, <3>2, IdleOK
  <2> QED
    BY <2>2, <2>3
<1>5. Continue(o)
  BY <1>1, <1>2, <1>4, StepOfOne, IdleOK
<1> QED
  BY <1>5 DEF Continue, ReplaceRecords, FlagFirst, SetSnippets, Flag, Link, FindTemplate, Expect,
     Compare, List, BatchDelete, At

\* The write after which the request is over leaves nothing to write: the record it is to
\* update cannot be gone when nobody else was there.
LEMMA LastWrite ==
    ASSUME TemplatesIInv, NEW o \in Operators, WriteNext(o),
           calls[o].what \in {"apply", "snippet"}, calls'[o] = Idle,
           calls[o].alone, OneOfAKind(calls[o])
    PROVE  \E e : /\ e.expected = calls[o].expected /\ e.keys = calls[o].keys
                  /\ e.before = calls[o].before /\ DOMAIN e.writes = {} /\ DoneSoFar(e, held')
<1> DEFINE c == calls[o]
           i == First(DOMAIN c.writes)
           e == [c EXCEPT !.writes = [j \in DOMAIN @ \ {i} |-> @[j]]]
           w == c.writes[i]
           known == Rows(c.current, w.key)
           new   == w.how = "create" \/ (w.how = "either" /\ known = {})
<1>1. CallOK(c) /\ c.at = "write" /\ AppliedOf(c, held)
  BY DEF WriteNext, At, TemplatesIInv, CallsInv, CallInv
<1>2. /\ i \in DOMAIN c.writes /\ CallFits(e) /\ e.at = "write" /\ e.what = c.what
      /\ e.expected = c.expected /\ e.keys = c.keys /\ e.before = c.before /\ e.alone = c.alone
  <2> HIDE DEF i, c, e
  <2>1. i = First(DOMAIN c.writes)
    BY DEF i
  <2>2. e = [c EXCEPT !.writes = [j \in DOMAIN @ \ {i} |-> @[j]]]
    BY DEF e
  <2> QED
    BY <1>1, <2>1, <2>2, Written
<1>3. new \/ known = {} \/ ZoneRows!HasId(held, Earliest(known).id)
  <2> SUFFICES ASSUME known # {} PROVE ZoneRows!HasId(held, Earliest(known).id)
    OBVIOUS
  <2>1. c.current = c.before /\ WritesFit(c) /\ DoneSoFar(c, held)
    BY <1>1 DEF AppliedOf
  <2>2. known = Rows(held, c.expected[i].key) /\ known = Rows(c.before, w.key)
    BY <1>2, <2>1 DEF WritesFit, DoneSoFar
  <2>3. PICK q \in known : TRUE
    OBVIOUS
  <2>4. q \in held /\ q.id \in Nat
    BY <2>2, <2>3, RowType DEF Rows, TemplatesIInv, TablesInv
  <2>5. known = {q}
    BY <2>2, <2>3 DEF OneOfAKind, Rows
  <2> HIDE DEF known
  <2>6. Earliest(known) = q
    BY <2>4, <2>5 DEF Earliest
  <2> QED
    BY <2>4, <2>6 DEF ZoneRows!HasId
<1>4. Goes(o, Onward(e))
  BY <1>3 DEF WriteNext
<1>5. AppliedOf(e, held')
  BY <1>1, WrittenDone DEF TemplatesIInv
<1> HIDE DEF e
<1>6. Onward(e) = Idle
  BY <1>4 DEF Goes, TemplatesIInv, CallsInv
<1>7. DOMAIN e.writes = {}
  <2> SUFFICES ASSUME DOMAIN e.writes # {} PROVE FALSE
    OBVIOUS
  <2>1. Onward(e) = e
    BY <1>2 DEF Onward
  <2> QED
    BY <1>2, <1>6, <2>1, IdleOK
<1>8. e.what # "apply"
  <2> SUFFICES ASSUME e.what = "apply" PROVE FALSE
    OBVIOUS
  <2>1. Onward(e) = [e EXCEPT !.at = "clear"]
    BY <1>2, <1>7 DEF Onward
  <2>2. Onward(e).at = "clear"
    BY <1>2, <2>1 DEF CallFits, Call
  <2> QED
    BY <1>6, <2>2, IdleOK
<1>9. OneOfAKind(e)
  BY <1>2 DEF OneOfAKind
<1>10. DoneSoFar(e, held')
  BY <1>2, <1>5, <1>9 DEF AppliedOf
<1> QED
  BY <1>2, <1>7, <1>10

\* An application of a template or of a snippet that nobody disturbs leaves in the zone what it
\* was to write, each record once, and every record of another kind as it was.
THEOREM ApplicationsAreThere == TemplatesSpec => AppliedIsThere
<1> DEFINE Finishes(o) == /\ calls[o].what \in {"apply", "snippet"} /\ calls[o].at \in {"write", "clear"}
                      /\ calls'[o] = Idle /\ calls[o].alone /\ OneOfAKind(calls[o])
           Is(c)   == {i \in DOMAIN c.expected : c.expected[i].key \in c.keys}
           There(c) ==
             /\ \A i \in Is(c) : \E r \in held' :
                   Rows(held', c.expected[i].key) = {r} /\ r.content = c.expected[i].content
             /\ \A k \in Slots : (\A i \in Is(c) : c.expected[i].key # k) =>
                   Rows(held', k) = Rows(c.before, k)
<1>1. ASSUME TemplatesIInv, TemplatesNext, NEW o \in Operators, Finishes(o)
      PROVE  There(calls[o])
  <2> DEFINE c == calls[o]
  <2>1. CallOK(c) /\ AppliedOf(c, held)
    BY <1>1 DEF TemplatesIInv, CallsInv, CallInv
  <2>2. \E e : /\ e.expected = c.expected /\ e.keys = c.keys
               /\ e.before = c.before /\ DOMAIN e.writes = {} /\ DoneSoFar(e, held')
    <3>1. c # Idle
      BY <1>1, <2>1, IdleOK
    <3>2. WriteNext(o) \/ Clear(o)
      BY <1>1, <3>1, EndsItself
    <3>3. CASE WriteNext(o)
      BY <1>1, <3>3, LastWrite
    <3>4. CASE Clear(o)
      <4>1. c.at = "clear" /\ held' = held
        BY <3>4 DEF Clear, At
      <4>2. DOMAIN c.writes = {} /\ DoneSoFar(c, held)
        BY <1>1, <2>1, <4>1 DEF AppliedOf
      <4> QED
        BY <4>1, <4>2
    <3> QED
      BY <3>2, <3>3, <3>4
  <2>3. PICK e : /\ e.expected = c.expected /\ e.keys = c.keys
                 /\ e.before = c.before /\ DOMAIN e.writes = {} /\ DoneSoFar(e, held')
    BY <2>2
  <2>4. Mine(e) = Is(c)
    BY <2>3 DEF Mine
  <2> HIDE DEF c, Is
  <2>5. There(c)
    BY <2>3, <2>4 DEF DoneSoFar
  <2> QED
    BY <2>5 DEF c
<1>2. TemplatesIInv /\ [TemplatesNext]_templateVars =>
         [\A o \in Operators :
            LET c    == calls[o]
                mine == {i \in DOMAIN c.expected : c.expected[i].key \in c.keys}
            IN  (/\ c.what \in {"apply", "snippet"} /\ c.at \in {"write", "clear"}
                 /\ calls'[o] = Idle /\ c.alone /\ OneOfAKind(c)) =>
                /\ \A i \in mine : \E r \in held' :
                      Rows(held', c.expected[i].key) = {r} /\ r.content = c.expected[i].content
                /\ \A k \in Slots : (\A i \in mine : c.expected[i].key # k) =>
                      Rows(held', k) = Rows(c.before, k)]_templateVars
  <2>1. CASE UNCHANGED templateVars
    BY <2>1
  <2>2. CASE TemplatesNext
    BY <1>1, <2>2
  <2> QED
    BY <2>1, <2>2
<1>3. TemplatesSpec => []TemplatesIInv
  BY TemplatesReachable
<1> HIDE DEF Finishes, There, Is
<1> QED
  BY <1>2, <1>3, PTL DEF TemplatesSpec, AppliedIsThere
=============================================================================
