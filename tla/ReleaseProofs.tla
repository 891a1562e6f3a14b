--------------------------- MODULE ReleaseProofs ----------------------------
(***************************************************************************)
(* For every bound: the files hold what the commands write, every receipt  *)
(* ever written names one seed, and the protocol implements Blinding.      *)
(***************************************************************************)
EXTENDS Release, SequenceTheorems, TLAPS

LEMMA CommitFields ==
  ASSUME ReleaseTypeOK
  PROVE  /\ Len(commits) \in Nat /\ head \in 1..Len(commits)
         /\ AllRefs \subseteq 1..Len(commits) /\ 1..Len(commits) \subseteq Shas
         /\ \A c \in 1..Len(commits) :
              /\ commits[c] \in Commits
              /\ commits[c].past \in SUBSET Shas /\ commits[c].parent \in {0} \cup Shas
              /\ commits[c].tree \in Trees
<1>1. commits \in Seq(Commits) /\ Len(commits) \in Nat
  BY DEF ReleaseTypeOK
<1>2. \A c \in 1..Len(commits) : commits[c] \in Commits
  BY <1>1, ElementOfSeq
<1>3. AllRefs \subseteq 1..Len(commits)
  BY <1>1 DEF ReleaseTypeOK, AllRefs, Past
<1>4. 1..Len(commits) \subseteq Shas
  BY <1>1, ReleaseAssumption DEF ReleaseTypeOK, Shas, ReleaseAssumption
<1> QED
  BY <1>1, <1>2, <1>3, <1>4 DEF Commits, ReleaseTypeOK

(* A file of the working tree is overwritten. *)
LEMMA Overwritten ==
  ASSUME NEW t \in Trees
  PROVE  /\ \A x \in {0, 1} : [t EXCEPT !["marker"] = x] \in Trees
         /\ \A x \in Locks : [t EXCEPT !["locks"] = x] \in Trees
         /\ \A x \in Receipts : [t EXCEPT !["reveal"] = x] \in Trees
         /\ \A x \in Manifests : [t EXCEPT !["manifest"] = x] \in Trees
  BY DEF Trees

LEMMA CommitType ==
  ASSUME ReleaseTypeOK, NEW parent \in 1..Len(commits), NEW past \in SUBSET (1..Len(commits)),
         NEW files, NewCommit(parent, past, files), detours' \in 0..MaxDetours
  PROVE  ReleaseTypeOK'
<1> DEFINE new == Len(commits) + 1
           tree == [f \in Tracked |-> IF f \in files THEN disk[f] ELSE Tree(head)[f]]
           record == [past |-> past \cup {new}, parent |-> parent, tree |-> tree]
<1>1. /\ Len(commits) \in Nat /\ new \in Shas /\ Len(commits) < MaxCommits
      /\ MaxCommits \in Nat /\ 1..Len(commits) \subseteq Shas
  BY CommitFields, ReleaseAssumption DEF NewCommit, Shas, ReleaseAssumption
<1>2. tree \in Trees
  <2>1. disk \in Trees /\ Tree(head) \in Trees
    BY CommitFields DEF ReleaseTypeOK, Tree
  <2> QED
    BY <2>1 DEF Trees, Tracked
<1>3. record \in Commits
  BY <1>1, <1>2 DEF Commits
<1>4. commits' = Append(commits, record) /\ head' = new
  BY DEF NewCommit, Tree
<1> HIDE DEF tree
<1>5. /\ commits' \in Seq(Commits) /\ Len(commits') = Len(commits) + 1
      /\ \A c \in 1..Len(commits) : commits'[c] = commits[c]
      /\ commits'[new] = record
  BY <1>1, <1>3, <1>4 DEF ReleaseTypeOK
<1>6. \A c \in 1..Len(commits') :
        c \in Past(c)' /\ Past(c)' \subseteq 1..c /\ commits'[c].parent < c
  <2> SUFFICES ASSUME NEW c \in 1..Len(commits')
               PROVE  c \in commits'[c].past /\ commits'[c].past \subseteq 1..c
                      /\ commits'[c].parent < c
    BY DEF Past
  <2>1. CASE c = new
    <3>1. commits'[c].past = past \cup {new} /\ commits'[c].parent = parent
      BY <2>1, <1>5
    <3>2. 1..Len(commits) \subseteq 1..new /\ new \in 1..new /\ parent < new
      BY <1>1
    <3> QED
      BY <2>1, <3>1, <3>2
  <2>2. CASE c # new
    BY <2>2, <1>1, <1>5 DEF ReleaseTypeOK, Past
  <2> QED
    BY <2>1, <2>2
<1>7. kept' \cup {head', public'} \subseteq 1..Len(commits')
  BY <1>1, <1>4, <1>5 DEF ReleaseTypeOK, NewCommit
<1> QED
  BY <1>1, <1>5, <1>6, <1>7 DEF ReleaseTypeOK, NewCommit, inputs, heldout

(* A step that leaves the commits alone keeps them well formed. *)
LEMMA GitKept ==
  ASSUME ReleaseTypeOK, commits' = commits,
         head' \in 1..Len(commits), public' \in 1..Len(commits),
         kept' \subseteq 1..Len(commits)
  PROVE  /\ commits' \in Seq(Commits) /\ Len(commits') <= MaxCommits
         /\ \A c \in 1..Len(commits') :
              c \in Past(c)' /\ Past(c)' \subseteq 1..c /\ commits'[c].parent < c
         /\ kept' \cup {head', public'} \subseteq 1..Len(commits')
  BY DEF ReleaseTypeOK, Past

LEMMA FileTypes ==
  ASSUME ReleaseTypeOK
  PROVE  /\ disk.marker \in {0, 1, Absent} /\ disk.locks \in Locks \cup {Absent}
         /\ disk.reveal \in Receipts \cup {Absent}
         /\ disk.manifest \in Manifests \cup {Absent}
         /\ ReadLocks \in Locks
<1>1. Unlocked \in Locks
  BY ReleaseAssumption DEF Unlocked, Locks, Versions, ReleaseAssumption
<1> QED
  BY <1>1 DEF ReleaseTypeOK, Trees, ReadLocks

(* The working tree changes, and git does not. *)
LEMMA DiskType ==
  ASSUME ReleaseTypeOK, disk' \in Trees, UNCHANGED <<git, inputs, detours, traces>>,
         payload' \in Bytes \cup {Absent}, certspecs' \in Bytes \cup {Absent},
         revealed' \subseteq Receipts
  PROVE  ReleaseTypeOK'
  BY DEF ReleaseTypeOK, git, inputs, Past

LEMMA TypeInit == Init => ReleaseTypeOK
<1> SUFFICES ASSUME Init PROVE ReleaseTypeOK
  OBVIOUS
<1> DEFINE root == [past |-> {1}, parent |-> 0, tree |-> Initial]
<1>1. MaxCommits \in Nat \ {0} /\ 1 \in Shas /\ MaxVersions \in Nat /\ MaxDetours \in Nat
  BY ReleaseAssumption DEF ReleaseAssumption, Shas
<1>2. Initial \in Trees
  BY DEF Initial, Trees
<1>3. root \in Commits
  BY <1>1, <1>2 DEF Commits
<1>4. commits = <<root>>
  BY DEF Init
<1> HIDE DEF root
<1>5. commits \in Seq(Commits) /\ Len(commits) = 1 /\ commits[1] = root
  BY <1>3, <1>4
<1>6. \A c \in 1..Len(commits) : c \in Past(c) /\ Past(c) \subseteq 1..c /\ commits[c].parent < c
  <2>1. 1..Len(commits) = {1} /\ 1..1 = {1}
    BY <1>5
  <2> QED
    BY <1>5, <2>1 DEF Past, root
<1>7. Retired \in Bytes
  BY DEF Retired, Bytes
<1> QED
  BY <1>1, <1>2, <1>5, <1>6, <1>7 DEF Init, ReleaseTypeOK, Versions

LEMMA TypeStep == ReleaseTypeOK /\ [Next]_vars => ReleaseTypeOK'
<1> SUFFICES ASSUME ReleaseTypeOK, [Next]_vars PROVE ReleaseTypeOK'
  OBVIOUS
<1> USE DEF ReleaseTypeOK
<1>1. ASSUME NEW files \in Staged, Commit(files) PROVE ReleaseTypeOK'
  <2>1. Past(head) \in SUBSET (1..Len(commits)) /\ head \in 1..Len(commits)
    BY CommitFields
  <2> QED
    BY <1>1, <2>1, CommitType DEF Commit
<1>2. ASSUME NEW files \in Staged, Amend(files) PROVE ReleaseTypeOK'
  <2> DEFINE parent == commits[head].parent
  <2>1. parent \in 1..Len(commits)
    BY <1>2, CommitFields DEF Amend, Shas
  <2>2. Past(parent) \in SUBSET (1..Len(commits))
    BY <2>1, CommitFields
  <2>3. detours' \in 0..MaxDetours
    BY <1>2, ReleaseAssumption DEF Amend, Detour, ReleaseAssumption
  <2> QED
    BY <1>2, <2>1, <2>2, <2>3, CommitType DEF Amend
<1>3. ASSUME NEW c \in AllRefs, NEW keep \in BOOLEAN, Switch(c, keep) PROVE ReleaseTypeOK'
  <2>1. head' \in 1..Len(commits) /\ public' \in 1..Len(commits)
        /\ kept' \subseteq 1..Len(commits) /\ commits' = commits
    BY <1>3, CommitFields DEF Switch
  <2>2. Tree(c) \in Trees /\ disk \in Trees
    BY <1>3, CommitFields DEF Tree
  <2>3. disk' \in Trees
    BY <1>3, <2>2 DEF Switch, Trees, Tracked
  <2>4. detours' \in 0..MaxDetours
    BY <1>3, ReleaseAssumption DEF Switch, Detour, ReleaseAssumption
  <2> QED
    BY <1>3, <2>1, <2>3, <2>4, GitKept DEF Switch, inputs, heldout
<1>4. CASE Push
  <2>1. head' \in 1..Len(commits) /\ public' \in 1..Len(commits)
        /\ kept' \subseteq 1..Len(commits) /\ commits' = commits
    BY <1>4, CommitFields DEF Push
  <2> QED
    BY <1>4, <2>1, GitKept DEF Push, inputs, heldout
<1>5. CASE Train
  BY <1>5, ReleaseAssumption DEF Train, git, heldout, Past, Versions, ReleaseAssumption
<1>6. CASE EditFrozen
  BY <1>6, ReleaseAssumption DEF EditFrozen, Detour, git, heldout, Past, ReleaseAssumption
<1>7. CASE EditGenerator
  BY <1>7, ReleaseAssumption DEF EditGenerator, Detour, git, heldout, Past, ReleaseAssumption
<1>8. ASSUME NEW force \in BOOLEAN, FinalizePrereg(force) PROVE ReleaseTypeOK'
  <2>1. disk' \in Trees
    BY <1>8, Overwritten DEF FinalizePrereg
  <2> QED
    BY <1>8, <2>1, DiskType DEF FinalizePrereg, heldout
<1>9. ASSUME NEW p \in AllRefs, LockPrompt(p) PROVE ReleaseTypeOK'
  <2>1. [ReadLocks EXCEPT !.P = p] \in Locks
    BY CommitFields, FileTypes DEF Locks
  <2>2. disk' \in Trees
    BY <1>9, <2>1, Overwritten DEF LockPrompt
  <2> QED
    BY <1>9, <2>2, DiskType DEF LockPrompt, heldout
<1>10. CASE LockCheckpoint
  <2>1. [ReadLocks EXCEPT !.ckpt = adapter] \in Locks
    BY FileTypes DEF Locks
  <2>2. disk' \in Trees
    BY <1>10, <2>1, Overwritten DEF LockCheckpoint
  <2> QED
    BY <1>10, <2>2, DiskType DEF LockCheckpoint, heldout
<1>11. ASSUME NEW p \in AllRefs, NEW l \in AllRefs, Reveal(p, l) PROVE ReleaseTypeOK'
  <2> DEFINE receipt == [P |-> p, L |-> l, blob |-> disk.locks]
  <2>1. disk.locks \in Locks
    BY <1>11, FileTypes DEF Reveal, IsLock, LockCommitted
  <2>2. receipt \in Receipts
    BY <2>1, CommitFields DEF Receipts
  <2>3. disk' \in Trees /\ revealed' \subseteq Receipts
    BY <1>11, <2>2, Overwritten DEF Reveal
  <2> QED
    BY <1>11, <2>3, DiskType DEF Reveal, heldout
<1>12. CASE GenerateHeldout
  <2>1. disk.reveal \in Receipts
    BY <1>12, FileTypes DEF GenerateHeldout
  <2>2. payload' \in Bytes
    BY <1>12, <2>1 DEF GenerateHeldout, MasterSeed, Receipts, Bytes
  <2>3. [P |-> disk.reveal.P, L |-> disk.reveal.L, payload |-> payload',
         certspecs |-> Absent, sealed |-> FALSE] \in Manifests
    BY <2>1, <2>2 DEF Receipts, Manifests
  <2>4. disk' \in Trees
    BY <1>12, <2>3, Overwritten DEF GenerateHeldout
  <2> QED
    BY <1>12, <2>2, <2>4, DiskType DEF GenerateHeldout
<1>13. CASE ExportCertspecs
  BY <1>13, DiskType DEF ExportCertspecs
<1>14. CASE Seal
  <2>1. disk.manifest \in Manifests /\ certspecs \in Bytes /\ payload \in Bytes
    BY <1>14, FileTypes DEF Seal
  <2>2. [disk.manifest EXCEPT !.sealed = TRUE, !.certspecs = certspecs,
                              !.payload = payload] \in Manifests
    BY <2>1 DEF Manifests
  <2>3. disk' \in Trees
    BY <1>14, <2>2, Overwritten DEF Seal
  <2> QED
    BY <1>14, <2>3, DiskType DEF Seal, heldout
<1>15. CASE Quarantine
  BY <1>15, DiskType DEF Quarantine
<1>16. CASE Evaluate
  <2>1. disk.locks \in Locks /\ certspecs \in Bytes /\ head \in Shas
    BY <1>16, FileTypes, CommitFields DEF Evaluate
  <2>2. traces' \subseteq Traces
    BY <1>16, <2>1 DEF Evaluate, Traces
  <2> QED
    BY <1>16, <2>2 DEF Evaluate, git, inputs, heldout, Past
<1>17. CASE UNCHANGED vars
  BY <1>17 DEF vars, git, inputs, heldout, Past
<1> QED
  BY <1>1, <1>2, <1>3, <1>4, <1>5, <1>6, <1>7, <1>8, <1>9, <1>10, <1>11, <1>12, <1>13,
     <1>14, <1>15, <1>16, <1>17 DEF Next

(* Whatever the operator does, every file holds what some command can have  *)
(* written there, and git's history stays well founded.                     *)
THEOREM ReleaseTyped == Spec => []ReleaseTypeOK
  BY TypeInit, TypeStep, PTL DEF Spec

-----------------------------------------------------------------------------
(* OneSeed is not inductive: a second receipt is refused because the first  *)
(* one's L is still there to be found, and that holds because L is an       *)
(* ancestor of the public branch, which only moves forward.                 *)
Rooted == \A c \in 1..Len(commits) : \A a \in Past(c) : Past(a) \subseteq Past(c)

Receipted(r) ==
  /\ r.L \in Past(public) /\ AddsFile(r.L, "locks") /\ Tree(r.L).locks = r.blob
  /\ r.P \in Past(r.L) /\ AddsFile(r.P, "marker")

SeedInv == ReleaseTypeOK /\ Rooted /\ (\A r \in revealed : Receipted(r)) /\ OneSeed

(* What is committed stays what it is. *)
Extended ==
  /\ Len(commits) <= Len(commits')
  /\ \A c \in 1..Len(commits) : commits'[c] = commits[c]

LEMMA CommitExtends ==
  ASSUME ReleaseTypeOK, NEW parent, NEW past, NEW files, NewCommit(parent, past, files)
  PROVE  /\ Extended /\ Len(commits') = Len(commits) + 1
         /\ commits'[Len(commits) + 1].past = past \cup {Len(commits) + 1}
         /\ public' = public /\ revealed' = revealed /\ kept' = kept
         /\ UNCHANGED <<disk, payload, certspecs, traces>>
<1> DEFINE new == Len(commits) + 1
           tree == [f \in Tracked |-> IF f \in files THEN disk[f] ELSE Tree(head)[f]]
           record == [past |-> past \cup {new}, parent |-> parent, tree |-> tree]
<1>1. commits \in Seq(Commits) /\ Len(commits) \in Nat
  BY DEF ReleaseTypeOK
<1>2. commits' = Append(commits, record)
  BY DEF NewCommit, Tree
<1> HIDE DEF record
<1>3. Len(commits') = new /\ commits'[new] = record
      /\ \A c \in 1..Len(commits) : commits'[c] = commits[c]
  BY <1>1, <1>2
<1>4. record.past = past \cup {new}
  BY DEF record
<1> QED
  BY <1>1, <1>3, <1>4 DEF NewCommit, Extended, heldout

LEMMA StepExtends ==
  ASSUME ReleaseTypeOK, [Next]_vars
  PROVE  Extended
<1>1. Len(commits) \in Nat
  BY CommitFields
<1>2. ASSUME NEW files \in Staged, Commit(files) \/ Amend(files) PROVE Extended
  BY <1>2, CommitExtends DEF Commit, Amend
<1>3. ASSUME commits' = commits PROVE Extended
  BY <1>1, <1>3 DEF Extended
<1> QED
  BY <1>2, <1>3 DEF Next, vars, git, Switch, Push, Train, EditFrozen, EditGenerator,
     FinalizePrereg, LockPrompt, LockCheckpoint, Reveal, GenerateHeldout, ExportCertspecs,
     Seal, Quarantine, Evaluate

LEMMA FactsStay ==
  ASSUME ReleaseTypeOK, Extended, NEW c \in 1..Len(commits), NEW f \in Tracked
  PROVE  /\ c \in 1..Len(commits')
         /\ Past(c)' = Past(c) /\ Tree(c)' = Tree(c)
         /\ AddsFile(c, f)' <=> AddsFile(c, f)
<1>1. Len(commits) \in Nat /\ Len(commits') >= Len(commits) /\ commits'[c] = commits[c]
  BY CommitFields DEF Extended
<1>2. commits[c].parent # 0 => commits[c].parent \in 1..Len(commits)
  BY CommitFields DEF ReleaseTypeOK, Shas
<1>3. commits[c].parent # 0 => commits'[commits[c].parent] = commits[commits[c].parent]
  BY <1>2 DEF Extended
<1>4. c \in 1..Len(commits') /\ Past(c)' = Past(c) /\ Tree(c)' = Tree(c)
  BY <1>1 DEF Past, Tree
<1>5. Before(c, f)' = Before(c, f)
  <2>1. CASE commits[c].parent = 0
    BY <1>1, <2>1 DEF Before
  <2>2. CASE commits[c].parent # 0
    BY <1>1, <1>3, <2>2 DEF Before, Tree
  <2> QED
    BY <2>1, <2>2
<1> QED
  BY <1>4, <1>5, Zenon DEF AddsFile

LEMMA RootedStep ==
  ASSUME SeedInv, [Next]_vars
  PROVE  Rooted'
<1> USE DEF SeedInv
<1>1. ASSUME NEW parent \in 1..Len(commits), NEW files,
             NewCommit(parent, Past(parent), files)
      PROVE  Rooted'
  <2> DEFINE new == Len(commits) + 1
  <2>1. Extended /\ Len(commits') = new /\ commits'[new].past = Past(parent) \cup {new}
    BY <1>1, CommitExtends
  <2>2. Len(commits) \in Nat /\ \A c \in 1..Len(commits) : Past(c) \subseteq 1..Len(commits)
    BY CommitFields DEF ReleaseTypeOK
  <2>3. \A c \in 1..Len(commits) : commits'[c].past = Past(c)
    BY <2>1 DEF Extended, Past
  <2> SUFFICES ASSUME NEW c \in 1..new, NEW a \in commits'[c].past
               PROVE  commits'[a].past \subseteq commits'[c].past
    BY <2>1 DEF Rooted, Past
  <2>4. CASE c \in 1..Len(commits)
    <3>1. a \in Past(c) /\ a \in 1..Len(commits)
      BY <2>2, <2>3, <2>4
    <3>2. Past(a) \subseteq Past(c)
      BY <2>4, <3>1 DEF Rooted
    <3> QED
      BY <2>3, <2>4, <3>1, <3>2
  <2>5. CASE c = new /\ a = new
    BY <2>5
  <2>6. CASE c = new /\ a \in Past(parent)
    <3>1. a \in 1..Len(commits) /\ Past(a) \subseteq Past(parent)
      BY <1>1, <2>2, <2>6 DEF Rooted
    <3> QED
      BY <2>1, <2>3, <2>6, <3>1
  <2> QED
    BY <2>1, <2>2, <2>4, <2>5, <2>6
<1>2. ASSUME NEW files \in Staged, Commit(files) PROVE Rooted'
  BY <1>1, <1>2, CommitFields DEF Commit
<1>3. ASSUME NEW files \in Staged, Amend(files) PROVE Rooted'
  <2>1. commits[head].parent \in 1..Len(commits)
    BY <1>3, CommitFields DEF Amend, ReleaseTypeOK, Shas
  <2> QED
    BY <1>1, <1>3, <2>1 DEF Amend
<1>4. ASSUME commits' = commits PROVE Rooted'
  BY <1>4 DEF Rooted, Past
<1> QED
  BY <1>2, <1>3, <1>4 DEF Next, vars, git, Switch, Push, Train, EditFrozen, EditGenerator,
     FinalizePrereg, LockPrompt, LockCheckpoint, Reveal, GenerateHeldout, ExportCertspecs,
     Seal, Quarantine, Evaluate

LEMMA PublicGrows ==
  ASSUME SeedInv, [Next]_vars
  PROVE  Past(public) \subseteq Past(public)'
<1>1. Extended /\ public \in 1..Len(commits) /\ head \in 1..Len(commits)
  BY StepExtends, CommitFields DEF SeedInv, ReleaseTypeOK
<1>2. CASE Push
  <2>1. public' = head /\ Past(public) \subseteq Past(head) /\ commits' = commits
    BY <1>1, <1>2 DEF Push, IsAncestor, SeedInv, Rooted
  <2> QED
    BY <2>1 DEF Past
<1>3. CASE public' = public
  BY <1>1, <1>3 DEF Extended, Past
<1> QED
  BY <1>2, <1>3 DEF Next, vars, git, Commit, Amend, NewCommit, Switch, Train, EditFrozen,
     EditGenerator, FinalizePrereg, LockPrompt, LockCheckpoint, Reveal, GenerateHeldout,
     ExportCertspecs, Seal, Quarantine, Evaluate

(* A receipt that stands is the only one a later reveal can write. *)
LEMMA OneReceipt ==
  ASSUME SeedInv, NEW p \in AllRefs, NEW l \in AllRefs, Reveal(p, l)
  PROVE  /\ \A r \in revealed : r = [P |-> p, L |-> l, blob |-> disk.locks]
         /\ Receipted([P |-> p, L |-> l, blob |-> disk.locks])
<1> USE DEF SeedInv
<1>1. /\ Adds("locks", AllRefs) = {l} /\ Adds("marker", AllRefs) = {p}
      /\ Tree(l).locks = disk.locks /\ p \in Past(l) /\ l \in Past(public)
  BY DEF Reveal, IsPrereg, IsLock, LockCommitted, IsAncestor
<1>2. AddsFile(l, "locks") /\ AddsFile(p, "marker")
  BY <1>1 DEF Adds
<1>3. ASSUME NEW r \in revealed PROVE r = [P |-> p, L |-> l, blob |-> disk.locks]
  <2>1. r \in Receipts /\ Receipted(r)
    BY <1>3 DEF ReleaseTypeOK
  <2>2. Past(public) \subseteq AllRefs /\ public \in 1..Len(commits)
    BY DEF AllRefs, ReleaseTypeOK
  <2>3. r.L \in AllRefs /\ r.P \in AllRefs
    BY <2>1, <2>2 DEF Receipted, Rooted
  <2>4. r.L = l /\ r.P = p
    BY <1>1, <2>1, <2>3 DEF Receipted, Adds
  <2>5. r.blob = disk.locks
    BY <1>1, <2>1, <2>4 DEF Receipted
  <2> QED
    BY <2>1, <2>4, <2>5 DEF Receipts
<1> QED
  BY <1>1, <1>2, <1>3 DEF Receipted

LEMMA SeedInit == Init => SeedInv
<1> SUFFICES ASSUME Init PROVE SeedInv
  OBVIOUS
<1>1. Len(commits) = 1 /\ Past(1) = {1}
  BY DEF Init, Past
<1>2. Rooted
  BY <1>1 DEF Rooted
<1> QED
  BY <1>2, TypeInit DEF Init, SeedInv, OneSeed

LEMMA SeedStep == SeedInv /\ [Next]_vars => SeedInv'
<1> SUFFICES ASSUME SeedInv, [Next]_vars PROVE SeedInv'
  OBVIOUS
<1>1. ReleaseTypeOK /\ ReleaseTypeOK' /\ Rooted' /\ Extended
  BY TypeStep, RootedStep, StepExtends DEF SeedInv
<1>2. ASSUME NEW r \in Receipts, Receipted(r) PROVE Receipted(r)'
  <2>1. r.L \in 1..Len(commits) /\ r.P \in 1..Len(commits)
    BY <1>1, <1>2, CommitFields DEF Receipted, ReleaseTypeOK, AllRefs, Receipts, Shas
  <2>2. "locks" \in Tracked /\ "marker" \in Tracked
    BY DEF Tracked
  <2>3. /\ Past(r.L)' = Past(r.L) /\ Tree(r.L)' = Tree(r.L)
        /\ AddsFile(r.L, "locks")' <=> AddsFile(r.L, "locks")
        /\ AddsFile(r.P, "marker")' <=> AddsFile(r.P, "marker")
    BY <1>1, <2>1, <2>2, FactsStay
  <2> QED
    BY <1>2, <2>3, PublicGrows, Zenon DEF Receipted
<1>3. CASE \E p, l \in AllRefs : Reveal(p, l)
  <2> PICK p \in AllRefs, l \in AllRefs : Reveal(p, l)
    BY <1>3
  <2>1. PICK receipt : receipt = [P |-> p, L |-> l, blob |-> disk.locks]
    OBVIOUS
  <2>2. revealed' \subseteq revealed \cup {receipt}
    BY <2>1 DEF Reveal
  <2>3. receipt \in Receipts
    BY <1>1, <2>1, CommitFields, FileTypes DEF Reveal, IsLock, LockCommitted, Receipts
  <2>4. (\A r \in revealed : r = receipt) /\ Receipted(receipt)
    BY <2>1, OneReceipt
  <2>5. Receipted(receipt)'
    BY <1>2, <2>3, <2>4
  <2>6. \A r \in revealed' : r = receipt
    BY <2>2, <2>4
  <2>7. (\A r \in revealed : Receipted(r))' /\ OneSeed'
    BY <2>5, <2>6 DEF OneSeed
  <2> QED
    BY <1>1, <2>7 DEF SeedInv
<1>4. CASE revealed' = revealed
  <2>1. \A r \in revealed : r \in Receipts /\ Receipted(r)
    BY DEF SeedInv, ReleaseTypeOK
  <2> QED
    BY <1>1, <1>2, <1>4, <2>1 DEF SeedInv, OneSeed
<1> QED
  BY <1>3, <1>4 DEF Next, vars, git, Commit, Amend, NewCommit, Switch, Push, Train, EditFrozen,
     EditGenerator, FinalizePrereg, LockPrompt, LockCheckpoint, GenerateHeldout,
     ExportCertspecs, Seal, Quarantine, Evaluate

(* Whatever is amended, branched or reset, every receipt ever written names *)
(* the same P, the same L and the same lock.                                *)
THEOREM SeedIsDrawnOnce == Spec => []OneSeed
<1>1. SeedInv => OneSeed
  BY DEF SeedInv
<1> QED
  BY <1>1, SeedInit, SeedStep, PTL DEF Spec

-----------------------------------------------------------------------------
(* The refinement.  Every receipt and manifest in any commit or on disk was *)
(* made under a receipt once written, and from the first receipt on every   *)
(* held-out byte on disk was drawn from it: what was on disk before, reveal *)
(* refused as stale.                                                        *)
Seeds(R) == {r.L : r \in R}

Seeded(tree, R) == /\ tree.reveal # Absent => tree.reveal \in R
                   /\ tree.manifest # Absent =>
                        /\ tree.manifest.L \in Seeds(R)
                        /\ tree.manifest.sealed => /\ tree.manifest.payload # Absent
                                                   /\ tree.manifest.certspecs # Absent

Drawn(bytes, R) == bytes # Absent => bytes.seed \in Seeds(R)

TreesSeeded  == \A c \in 1..Len(commits) : Seeded(Tree(c), revealed)
DiskSeeded   == Seeded(disk, revealed)
HeldoutDrawn == revealed # {} => Drawn(payload, revealed) /\ Drawn(certspecs, revealed)
TracesDrawn  == \A t \in traces : t.bytes.seed \in Seeds(revealed)

BlindInv == SeedInv /\ TreesSeeded /\ DiskSeeded /\ HeldoutDrawn /\ TracesDrawn

LEMMA RevealedGrows ==
  ASSUME [Next]_vars
  PROVE  revealed \subseteq revealed' /\ Seeds(revealed) \subseteq Seeds(revealed')
<1>1. revealed \subseteq revealed'
  BY DEF Next, vars, git, Commit, Amend, NewCommit, Switch, Push, Train, EditFrozen,
     EditGenerator, FinalizePrereg, LockPrompt, LockCheckpoint, Reveal, GenerateHeldout,
     ExportCertspecs, Seal, Quarantine, Evaluate
<1> QED
  BY <1>1 DEF Seeds

(* A tree whose receipt and manifest come each from a seeded tree is seeded. *)
LEMMA SeededFrom ==
  ASSUME NEW R, NEW S, R \subseteq S, NEW a, NEW b, NEW t, Seeded(a, R), Seeded(b, R),
         t.reveal \in {a.reveal, b.reveal}, t.manifest \in {a.manifest, b.manifest}
  PROVE  Seeded(t, S)
  BY DEF Seeded, Seeds

LEMMA TreesStep == BlindInv /\ [Next]_vars => TreesSeeded'
<1> SUFFICES ASSUME BlindInv, [Next]_vars PROVE TreesSeeded'
  OBVIOUS
<1> USE DEF BlindInv, SeedInv
<1>1. Extended /\ revealed \subseteq revealed'
  BY StepExtends, RevealedGrows
<1>2. \A c \in 1..Len(commits) : Seeded(commits'[c].tree, revealed')
  <2> TAKE c \in 1..Len(commits)
  <2>1. commits'[c] = commits[c] /\ Seeded(commits[c].tree, revealed)
    BY <1>1 DEF Extended, TreesSeeded, Tree
  <2> QED
    BY <1>1, <2>1, SeededFrom
<1>3. ASSUME NEW parent, NEW past, NEW files, NewCommit(parent, past, files)
      PROVE  TreesSeeded'
  <2> DEFINE new == Len(commits) + 1
             tree == [f \in Tracked |-> IF f \in files THEN disk[f] ELSE Tree(head)[f]]
  <2>1. Len(commits') = new /\ Len(commits) \in Nat /\ head \in 1..Len(commits)
    BY <1>3, CommitExtends, CommitFields
  <2>2. commits'[new].tree = tree
    BY <1>3, CommitFields DEF NewCommit, ReleaseTypeOK
  <2>3. /\ tree.reveal \in {disk.reveal, Tree(head).reveal}
        /\ tree.manifest \in {disk.manifest, Tree(head).manifest}
    BY DEF Tracked
  <2> HIDE DEF tree
  <2>4. Seeded(disk, revealed) /\ Seeded(Tree(head), revealed)
    BY <2>1 DEF TreesSeeded, DiskSeeded
  <2>5. Seeded(commits'[new].tree, revealed')
    BY <1>1, <2>2, <2>3, <2>4, SeededFrom
  <2> QED
    BY <1>2, <2>1, <2>5 DEF TreesSeeded, Tree
<1>4. ASSUME commits' = commits PROVE TreesSeeded'
  BY <1>2, <1>4 DEF TreesSeeded, Tree
<1> QED
  BY <1>3, <1>4 DEF Next, vars, git, Commit, Amend, Switch, Push, Train, EditFrozen,
     EditGenerator, FinalizePrereg, LockPrompt, LockCheckpoint, Reveal, GenerateHeldout,
     ExportCertspecs, Seal, Quarantine, Evaluate

LEMMA DiskStep == BlindInv /\ [Next]_vars => DiskSeeded'
<1> SUFFICES ASSUME BlindInv, [Next]_vars PROVE DiskSeeded'
  OBVIOUS
<1> USE DEF BlindInv, SeedInv
<1>1. revealed \subseteq revealed' /\ Seeds(revealed) \subseteq Seeds(revealed')
      /\ Seeded(disk, revealed) /\ disk \in Trees
  BY RevealedGrows DEF DiskSeeded, ReleaseTypeOK
<1>2. ASSUME disk'.reveal = disk.reveal, disk'.manifest = disk.manifest PROVE DiskSeeded'
  BY <1>1, <1>2, SeededFrom DEF DiskSeeded
<1>3. ASSUME NEW c \in AllRefs, NEW keep \in BOOLEAN, Switch(c, keep) PROVE DiskSeeded'
  <2>1. Seeded(Tree(c), revealed)
    BY CommitFields DEF TreesSeeded
  <2>2. /\ disk'.reveal \in {disk.reveal, Tree(c).reveal}
        /\ disk'.manifest \in {disk.manifest, Tree(c).manifest}
    BY <1>3 DEF Switch, Tracked
  <2> QED
    BY <1>1, <2>1, <2>2, SeededFrom DEF DiskSeeded
<1>4. ASSUME NEW p \in AllRefs, NEW l \in AllRefs, Reveal(p, l) PROVE DiskSeeded'
  <2>1. CASE disk.reveal # Absent
    BY <1>2, <1>4, <2>1 DEF Reveal
  <2>2. CASE disk.reveal = Absent
    <3>1. disk'.reveal \in revealed' /\ disk'.manifest = disk.manifest
      BY <1>1, <1>4, <2>2 DEF Reveal, Trees
    <3> QED
      BY <1>1, <3>1 DEF DiskSeeded, Seeded
  <2> QED
    BY <2>1, <2>2
<1>5. CASE GenerateHeldout
  <2>1. /\ disk'.reveal = disk.reveal /\ disk'.manifest.L = disk.reveal.L
        /\ disk.reveal # Absent /\ ~ disk'.manifest.sealed
    BY <1>1, <1>5 DEF GenerateHeldout, MasterSeed, Trees
  <2> QED
    BY <1>1, <2>1 DEF DiskSeeded, Seeded, Seeds
<1>6. CASE Seal
  <2>1. disk.manifest \in Manifests /\ disk.manifest # Absent
    BY <1>6, FileTypes DEF Seal
  <2>2. /\ disk'.reveal = disk.reveal /\ disk'.manifest.L = disk.manifest.L
        /\ disk'.manifest.certspecs # Absent /\ disk'.manifest.payload # Absent
    BY <1>1, <1>6, <2>1 DEF Seal, Trees, Manifests
  <2> QED
    BY <1>1, <2>1, <2>2 DEF DiskSeeded, Seeded
<1>7. ASSUME \/ \E force \in BOOLEAN : FinalizePrereg(force)
             \/ \E p \in AllRefs : LockPrompt(p)
             \/ LockCheckpoint \/ disk' = disk
      PROVE  DiskSeeded'
  <2>1. disk'.reveal = disk.reveal /\ disk'.manifest = disk.manifest
    BY <1>1, <1>7 DEF FinalizePrereg, LockPrompt, LockCheckpoint, Trees
  <2> QED
    BY <1>2, <2>1
<1> QED
  BY <1>3, <1>4, <1>5, <1>6, <1>7 DEF Next, vars, Commit, Amend, NewCommit, Push, Train,
     EditFrozen, EditGenerator, ExportCertspecs, Quarantine, Evaluate

(* Before the first receipt a manifest is impossible, so whatever lies on   *)
(* disk is stale and the reveal refused; after it, bytes are only drawn.    *)
LEMMA HeldoutStep == BlindInv /\ [Next]_vars => HeldoutDrawn'
<1> SUFFICES ASSUME BlindInv, [Next]_vars PROVE HeldoutDrawn'
  OBVIOUS
<1> USE DEF BlindInv, SeedInv
<1>1. Seeds(revealed) \subseteq Seeds(revealed') /\ Seeded(disk, revealed)
  BY RevealedGrows DEF DiskSeeded
<1>2. disk.manifest # Absent \/ disk.reveal # Absent =>
        revealed # {} /\ Drawn(payload, revealed) /\ Drawn(certspecs, revealed)
  BY <1>1 DEF Seeded, Seeds, HeldoutDrawn
<1>3. ASSUME NEW p \in AllRefs, NEW l \in AllRefs, Reveal(p, l) PROVE HeldoutDrawn'
  <2>1. CASE revealed = {}
    <3>1. disk.manifest = Absent
      BY <1>2, <2>1
    <3>2. payload = Absent /\ certspecs = Absent
      BY <1>3, <3>1 DEF Reveal, Stale, StalePayload, StaleCertspecs
    <3> QED
      BY <1>3, <3>2 DEF Reveal, heldout, HeldoutDrawn, Drawn
  <2>2. CASE revealed # {}
    BY <1>1, <1>3, <2>2 DEF Reveal, heldout, HeldoutDrawn, Drawn
  <2> QED
    BY <2>1, <2>2
<1>4. CASE GenerateHeldout
  <2>1. payload'.seed = disk.reveal.L /\ disk.reveal \in revealed /\ certspecs' = certspecs
    BY <1>1, <1>4 DEF GenerateHeldout, MasterSeed, Seeded
  <2> QED
    BY <1>1, <1>2, <1>4, <2>1 DEF GenerateHeldout, MasterSeed, HeldoutDrawn, Drawn, Seeds
<1>5. CASE ExportCertspecs
  BY <1>2, <1>5 DEF ExportCertspecs, HeldoutDrawn, Drawn
<1>6. CASE Quarantine
  BY <1>6 DEF Quarantine, HeldoutDrawn, Drawn
<1>7. ASSUME UNCHANGED <<payload, certspecs, revealed>> PROVE HeldoutDrawn'
  BY <1>7 DEF HeldoutDrawn
<1> QED
  BY <1>3, <1>4, <1>5, <1>6, <1>7 DEF Next, vars, heldout, Commit, Amend, NewCommit, Switch,
     Push, Train, EditFrozen, EditGenerator, FinalizePrereg, LockPrompt, LockCheckpoint,
     Seal, Evaluate

LEMMA TracesStep == BlindInv /\ [Next]_vars => TracesDrawn'
<1> SUFFICES ASSUME BlindInv, [Next]_vars PROVE TracesDrawn'
  OBVIOUS
<1> USE DEF BlindInv, SeedInv
<1>1. Seeds(revealed) \subseteq Seeds(revealed')
  BY RevealedGrows
<1>2. CASE Evaluate
  <2>1. \A t \in traces' : t \in traces \/ t.bytes = certspecs
    BY <1>2 DEF Evaluate
  <2>2. disk.reveal \in revealed /\ certspecs # Absent
    BY <1>2 DEF Evaluate, DiskSeeded, Seeded
  <2>3. certspecs.seed \in Seeds(revealed)
    BY <2>2 DEF HeldoutDrawn, Drawn
  <2> QED
    BY <1>1, <2>1, <2>3 DEF TracesDrawn
<1>3. CASE traces' = traces
  BY <1>1, <1>3 DEF TracesDrawn
<1> QED
  BY <1>2, <1>3 DEF Next, vars, Commit, Amend, NewCommit, Switch, Push, Train, EditFrozen,
     EditGenerator, FinalizePrereg, LockPrompt, LockCheckpoint, Reveal, GenerateHeldout,
     ExportCertspecs, Seal, Quarantine

LEMMA BlindInit == Init => BlindInv /\ B!Init
<1> SUFFICES ASSUME Init PROVE BlindInv /\ B!Init
  OBVIOUS
<1>1. Len(commits) = 1 /\ Tree(1) = Initial /\ disk = Initial /\ Past(public) = {1}
  BY DEF Init, Tree, Past
<1>2. Seeded(Initial, revealed)
  BY DEF Seeded, Initial
<1>3. ~ AddsFile(1, "locks")
  BY <1>1 DEF AddsFile, Initial
<1> QED
  BY <1>1, <1>2, <1>3, SeedInit DEF Init, BlindInv, TreesSeeded, DiskSeeded, HeldoutDrawn,
     TracesDrawn, B!Init

(* The first receipt draws the seed and an evaluation reads it; every other *)
(* step at most publishes more of what is committed.                        *)
LEMMA BlindStep ==
  ASSUME BlindInv, [Next]_vars
  PROVE  [B!Next]_B!vars
<1> USE DEF BlindInv, SeedInv
<1> DEFINE published == {c \in Past(public) : AddsFile(c, "locks")}
<1>1. ReleaseTypeOK /\ ReleaseTypeOK' /\ Extended /\ public \in 1..Len(commits)
  BY TypeStep, StepExtends, CommitFields DEF ReleaseTypeOK
<1>2. published \subseteq published' /\ published' \subseteq Shas
  <2>1. ASSUME NEW c \in published PROVE c \in Past(public)' /\ AddsFile(c, "locks")'
    <3>1. c \in 1..Len(commits) /\ c \in Past(public)' /\ "locks" \in Tracked
      BY <1>1, <2>1, PublicGrows DEF ReleaseTypeOK, Tracked
    <3> QED
      BY <1>1, <2>1, <3>1, FactsStay
  <2>2. Past(public)' \subseteq Shas
    <3>1. public' \in 1..Len(commits') /\ commits' \in Seq(Commits)
      BY <1>1 DEF ReleaseTypeOK
    <3>2. commits'[public'] \in Commits
      BY <3>1, ElementOfSeq
    <3> QED
      BY <3>2 DEF Past, Commits
  <2> QED
    BY <2>1, <2>2
<1>3. CASE \E p, l \in AllRefs : Reveal(p, l)
  <2> PICK p \in AllRefs, l \in AllRefs : Reveal(p, l)
    BY <1>3
  <2>1. PICK receipt : receipt = [P |-> p, L |-> l, blob |-> disk.locks]
    OBVIOUS
  <2>2. (\A r \in revealed : r = receipt) /\ Receipted(receipt) /\ receipt.L = l
    BY <2>1, OneReceipt
  <2>3. revealed' = revealed \/ revealed' = revealed \cup {receipt}
    BY <2>1 DEF Reveal
  <2>4. published' = published /\ traces' = traces
    BY DEF Reveal, git, Past, AddsFile, Before, Tree
  <2>5. CASE revealed = {} /\ revealed' = {receipt}
    <3>1. l \in published /\ l \in Shas
      BY <1>1, <2>2, CommitFields DEF Receipted
    <3> QED
      BY <2>2, <2>4, <2>5, <3>1 DEF B!Next, B!Draw
  <2>6. CASE revealed' = revealed
    BY <2>4, <2>6 DEF B!vars
  <2> QED
    BY <2>2, <2>3, <2>5, <2>6
<1>4. CASE Evaluate
  <2>1. TracesDrawn' /\ revealed' = revealed /\ traces' # {} /\ OneSeed
    BY <1>4, TracesStep DEF Evaluate
  <2>2. {t.bytes.seed : t \in traces'} = {r.L : r \in revealed}
    BY <2>1 DEF TracesDrawn, Seeds, OneSeed
  <2>3. published' = published
    BY <1>4 DEF Evaluate, git, Past, AddsFile, Before, Tree
  <2> QED
    BY <2>1, <2>2, <2>3 DEF B!Next, B!Evaluate
<1>5. CASE UNCHANGED <<revealed, traces>>
  BY <1>2, <1>5 DEF B!Next, B!Publish
<1> QED
  BY <1>3, <1>4, <1>5 DEF Next, vars, Commit, Amend, NewCommit, Switch, Push, Train,
     EditFrozen, EditGenerator, FinalizePrereg, LockPrompt, LockCheckpoint, GenerateHeldout,
     ExportCertspecs, Seal, Quarantine

(* The git protocol, with its amends, branches, resets, quarantines and     *)
(* regenerations, implements Blinding: one published lock gives one seed,   *)
(* and nothing is ever evaluated on another.                                *)
THEOREM ReleaseBlinds == Spec => Blinded
<1>1. BlindInv /\ [Next]_vars => BlindInv'
  BY SeedStep, TreesStep, DiskStep, HeldoutStep, TracesStep DEF BlindInv
<1> QED
  BY <1>1, BlindInit, BlindStep, PTL DEF Spec, Blinded, B!Spec

-----------------------------------------------------------------------------
(* What the two gates and S18 conclude, from the same invariant.            *)
LEMMA ReceiptOnDisk ==
  ASSUME BlindInv, disk.reveal # Absent
  PROVE  /\ revealed = {disk.reveal} /\ Receipted(disk.reveal)
         /\ Seeds(revealed) = {disk.reveal.L}
         /\ disk.reveal \in Receipts
<1>1. disk.reveal \in revealed /\ OneSeed /\ revealed \subseteq Receipts
  BY DEF BlindInv, DiskSeeded, Seeded, SeedInv, ReleaseTypeOK
<1>2. revealed = {disk.reveal}
  BY <1>1 DEF OneSeed
<1> QED
  BY <1>1, <1>2 DEF BlindInv, SeedInv, Seeds

LEMMA GateStep == BlindInv => GateBinds
<1> SUFFICES ASSUME BlindInv,
                    NEW l \in Adds("locks", AllRefs), NEW r \in Adds("reveal", AllRefs),
                    Proved(l, r) \/ \E p \in Adds("marker", AllRefs) : Released(p, l, r)
             PROVE  /\ certspecs = Tree(r).manifest.certspecs
                    /\ payload = Tree(r).manifest.payload
                    /\ certspecs.seed = l /\ payload.seed = l
                    /\ IsAncestor(l, public)
                    /\ revealed = {[P |-> disk.locks.P, L |-> l, blob |-> Tree(l).locks]}
  BY DEF GateBinds
<1>1. /\ disk.reveal # Absent /\ disk.reveal.L = l /\ disk.reveal.P = disk.locks.P
      /\ disk.reveal.blob = disk.locks /\ Tree(l).locks = disk.locks
      /\ Tree(r).manifest = disk.manifest /\ disk.manifest # Absent /\ disk.manifest.sealed
      /\ OnDisk
  <2>1. CASE Proved(l, r)
    BY <2>1 DEF Proved, LockStands, RevealStands, ReceiptNames, ReleaseStands
  <2>2. CASE \E p \in Adds("marker", AllRefs) : Released(p, l, r)
    <3> PICK p : Released(p, l, r)
      BY <2>2
    <3>1. disk.reveal = [P |-> p, L |-> l, blob |-> disk.locks] /\ IsLock(l, p)
      BY DEF Released
    <3>2. disk.locks.P = p /\ Tree(l).locks = disk.locks
      BY <3>1 DEF IsLock, LockCommitted, Complete
    <3> QED
      BY <3>1, <3>2 DEF Released
  <2> QED
    BY <2>1, <2>2
<1>2. /\ revealed = {disk.reveal} /\ Receipted(disk.reveal)
      /\ Seeds(revealed) = {l} /\ disk.reveal \in Receipts
  BY <1>1, ReceiptOnDisk
<1>3. disk.manifest.certspecs # Absent /\ disk.manifest.payload # Absent
  BY <1>1 DEF BlindInv, DiskSeeded, Seeded
<1>4. certspecs.seed = l
  BY <1>1, <1>2, <1>3 DEF OnDisk, BlindInv, HeldoutDrawn, Drawn
<1>5. payload.seed = l
  BY <1>1, <1>2, <1>3 DEF OnDisk, BlindInv, HeldoutDrawn, Drawn
<1>6. disk.reveal = [P |-> disk.locks.P, L |-> l, blob |-> Tree(l).locks]
  BY <1>1, <1>2 DEF Receipts
<1> QED
  BY <1>1, <1>2, <1>4, <1>5, <1>6 DEF OnDisk, Receipted, IsAncestor

LEMMA VerdictStep == BlindInv => VerdictBinds
<1> SUFFICES ASSUME BlindInv, NEW p \in Adds("marker", AllRefs),
                    NEW l \in Adds("locks", AllRefs), NEW r \in Adds("reveal", AllRefs),
                    S18Passes(p, l, r)
             PROVE  /\ revealed = {[P |-> p, L |-> l, blob |-> Tree(l).locks]}
                    /\ disk.locks = Tree(l).locks
                    /\ \A t \in traces : t.bytes.seed = l
  BY DEF VerdictBinds
<1>1. /\ disk.reveal # Absent /\ disk.reveal.L = l /\ disk.reveal.blob = disk.locks
      /\ disk.reveal.P = disk.locks.P /\ Adds("marker", AllRefs) = {p}
  BY DEF S18Passes, S18Ancestry
<1>2. /\ revealed = {disk.reveal} /\ Receipted(disk.reveal)
      /\ Seeds(revealed) = {l} /\ disk.reveal \in Receipts
  BY <1>1, ReceiptOnDisk
<1>3. disk.reveal.P \in AllRefs /\ AddsFile(disk.reveal.P, "marker")
  <2>1. public \in 1..Len(commits) /\ Past(public) \subseteq AllRefs /\ Rooted
    BY DEF AllRefs, BlindInv, SeedInv, ReleaseTypeOK
  <2> QED
    BY <1>2, <2>1 DEF Receipted, Rooted
<1>4. disk.reveal.P = p
  BY <1>1, <1>3 DEF Adds
<1>5. disk.reveal = [P |-> p, L |-> l, blob |-> Tree(l).locks]
  BY <1>1, <1>2, <1>4 DEF Receipted, Receipts
<1> QED
  BY <1>1, <1>2, <1>5 DEF BlindInv, TracesDrawn, Receipted

(* Whichever gate passes on the release, the bytes the evaluator would read *)
(* are the ones R committed to, drawn from the one published lock.          *)
THEOREM TheGateBinds == Spec => []GateBinds
<1>1. BlindInv /\ [Next]_vars => BlindInv'
  BY SeedStep, TreesStep, DiskStep, HeldoutStep, TracesStep DEF BlindInv
<1> QED
  BY <1>1, BlindInit, GateStep, PTL DEF Spec

(* When S18 is OK no other seed was ever drawn, the lock it read is the     *)
(* committed one, and every trace was taken on that seed's bytes.           *)
THEOREM TheVerdictBinds == Spec => []VerdictBinds
<1>1. BlindInv /\ [Next]_vars => BlindInv'
  BY SeedStep, TreesStep, DiskStep, HeldoutStep, TracesStep DEF BlindInv
<1> QED
  BY <1>1, BlindInit, VerdictStep, PTL DEF Spec
=============================================================================
