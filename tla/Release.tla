------------------------------ MODULE Release -------------------------------
(***************************************************************************)
(* The held-out release: the preregistration commit P, the lock commit L   *)
(* and the reveal commit R of scripts/agentic_locks.py, the held-out phase *)
(* of suite/generate.py, the two gates that check R, and the evaluation    *)
(* stage and veto S18 that rest on them.                                   *)
(*                                                                         *)
(* Git is a growing sequence of commits; a commit is named by its index,   *)
(* and `past' is the set of its ancestors, itself included.  The operator  *)
(* commits, amends, branches and resets at will, but the public branch     *)
(* only moves forward.  A file is what the scripts can tell about its      *)
(* bytes; a retrained adapter or an edited source is a higher version.     *)
(***************************************************************************)
EXTENDS Integers, Sequences, FiniteSets

CONSTANTS
  Absent,        \* what a missing file holds
  MaxCommits,    \* bound on the commits ever made
  MaxVersions,   \* bound on the versions of the adapter
  MaxDetours,    \* bound on the steps the registered order has no place for
  MaxTraces      \* bound on the distinct evaluations recorded

ReleaseAssumption ==
  /\ MaxCommits \in Nat \ {0} /\ MaxVersions \in Nat /\ MaxTraces \in Nat
  /\ MaxDetours \in Nat
ASSUME ReleaseAssumption

VARIABLES
  commits,     \* every commit ever made: its past, its parent, its tree
  head,        \* the commit HEAD names
  kept,        \* the tips of the other local branches
  public,      \* refs/remotes/origin/main
  disk,        \* the four files of the protocol in the working tree
  frozen,      \* the version of the frozen set, which the marker pins
  generator,   \* the version of the generator, which nothing checks
  payload,     \* the held-out specs, kb and oracles (ignored by git)
  certspecs,   \* the exported held-out manifests (ignored by git)
  adapter,     \* the adapter and its training manifest; 0 before training
  detours,     \* the steps taken so far that the registered order has no place for
  revealed,    \* ghost: every receipt `reveal' ever wrote
  traces       \* the evaluations of the held-out split

git      == <<commits, head, kept, public>>
heldout  == <<payload, certspecs>>
inputs   == <<frozen, generator, adapter>>
vars     == <<git, disk, inputs, detours, heldout, revealed, traces>>

Tracked  == {"marker", "locks", "reveal", "manifest"}
Versions == 0..MaxVersions
Shas     == 1..MaxCommits

(* What the files hold.  The receipt's master seed and release id are       *)
(* functions of L, and the manifest stands for SHA256SUMS.heldout too.      *)
Locks      == [P : {0} \cup Shas, ckpt : Versions]
Receipts   == [P : Shas, L : Shas, blob : Locks]
Bytes      == [seed : {0} \cup Shas, code : {0, 1}]
Manifests  == [P : Shas, L : Shas, payload : Bytes, certspecs : Bytes \cup {Absent},
               sealed : BOOLEAN]
Trees      == [marker : {0, 1, Absent},
               locks : Locks \cup {Absent}, reveal : Receipts \cup {Absent},
               manifest : Manifests \cup {Absent}]
Commits    == [past : SUBSET Shas, parent : {0} \cup Shas, tree : Trees]
Traces     == [sha : Shas, lock : Locks, bytes : Bytes]

Retired  == [seed |-> 0, code |-> 0]    \* bytes of the retired public seeds
Unlocked == [P |-> 0, ckpt |-> 0]

Initial  == [marker |-> Absent, locks |-> Absent, reveal |-> Absent, manifest |-> Absent]

Init ==
  /\ commits = <<[past |-> {1}, parent |-> 0, tree |-> Initial]>>
  /\ head = 1 /\ kept = {} /\ public = 1
  /\ disk = Initial /\ frozen = 0 /\ generator = 0 /\ detours = 0
  /\ payload \in {Absent, Retired} /\ certspecs = payload
  /\ adapter = 0 /\ revealed = {} /\ traces = {}

-----------------------------------------------------------------------------
(* The git facts the scripts read. *)
Tree(c)          == commits[c].tree
Past(c)          == commits[c].past
IsAncestor(a, b) == a \in Past(b)
AllRefs          == UNION {Past(c) : c \in kept \cup {head, public}}

Before(c, f)      == IF commits[c].parent = 0 THEN Absent ELSE Tree(commits[c].parent)[f]
AddsFile(c, f)    == Before(c, f) = Absent /\ Tree(c)[f] # Absent
ChangesFile(c, f) == Before(c, f) # Tree(c)[f]
Adds(f, S)        == {c \in S : AddsFile(c, f)}
Touching(f, S)    == {c \in S : ChangesFile(c, f)}
Changed(c)        == {f \in Tracked : ChangesFile(c, f)}

-----------------------------------------------------------------------------
(* preregistration_commit: P is the one commit that adds the marker.        *)
Drifted == disk.marker # frozen

IsPrereg(p) ==
  /\ disk.marker # Absent /\ ~ Drifted
  /\ Adds("marker", AllRefs) = {p}
  /\ Tree(p).marker = disk.marker

(* locks_payload_problems: none. *)
Complete(l, p) == l.P = p /\ l.ckpt # 0

(* The lock on disk is the one commit l that touches it, alone, after p.     *)
LockCommitted(l, p) ==
  /\ disk.locks # Absent /\ Complete(disk.locks, p)
  /\ Adds("locks", AllRefs) = {l} /\ Touching("locks", AllRefs) = {l}
  /\ Changed(l) = {"locks"}
  /\ p # l /\ IsAncestor(p, l)
  /\ Tree(l).reveal = Absent /\ Tree(l).manifest = Absent
  /\ Tree(l).locks = disk.locks

(* locks_commit: L is published, too.                                        *)
IsLock(l, p) == LockCommitted(l, p) /\ IsAncestor(l, public)

(* heldout_release and stale_heldout_paths: what the held-out files on disk  *)
(* are worth against the commitment on disk.                                 *)
StalePayload   == payload # Absent
                  /\ (disk.manifest # Absent => payload # disk.manifest.payload)
StaleCertspecs == certspecs # Absent
                  /\ (disk.manifest # Absent => certspecs # disk.manifest.certspecs)

(* Defective variant: without a commitment nothing is stale.                 *)
StaleAgainstRelease == disk.manifest # Absent /\ (StalePayload \/ StaleCertspecs)

Stale          == StalePayload \/ StaleCertspecs

(* Defective variant: only the generator's own files are hashed.             *)
PayloadOnDisk  == payload = disk.manifest.payload

OnDisk         == payload = disk.manifest.payload /\ certspecs = disk.manifest.certspecs

(* heldout_release_state: the gate of agentic_locks.py, over every ref.      *)
Released(p, l, r) ==
  /\ disk.reveal # Absent
  /\ IsPrereg(p) /\ IsLock(l, p)
  /\ disk.reveal = [P |-> p, L |-> l, blob |-> disk.locks]
  /\ Adds("reveal", AllRefs) = {r}
  /\ Changed(r) = {"reveal", "manifest"}
  /\ l # r /\ IsAncestor(l, r) /\ IsAncestor(r, public)
  /\ Tree(r).reveal = disk.reveal /\ Tree(r).manifest = disk.manifest
  /\ disk.manifest # Absent /\ disk.manifest.sealed
  /\ disk.manifest.L = disk.reveal.L
  /\ OnDisk

(* _resolve_dedicated: one commit of E's past adds the file, none edits it.  *)
Dedicated(c, f) == Adds(f, Past(head)) = {c} /\ Touching(f, Past(head)) = {c}

(* verify_heldout_release.verify at E = HEAD: the lock stands ...            *)
LockStands(l) ==
  /\ disk.locks # Absent
  /\ Dedicated(l, "locks") /\ Changed(l) = {"locks"}
  /\ Tree(l).reveal = Absent /\ Tree(l).manifest = Absent
  /\ Tree(l).locks = disk.locks

(* ... the reveal stands, with its commitment in the same commit ...         *)
RevealStands(r) ==
  /\ disk.reveal # Absent
  /\ Dedicated(r, "reveal") /\ Changed(r) = {"reveal", "manifest"}
  /\ Tree(r).reveal = disk.reveal /\ Tree(r).manifest = disk.manifest
  /\ Adds("manifest", Past(head)) = {r}

(* ... the receipt is of that lock ...                                       *)
ReceiptNames(l) ==
  /\ disk.reveal.L = l /\ disk.reveal.blob = disk.locks
  /\ disk.reveal.P = disk.locks.P

(* ... P < L < R <= E ...                                                    *)
InOrder(l, r) ==
  /\ disk.reveal.P # l /\ IsAncestor(disk.reveal.P, l)
  /\ l # r /\ IsAncestor(l, r)

(* ... and the bytes on disk are those of a sealed commitment of the receipt.*)
ReleaseStands(l) ==
  /\ disk.manifest # Absent /\ disk.manifest.sealed
  /\ disk.manifest.L = l /\ disk.manifest.P = disk.reveal.P
  /\ OnDisk

Proved(l, r) ==
  /\ LockStands(l) /\ RevealStands(r) /\ ReceiptNames(l) /\ InOrder(l, r)
  /\ ReleaseStands(l)

(* What S18 reads from git: P < L < R <= E, all of it published.             *)
S18Ancestry(p, l, r) ==
  /\ disk.locks # Absent /\ disk.reveal # Absent
  /\ disk.locks.P # 0 /\ disk.locks.ckpt # 0
  /\ disk.locks.P = disk.reveal.P /\ disk.reveal.L = l
  /\ Adds("marker", AllRefs) = {p}
  /\ Adds("locks", AllRefs) = {l}
  /\ Adds("reveal", AllRefs) = {r}
  /\ p # l /\ IsAncestor(p, l) /\ l # r /\ IsAncestor(l, r)
  /\ Changed(l) = {"locks"} /\ {"reveal", "manifest"} \subseteq Changed(r)
  /\ IsAncestor(l, public) /\ IsAncestor(r, public)
  /\ \A t \in traces : IsAncestor(r, t.sha)

(* veto_s18_post_lock_heldout returns OK.                                    *)
S18Passes(p, l, r) == S18Ancestry(p, l, r) /\ disk.reveal.blob = disk.locks

-----------------------------------------------------------------------------
(* The operator's git and editor.  A commit takes one file, the files the    *)
(* reveal asks for, or everything (git commit -a).                           *)
Dirty    == {f \in Tracked : disk[f] # Tree(head)[f]}
Staged   == {{f} : f \in Dirty} \cup {Dirty, {"reveal", "manifest"} \cap Dirty}

Detour == detours < MaxDetours /\ detours' = detours + 1

NewCommit(parent, past, files) ==
  /\ Len(commits) < MaxCommits
  /\ files # {}
  /\ head' = Len(commits) + 1
  /\ commits' = Append(commits,
       [past |-> past \cup {head'}, parent |-> parent,
        tree |-> [f \in Tracked |-> IF f \in files THEN disk[f] ELSE Tree(head)[f]]])
  /\ UNCHANGED <<kept, public, disk, inputs, heldout, revealed, traces>>

Commit(files) == NewCommit(head, Past(head), files) /\ UNCHANGED detours

Amend(files) ==
  /\ Detour
  /\ commits[head].parent # 0
  /\ NewCommit(commits[head].parent, Past(commits[head].parent), files)

(* git switch (the old tip stays a branch) or git reset --keep (it is lost). *)
Switch(c, keep) ==
  /\ Detour
  /\ c \in AllRefs \ {head}
  /\ \A f \in Tracked : Tree(head)[f] # Tree(c)[f] => disk[f] = Tree(head)[f]
  /\ head' = c
  /\ kept' = IF keep THEN kept \cup {head} ELSE kept
  /\ disk' = [f \in Tracked |-> IF Tree(head)[f] # Tree(c)[f] THEN Tree(c)[f] ELSE disk[f]]
  /\ UNCHANGED <<commits, public, inputs, heldout, revealed, traces>>

Push ==
  /\ IsAncestor(public, head)
  /\ public' = head
  /\ UNCHANGED <<commits, head, kept, disk, inputs, detours, heldout, revealed, traces>>

(* A frozen file is edited, or the edit reverted: before there is a marker   *)
(* there is nothing to drift from.                                           *)
EditFrozen ==
  /\ Detour
  /\ disk.marker # Absent
  /\ frozen' = 1 - frozen
  /\ UNCHANGED <<git, disk, generator, adapter, heldout, revealed, traces>>

(* The generator is edited: what it was before it ran is of no account.      *)
EditGenerator ==
  /\ Detour
  /\ payload # Absent
  /\ generator' = 1 - generator
  /\ UNCHANGED <<git, disk, frozen, adapter, heldout, revealed, traces>>

Train ==
  /\ adapter < MaxVersions
  /\ adapter' = adapter + 1
  /\ UNCHANGED <<git, disk, frozen, generator, detours, heldout, revealed, traces>>

-----------------------------------------------------------------------------
(* gate_no_heldout_bytes, gate_nothing_has_run and                           *)
(* gate_heldout_generator_refuses.                                           *)
NoHeldoutBytes   == ~ Stale /\ Tree(head).manifest = Absent /\ Tree(head).reveal = Absent
NothingHasRun    == adapter = 0 /\ disk.locks = Absent /\ disk.reveal = Absent
GeneratorRefuses == disk.manifest = Absent

(* cmd_finalize_prereg past its early return, with every gate closed.        *)
FinalizePrereg(force) ==
  /\ disk.marker = Absent \/ force
  /\ NoHeldoutBytes /\ NothingHasRun /\ GeneratorRefuses
  /\ disk' = [disk EXCEPT !["marker"] = frozen]
  /\ UNCHANGED <<git, inputs, detours, heldout, revealed, traces>>

(* _refuse_if_revealed *)
Unrevealed == disk.reveal = Absent /\ disk.manifest = Absent

ReadLocks == IF disk.locks = Absent THEN Unlocked ELSE disk.locks

LockPrompt(p) ==
  /\ Unrevealed /\ IsPrereg(p)
  /\ disk' = [disk EXCEPT !["locks"] = [ReadLocks EXCEPT !.P = p]]
  /\ UNCHANGED <<git, inputs, detours, heldout, revealed, traces>>

LockCheckpoint ==
  /\ Unrevealed /\ adapter # 0
  /\ disk' = [disk EXCEPT !["locks"] = [ReadLocks EXCEPT !.ckpt = adapter]]
  /\ UNCHANGED <<git, inputs, detours, heldout, revealed, traces>>

(* verify_checkpoint_lock: the bytes behind the path are still the locked.   *)
CheckpointStands == disk.locks.ckpt = adapter

(* cmd_reveal: a second receipt must name what the first one names.          *)
Reveal(p, l) ==
  LET receipt == [P |-> p, L |-> l, blob |-> disk.locks]
  IN /\ IsPrereg(p) /\ IsLock(l, p)
     /\ CheckpointStands
     /\ ~ Stale
     /\ disk.reveal # Absent => disk.reveal.L = l /\ disk.reveal.P = p
     /\ disk' = IF disk.reveal = Absent THEN [disk EXCEPT !["reveal"] = receipt] ELSE disk
     /\ revealed' = IF disk.reveal = Absent THEN revealed \cup {receipt} ELSE revealed
     /\ UNCHANGED <<git, heldout, inputs, detours, traces>>

(* load_reveal: the seed is derived anew from the commit the receipt names.  *)
MasterSeed(receipt) == receipt.L

(* generate_suite --phase heldout: every byte is staged, then moved in.      *)
GenerateHeldout ==
  /\ disk.reveal # Absent
  /\ payload' = [seed |-> MasterSeed(disk.reveal), code |-> generator]
  /\ disk' = [disk EXCEPT !["manifest"] =
                [P |-> disk.reveal.P, L |-> disk.reveal.L, payload |-> payload',
                 certspecs |-> Absent, sealed |-> FALSE]]
  /\ UNCHANGED <<git, certspecs, inputs, detours, revealed, traces>>

(* export_eval_specs reads bundles only against the release commitment.      *)
ExportCertspecs ==
  /\ disk.manifest # Absent /\ payload # Absent
  /\ payload = disk.manifest.payload /\ payload.seed = disk.manifest.L
  /\ certspecs' = payload
  /\ UNCHANGED <<git, disk, payload, inputs, detours, revealed, traces>>

(* seal_phase hashes the files as they lie, and checks their release id.     *)
Seal ==
  /\ disk.manifest # Absent /\ certspecs # Absent /\ payload # Absent
  /\ certspecs.seed = disk.manifest.L
  /\ disk' = [disk EXCEPT !["manifest"] =
                [disk.manifest EXCEPT !.sealed = TRUE, !.certspecs = certspecs,
                                      !.payload = payload]]
  /\ UNCHANGED <<git, inputs, detours, heldout, revealed, traces>>

Quarantine ==
  /\ Stale
  /\ payload'   = IF StalePayload THEN Absent ELSE payload
  /\ certspecs' = IF StaleCertspecs THEN Absent ELSE certspecs
  /\ UNCHANGED <<git, disk, inputs, detours, revealed, traces>>

(* stage_eval: two files exist; the evaluator reads the certspecs.           *)
Evaluate ==
  /\ disk.locks # Absent /\ disk.reveal # Absent
  /\ certspecs # Absent /\ adapter # 0
  /\ LET trace == [sha |-> head, lock |-> disk.locks, bytes |-> certspecs]
     IN traces' = traces \cup {trace} /\ Cardinality(traces') <= MaxTraces
  /\ UNCHANGED <<git, disk, inputs, detours, heldout, revealed>>

Next ==
  \/ \E files \in Staged : Commit(files) \/ Amend(files)
  \/ \E c \in AllRefs, keep \in BOOLEAN : Switch(c, keep)
  \/ Push \/ Train
  \/ EditFrozen \/ EditGenerator
  \/ \E force \in BOOLEAN : FinalizePrereg(force)
  \/ \E p \in AllRefs : LockPrompt(p)
  \/ \E p, l \in AllRefs : Reveal(p, l)
  \/ LockCheckpoint \/ GenerateHeldout \/ ExportCertspecs \/ Seal \/ Quarantine
  \/ Evaluate

Spec == Init /\ [][Next]_vars

-----------------------------------------------------------------------------
(* Every file holds what some command can have written there. *)
ReleaseTypeOK ==
  /\ commits \in Seq(Commits) /\ Len(commits) <= MaxCommits
  /\ \A c \in 1..Len(commits) :
       c \in Past(c) /\ Past(c) \subseteq 1..c /\ commits[c].parent < c
  /\ kept \cup {head, public} \subseteq 1..Len(commits)
  /\ disk \in Trees
  /\ frozen \in {0, 1} /\ generator \in {0, 1} /\ adapter \in Versions
  /\ detours \in 0..MaxDetours
  /\ payload \in Bytes \cup {Absent} /\ certspecs \in Bytes \cup {Absent}
  /\ revealed \subseteq Receipts
  /\ traces \subseteq Traces

(* agentic_locks.py promises that L "must be unique" and that a second,     *)
(* different reveal is refused: whatever is amended, branched or reset, all *)
(* the receipts ever written name one P, one L and one lock, because the    *)
(* first of them was written against a published L.                         *)
OneSeed == \A r, s \in revealed : r = s

(* When either gate on R passes, what the evaluator would read is the       *)
(* commitment R made, drawn from the one published lock, on disk as L has   *)
(* it, taken under the preregistration L descends from.                     *)
GateBinds ==
  \A l \in Adds("locks", AllRefs), r \in Adds("reveal", AllRefs) :
    (Proved(l, r) \/ \E p \in Adds("marker", AllRefs) : Released(p, l, r)) =>
      /\ certspecs = Tree(r).manifest.certspecs /\ payload = Tree(r).manifest.payload
      /\ certspecs.seed = l /\ payload.seed = l
      /\ IsAncestor(l, public)
      /\ revealed = {[P |-> disk.locks.P, L |-> l, blob |-> Tree(l).locks]}

(* When S18 is OK, the preregistration it found is the receipt's, the lock  *)
(* it read is the committed one, no other seed was ever drawn, and every    *)
(* trace was taken on that seed's bytes: S18 reads none of the bytes.       *)
VerdictBinds ==
  \A p \in Adds("marker", AllRefs), l \in Adds("locks", AllRefs),
     r \in Adds("reveal", AllRefs) : S18Passes(p, l, r) =>
    /\ revealed = {[P |-> p, L |-> l, blob |-> Tree(l).locks]}
    /\ disk.locks = Tree(l).locks
    /\ \A t \in traces : t.bytes.seed = l

-----------------------------------------------------------------------------
(* The protocol implements its promise: a lock is published, the seed is    *)
(* drawn from it once, and only then is anything evaluated on it.           *)
B == INSTANCE Blinding WITH
       Locks     <- Shas,
       published <- {c \in Past(public) : AddsFile(c, "locks")},
       seed      <- {r.L : r \in revealed},
       evaluated <- {t.bytes.seed : t \in traces}

Blinded == B!Spec
=============================================================================
