----------------------------- MODULE Publisher -----------------------------
(***************************************************************************)
(* The artifact publisher: digest, upload, digest again, record.           *)
(*                                                                         *)
(* Producers go on writing while a publication runs, the remote may commit *)
(* a batch and lose its answer, and the process may be killed anywhere.    *)
(* The index it leaves names bytes of a pinned remote commit.              *)
(*                                                                         *)
(* A file's content is the number of times it was written: every write     *)
(* gives bytes the file never held, as an appended or replaced file does.  *)
(***************************************************************************)
EXTENDS Integers, Sequences, SequencesExt, FiniteSets, Functions, Nothing

CONSTANTS
  Groups,      \* the groups of a run, in order, each the set of its paths
  Refusals,    \* paths that may never be uploaded (held-out, S18, secret)
  BatchOps,    \* files in one remote commit
  MaxWrites, MaxRuns  \* bounds on writes to files and on publications

PublisherAssumption ==
  /\ BatchOps \in Nat \ {0} /\ MaxWrites \in Nat /\ MaxRuns \in Nat
  /\ None \notin Nat
  /\ Groups \in Seq(SUBSET UNION ToSet(Groups))
  /\ \A g \in DOMAIN Groups : IsFiniteSet(Groups[g])
  /\ \A g, h \in DOMAIN Groups : g # h => Groups[g] \cap Groups[h] = {}
ASSUME PublisherAssumption

VARIABLES
  content,   \* per path, which bytes the file holds; None when there is no file
  remote,    \* the remote's commits, each the files it added
  index,     \* the index file: per path its record, None when not recorded
  pub,       \* the publishing process and what it holds in memory
  writes, runs

publisherVars == <<content, remote, index, pub, writes, runs>>

Paths == UNION ToSet(Groups)
Exists(p) == content[p] # None
NoRecord  == [p \in Paths |-> None]

(* remote_file_set: what has ever been added, or nothing if the call fails. *)
Added == UNION {DOMAIN remote[i] : i \in DOMAIN remote}

PublisherInit ==
  /\ content = [p \in Paths |-> 0]
  /\ remote = <<>> /\ index = NoRecord /\ pub = None
  /\ writes = 0 /\ runs = 0

-----------------------------------------------------------------------------
Running == pub # None /\ pub.stage # "ended"
At(stage) == pub # None /\ pub.stage = stage

(* An exception or a kill: what was not flushed is lost.                   *)
Crash == pub' = None

Publish ==
  /\ ~ Running /\ runs < MaxRuns
  /\ \E listed \in {Added, {}} :
       pub' = [stage |-> "group", group |-> 0, todo |-> <<>>, digest |-> None,
               pending |-> <<>>, sent |-> <<>>, index |-> index,
               remote |-> listed, touched |-> {}, held |-> NoRecord]
  /\ runs' = runs + 1
  /\ UNCHANGED <<content, remote, index, writes>>

(* expand: the files of the next group, as they exist now, in some order.  *)
OpenGroup ==
  /\ At("group")
  /\ pub' = IF pub.group = Len(Groups)
            THEN [pub EXCEPT !.stage = "settle"]
            ELSE [pub EXCEPT !.stage = "scan", !.group = @ + 1,
                    !.todo = SetToSeq({p \in Groups[pub.group + 1] : Exists(p)})]
  /\ UNCHANGED <<content, remote, index, writes, runs>>

Forget(p)     == [pub.index EXCEPT ![p] = None]
Listed(p)     == pub.index[p] # None /\ p \in pub.remote
(* The fast path: size and time of the file are those of its record.       *)
Untouched(p)  == Listed(p) /\ pub.index[p].stamp = content[p]

FirstDigest ==
  /\ At("scan") /\ pub.digest = None /\ pub.todo # <<>>
  /\ LET p == Head(pub.todo) IN
     pub' = CASE p \in Refusals ->
                   [pub EXCEPT !.index = Forget(p), !.todo = Tail(@)]
              [] p \notin Refusals /\ Untouched(p) ->
                   [pub EXCEPT !.todo = Tail(@)]
              [] p \notin Refusals /\ ~ Untouched(p) /\ Exists(p) ->
                   [pub EXCEPT !.digest = content[p]]
              [] OTHER -> None
  /\ UNCHANGED <<content, remote, index, writes, runs>>

(* _stable_digest: a file that changed between two reads is live.          *)
SecondDigest ==
  /\ At("scan") /\ pub.digest # None
  /\ LET p == Head(pub.todo)
         next == [pub EXCEPT !.digest = None, !.todo = Tail(@)]
     IN pub' = CASE ~ Exists(p) -> None
                 [] Exists(p) /\ content[p] # pub.digest ->
                      [next EXCEPT !.index = Forget(p)]
                 [] content[p] = pub.digest /\ Listed(p)
                      /\ pub.index[p].sha = pub.digest ->
                      [next EXCEPT !.index[p].stamp = pub.digest]
                 [] OTHER ->
                      [next EXCEPT !.pending = Append(@, [path |-> p, sha |-> pub.digest])]
  /\ UNCHANGED <<content, remote, index, writes, runs>>

Scanned ==
  /\ At("scan") /\ pub.todo = <<>>
  /\ pub' = [pub EXCEPT !.stage = IF pub.pending = <<>> THEN "group" ELSE "upload"]
  /\ UNCHANGED <<content, remote, index, writes, runs>>

(* _batches, and the uploader: one commit of the batch as it reads then.   *)
Batch == SubSeq(pub.pending, 1, IF Len(pub.pending) < BatchOps
                                THEN Len(pub.pending) ELSE BatchOps)
BatchPaths == {Batch[i].path : i \in DOMAIN Batch}

Upload ==
  /\ At("upload")
  /\ \/ /\ \A p \in BatchPaths : Exists(p)
        /\ remote' = Append(remote, [p \in BatchPaths |-> content[p]])
        /\ \/ pub' = [pub EXCEPT !.stage = "recheck", !.sent = Batch,
                        !.pending = SubSeq(@, Len(Batch) + 1, Len(@))]
           \/ Crash
     \/ Crash /\ UNCHANGED remote
  /\ UNCHANGED <<content, index, writes, runs>>

(* The digest after the upload: the remote copy may be torn.               *)
TornUnread(p, sha) == FALSE  \* Defective variant: no digest after the upload.
Torn(p, sha) == content[p] # sha

Record(p, sha) ==
  [pub EXCEPT !.index[p] = [sha |-> sha, stamp |-> sha, oid |-> Len(remote)],
              !.remote = @ \cup {p}, !.touched = @ \cup {p}]

Recheck ==
  /\ At("recheck") /\ pub.sent # <<>>
  /\ LET p == Head(pub.sent).path
         sha == Head(pub.sent).sha
     IN pub' = IF ~ Exists(p) THEN None
               ELSE [(IF Torn(p, sha) THEN [pub EXCEPT !.index = Forget(p)]
                                      ELSE Record(p, sha))
                     EXCEPT !.sent = Tail(@)]
  /\ UNCHANGED <<content, remote, index, writes, runs>>

Flush ==
  /\ At("recheck") /\ pub.sent = <<>>
  /\ index' = pub.index
  /\ pub' = [pub EXCEPT !.stage = IF pub.pending = <<>> THEN "group" ELSE "upload"]
  /\ UNCHANGED <<content, remote, writes, runs>>

(* _reverify: the window is held open, then every record of this run must  *)
(* still name the bytes of its file.                                       *)
Settle ==
  /\ At("settle")
  /\ pub' = [pub EXCEPT !.stage = "reverify", !.todo = SetToSeq(pub.touched),
                        !.held = content]
  /\ UNCHANGED <<content, remote, index, writes, runs>>

MovedAway(p, sha) == ~ Exists(p)  \* Defective variant: only a removal is noticed.
Moved(p, sha) == content[p] # sha

Reverify ==
  /\ At("reverify") /\ pub.todo # <<>>
  /\ LET p == Head(pub.todo) IN
     pub' = IF Moved(p, pub.index[p].sha)
            THEN [pub EXCEPT !.todo = Tail(@), !.index = Forget(p), !.touched = @ \ {p}]
            ELSE [pub EXCEPT !.todo = Tail(@)]
  /\ UNCHANGED <<content, remote, index, writes, runs>>

EndRun ==
  /\ At("reverify") /\ pub.todo = <<>>
  /\ index' = pub.index
  /\ pub' = [pub EXCEPT !.stage = "ended"]
  /\ UNCHANGED <<content, remote, writes, runs>>

KillPublisher ==
  /\ Running /\ Crash
  /\ UNCHANGED <<content, remote, index, writes, runs>>

(* A producer writes a file, for the first time or again, or removes it.   *)
Produce(p) ==
  /\ writes < MaxWrites /\ writes' = writes + 1
  /\ \/ content' = [content EXCEPT ![p] = writes']
     \/ Exists(p) /\ content' = [content EXCEPT ![p] = None]
  /\ UNCHANGED <<remote, index, pub, runs>>

-----------------------------------------------------------------------------
PublisherNext ==
  \/ Publish \/ OpenGroup \/ FirstDigest \/ SecondDigest \/ Scanned
  \/ Upload \/ Recheck \/ Flush \/ Settle \/ Reverify \/ EndRun \/ KillPublisher
  \/ \E p \in Paths : Produce(p)

PublisherSpec == PublisherInit /\ [][PublisherNext]_publisherVars

-----------------------------------------------------------------------------
(* What the index records of a file, in memory or on disk, is what the      *)
(* pinned remote commit holds of it, whatever was written between the      *)
(* digests and whichever answer of the remote was lost (run, _record).     *)
Truthful(record) ==
  \A p \in Paths : record[p] # None =>
    /\ record[p].oid \in DOMAIN remote
    /\ p \in DOMAIN remote[record[p].oid]
    /\ remote[record[p].oid][p] = record[p].sha
IndexNamesRemoteBytes == Truthful(index) /\ (pub # None => Truthful(pub.index))

(* A run that ended left no record of its own whose file had moved when    *)
(* the observation window closed (_reverify).                              *)
QuiescentWhenRecorded ==
  At("ended") => \A p \in pub.touched : index[p].sha = pub.held[p]
=============================================================================
