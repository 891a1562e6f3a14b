-------------------------- MODULE PublisherProofs --------------------------
(***************************************************************************)
(* The publisher's index: whatever producers write and whichever answers   *)
(* of the remote are lost, a record names bytes of its pinned commit, and  *)
(* a run that ended recorded nothing that had moved.                       *)
(*                                                                         *)
(* Both rest on freshness: a file never again holds bytes it held before,  *)
(* so bytes that still have an earlier digest have been there ever since.  *)
(***************************************************************************)
EXTENDS Publisher, FiniteSetTheorems, SequenceTheorems, TLAPS

Stages == {"group", "scan", "upload", "recheck", "settle", "reverify", "ended"}
Bytes  == Nat \cup {None}
Entry  == [sha : Nat, stamp : Nat, oid : Nat]
Index  == [Paths -> Entry \cup {None}]
Item   == [path : Paths, sha : Nat]
Commit == UNION {[S -> Nat] : S \in SUBSET Paths}

Process ==
  [stage : Stages, group : Nat, todo : Seq(Paths), digest : Bytes,
   pending : Seq(Item), sent : Seq(Item), index : Index,
   remote : SUBSET Paths, touched : SUBSET Paths, held : [Paths -> Bytes]]

PublisherType ==
  /\ content \in [Paths -> Bytes]
  /\ remote \in Seq(Commit)
  /\ index \in Index
  /\ pub # None => pub \in Process
  /\ writes \in Nat /\ runs \in Nat

(* No file and no digest is ahead of the writes.                           *)
Fresh(b) == b \in Nat => b <= writes
NotAhead ==
  /\ \A p \in Paths : Fresh(content[p])
  /\ pub # None =>
       /\ Fresh(pub.digest)
       /\ \A i \in DOMAIN pub.pending : Fresh(pub.pending[i].sha)
       /\ \A i \in DOMAIN pub.sent : Fresh(pub.sent[i].sha)
       /\ \A p \in pub.touched : Fresh(pub.index[p].sha)

(* A path of the group at hand waits to be digested, is pending, was sent  *)
(* or is recorded, and no path of a later group is yet.                    *)
PathsOf(items)  == {items[i].path : i \in DOMAIN items}
Distinct(items) ==
  \A i, j \in DOMAIN items : items[i].path = items[j].path => i = j

Scanning ==
  /\ ToSet(pub.todo) \subseteq Groups[pub.group]
  /\ IsInjective(pub.todo)
  /\ pub.digest # None => pub.todo # <<>> /\ Head(pub.todo) \notin Refusals
  /\ ToSet(pub.todo) \cap PathsOf(pub.pending) = {}
  /\ ToSet(pub.todo) \cap pub.touched = {}

OncePerPath ==
  pub # None =>
    /\ pub.group <= Len(Groups)
    /\ pub.stage \in {"scan", "upload", "recheck"} => pub.group >= 1
    /\ IF pub.stage = "scan" THEN Scanning ELSE pub.digest = None
    /\ pub.stage \notin {"scan", "upload", "recheck"} => pub.pending = <<>>
    /\ pub.stage # "recheck" => pub.sent = <<>>
    /\ \A p \in PathsOf(pub.pending) \cup PathsOf(pub.sent) :
         p \in Groups[pub.group] \ Refusals
    /\ Distinct(pub.pending) /\ Distinct(pub.sent)
    /\ PathsOf(pub.pending) \cap PathsOf(pub.sent) = {}
    /\ (PathsOf(pub.pending) \cup PathsOf(pub.sent)) \cap pub.touched = {}
    /\ \A g \in DOMAIN Groups : g > pub.group => Groups[g] \cap pub.touched = {}

(* What the run recorded is still recorded.                                *)
Kept ==
  pub # None => /\ IsFiniteSet(pub.touched)
                /\ \A p \in pub.touched : pub.index[p] \in Entry

(* Of a batch just sent, the last commit holds the digested bytes, or the  *)
(* file has moved and the digest after the upload will tell.               *)
Sent ==
  pub # None /\ pub.stage = "recheck" =>
    /\ remote # <<>>
    /\ \A i \in DOMAIN pub.sent :
         LET p == pub.sent[i].path IN
         /\ p \in DOMAIN remote[Len(remote)]
         /\ \/ remote[Len(remote)][p] = pub.sent[i].sha
            \/ content[p] # pub.sent[i].sha

(* From the close of the window on, a file that still has its recorded     *)
(* digest had it at the close; those looked at did.                        *)
Window ==
  pub # None =>
    /\ pub.stage \in {"reverify", "ended"} =>
         \A p \in pub.touched :
           /\ content[p] = pub.held[p] \/ content[p] # pub.index[p].sha
           /\ p \notin ToSet(pub.todo) => pub.index[p].sha = pub.held[p]
    /\ pub.stage = "ended" => pub.todo = <<>> /\ index = pub.index

(* No path a refusal names is in a commit. *)
NothingRefusedLeaves ==
  \A i \in DOMAIN remote : DOMAIN remote[i] \cap Refusals = {}

PublisherInv ==
  /\ PublisherType /\ NotAhead /\ OncePerPath /\ Kept /\ Sent /\ Window
  /\ NothingRefusedLeaves /\ IndexNamesRemoteBytes
-----------------------------------------------------------------------------
(* Sequences of paths and of items. *)
LEMMA TailPaths ==
  ASSUME NEW S, NEW s \in Seq(S), s # <<>>
  PROVE  /\ Head(s) \in S /\ Tail(s) \in Seq(S)
         /\ Head(s) \in ToSet(s)
         /\ ToSet(s) = {Head(s)} \cup ToSet(Tail(s))
         /\ IsInjective(s) => IsInjective(Tail(s)) /\ Head(s) \notin ToSet(Tail(s))
<1>1. /\ Head(s) = s[1] /\ 1 \in DOMAIN s /\ Tail(s) \in Seq(S)
      /\ Len(s) \in Nat /\ DOMAIN s = 1..Len(s)
      /\ DOMAIN Tail(s) = 1..(Len(s) - 1)
      /\ \A i \in 1..(Len(s) - 1) : Tail(s)[i] = s[i + 1]
  OBVIOUS
<1>2. ToSet(Tail(s)) \subseteq ToSet(s)
  BY <1>1 DEF ToSet
<1>3. ToSet(s) \subseteq {Head(s)} \cup ToSet(Tail(s))
  <2> SUFFICES ASSUME NEW i \in DOMAIN s, i # 1
               PROVE  \E j \in DOMAIN Tail(s) : Tail(s)[j] = s[i]
    BY <1>1 DEF ToSet
  <2> WITNESS i - 1 \in DOMAIN Tail(s)
  <2> QED
    BY <1>1
<1>4. Head(s) \in ToSet(s) /\ Head(s) \in S
  BY <1>1 DEF ToSet
<1>5. ASSUME IsInjective(s)
      PROVE  IsInjective(Tail(s)) /\ Head(s) \notin ToSet(Tail(s))
  BY <1>1, <1>5 DEF IsInjective, ToSet
<1> QED
  BY <1>1, <1>2, <1>3, <1>4, <1>5

LEMMA TailItems ==
  ASSUME NEW S, NEW s \in Seq(S), s # <<>>
  PROVE  /\ Head(s) \in S /\ Tail(s) \in Seq(S)
         /\ Head(s) = s[1] /\ 1 \in DOMAIN s
         /\ \A i \in DOMAIN Tail(s) : i + 1 \in DOMAIN s /\ Tail(s)[i] = s[i + 1]
         /\ Head(s).path \in PathsOf(s)
         /\ PathsOf(Tail(s)) \subseteq PathsOf(s)
         /\ Distinct(s) => Distinct(Tail(s)) /\ Head(s).path \notin PathsOf(Tail(s))
<1>1. /\ Head(s) = s[1] /\ 1 \in DOMAIN s /\ Tail(s) \in Seq(S)
      /\ Len(s) \in Nat /\ DOMAIN s = 1..Len(s)
      /\ DOMAIN Tail(s) = 1..(Len(s) - 1)
      /\ \A i \in 1..(Len(s) - 1) : Tail(s)[i] = s[i + 1]
  OBVIOUS
<1>2. PathsOf(Tail(s)) \subseteq PathsOf(s)
  BY <1>1 DEF PathsOf
<1>3. Head(s).path \in PathsOf(s) /\ Head(s) \in S
  BY <1>1 DEF PathsOf
<1>4. ASSUME Distinct(s)
      PROVE  Distinct(Tail(s)) /\ Head(s).path \notin PathsOf(Tail(s))
  <2>1. \A i \in DOMAIN Tail(s) : i + 1 \in DOMAIN s /\ i + 1 # 1 /\ Tail(s)[i] = s[i + 1]
    BY <1>1
  <2>2. \A i, j \in DOMAIN Tail(s) : i + 1 = j + 1 => i = j
    BY <1>1
  <2>3. Distinct(Tail(s))
    BY <1>4, <2>1, <2>2 DEF Distinct
  <2>4. Head(s).path \notin PathsOf(Tail(s))
    BY <1>1, <1>4, <2>1 DEF Distinct, PathsOf
  <2> QED
    BY <2>3, <2>4
<1> QED
  BY <1>1, <1>2, <1>3, <1>4

LEMMA AppendItem ==
  ASSUME NEW S, NEW s \in Seq(S), NEW e \in S
  PROVE  /\ Append(s, e) \in Seq(S)
         /\ PathsOf(Append(s, e)) = PathsOf(s) \cup {e.path}
         /\ Distinct(s) /\ e.path \notin PathsOf(s) => Distinct(Append(s, e))
         /\ \A i \in DOMAIN Append(s, e) :
              \/ i \in DOMAIN s /\ Append(s, e)[i] = s[i]
              \/ Append(s, e)[i] = e
<1>1. /\ Append(s, e) \in Seq(S) /\ Len(s) \in Nat /\ DOMAIN s = 1..Len(s)
      /\ DOMAIN Append(s, e) = 1..(Len(s) + 1)
      /\ \A i \in 1..Len(s) : Append(s, e)[i] = s[i]
      /\ Append(s, e)[Len(s) + 1] = e
  OBVIOUS
<1>2. \A i \in DOMAIN Append(s, e) :
        \/ i \in DOMAIN s /\ Append(s, e)[i] = s[i]
        \/ i = Len(s) + 1 /\ Append(s, e)[i] = e
  BY <1>1
<1>3. PathsOf(Append(s, e)) \subseteq PathsOf(s) \cup {e.path}
  BY <1>2 DEF PathsOf
<1>4. PathsOf(s) \subseteq PathsOf(Append(s, e))
  <2> SUFFICES ASSUME NEW i \in DOMAIN s
               PROVE  \E j \in DOMAIN Append(s, e) : Append(s, e)[j].path = s[i].path
    BY DEF PathsOf
  <2> WITNESS i \in DOMAIN Append(s, e)
  <2> QED
    BY <1>1
<1>5. e.path \in PathsOf(Append(s, e))
  <2> SUFFICES \E j \in DOMAIN Append(s, e) : Append(s, e)[j].path = e.path
    BY DEF PathsOf
  <2> WITNESS Len(s) + 1 \in DOMAIN Append(s, e)
  <2> QED
    BY <1>1
<1>6. ASSUME Distinct(s), e.path \notin PathsOf(s)
      PROVE  Distinct(Append(s, e))
  BY <1>2, <1>6 DEF Distinct, PathsOf
<1> QED
  BY <1>1, <1>2, <1>3, <1>4, <1>5, <1>6

(* A batch and what is left, of items that are pending. *)
LEMMA CutItems ==
  ASSUME NEW S, NEW s \in Seq(S), NEW k \in Nat, k <= Len(s)
  PROVE  LET front == SubSeq(s, 1, k)
             rest  == SubSeq(s, k + 1, Len(s))
         IN /\ front \in Seq(S) /\ rest \in Seq(S) /\ Len(front) = k
            /\ \A i \in DOMAIN front : i \in DOMAIN s /\ front[i] = s[i]
            /\ \A i \in DOMAIN rest : i + k \in DOMAIN s /\ rest[i] = s[i + k]
            /\ PathsOf(front) \subseteq PathsOf(s) /\ PathsOf(rest) \subseteq PathsOf(s)
            /\ Distinct(s) => /\ Distinct(front) /\ Distinct(rest)
                              /\ PathsOf(front) \cap PathsOf(rest) = {}
<1> DEFINE front == SubSeq(s, 1, k)
           rest  == SubSeq(s, k + 1, Len(s))
<1>1. /\ Len(s) \in Nat /\ DOMAIN s = 1..Len(s)
      /\ front \in Seq(S) /\ Len(front) = k /\ DOMAIN front = 1..k
      /\ \A i \in 1..k : front[i] = s[i]
  OBVIOUS
<1>2. /\ rest \in Seq(S) /\ DOMAIN rest = 1..(Len(s) - k)
      /\ \A i \in 1..(Len(s) - k) : rest[i] = s[i + k]
  BY <1>1
<1> HIDE DEF front, rest
<1>3. \A i \in DOMAIN front : i \in DOMAIN s /\ front[i] = s[i] /\ i <= k
  BY <1>1
<1>4. \A i \in DOMAIN rest : i + k \in DOMAIN s /\ rest[i] = s[i + k] /\ i > 0
  BY <1>1, <1>2
<1>5. PathsOf(front) \subseteq PathsOf(s) /\ PathsOf(rest) \subseteq PathsOf(s)
  BY <1>3, <1>4 DEF PathsOf
<1>6. ASSUME Distinct(s)
      PROVE  Distinct(front) /\ Distinct(rest) /\ PathsOf(front) \cap PathsOf(rest) = {}
  <2>1. Distinct(front)
    BY <1>3, <1>6 DEF Distinct
  <2>2. Distinct(rest)
    <3> SUFFICES ASSUME NEW i \in DOMAIN rest, NEW j \in DOMAIN rest,
                        rest[i].path = rest[j].path
                 PROVE  i = j
      BY DEF Distinct
    <3>1. i + k = j + k
      BY <1>4, <1>6 DEF Distinct
    <3> QED
      BY <3>1, <1>2
  <2>3. PathsOf(front) \cap PathsOf(rest) = {}
    <3> SUFFICES ASSUME NEW i \in DOMAIN front, NEW j \in DOMAIN rest,
                        front[i].path = rest[j].path
                 PROVE  FALSE
      BY DEF PathsOf
    <3>1. i = j + k
      BY <1>3, <1>4, <1>6 DEF Distinct
    <3> QED
      BY <3>1, <1>1, <1>2, <1>3, <1>4
  <2> QED
    BY <2>1, <2>2, <2>3
<1> QED
  BY <1>1, <1>2, <1>3, <1>4, <1>5, <1>6 DEF front, rest

(* The elements of a finite set, each once, in some order. *)
LEMMA OnceEach ==
  ASSUME NEW S, IsFiniteSet(S)
  PROVE  /\ SetToSeq(S) \in Seq(S)
         /\ IsInjective(SetToSeq(S))
         /\ ToSet(SetToSeq(S)) = S
<1> DEFINE n == Cardinality(S)
           f == SetToSeq(S)
<1>1. n \in Nat
  BY FS_CardinalityType
<1>2. \E g \in [1..n -> S] : IsInjective(g)
  BY FS_CardinalityType DEF ExistsBijection, Bijection, Injection, IsInjective
<1>3. f \in [1..n -> S] /\ IsInjective(f)
  BY <1>2 DEF SetToSeq
<1>4. f \in Seq(S) /\ DOMAIN f = 1..n
  BY <1>1, <1>3
<1>5. f \in Injection(1..n, S)
  BY <1>3 DEF Injection, IsInjective
<1>6. IsFiniteSet(1..n) /\ Cardinality(1..n) = n
  BY <1>1, FS_Interval
<1>7. f \in Surjection(1..n, S)
  BY <1>5, <1>6, FS_Injection
<1>8. ToSet(f) = S
  BY <1>3, <1>7 DEF ToSet, Surjection
<1> QED
  BY <1>3, <1>4, <1>8

-----------------------------------------------------------------------------
LEMMA GroupRange ==
  ASSUME PublisherAssumption
  PROVE  Len(Groups) \in Nat /\ DOMAIN Groups = 1..Len(Groups)
<1>1. Groups \in Seq(SUBSET UNION ToSet(Groups))
  BY DEF PublisherAssumption
<1> QED
  BY <1>1

LEMMA GroupPaths ==
  ASSUME PublisherAssumption, NEW g \in DOMAIN Groups
  PROVE  Groups[g] \subseteq Paths
  BY DEF Paths, ToSet

LEMMA Initially == PublisherAssumption /\ PublisherInit => PublisherInv
<1> SUFFICES ASSUME PublisherAssumption, PublisherInit
             PROVE  PublisherInv
  OBVIOUS
<1> QED
  BY DEF PublisherAssumption, PublisherInit, PublisherInv, PublisherType, NotAhead,
     OncePerPath, Kept, Sent, Window, NothingRefusedLeaves, IndexNamesRemoteBytes,
     Truthful, NoRecord, Index, Bytes, Fresh

(* A process that is gone leaves an index that names what it named. *)
LEMMA GonePreserves ==
  ASSUME PublisherAssumption, PublisherInv, pub' = None,
         UNCHANGED <<content, index, writes, runs>>,
         \/ UNCHANGED remote
         \/ /\ \E c \in Commit : remote' = Append(remote, c) /\ DOMAIN c \cap Refusals = {}
  PROVE  PublisherInv'
<1>1. CASE UNCHANGED remote
  BY <1>1 DEF PublisherInv, PublisherType, NotAhead, OncePerPath, Kept, Sent, Window,
     NothingRefusedLeaves, IndexNamesRemoteBytes, Truthful, Fresh
<1>2. ASSUME NEW c \in Commit, remote' = Append(remote, c), DOMAIN c \cap Refusals = {}
      PROVE  PublisherInv'
  <2>1. /\ remote' \in Seq(Commit) /\ DOMAIN remote \subseteq DOMAIN remote'
        /\ \A i \in DOMAIN remote' :
             \/ remote'[i] = c
             \/ i \in DOMAIN remote /\ remote'[i] = remote[i]
        /\ \A i \in DOMAIN remote : remote'[i] = remote[i]
    BY <1>2 DEF PublisherInv, PublisherType
  <2>2. NothingRefusedLeaves'
    BY <1>2, <2>1 DEF PublisherInv, NothingRefusedLeaves
  <2>3. IndexNamesRemoteBytes'
    BY <2>1 DEF PublisherInv, IndexNamesRemoteBytes, Truthful
  <2> QED
    BY <2>1, <2>2, <2>3 DEF PublisherInv, PublisherType, NotAhead, OncePerPath, Kept, Sent,
       Window, Fresh
<1> QED
  BY <1>1, <1>2

LEMMA PublishKeeps ==
  ASSUME PublisherAssumption, PublisherInv, Publish
  PROVE  PublisherInv'
<1>1. PICK listed \in {Added, {}} :
        pub' = [stage |-> "group", group |-> 0, todo |-> <<>>, digest |-> None,
                pending |-> <<>>, sent |-> <<>>, index |-> index,
                remote |-> listed, touched |-> {}, held |-> NoRecord]
  BY DEF Publish
<1>2. listed \subseteq Paths
  BY DEF PublisherInv, PublisherType, Added, Commit
<1>3. UNCHANGED <<content, remote, index, writes>> /\ runs' \in Nat
  BY DEF Publish, PublisherInv, PublisherType
<1>4. pub' \in Process
  BY <1>1, <1>2 DEF PublisherInv, PublisherType, Process, Stages, NoRecord, Index, Bytes
<1>5. PublisherType'
  BY <1>3, <1>4 DEF PublisherInv, PublisherType
<1>6. NotAhead'
  BY <1>1, <1>3 DEF PublisherInv, NotAhead, Fresh, PublisherAssumption
<1>7. OncePerPath'
  BY <1>1 DEF OncePerPath, PathsOf, Distinct, PublisherAssumption
<1>8. Kept' /\ Sent' /\ Window' /\ NothingRefusedLeaves' /\ IndexNamesRemoteBytes'
  BY <1>1, <1>3, FS_EmptySet DEF Kept, Sent, Window, PublisherInv, NothingRefusedLeaves,
     IndexNamesRemoteBytes, Truthful
<1> QED
  BY <1>5, <1>6, <1>7, <1>8 DEF PublisherInv

LEMMA KillPublisherKeeps ==
  ASSUME PublisherAssumption, PublisherInv, KillPublisher
  PROVE  PublisherInv'
  BY GonePreserves DEF KillPublisher, Crash

(* A step of the process that only moves it along. *)
LEMMA OpenGroupKeeps ==
  ASSUME PublisherAssumption, PublisherInv, OpenGroup
  PROVE  PublisherInv'
<1>1. /\ pub # None /\ pub.stage = "group" /\ pub \in Process
      /\ pub.pending = <<>> /\ pub.sent = <<>>
      /\ UNCHANGED <<content, remote, index, writes, runs>>
  BY DEF OpenGroup, At, PublisherInv, PublisherType, OncePerPath
<1>2. CASE pub.group = Len(Groups)
  <2>1. pub' = [pub EXCEPT !.stage = "settle"]
    BY <1>2 DEF OpenGroup
  <2>2. pub' \in Process
    BY <1>1, <2>1 DEF Process, Stages
  <2>3. OncePerPath' /\ Kept'
    BY <1>1, <2>1 DEF PublisherInv, OncePerPath, Kept
  <2>4. NotAhead' /\ Sent' /\ Window'
    BY <1>1, <2>1 DEF PublisherInv, NotAhead, Sent, Window, Fresh
  <2>5. IndexNamesRemoteBytes' /\ NothingRefusedLeaves' /\ PublisherType'
    BY <1>1, <2>1, <2>2 DEF PublisherInv, IndexNamesRemoteBytes, Truthful, PublisherType,
       NothingRefusedLeaves, Process
  <2> QED
    BY <2>2, <2>3, <2>4, <2>5 DEF PublisherInv
<1>3. CASE pub.group # Len(Groups)
  <2> DEFINE g == pub.group + 1
             open == {p \in Groups[g] : Exists(p)}
             todo == SetToSeq(open)
  <2>1. pub' = [pub EXCEPT !.stage = "scan", !.group = g, !.todo = todo]
    BY <1>3 DEF OpenGroup
  <2>2. g \in DOMAIN Groups /\ pub.group \in Nat /\ g \in Nat /\ g <= Len(Groups)
    <3>1. pub.group \in Nat /\ pub.group <= Len(Groups)
      BY <1>1 DEF PublisherInv, OncePerPath, Process
    <3> QED
      BY <1>3, <3>1, GroupRange
  <2>3. IsFiniteSet(open) /\ open \subseteq Groups[g]
    <3>1. IsFiniteSet(Groups[g]) /\ open \in SUBSET Groups[g]
      BY <2>2 DEF PublisherAssumption
    <3> HIDE DEF g, open
    <3> QED
      BY <3>1, FS_Subset
  <2> HIDE DEF g, open
  <2>4. /\ todo \in Seq(Paths) /\ IsInjective(todo)
        /\ ToSet(todo) \subseteq Groups[g]
    <3>1. todo \in Seq(open) /\ IsInjective(todo) /\ ToSet(todo) = open
      BY <2>3, OnceEach
    <3>2. open \subseteq Paths
      BY <2>2, <2>3, GroupPaths
    <3> QED
      BY <2>3, <3>1, <3>2
  <2> HIDE DEF todo
  <2>5. pub' \in Process
    BY <1>1, <2>1, <2>2, <2>4 DEF Process, Stages
  <2>6. OncePerPath'
    <3>1. /\ pub'.stage = "scan" /\ pub'.group = g /\ pub'.todo = todo
          /\ pub'.pending = <<>> /\ pub'.sent = <<>> /\ pub'.touched = pub.touched
          /\ pub'.digest = None
      BY <1>1, <2>1 DEF Process, PublisherInv, OncePerPath
    <3>2. Groups[g] \cap pub.touched = {} /\ pub.group >= 0
      BY <1>1, <2>2 DEF PublisherInv, OncePerPath, g
    <3>3. PathsOf(<<>>) = {} /\ Distinct(<<>>)
      BY DEF PathsOf, Distinct
    <3>4. Scanning'
      BY <2>4, <3>1, <3>2, <3>3 DEF Scanning
    <3>5. \A h \in DOMAIN Groups : h > g => Groups[h] \cap pub.touched = {}
      <4> SUFFICES ASSUME NEW h \in DOMAIN Groups, h > g
                   PROVE  Groups[h] \cap pub.touched = {}
        OBVIOUS
      <4>1. h > pub.group
        BY <2>2, GroupRange DEF g
      <4> QED
        BY <1>1, <4>1 DEF PublisherInv, OncePerPath
    <3>6. g >= 1 /\ g <= Len(Groups)
      BY <2>2, <3>2, GroupRange DEF g
    <3> QED
      BY <3>1, <3>3, <3>4, <3>5, <3>6 DEF OncePerPath
  <2>7. Kept' /\ NotAhead' /\ Sent' /\ Window'
    BY <1>1, <2>1 DEF PublisherInv, Kept, NotAhead, Sent, Window, Fresh
  <2>8. IndexNamesRemoteBytes' /\ NothingRefusedLeaves' /\ PublisherType'
    BY <1>1, <2>1, <2>5 DEF PublisherInv, IndexNamesRemoteBytes, Truthful, PublisherType,
       NothingRefusedLeaves, Process
  <2> QED
    BY <2>5, <2>6, <2>7, <2>8 DEF PublisherInv
<1> QED
  BY <1>2, <1>3
(* A step of the scan is done with the first path: its record is as it     *)
(* was, or gone, or only stamped anew, and it may be pending.              *)
LEMMA ScanStep ==
  ASSUME PublisherAssumption, PublisherInv,
         pub # None, pub.stage = "scan", pub.todo # <<>>, NEW p, p = Head(pub.todo),
         UNCHANGED <<content, remote, index, writes, runs>>,
         pub' # None, pub' \in Process,
         pub'.stage = "scan", pub'.group = pub.group, pub'.sent = pub.sent,
         pub'.touched = pub.touched, pub'.todo = Tail(pub.todo), pub'.digest = None,
         \/ pub'.pending = pub.pending
         \/ \E sha \in Nat :
              /\ pub'.pending = Append(pub.pending, [path |-> p, sha |-> sha])
              /\ Fresh(sha) /\ p \notin Refusals,
         \A q \in Paths : q # p => pub'.index[q] = pub.index[q],
         \/ pub'.index[p] = None
         \/ /\ pub.index[p] # None
            /\ pub'.index[p].sha = pub.index[p].sha /\ pub'.index[p].oid = pub.index[p].oid
  PROVE  PublisherInv'
<1>1. /\ pub \in Process /\ pub.todo \in Seq(Paths) /\ pub.pending \in Seq(Item)
      /\ pub.touched \subseteq Paths /\ pub.sent = <<>> /\ Scanning
  BY DEF PublisherInv, PublisherType, Process, OncePerPath
<1>2. /\ p \in Paths /\ p \in ToSet(pub.todo)
      /\ ToSet(pub.todo) = {p} \cup ToSet(Tail(pub.todo))
      /\ IsInjective(Tail(pub.todo)) /\ p \notin ToSet(Tail(pub.todo))
  BY <1>1, TailPaths DEF Scanning
<1>3. p \in Groups[pub.group] /\ p \notin PathsOf(pub.pending) /\ p \notin pub.touched
  BY <1>1, <1>2 DEF Scanning
<1>4. /\ PathsOf(pub'.pending) \subseteq PathsOf(pub.pending) \cup {p}
      /\ p \in PathsOf(pub'.pending) => p \notin Refusals
      /\ Distinct(pub'.pending)
      /\ \A i \in DOMAIN pub'.pending : Fresh(pub'.pending[i].sha)
  <2>1. Distinct(pub.pending) /\ \A i \in DOMAIN pub.pending : Fresh(pub.pending[i].sha)
    BY DEF PublisherInv, OncePerPath, NotAhead
  <2>2. CASE pub'.pending = pub.pending
    BY <1>3, <2>1, <2>2
  <2>3. ASSUME NEW sha \in Nat, Fresh(sha), p \notin Refusals,
               pub'.pending = Append(pub.pending, [path |-> p, sha |-> sha])
        PROVE  /\ PathsOf(pub'.pending) \subseteq PathsOf(pub.pending) \cup {p}
               /\ p \in PathsOf(pub'.pending) => p \notin Refusals
               /\ Distinct(pub'.pending)
               /\ \A i \in DOMAIN pub'.pending : Fresh(pub'.pending[i].sha)
    <3> DEFINE e == [path |-> p, sha |-> sha]
    <3>1. e \in Item /\ e.path = p /\ e.sha = sha
      BY <1>2 DEF Item
    <3> HIDE DEF e
    <3>2. pub'.pending = Append(pub.pending, e)
      BY <2>3 DEF e
    <3>3. /\ PathsOf(Append(pub.pending, e)) = PathsOf(pub.pending) \cup {p}
          /\ Distinct(Append(pub.pending, e))
          /\ \A i \in DOMAIN Append(pub.pending, e) :
               \/ i \in DOMAIN pub.pending /\ Append(pub.pending, e)[i] = pub.pending[i]
               \/ Append(pub.pending, e)[i] = e
      BY <1>1, <1>3, <2>1, <3>1, AppendItem
    <3> QED
      BY <2>1, <2>3, <3>1, <3>2, <3>3
  <2> QED
    BY <2>2, <2>3
<1>5. PublisherType'
  BY DEF PublisherInv, PublisherType
<1>6. NotAhead'
  <2>1. \A q \in pub.touched : Fresh(pub'.index[q].sha)
    BY <1>1, <1>3 DEF PublisherInv, NotAhead
  <2>2. Fresh(None)
    BY DEF Fresh, PublisherAssumption
  <2> QED
    BY <1>1, <1>4, <2>1, <2>2 DEF PublisherInv, NotAhead, Fresh
<1>7. Scanning'
  <2>1. ToSet(Tail(pub.todo)) \cap PathsOf(pub'.pending) = {}
    BY <1>1, <1>2, <1>4 DEF Scanning
  <2> QED
    BY <1>1, <1>2, <2>1 DEF Scanning
<1>8. OncePerPath'
  <2>1. \A q \in PathsOf(pub'.pending) : q \in Groups[pub.group] \ Refusals
    BY <1>3, <1>4 DEF PublisherInv, OncePerPath
  <2>2. PathsOf(pub'.pending) \cap pub.touched = {}
    BY <1>3, <1>4 DEF PublisherInv, OncePerPath
  <2>3. PathsOf(<<>>) = {}
    BY DEF PathsOf
  <2> QED
    BY <1>1, <1>4, <1>7, <2>1, <2>2, <2>3 DEF PublisherInv, OncePerPath
<1>9. Kept'
  BY <1>1, <1>3 DEF PublisherInv, Kept
<1>10. Sent' /\ Window' /\ NothingRefusedLeaves'
  BY DEF PublisherInv, Sent, Window, NothingRefusedLeaves
<1>11. IndexNamesRemoteBytes'
  BY <1>2 DEF PublisherInv, IndexNamesRemoteBytes, Truthful
<1> QED
  BY <1>5, <1>6, <1>8, <1>9, <1>10, <1>11 DEF PublisherInv

LEMMA FirstDigestKeeps ==
  ASSUME PublisherAssumption, PublisherInv, FirstDigest
  PROVE  PublisherInv'
<1> DEFINE p == Head(pub.todo)
<1>1. /\ pub # None /\ pub.stage = "scan" /\ pub \in Process /\ pub.todo # <<>>
      /\ pub.digest = None
      /\ UNCHANGED <<content, remote, index, writes, runs>>
  BY DEF FirstDigest, At, PublisherInv, PublisherType
<1>2. p \in Paths /\ Tail(pub.todo) \in Seq(Paths)
  BY <1>1, TailPaths DEF Process
<1>3. pub.index \in Index /\ content \in [Paths -> Bytes]
  BY <1>1 DEF Process, PublisherInv, PublisherType
<1>4. CASE p \in Refusals
  <2>1. pub' = [pub EXCEPT !.index = Forget(p), !.todo = Tail(@)]
    BY <1>4 DEF FirstDigest
  <2>2. Forget(p) \in Index /\ Forget(p)[p] = None
        /\ \A q \in Paths : q # p => Forget(p)[q] = pub.index[q]
    BY <1>2, <1>3 DEF Forget, Index
  <2> HIDE DEF p
  <2>3. pub' \in Process
    BY <1>1, <1>2, <2>1, <2>2 DEF Process
  <2>4. CASE pub' = None
    BY <1>1, <2>4, GonePreserves
  <2>5. CASE pub' # None
    BY <1>1, <2>1, <2>2, <2>3, <2>5, ScanStep DEF Process, p
  <2> QED
    BY <2>4, <2>5
<1>5. CASE p \notin Refusals /\ Untouched(p)
  <2>1. pub' = [pub EXCEPT !.todo = Tail(@)]
    BY <1>5 DEF FirstDigest
  <2>2. pub.index[p] # None
    BY <1>5 DEF Untouched, Listed
  <2> HIDE DEF p
  <2>3. pub' \in Process
    BY <1>1, <1>2, <2>1 DEF Process
  <2>4. CASE pub' = None
    BY <1>1, <2>4, GonePreserves
  <2>5. CASE pub' # None
    BY <1>1, <2>1, <2>2, <2>3, <2>5, ScanStep DEF Process, p
  <2> QED
    BY <2>4, <2>5
<1>6. CASE p \notin Refusals /\ ~ Untouched(p) /\ Exists(p)
  <2>1. pub' = [pub EXCEPT !.digest = content[p]]
    BY <1>6 DEF FirstDigest
  <2>2. content[p] \in Nat /\ Fresh(content[p])
    BY <1>2, <1>3, <1>6 DEF Exists, Bytes, PublisherInv, NotAhead
  <2> HIDE DEF p
  <2>3. pub' \in Process
    BY <1>1, <2>1, <2>2 DEF Process, Bytes
  <2>4. /\ pub'.stage = "scan" /\ pub'.group = pub.group /\ pub'.todo = pub.todo
        /\ pub'.digest = content[p] /\ pub'.pending = pub.pending /\ pub'.sent = pub.sent
        /\ pub'.index = pub.index /\ pub'.touched = pub.touched
    BY <1>1, <2>1 DEF Process
  <2>5. PublisherType' /\ NotAhead'
    BY <1>1, <2>2, <2>3, <2>4 DEF PublisherInv, PublisherType, NotAhead, Fresh
  <2>6. Scanning'
    BY <1>1, <1>6, <2>4 DEF PublisherInv, OncePerPath, Scanning, p
  <2>7. OncePerPath'
    BY <1>1, <2>4, <2>6 DEF PublisherInv, OncePerPath
  <2>8. Kept' /\ Sent' /\ Window' /\ NothingRefusedLeaves' /\ IndexNamesRemoteBytes'
    BY <1>1, <2>4 DEF PublisherInv, Kept, Sent, Window, NothingRefusedLeaves,
       IndexNamesRemoteBytes, Truthful
  <2> QED
    BY <2>5, <2>7, <2>8 DEF PublisherInv
<1>7. CASE p \notin Refusals /\ ~ Untouched(p) /\ ~ Exists(p)
  <2>1. pub' = None
    BY <1>7 DEF FirstDigest
  <2> QED
    BY <1>1, <2>1, GonePreserves
<1> QED
  BY <1>4, <1>5, <1>6, <1>7

LEMMA SecondDigestKeeps ==
  ASSUME PublisherAssumption, PublisherInv, SecondDigest
  PROVE  PublisherInv'
<1> DEFINE p == Head(pub.todo)
           next == [pub EXCEPT !.digest = None, !.todo = Tail(@)]
<1>1. /\ pub # None /\ pub.stage = "scan" /\ pub \in Process
      /\ pub.digest # None /\ pub.digest \in Nat /\ Fresh(pub.digest)
      /\ pub.todo # <<>> /\ p \notin Refusals
      /\ UNCHANGED <<content, remote, index, writes, runs>>
  BY DEF SecondDigest, At, PublisherInv, PublisherType, Process, Bytes, OncePerPath,
     Scanning, NotAhead
<1>2. p \in Paths /\ Tail(pub.todo) \in Seq(Paths)
  BY <1>1, TailPaths DEF Process
<1>3. pub.index \in Index /\ pub.pending \in Seq(Item)
  BY <1>1 DEF Process
<1>4. /\ next \in Process
      /\ next.stage = "scan" /\ next.group = pub.group /\ next.sent = pub.sent
      /\ next.touched = pub.touched /\ next.todo = Tail(pub.todo) /\ next.digest = None
      /\ next.pending = pub.pending /\ next.index = pub.index
  BY <1>1, <1>2 DEF Process, Bytes
<1>5. \/ pub' = None
      \/ pub' = [next EXCEPT !.index = Forget(p)]
      \/ /\ pub' = [next EXCEPT !.index[p].stamp = pub.digest]
         /\ pub.index[p] # None
      \/ pub' = [next EXCEPT !.pending = Append(@, [path |-> p, sha |-> pub.digest])]
  BY DEF SecondDigest, Listed
<1>6. Forget(p) \in Index /\ Forget(p)[p] = None
      /\ \A q \in Paths : q # p => Forget(p)[q] = pub.index[q]
  BY <1>2, <1>3 DEF Forget, Index
<1> HIDE DEF p, next
<1>7. CASE pub' = [next EXCEPT !.index = Forget(p)]
  <2>1. pub' \in Process
    BY <1>4, <1>6, <1>7 DEF Process
  <2>2. /\ pub'.stage = "scan" /\ pub'.group = pub.group /\ pub'.sent = pub.sent
        /\ pub'.touched = pub.touched /\ pub'.todo = Tail(pub.todo) /\ pub'.digest = None
        /\ pub'.pending = pub.pending /\ pub'.index = Forget(p)
    BY <1>4, <1>7 DEF Process
  <2>3. CASE pub' = None
    BY <1>1, <2>3, GonePreserves
  <2>4. CASE pub' # None
    BY <1>1, <1>6, <2>1, <2>2, <2>4, ScanStep DEF p
  <2> QED
    BY <2>3, <2>4
<1>8. CASE pub' = [next EXCEPT !.index[p].stamp = pub.digest] /\ pub.index[p] # None
  <2> DEFINE stamped == [pub.index EXCEPT ![p].stamp = pub.digest]
  <2>1. pub.index[p] \in Entry
    BY <1>2, <1>3, <1>8 DEF Index
  <2>2. stamped \in Index /\ stamped[p].sha = pub.index[p].sha
        /\ stamped[p].oid = pub.index[p].oid
        /\ \A q \in Paths : q # p => stamped[q] = pub.index[q]
    BY <1>1, <1>2, <1>3, <2>1 DEF Index, Entry
  <2>3. pub' = [next EXCEPT !.index = stamped]
    BY <1>4, <1>8
  <2> HIDE DEF stamped
  <2>4. pub' \in Process
    BY <1>4, <2>2, <2>3 DEF Process
  <2>5. /\ pub'.stage = "scan" /\ pub'.group = pub.group /\ pub'.sent = pub.sent
        /\ pub'.touched = pub.touched /\ pub'.todo = Tail(pub.todo) /\ pub'.digest = None
        /\ pub'.pending = pub.pending /\ pub'.index = stamped
    BY <1>4, <2>3 DEF Process
  <2>6. CASE pub' = None
    BY <1>1, <2>6, GonePreserves
  <2>7. CASE pub' # None
    BY <1>1, <1>8, <2>2, <2>4, <2>5, <2>7, ScanStep DEF p
  <2> QED
    BY <2>6, <2>7
<1>9. CASE pub' = [next EXCEPT !.pending = Append(@, [path |-> p, sha |-> pub.digest])]
  <2> DEFINE more == Append(pub.pending, [path |-> p, sha |-> pub.digest])
  <2>1. [path |-> p, sha |-> pub.digest] \in Item
    BY <1>1, <1>2 DEF Item
  <2>2. more \in Seq(Item)
    BY <1>3, <2>1, AppendItem
  <2>3. pub' = [next EXCEPT !.pending = more]
    BY <1>4, <1>9
  <2> HIDE DEF more
  <2>4. pub' \in Process
    BY <1>4, <2>2, <2>3 DEF Process
  <2>5. /\ pub'.stage = "scan" /\ pub'.group = pub.group /\ pub'.sent = pub.sent
        /\ pub'.touched = pub.touched /\ pub'.todo = Tail(pub.todo) /\ pub'.digest = None
        /\ pub'.pending = more /\ pub'.index = pub.index
    BY <1>4, <2>3 DEF Process
  <2>6. CASE pub' = None
    BY <1>1, <2>6, GonePreserves
  <2>7. CASE pub' # None
    BY <1>1, <2>4, <2>5, <2>7, ScanStep DEF p, more
  <2> QED
    BY <2>6, <2>7
<1>10. CASE pub' = None
  BY <1>1, <1>10, GonePreserves
<1> QED
  BY <1>5, <1>7, <1>8, <1>9, <1>10

LEMMA ScannedKeeps ==
  ASSUME PublisherAssumption, PublisherInv, Scanned
  PROVE  PublisherInv'
<1> DEFINE stage == IF pub.pending = <<>> THEN "group" ELSE "upload"
<1>1. /\ pub # None /\ pub.stage = "scan" /\ pub \in Process /\ pub.todo = <<>>
      /\ pub' = [pub EXCEPT !.stage = stage] /\ pub.digest = None
      /\ UNCHANGED <<content, remote, index, writes, runs>>
  BY DEF Scanned, At, PublisherInv, PublisherType, OncePerPath, Scanning
<1>2. stage \in Stages
  BY DEF Stages
<1>3. /\ pub' \in Process
      /\ pub'.stage = stage /\ pub'.group = pub.group /\ pub'.todo = pub.todo
      /\ pub'.digest = pub.digest /\ pub'.pending = pub.pending /\ pub'.sent = pub.sent
      /\ pub'.index = pub.index /\ pub'.touched = pub.touched
  BY <1>1, <1>2 DEF Process
<1>4. PublisherType' /\ NotAhead'
  BY <1>1, <1>3 DEF PublisherInv, PublisherType, NotAhead, Fresh
<1>5. OncePerPath'
  BY <1>1, <1>3 DEF PublisherInv, OncePerPath
<1>6. Kept' /\ Sent' /\ Window' /\ NothingRefusedLeaves' /\ IndexNamesRemoteBytes'
  BY <1>1, <1>3 DEF PublisherInv, Kept, Sent, Window, NothingRefusedLeaves,
     IndexNamesRemoteBytes, Truthful
<1> QED
  BY <1>4, <1>5, <1>6 DEF PublisherInv

LEMMA UploadKeeps ==
  ASSUME PublisherAssumption, PublisherInv, Upload
  PROVE  PublisherInv'
<1> DEFINE k    == IF Len(pub.pending) < BatchOps THEN Len(pub.pending) ELSE BatchOps
           rest == SubSeq(pub.pending, k + 1, Len(pub.pending))
           c    == [p \in BatchPaths |-> content[p]]
<1>1. /\ pub # None /\ pub.stage = "upload" /\ pub \in Process
      /\ pub.pending \in Seq(Item) /\ pub.sent = <<>> /\ pub.digest = None
      /\ pub.group >= 1 /\ pub.group <= Len(Groups)
      /\ UNCHANGED <<content, index, writes, runs>>
  BY DEF Upload, At, PublisherInv, PublisherType, Process, OncePerPath
<1>2. Distinct(pub.pending)
  BY <1>1 DEF PublisherInv, OncePerPath
<1>3. k \in Nat /\ k <= Len(pub.pending)
  BY <1>1 DEF PublisherAssumption
<1>4. /\ Batch \in Seq(Item) /\ rest \in Seq(Item) /\ Len(Batch) = k
      /\ \A i \in DOMAIN Batch : i \in DOMAIN pub.pending /\ Batch[i] = pub.pending[i]
      /\ \A i \in DOMAIN rest : i + k \in DOMAIN pub.pending /\ rest[i] = pub.pending[i + k]
      /\ PathsOf(Batch) \subseteq PathsOf(pub.pending)
      /\ PathsOf(rest) \subseteq PathsOf(pub.pending)
      /\ Distinct(Batch) /\ Distinct(rest) /\ PathsOf(Batch) \cap PathsOf(rest) = {}
  <2>1. Batch = SubSeq(pub.pending, 1, k)
    BY DEF Batch
  <2> HIDE DEF k
  <2> QED
    BY <1>1, <1>2, <1>3, <2>1, CutItems
<1>5. BatchPaths = PathsOf(Batch) /\ BatchPaths \subseteq Paths
  <2>1. BatchPaths = PathsOf(Batch)
    BY DEF BatchPaths, PathsOf
  <2>2. \A i \in DOMAIN pub.pending : pub.pending[i] \in Item
    BY <1>1, ElementOfSeq
  <2>3. \A i \in DOMAIN Batch : Batch[i].path \in Paths
    BY <1>4, <2>2 DEF Item
  <2> QED
    BY <2>1, <2>3 DEF BatchPaths
<1>6. BatchPaths \cap Refusals = {}
  BY <1>1, <1>4, <1>5 DEF PublisherInv, OncePerPath
<1> HIDE DEF k
<1>7. ASSUME \A p \in BatchPaths : Exists(p)
      PROVE  c \in Commit /\ DOMAIN c = BatchPaths
  <2>1. \A p \in BatchPaths : content[p] \in Nat
    BY <1>5, <1>7 DEF Exists, PublisherInv, PublisherType, Bytes
  <2>2. c \in [BatchPaths -> Nat]
    BY <2>1
  <2> QED
    BY <1>5, <2>2 DEF Commit
<1> HIDE DEF c
<1>8. CASE pub' = None
  <2>1. \/ UNCHANGED remote
        \/ (\A p \in BatchPaths : Exists(p)) /\ remote' = Append(remote, c)
    BY DEF Upload, c
  <2>2. CASE UNCHANGED remote
    BY <1>1, <1>8, <2>2, GonePreserves
  <2>3. CASE (\A p \in BatchPaths : Exists(p)) /\ remote' = Append(remote, c)
    BY <1>1, <1>6, <1>7, <1>8, <2>3, GonePreserves
  <2> QED
    BY <2>1, <2>2, <2>3
<1>9. CASE pub' # None
  <2>1. /\ \A p \in BatchPaths : Exists(p)
        /\ remote' = Append(remote, c)
        /\ pub' = [pub EXCEPT !.stage = "recheck", !.sent = Batch, !.pending = rest]
    <3>1. \/ Crash
          \/ /\ \A p \in BatchPaths : Exists(p)
             /\ remote' = Append(remote, c)
             /\ pub' = [pub EXCEPT !.stage = "recheck", !.sent = Batch,
                         !.pending = SubSeq(@, Len(Batch) + 1, Len(@))]
      BY DEF Upload, c
    <3> HIDE DEF rest
    <3> QED
      BY <1>4, <1>9, <3>1 DEF Crash, rest
  <2> HIDE DEF rest
  <2>2. /\ pub' \in Process
        /\ pub'.stage = "recheck" /\ pub'.group = pub.group /\ pub'.digest = pub.digest
        /\ pub'.pending = rest /\ pub'.sent = Batch /\ pub'.index = pub.index
        /\ pub'.touched = pub.touched
    BY <1>1, <1>4, <2>1 DEF Process, Stages
  <2>3. /\ c \in Commit /\ DOMAIN c = BatchPaths /\ remote \in Seq(Commit)
        /\ \A p \in BatchPaths : c[p] = content[p]
    BY <1>7, <2>1 DEF PublisherInv, PublisherType, c
  <2>4. /\ remote' \in Seq(Commit) /\ DOMAIN remote \subseteq DOMAIN remote'
        /\ \A i \in DOMAIN remote' :
             \/ remote'[i] = c
             \/ i \in DOMAIN remote /\ remote'[i] = remote[i]
        /\ \A i \in DOMAIN remote : remote'[i] = remote[i]
        /\ remote' # <<>> /\ remote'[Len(remote')] = c
    BY <2>1, <2>3
  <2>5. PublisherType'
    BY <1>1, <2>2, <2>4 DEF PublisherInv, PublisherType
  <2>6. NotAhead'
    BY <1>1, <1>4, <2>2 DEF PublisherInv, NotAhead, Fresh
  <2>7. OncePerPath'
    BY <1>1, <1>4, <2>2 DEF PublisherInv, OncePerPath
  <2>8. Sent'
    <3> SUFFICES ASSUME NEW i \in DOMAIN Batch
                 PROVE  /\ Batch[i].path \in DOMAIN c
                        /\ \/ c[Batch[i].path] = Batch[i].sha
                           \/ content[Batch[i].path] # Batch[i].sha
      BY <1>1, <2>2, <2>4 DEF Sent
    <3>1. Batch[i].path \in BatchPaths
      BY DEF BatchPaths
    <3> QED
      BY <2>3, <3>1
  <2>9. NothingRefusedLeaves'
    BY <1>6, <2>3, <2>4 DEF PublisherInv, NothingRefusedLeaves
  <2>10. IndexNamesRemoteBytes'
    BY <1>1, <2>2, <2>4 DEF PublisherInv, IndexNamesRemoteBytes, Truthful
  <2>11. Kept' /\ Window'
    BY <1>1, <2>2 DEF PublisherInv, Kept, Window
  <2> QED
    BY <2>5, <2>6, <2>7, <2>8, <2>9, <2>10, <2>11 DEF PublisherInv
<1> QED
  BY <1>8, <1>9

LEMMA RecheckKeeps ==
  ASSUME PublisherAssumption, PublisherInv, Recheck
  PROVE  PublisherInv'
<1> DEFINE p    == Head(pub.sent).path
           sha  == Head(pub.sent).sha
           seen == IF Torn(p, sha) THEN [pub EXCEPT !.index = Forget(p)] ELSE Record(p, sha)
           mark == [sha |-> sha, stamp |-> sha, oid |-> Len(remote)]
<1>1. /\ pub # None /\ pub.stage = "recheck" /\ pub \in Process /\ pub.sent # <<>>
      /\ pub.sent \in Seq(Item) /\ pub.index \in Index /\ pub.digest = None
      /\ pub.touched \subseteq Paths /\ pub.remote \subseteq Paths
      /\ pub.group \in Nat /\ pub.group >= 1 /\ pub.group <= Len(Groups)
      /\ UNCHANGED <<content, remote, index, writes, runs>>
      /\ remote \in Seq(Commit)
  BY DEF Recheck, At, PublisherInv, PublisherType, Process, OncePerPath
<1>2. /\ Head(pub.sent) \in Item /\ Tail(pub.sent) \in Seq(Item)
      /\ Head(pub.sent) = pub.sent[1] /\ 1 \in DOMAIN pub.sent
      /\ \A i \in DOMAIN Tail(pub.sent) :
           i + 1 \in DOMAIN pub.sent /\ Tail(pub.sent)[i] = pub.sent[i + 1]
      /\ p \in PathsOf(pub.sent) /\ PathsOf(Tail(pub.sent)) \subseteq PathsOf(pub.sent)
      /\ Distinct(Tail(pub.sent)) /\ p \notin PathsOf(Tail(pub.sent))
  <2>1. Distinct(pub.sent)
    BY <1>1 DEF PublisherInv, OncePerPath
  <2> QED
    BY <1>1, <2>1, TailItems
<1>3. p \in Paths /\ sha \in Nat /\ Fresh(sha)
  BY <1>1, <1>2 DEF Item, PublisherInv, NotAhead
<1>4. /\ p \in Groups[pub.group] \ Refusals /\ p \notin pub.touched
      /\ p \notin PathsOf(pub.pending)
  BY <1>1, <1>2 DEF PublisherInv, OncePerPath
<1>5. /\ remote # <<>> /\ p \in DOMAIN remote[Len(remote)]
      /\ remote[Len(remote)][p] = sha \/ Torn(p, sha)
      /\ Len(remote) \in DOMAIN remote /\ Len(remote) \in Nat
  BY <1>1, <1>2 DEF PublisherInv, Sent, Torn
<1>6. pub' = None \/ pub' = [seen EXCEPT !.sent = Tail(@)]
  BY DEF Recheck
<1>7. /\ Forget(p) \in Index /\ Forget(p)[p] = None
      /\ \A q \in Paths : q # p => Forget(p)[q] = pub.index[q]
  BY <1>1, <1>3 DEF Forget, Index
<1>8. mark \in Entry /\ mark.sha = sha /\ mark.oid = Len(remote)
  BY <1>3, <1>5 DEF Entry
<1> HIDE DEF p, sha
(* What the step leaves of the process, whichever way the digest goes.     *)
<1>9. ASSUME pub' # None
      PROVE  /\ pub' \in Process /\ pub'.stage = "recheck" /\ pub'.group = pub.group
             /\ pub'.digest = None /\ pub'.pending = pub.pending
             /\ pub'.sent = Tail(pub.sent)
             /\ \A q \in Paths : q # p => pub'.index[q] = pub.index[q]
             /\ \/ pub'.touched = pub.touched /\ pub'.index[p] = None
                \/ /\ pub'.touched = pub.touched \cup {p} /\ pub'.index[p] = mark
                   /\ ~ Torn(p, sha)
  <2>1. CASE Torn(p, sha)
    <3>1. seen = [pub EXCEPT !.index = Forget(p)]
      BY <2>1
    <3>2. /\ seen \in Process /\ seen.stage = "recheck" /\ seen.group = pub.group
          /\ seen.digest = None /\ seen.pending = pub.pending /\ seen.sent = pub.sent
          /\ seen.index = Forget(p) /\ seen.touched = pub.touched
      BY <1>1, <1>7, <3>1 DEF Process
    <3> HIDE DEF seen
    <3>3. pub' = [seen EXCEPT !.sent = Tail(pub.sent)]
      BY <1>6, <1>9, <3>2
    <3> QED
      BY <1>2, <1>7, <3>2, <3>3 DEF Process
  <2>2. CASE ~ Torn(p, sha)
    <3> DEFINE marked == [pub.index EXCEPT ![p] = mark]
    <3>1. /\ marked \in Index /\ marked[p] = mark
          /\ \A q \in Paths : q # p => marked[q] = pub.index[q]
      BY <1>1, <1>3, <1>8 DEF Index
    <3>2. seen = [pub EXCEPT !.index = marked, !.remote = pub.remote \cup {p},
                    !.touched = pub.touched \cup {p}]
      BY <2>2 DEF Record
    <3> HIDE DEF marked, mark
    <3>3. /\ seen \in Process /\ seen.stage = "recheck" /\ seen.group = pub.group
          /\ seen.digest = None /\ seen.pending = pub.pending /\ seen.sent = pub.sent
          /\ seen.index = marked /\ seen.touched = pub.touched \cup {p}
      <4> HIDE DEF seen
      <4> QED
        BY <1>1, <1>3, <3>1, <3>2 DEF Process
    <3> HIDE DEF seen
    <3>4. pub' = [seen EXCEPT !.sent = Tail(pub.sent)]
      BY <1>6, <1>9, <3>3
    <3> QED
      BY <1>2, <2>2, <3>1, <3>3, <3>4 DEF Process
  <2> QED
    BY <2>1, <2>2
<1> HIDE DEF mark, seen
<1>10. CASE pub' = None
  BY <1>1, <1>10, GonePreserves
<1>11. CASE pub' # None
  <2>1. PublisherType'
    BY <1>1, <1>9, <1>11 DEF PublisherInv, PublisherType
  <2>2. NotAhead'
    <3>1. \A q \in pub'.touched : Fresh(pub'.index[q].sha)
      BY <1>1, <1>3, <1>4, <1>8, <1>9, <1>11 DEF PublisherInv, NotAhead
    <3>2. \A i \in DOMAIN Tail(pub.sent) : Fresh(Tail(pub.sent)[i].sha)
      BY <1>1, <1>2 DEF PublisherInv, NotAhead
    <3>3. Fresh(None) /\ \A i \in DOMAIN pub.pending : Fresh(pub.pending[i].sha)
      BY <1>1 DEF PublisherInv, NotAhead
    <3> QED
      BY <1>1, <1>9, <1>11, <3>1, <3>2, <3>3 DEF PublisherInv, NotAhead, Fresh
  <2>3. OncePerPath'
    <3>1. /\ Distinct(pub.pending)
          /\ \A q \in PathsOf(pub.pending) \cup PathsOf(Tail(pub.sent)) :
               q \in Groups[pub.group] \ Refusals
          /\ PathsOf(pub.pending) \cap PathsOf(Tail(pub.sent)) = {}
          /\ (PathsOf(pub.pending) \cup PathsOf(Tail(pub.sent))) \cap pub'.touched = {}
      BY <1>1, <1>2, <1>4, <1>9, <1>11 DEF PublisherInv, OncePerPath
    <3>2. \A g \in DOMAIN Groups : g > pub.group => Groups[g] \cap pub'.touched = {}
      <4> SUFFICES ASSUME NEW g \in DOMAIN Groups, g > pub.group
                   PROVE  Groups[g] \cap pub'.touched = {}
        OBVIOUS
      <4>1. Groups[g] \cap pub.touched = {}
        BY <1>1 DEF PublisherInv, OncePerPath
      <4>2. pub.group \in DOMAIN Groups /\ g # pub.group
        BY <1>1, GroupRange
      <4>3. p \notin Groups[g]
        BY <1>4, <4>2 DEF PublisherAssumption
      <4> QED
        BY <1>9, <1>11, <4>1, <4>3
    <3> QED
      BY <1>1, <1>2, <1>9, <1>11, <3>1, <3>2 DEF OncePerPath
  <2>4. Kept'
    <3>1. IsFiniteSet(pub.touched) /\ IsFiniteSet(pub.touched \cup {p})
      BY <1>1, FS_AddElement DEF PublisherInv, Kept
    <3>2. \A q \in pub'.touched : pub'.index[q] \in Entry
      BY <1>1, <1>4, <1>8, <1>9, <1>11 DEF PublisherInv, Kept
    <3> QED
      BY <1>9, <1>11, <3>1, <3>2 DEF Kept
  <2>5. Sent' /\ Window' /\ NothingRefusedLeaves'
    <3>1. Window' /\ NothingRefusedLeaves'
      BY <1>1, <1>9, <1>11 DEF PublisherInv, Window, NothingRefusedLeaves
    <3>2. ASSUME NEW i \in DOMAIN Tail(pub.sent)
          PROVE  LET q == Tail(pub.sent)[i].path IN
                 /\ q \in DOMAIN remote[Len(remote)]
                 /\ \/ remote[Len(remote)][q] = Tail(pub.sent)[i].sha
                    \/ content[q] # Tail(pub.sent)[i].sha
      <4>1. i + 1 \in DOMAIN pub.sent /\ Tail(pub.sent)[i] = pub.sent[i + 1]
        BY <1>2
      <4> QED
        BY <1>1, <4>1 DEF PublisherInv, Sent
    <3>3. Sent'
      BY <1>1, <1>5, <1>9, <1>11, <3>2 DEF Sent
    <3> QED
      BY <3>1, <3>3
  <2>6. IndexNamesRemoteBytes'
    BY <1>1, <1>3, <1>5, <1>8, <1>9, <1>11 DEF PublisherInv, IndexNamesRemoteBytes, Truthful
  <2> QED
    BY <2>1, <2>2, <2>3, <2>4, <2>5, <2>6 DEF PublisherInv
<1> QED
  BY <1>10, <1>11

LEMMA FlushKeeps ==
  ASSUME PublisherAssumption, PublisherInv, Flush
  PROVE  PublisherInv'
<1> DEFINE stage == IF pub.pending = <<>> THEN "group" ELSE "upload"
<1>1. /\ pub # None /\ pub.stage = "recheck" /\ pub \in Process /\ pub.sent = <<>>
      /\ pub' = [pub EXCEPT !.stage = stage] /\ pub.digest = None
      /\ index' = pub.index /\ index' \in Index
      /\ UNCHANGED <<content, remote, writes, runs>>
  BY DEF Flush, At, PublisherInv, PublisherType, OncePerPath, Process
<1>2. stage \in Stages
  BY DEF Stages
<1>3. /\ pub' \in Process
      /\ pub'.stage = stage /\ pub'.group = pub.group
      /\ pub'.digest = pub.digest /\ pub'.pending = pub.pending /\ pub'.sent = pub.sent
      /\ pub'.index = pub.index /\ pub'.touched = pub.touched
  BY <1>1, <1>2 DEF Process
<1>4. PublisherType' /\ NotAhead'
  BY <1>1, <1>3 DEF PublisherInv, PublisherType, NotAhead, Fresh
<1>5. OncePerPath'
  BY <1>1, <1>3 DEF PublisherInv, OncePerPath
<1>6. Kept' /\ Sent' /\ Window' /\ NothingRefusedLeaves'
  BY <1>1, <1>3 DEF PublisherInv, Kept, Sent, Window, NothingRefusedLeaves
<1>7. IndexNamesRemoteBytes'
  BY <1>1, <1>3 DEF PublisherInv, IndexNamesRemoteBytes, Truthful
<1> QED
  BY <1>4, <1>5, <1>6, <1>7 DEF PublisherInv

LEMMA SettleKeeps ==
  ASSUME PublisherAssumption, PublisherInv, Settle
  PROVE  PublisherInv'
<1> DEFINE todo == SetToSeq(pub.touched)
<1>1. /\ pub # None /\ pub.stage = "settle" /\ pub \in Process
      /\ pub' = [pub EXCEPT !.stage = "reverify", !.todo = todo, !.held = content]
      /\ pub.touched \subseteq Paths /\ IsFiniteSet(pub.touched) /\ pub.digest = None
      /\ content \in [Paths -> Bytes]
      /\ UNCHANGED <<content, remote, index, writes, runs>>
  BY DEF Settle, At, PublisherInv, PublisherType, OncePerPath, Process, Kept
<1>2. todo \in Seq(Paths) /\ ToSet(todo) = pub.touched
  BY <1>1, OnceEach
<1> HIDE DEF todo
<1>3. /\ pub' \in Process
      /\ pub'.stage = "reverify" /\ pub'.group = pub.group /\ pub'.todo = todo
      /\ pub'.digest = pub.digest /\ pub'.pending = pub.pending /\ pub'.sent = pub.sent
      /\ pub'.index = pub.index /\ pub'.touched = pub.touched /\ pub'.held = content
  BY <1>1, <1>2 DEF Process, Stages
<1>4. PublisherType' /\ NotAhead'
  BY <1>1, <1>3 DEF PublisherInv, PublisherType, NotAhead, Fresh
<1>5. OncePerPath'
  BY <1>1, <1>3 DEF PublisherInv, OncePerPath
<1>6. Kept' /\ Sent' /\ Window' /\ NothingRefusedLeaves' /\ IndexNamesRemoteBytes'
  BY <1>1, <1>2, <1>3 DEF PublisherInv, Kept, Sent, Window, NothingRefusedLeaves,
     IndexNamesRemoteBytes, Truthful
<1> QED
  BY <1>4, <1>5, <1>6 DEF PublisherInv

LEMMA ReverifyKeeps ==
  ASSUME PublisherAssumption, PublisherInv, Reverify
  PROVE  PublisherInv'
<1> DEFINE p == Head(pub.todo)
<1>1. /\ pub # None /\ pub.stage = "reverify" /\ pub \in Process /\ pub.todo # <<>>
      /\ pub.todo \in Seq(Paths) /\ pub.index \in Index /\ pub.touched \subseteq Paths
      /\ pub.digest = None /\ pub.pending = <<>> /\ pub.sent = <<>>
      /\ UNCHANGED <<content, remote, index, writes, runs>>
  BY DEF Reverify, At, PublisherInv, PublisherType, OncePerPath, Process
<1>2. /\ p \in Paths /\ Tail(pub.todo) \in Seq(Paths)
      /\ ToSet(pub.todo) = {p} \cup ToSet(Tail(pub.todo))
  BY <1>1, TailPaths
<1>3. /\ Forget(p) \in Index /\ Forget(p)[p] = None
      /\ \A q \in Paths : q # p => Forget(p)[q] = pub.index[q]
  BY <1>1, <1>2 DEF Forget, Index
<1>4. \A q \in pub.touched :
        /\ content[q] = pub.held[q] \/ content[q] # pub.index[q].sha
        /\ q \notin ToSet(pub.todo) => pub.index[q].sha = pub.held[q]
        /\ pub.index[q] \in Entry /\ Fresh(pub.index[q].sha)
  BY <1>1 DEF PublisherInv, Window, Kept, NotAhead
<1>5. \/ /\ Moved(p, pub.index[p].sha)
         /\ pub' = [pub EXCEPT !.todo = Tail(pub.todo), !.index = Forget(p),
                     !.touched = pub.touched \ {p}]
      \/ /\ ~ Moved(p, pub.index[p].sha)
         /\ pub' = [pub EXCEPT !.todo = Tail(pub.todo)]
  BY DEF Reverify
<1> HIDE DEF p
<1>6. /\ pub' \in Process /\ pub'.stage = "reverify" /\ pub'.group = pub.group
      /\ pub'.todo = Tail(pub.todo) /\ pub'.digest = None
      /\ pub'.pending = <<>> /\ pub'.sent = <<>> /\ pub'.held = pub.held
      /\ \A q \in Paths : q # p => pub'.index[q] = pub.index[q]
      /\ \/ pub'.touched = pub.touched \ {p} /\ pub'.index[p] = None
         \/ /\ pub'.touched = pub.touched /\ pub'.index[p] = pub.index[p]
            /\ content[p] = pub.index[p].sha
  <2>1. CASE pub' = [pub EXCEPT !.todo = Tail(pub.todo), !.index = Forget(p),
                     !.touched = pub.touched \ {p}]
    BY <1>1, <1>2, <1>3, <2>1 DEF Process
  <2>2. CASE /\ ~ Moved(p, pub.index[p].sha)
             /\ pub' = [pub EXCEPT !.todo = Tail(pub.todo)]
    <3>1. content[p] = pub.index[p].sha
      BY <2>2 DEF Moved
    <3> QED
      BY <1>1, <1>2, <2>2, <3>1 DEF Process
  <2> QED
    BY <1>5, <2>1, <2>2
<1>7. /\ pub'.touched \subseteq pub.touched
      /\ \A q \in pub'.touched : pub'.index[q] = pub.index[q]
  BY <1>1, <1>6
<1>8. PublisherType' /\ NotAhead'
  BY <1>1, <1>4, <1>6, <1>7 DEF PublisherInv, PublisherType, NotAhead, Fresh
<1>9. OncePerPath'
  BY <1>1, <1>6, <1>7 DEF PublisherInv, OncePerPath
<1>10. Kept'
  <2>1. IsFiniteSet(pub.touched) /\ IsFiniteSet(pub.touched \ {p})
    BY <1>1, FS_RemoveElement DEF PublisherInv, Kept
  <2> QED
    BY <1>4, <1>6, <1>7, <2>1 DEF Kept
<1>11. Window'
  <2>1. ASSUME NEW q \in pub'.touched
        PROVE  /\ content[q] = pub.held[q] \/ content[q] # pub'.index[q].sha
               /\ q \notin ToSet(Tail(pub.todo)) => pub'.index[q].sha = pub.held[q]
    <3>1. CASE q # p \/ q \in ToSet(Tail(pub.todo))
      BY <1>2, <1>4, <1>7, <2>1, <3>1
    <3>2. CASE q = p
      BY <1>4, <1>6, <1>7, <2>1, <3>2
    <3> QED
      BY <3>1, <3>2
  <2> QED
    BY <1>1, <1>6, <2>1 DEF Window
<1>12. Sent' /\ NothingRefusedLeaves'
  BY <1>1, <1>6 DEF PublisherInv, Sent, NothingRefusedLeaves
<1>13. IndexNamesRemoteBytes'
  <2>1. \A q \in Paths : pub'.index[q] # None => pub'.index[q] = pub.index[q]
    BY <1>6
  <2> QED
    BY <1>1, <2>1 DEF PublisherInv, IndexNamesRemoteBytes, Truthful
<1> QED
  BY <1>8, <1>9, <1>10, <1>11, <1>12, <1>13 DEF PublisherInv

LEMMA EndRunKeeps ==
  ASSUME PublisherAssumption, PublisherInv, EndRun
  PROVE  PublisherInv'
<1>1. /\ pub # None /\ pub.stage = "reverify" /\ pub \in Process /\ pub.todo = <<>>
      /\ pub' = [pub EXCEPT !.stage = "ended"] /\ pub.digest = None
      /\ index' = pub.index /\ index' \in Index
      /\ UNCHANGED <<content, remote, writes, runs>>
  BY DEF EndRun, At, PublisherInv, PublisherType, OncePerPath, Process
<1>2. /\ pub' \in Process
      /\ pub'.stage = "ended" /\ pub'.group = pub.group /\ pub'.todo = pub.todo
      /\ pub'.digest = pub.digest /\ pub'.pending = pub.pending /\ pub'.sent = pub.sent
      /\ pub'.index = pub.index /\ pub'.touched = pub.touched /\ pub'.held = pub.held
  BY <1>1 DEF Process, Stages
<1>3. PublisherType' /\ NotAhead'
  BY <1>1, <1>2 DEF PublisherInv, PublisherType, NotAhead, Fresh
<1>4. OncePerPath'
  BY <1>1, <1>2 DEF PublisherInv, OncePerPath
<1>5. Kept' /\ Sent' /\ Window' /\ NothingRefusedLeaves'
  BY <1>1, <1>2 DEF PublisherInv, Kept, Sent, Window, NothingRefusedLeaves
<1>6. IndexNamesRemoteBytes'
  BY <1>1, <1>2 DEF PublisherInv, IndexNamesRemoteBytes, Truthful
<1> QED
  BY <1>3, <1>4, <1>5, <1>6 DEF PublisherInv

(* A producer at work: what a file holds now it never held before.         *)
LEMMA ProduceKeeps ==
  ASSUME PublisherAssumption, PublisherInv, NEW p \in Paths, Produce(p)
  PROVE  PublisherInv'
<1>1. /\ writes \in Nat /\ writes' = writes + 1 /\ content \in [Paths -> Bytes]
      /\ UNCHANGED <<remote, index, pub, runs>>
      /\ content' = [content EXCEPT ![p] = writes'] \/ content' = [content EXCEPT ![p] = None]
  BY DEF Produce, PublisherInv, PublisherType
<1>2. content' \in [Paths -> Bytes] /\ writes' \in Nat
  BY <1>1 DEF Bytes
<1>3. \A b \in Nat : b <= writes => content'[p] # b
  BY <1>1 DEF PublisherAssumption
<1>4. \A q \in Paths : q # p => content'[q] = content[q]
  BY <1>1
<1>5. \A b : Fresh(b) => Fresh(b)'
  BY <1>1 DEF Fresh
<1>6. PublisherType'
  BY <1>1, <1>2 DEF PublisherInv, PublisherType
<1>7. NotAhead'
  <2>1. \A q \in Paths : Fresh(content[q])'
    BY <1>1, <1>2 DEF PublisherInv, NotAhead, Fresh, PublisherAssumption
  <2> QED
    BY <1>1, <2>1 DEF PublisherInv, NotAhead, Fresh
<1>8. OncePerPath' /\ Kept' /\ NothingRefusedLeaves' /\ IndexNamesRemoteBytes'
  BY <1>1 DEF PublisherInv, OncePerPath, Scanning, Kept, NothingRefusedLeaves,
     IndexNamesRemoteBytes, Truthful
<1>9. Sent'
  <2> SUFFICES ASSUME pub # None, pub.stage = "recheck", NEW i \in DOMAIN pub.sent,
                      remote[Len(remote)][pub.sent[i].path] # pub.sent[i].sha
               PROVE  content'[pub.sent[i].path] # pub.sent[i].sha
    BY <1>1 DEF PublisherInv, Sent
  <2>1. pub.sent[i] \in Item
    BY ElementOfSeq DEF PublisherInv, PublisherType, Process
  <2>2. pub.sent[i].sha \in Nat /\ pub.sent[i].sha <= writes /\ pub.sent[i].path \in Paths
    BY <2>1 DEF Item, PublisherInv, NotAhead, Fresh
  <2>3. content[pub.sent[i].path] # pub.sent[i].sha
    BY DEF PublisherInv, Sent
  <2> QED
    BY <1>3, <1>4, <2>2, <2>3
<1>10. Window'
  <2> SUFFICES ASSUME pub # None, pub.stage \in {"reverify", "ended"}, NEW q \in pub.touched,
                      content'[q] # pub.held[q]
               PROVE  content'[q] # pub.index[q].sha
    BY <1>1 DEF PublisherInv, Window
  <2>1. q \in Paths /\ pub.index[q] \in Entry /\ Fresh(pub.index[q].sha)
    BY DEF PublisherInv, PublisherType, Process, Kept, NotAhead
  <2>2. pub.index[q].sha \in Nat /\ pub.index[q].sha <= writes
    BY <2>1 DEF Entry, Fresh
  <2>3. content[q] = pub.held[q] \/ content[q] # pub.index[q].sha
    BY DEF PublisherInv, Window
  <2> QED
    BY <1>3, <1>4, <2>1, <2>2, <2>3
<1> QED
  BY <1>6, <1>7, <1>8, <1>9, <1>10 DEF PublisherInv

-----------------------------------------------------------------------------
LEMMA StepKeeps ==
  ASSUME PublisherAssumption, PublisherInv, [PublisherNext]_publisherVars
  PROVE  PublisherInv'
<1>1. CASE UNCHANGED publisherVars
  BY <1>1 DEF publisherVars, PublisherInv, PublisherType, NotAhead, OncePerPath, Scanning,
     Kept, Sent, Window, NothingRefusedLeaves, IndexNamesRemoteBytes, Truthful, Fresh
<1>2. CASE PublisherNext
  BY <1>2, PublishKeeps, OpenGroupKeeps, FirstDigestKeeps, SecondDigestKeeps, ScannedKeeps,
     UploadKeeps, RecheckKeeps, FlushKeeps, SettleKeeps, ReverifyKeeps, EndRunKeeps,
     KillPublisherKeeps, ProduceKeeps DEF PublisherNext
<1> QED
  BY <1>1, <1>2

(* The invariant holds of every behaviour of the publisher.                *)
THEOREM PublisherInvariant == PublisherSpec => []PublisherInv
<1>1. PublisherInit => PublisherInv
  BY PublisherAssumption, Initially
<1>2. PublisherInv /\ [PublisherNext]_publisherVars => PublisherInv'
  BY PublisherAssumption, StepKeeps
<1> QED
  BY <1>1, <1>2, PTL DEF PublisherSpec

(* Whatever was written between the digests and whichever answer of the    *)
(* remote was lost, a record names the bytes its remote commit holds.      *)
THEOREM IndexIsTruthful == PublisherSpec => []IndexNamesRemoteBytes
<1>1. PublisherInv => IndexNamesRemoteBytes
  BY DEF PublisherInv
<1> QED
  BY <1>1, PublisherInvariant, PTL

(* When a run has ended, what it recorded of a file is what the file held  *)
(* when the observation window closed.                                     *)
THEOREM EndedRunIsQuiescent == PublisherSpec => []QuiescentWhenRecorded
<1>1. PublisherInv => QuiescentWhenRecorded
  <2> SUFFICES ASSUME PublisherInv, At("ended"), NEW p \in pub.touched
               PROVE  index[p].sha = pub.held[p]
    BY DEF QuiescentWhenRecorded
  <2>1. pub # None /\ pub.stage = "ended" /\ pub.todo = <<>> /\ index = pub.index
    BY DEF At, PublisherInv, Window
  <2>2. p \notin ToSet(pub.todo)
    BY <2>1 DEF ToSet
  <2> QED
    BY <2>1, <2>2 DEF PublisherInv, Window
<1> QED
  BY <1>1, PublisherInvariant, PTL

(* No file that may not leave the host is ever in a remote commit, whoever *)
(* listed it and whatever a run was interrupted at (refuse, run).          *)
THEOREM RefusedStays == PublisherSpec => []NothingRefusedLeaves
<1>1. PublisherInv => NothingRefusedLeaves
  BY DEF PublisherInv
<1> QED
  BY <1>1, PublisherInvariant, PTL
=============================================================================
