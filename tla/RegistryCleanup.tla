-------------------------- MODULE RegistryCleanup --------------------------
(***************************************************************************)
(* CleanupService.cleanBuildCache on the repository of one project, call   *)
(* by call, while Kaniko pods push to it and builds are adopted as the     *)
(* project's current image, and the garbage collection of the registry     *)
(* that it starts and does not wait for. A tag is the time its execution   *)
(* began: pushes end in any order, the registry lists them by number with  *)
(* 'latest' behind them. A manifest stands for its blobs too. The registry *)
(* (external) refuses a manifest whose blobs it has not got.               *)
(***************************************************************************)
EXTENDS Integers, FiniteSets, FiniteSetsExt

CONSTANTS
  MaxTags,   \* bound: images ever pushed
  KeepTags,  \* REGISTRY_KEEP_TAGS
  NoDigest

ASSUME CleanupAssumption ==
  MaxTags \in Nat /\ KeepTags \in Nat \ {0} /\ NoDigest \notin 1..MaxTags

Images == 1..MaxTags
Digests == 1..MaxTags
Latest == MaxTags + 1
Tags == Images \cup {Latest}

VARIABLES
  digest,   \* the manifest each tag names, if the tag is there
  made,     \* history: the manifest each image was pushed as
  sent,     \* the manifest of each image whose blobs a pod has uploaded
  blobs,    \* the manifests whose blobs are in the registry's storage
  current,  \* projects.current_image_tag, 0 if there is none
  sweep,    \* cleanBuildCache: tags still to delete, and the digest resolved
  gc,       \* the collection: whether it runs, the manifests it has marked, and
            \* (history) the images pushed by then
  late      \* history: images whose manifest came while a collection ran

NoSweep == [todo |-> {}, at |-> NoDigest]
NoGc == [on |-> FALSE, marked |-> {}, seen |-> {}]

RegistryTypeOK ==
  /\ digest \in [Tags -> Digests \cup {NoDigest}]
  /\ {made, sent} \subseteq [Images -> Digests \cup {NoDigest}]
  /\ blobs \subseteq Digests /\ late \subseteq Images
  /\ gc \in [on : BOOLEAN, marked : SUBSET Digests, seen : SUBSET Images]
  /\ current \in 0..MaxTags
  /\ sweep.todo \subseteq Tags /\ sweep.at \in Digests \cup {NoDigest}

RegistryInit ==
  /\ digest = [t \in Tags |-> NoDigest] /\ made = [t \in Images |-> NoDigest]
  /\ sent = made /\ blobs = {} /\ current = 0 /\ sweep = NoSweep /\ gc = NoGc /\ late = {}

Pushed == {t \in Images : made[t] # NoDigest}
Listed == {t \in Tags : digest[t] # NoDigest}
Newer(t, S) == {u \in S : u > t}

\* A Kaniko pod uploads the blobs of an image, which may be those of another one
\* that was pushed.
UploadBlobs(t) ==
  /\ made[t] = NoDigest /\ sent[t] = NoDigest
  /\ \E d \in {t} \cup {made[u] : u \in Pushed} :
       sent' = [sent EXCEPT ![t] = d] /\ blobs' = blobs \cup {d}
  /\ UNCHANGED <<digest, made, current, sweep, gc, late>>

\* And then the manifest, under its tag and as latest.
Push(t) ==
  /\ sent[t] \in blobs
  /\ made' = [made EXCEPT ![t] = sent[t]]
  /\ digest' = [digest EXCEPT ![t] = sent[t], ![Latest] = sent[t]]
  /\ sent' = [sent EXCEPT ![t] = NoDigest]
  /\ UNCHANGED <<blobs, current, sweep, gc, late>>

\* The pod dies, or the manifest is refused: the blobs stay.
PushFails(t) ==
  /\ sent[t] # NoDigest
  /\ sent' = [sent EXCEPT ![t] = NoDigest]
  /\ UNCHANGED <<digest, made, blobs, current, sweep, gc, late>>

\* executeKanikoJob saw the Job succeed. It may not: a pushed image whose build
\* is reported failed is never adopted.
Adopt(t) ==
  /\ t \in Pushed
  /\ current' = t
  /\ UNCHANGED <<digest, made, sent, blobs, sweep, gc, late>>

\* Mutant: the list is taken for the newest first.
BugToDelete == {t \in Listed : Cardinality({u \in Listed : u < t}) >= KeepTags}

\* tags.slice(0, tags.length - keepTags), none when there are not more.
ToDelete == {t \in Listed : Cardinality(Newer(t, Listed)) >= KeepTags}

ListTags ==
  /\ sweep = NoSweep
  /\ ToDelete # {}
  /\ sweep' = [NoSweep EXCEPT !.todo = ToDelete]
  /\ UNCHANGED <<digest, made, sent, blobs, current, gc, late>>

\* GET of the manifest; a tag that is gone, or a call that fails, is skipped.
ResolveDigest ==
  /\ sweep.todo # {} /\ sweep.at = NoDigest
  /\ LET t == Min(sweep.todo) IN
       sweep' = IF digest[t] = NoDigest THEN [sweep EXCEPT !.todo = @ \ {t}]
                ELSE [sweep EXCEPT !.at = digest[t]]
  /\ UNCHANGED <<digest, made, sent, blobs, current, gc, late>>

SkipTag ==
  /\ sweep.todo # {}
  /\ sweep' = [NoSweep EXCEPT !.todo = sweep.todo \ {Min(sweep.todo)}]
  /\ UNCHANGED <<digest, made, sent, blobs, current, gc, late>>

\* DELETE by digest takes every tag of the manifest away.
DeleteManifest ==
  /\ sweep.at # NoDigest
  /\ digest' = [t \in Tags |-> IF digest[t] = sweep.at THEN NoDigest ELSE digest[t]]
  /\ sweep' = [NoSweep EXCEPT !.todo = sweep.todo \ {Min(sweep.todo)}]
  /\ UNCHANGED <<made, sent, blobs, current, gc, late>>

\* kubectl exec of garbage-collect, once all repositories are done. deletedCount is
\* that of all of them. The manifests that have a tag are marked.
MarkManifests ==
  /\ sweep = NoSweep /\ gc = NoGc
  /\ gc' = [on |-> TRUE, marked |-> {digest[t] : t \in Listed}, seen |-> Pushed]
  /\ UNCHANGED <<digest, made, sent, blobs, current, sweep, late>>

\* What is not marked is deleted, or some of it if the command fails. The registry
\* has been taking pushes all the time.
SweepBlobs ==
  /\ gc.on
  /\ \E S \in SUBSET (blobs \ gc.marked) : blobs' = blobs \ S
  /\ late' = late \cup (Pushed \ gc.seen)
  /\ gc' = NoGc
  /\ UNCHANGED <<digest, made, sent, current, sweep>>

RegistryNext ==
  \/ \E t \in Images : UploadBlobs(t) \/ Push(t) \/ PushFails(t) \/ Adopt(t)
  \/ ListTags \/ ResolveDigest \/ SkipTag \/ DeleteManifest
  \/ MarkManifests \/ SweepBlobs

registryVars == <<digest, made, sent, blobs, current, sweep, gc, late>>

RegistrySpec == RegistryInit /\ [][RegistryNext]_registryVars

-----------------------------------------------------------------------------
(* Properties.                                                             *)

\* README: `Registry cleanup`. The image a project runs can no longer be pulled
\* only after KeepTags - 1 newer ones were pushed, since latest takes one of the
\* places, or because an older tag named the same manifest, or because its
\* manifest came after the collection had marked and before it swept.
CurrentImageKept ==
  current # 0 /\ digest[current] \notin blobs =>
    \/ Cardinality(Newer(current, Pushed)) >= KeepTags - 1
    \/ \E t \in Images : t < current /\ made[t] = made[current]
    \/ current \in late

=============================================================================
