-------------------------- MODULE MCBuildPipeline --------------------------
(* Small instances of BuildPipeline for TLC.                               *)
EXTENDS BuildPipeline, TLC

CONSTANTS b1, b2

\* Distinct uuid prefixes, and two uuids that share theirs.
DistinctNames == [b \in Builds |-> b]
CollidingNames == [b \in Builds |-> b1]

\* Handlers, workers and projects are interchangeable in every instance;
\* builds are so only where their Job names are distinct.
ActorSymmetry ==
  Permutations(Requests) \cup Permutations(Workers) \cup Permutations(Projects)
FullSymmetry == ActorSymmetry \cup Permutations(Builds)
=============================================================================
