---------------------------- MODULE MCArtifactStore ----------------------------
(***************************************************************************)
(* Instances of ArtifactStore for TLC: two clients, artifacts that share   *)
(* object directories.                                                     *)
(***************************************************************************)
EXTENDS ArtifactStore, TLC

CONSTANTS c1, c2, keys, weights, a1, a2, ab

\* Two payloads share the directory ab, so the rmdir that follows a removal
\* can meet the mkdir of another client's put.
TwoInOne == (a1 :> ab) @@ (a2 :> ab)
=============================================================================
