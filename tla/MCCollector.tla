----------------------------- MODULE MCCollector -----------------------------
(* Instances of Collector for TLC: one transcript and one sidecar with cursors *)
(* of their own, or append sources that all map to one cursor.                 *)
EXTENDS CollectorLands, Verifier, TLC, Functions

CONSTANTS p1, p2, transcript, meta, otherMeta, path1, path2

OnlyTranscript == transcript :> path1
OwnCursor == transcript :> path1 @@ meta :> path2
SharedCursor == [s \in Sources |-> path1]

Collectors == Permutations({p1, p2})

\* Bound: three contents in all, one of each of three sources or two of one of two.
FewContents == SumFunctionOnSet([s \in Sources |-> file[s].gen], Sources) <= 3

\* The sources of one cursor are interchangeable.
Sharers == Permutations({transcript, meta, otherMeta})
=============================================================================
