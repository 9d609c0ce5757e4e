------------------------------ MODULE MCParser ------------------------------
(* Instances of Parser for TLC.  The first landed file opens a gap and two items; *)
(* the second revises one, withdraws the other and closes the gap; the third      *)
(* says nothing new.                                                              *)
EXTENDS Parser, TLC

CONSTANTS b1, b2, talk, candidate, call, first, revised, shortIdle, longIdle

Told(S) ==
    [items |-> talk :> (IF 2 \in S THEN revised ELSE IF 1 \in S THEN first ELSE Absent)
            @@ candidate :> (IF 1 \in S /\ 2 \notin S THEN first ELSE Absent),
     gaps |-> call :> (IF 1 \in S /\ 2 \notin S THEN first ELSE Absent)]

\* Bound: the index is deleted only in a behaviour in which nothing else goes wrong.
FewTroubles == drops > 0 => stops + faults = 0

Alike == Permutations({b1, b2}) \cup Permutations({shortIdle, longIdle})
=============================================================================
