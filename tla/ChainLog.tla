------------------------------ MODULE ChainLog ------------------------------
(* What a round chain promises its readers: rounds are appended, one at a time, *)
(* each continuing the last, and never change or go away.                       *)
EXTENDS Naturals

CONSTANT NoRound
VARIABLE rounds

Newest(p) == \A q \in rounds : q.round <= p.round

Begins(r) == r.round = 1 /\ r.previous = NoRound /\ r.from = 1

Continues(r, p) ==
    r.round = p.round + 1 /\ r.previous = p /\ r.from = p.through + 1 /\ r.policy = p.policy

Append(r) ==
    /\ r \notin rounds /\ r.through + 1 >= r.from
    /\ IF rounds = {} THEN Begins(r) ELSE \E p \in rounds : Newest(p) /\ Continues(r, p)
    /\ rounds' = rounds \cup {r}

Init == rounds = {}
Next == \E r \in rounds' \ rounds : Append(r)
Spec == Init /\ [][Next]_rounds
=============================================================================
