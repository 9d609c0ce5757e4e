------------------------------- MODULE Verifier -------------------------------
(***************************************************************************)
(* `asz verify` of one session: internal/verify (session.go, verify.go),   *)
(* which walks the landed files of a directory in sequence order and needs *)
(* no source.  A record has the ordinal of its source line and a byte      *)
(* offset; the lines of a content are all of one length, and two contents  *)
(* of a path differ in it.                                                 *)
(***************************************************************************)
EXTENDS Collector, FiniteSetsExt

LineBytes(f) == f.gen + 1
Off(f, ord)  == LineBytes(f) * (ord - 1)

\* What a walk carries: the watermark of ordinals and bytes, and what it has counted.
\* Mutant: every record has to continue the one before it.
CheckStrict(w, f, ord) ==
    [ord |-> ord, end |-> Off(f, ord) + LineBytes(f), relanded |-> w.relanded,
     problems |-> w.problems + (IF ord # w.ord + 1 THEN 1 ELSE 0)]

\* Going back is a repeat, and does not pull the watermark; going forward past an
\* ordinal or past bytes is a problem, and these are independent.
Check(w, f, ord) ==
    IF ord <= w.ord
    THEN [w EXCEPT !.relanded = @ + 1]
    ELSE [ord |-> ord, end |-> Off(f, ord) + LineBytes(f), relanded |-> w.relanded,
          problems |-> w.problems + (IF ord # w.ord + 1 THEN 1 ELSE 0)
                                  + (IF Off(f, ord) # w.end THEN 1 ELSE 0)]

\* The first record of the directory is taken for the beginning.
Opened(f) == [ord |-> f.first - 1, end |-> Off(f, f.first), relanded |-> 0, problems |-> 0]

\* Mutant: the first record of every file is.
WalkAfresh(w, f) ==
    LET to[n \in f.first - 1 .. f.last] ==
            IF n < f.first THEN [Opened(f) EXCEPT !.relanded = w.relanded, !.problems = w.problems]
            ELSE Check(to[n - 1], f, n)
    IN  to[f.last]

\* One file of the walk, record by record.
Walk(w, f) ==
    LET to[n \in f.first - 1 .. f.last] == IF n < f.first THEN w ELSE Check(to[n - 1], f, n)
    IN  to[f.last]

Numbered(S, n) == {f \in S : f.seq = n}
Beginning(S)   == CHOOSE f \in S : \A g \in S : f.seq <= g.seq

\* Stream: what the landed files of a set say, in the order of their sequences, of which
\* no two have the same.
Stream(S) ==
    LET upTo[n \in 0 .. Max({f.seq : f \in S})] ==
            IF n = 0 THEN Opened(Beginning(S))
            ELSE IF Numbered(S, n) = {} THEN upTo[n - 1]
            ELSE Walk(upTo[n - 1], CHOOSE f \in Numbered(S, n) : TRUE)
    IN  IF S = {} THEN [ord |-> 0, end |-> 0, relanded |-> 0, problems |-> 0]
        ELSE upTo[Max({f.seq : f \in S})]

LandedAt(c) == {f \in landed : CursorOf[f.src] = c}
-----------------------------------------------------------------------------
OneContent(S) == \A f, g \in S : f.src = g.src /\ f.gen = g.gen
Holes(S) ==
    {n \in 1 .. MaxLines :
        /\ \A f \in S : ~Holds(f, n)
        /\ \E f, g \in S : f.first < n /\ n < g.first}

\* What the landed files alone can prove: a stream of one content passes, whatever was
\* landed again on the way, and fails exactly when files missing from it leave a hole -
\* its first and last files excepted (verify.go, "the collector lands data before it
\* commits the cursor"; "only going FORWARDS past unaccounted bytes is data loss").
HolesFound ==
    \A c \in Paths : OneContent(LandedAt(c)) =>
        \A S \in SUBSET LandedAt(c) : Stream(S).problems > 0 <=> Holes(S) # {}
=============================================================================
