--------------------------- MODULE EvidenceProofs ---------------------------
(***************************************************************************)
(* What the landed files of a session hold: proofs about Collector beyond  *)
(* the order they land in.                                                 *)
(***************************************************************************)
EXTENDS CollectorProofs, Verifier, WellFoundedInduction

(***************************************************************************)
(* At least once, and no more often than something went wrong, when every  *)
(* source has a cursor of its own.  A line that its cursor does not keep   *)
(* from being read again has so far landed once for each interruption and  *)
(* failure, and its next landing is the one the cursor then records.       *)
(***************************************************************************)
OwnCursors == \A s, t \in Sources : CursorOf[s] = CursorOf[t] => s = t

\* What has gone wrong so far.
Trouble == stops + faults

Copies(s, g, n) == {f \in landed : f.src = s /\ f.gen = g /\ Holds(f, n)}

\* The cursor keeps line n of content g of the source from being read again: it lies behind
\* the offset, or it is of a body that was replaced, or whose digest the cursor has.
Past(s, g, n) ==
    IF Appends(s) THEN n <= cursor[CursorOf[s]].off
    ELSE file[s].gen > g \/ cursor[CursorOf[s]].dig = <<s, g>>

InHand(p, s, g, n) ==
    chunk[p].part.src = s /\ chunk[p].part.gen = g /\ Holds(chunk[p].part, n)

\* No cursor has the digest of a body that is still to come.
DigestsTrail ==
    \A s \in Sources, g \in Gens :
        ~Appends(s) /\ cursor[CursorOf[s]].dig = <<s, g>> => g <= file[s].gen

\* The window in hand is of a content there has been, and of a newer body than the last.
Newer(p) ==
    /\ chunk[p].part.gen <= file[src[p]].gen
    /\ chunk[p].part.first <= chunk[p].part.last
    /\ ~Appends(src[p]) => \A g \in Gens : Cur(p).dig = <<src[p], g>> => g < chunk[p].part.gen

WindowNewer == \A p \in Procs : pc[p] \in {"land", "commit"} => Newer(p)

Counted ==
    \A s \in Sources, g \in Gens, n \in 1 .. MaxLines :
        /\ Cardinality(Copies(s, g, n)) <= Trouble + 1
        /\ \/ Past(s, g, n)
           \/ \E p \in Procs : pc[p] = "commit" /\ InHand(p, s, g, n)
           \/ Cardinality(Copies(s, g, n)) <= Trouble

\* The lines about to land have landed only as often as something went wrong.
Spared ==
    \A p \in Procs : pc[p] = "land" =>
        \A s \in Sources, g \in Gens, n \in 1 .. MaxLines :
            InHand(p, s, g, n) => Cardinality(Copies(s, g, n)) <= Trouble

RepeatInv == CursorInv /\ DigestsTrail /\ WindowNewer /\ Counted /\ Spared

\* What Commit leaves behind.
LEMMA CommitIs ==
    ASSUME CursorInv, NEW p \in Procs, Commit(p)
    PROVE  LET k == chunk[p].part IN
           /\ pc[p] = "commit" /\ src[p] \in Sources /\ chunk[p] \in [part: Parts, ino: Ids, more: BOOLEAN]
           /\ k \in landed /\ k.src = src[p] /\ (Appends(src[p]) => k.first = Cur(p).off + 1)
           /\ \A c \in Paths \ {CursorOf[src[p]]} : cursor'[c] = cursor[c]
           /\ Appends(src[p]) => /\ cursor'[CursorOf[src[p]]].off = k.last
                                 /\ cursor'[CursorOf[src[p]]].ino = chunk[p].ino
                                 /\ cursor'[CursorOf[src[p]]].dig = DigestNow(src[p], k.last)
           /\ ~Appends(src[p]) => /\ cursor'[CursorOf[src[p]]].off = Cur(p).off
                                  /\ cursor'[CursorOf[src[p]]].ino = Cur(p).ino
                                  /\ cursor'[CursorOf[src[p]]].dig = <<k.src, k.gen>>
           /\ UNCHANGED <<file, landed, stops, faults>>
           /\ \A q \in Procs : pc'[q] \notin {"land", "commit"}
           /\ \A q \in Procs \ {p} : pc[q] = "idle"
<1> DEFINE k == chunk[p].part
           c == CursorOf[src[p]]
<1>0. TypeInv /\ TypeOK /\ Alone /\ pc[p] = "commit" /\ src[p] \in Sources /\ c \in Paths
  BY CollectorAssumption DEF CursorInv, SeqInv, TypeInv, Phase, Commit
<1>1. cursor' = [cursor EXCEPT ![c] = Committed(p)]
  BY DEF Commit, SetCursor
<1>2. cursor'[c] = Committed(p) /\ \A d \in Paths \ {c} : cursor'[d] = cursor[d]
  BY <1>0, <1>1 DEF TypeOK
<1>3. ASSUME Appends(src[p])
      PROVE  /\ Committed(p).off = k.last
             /\ Committed(p).ino = chunk[p].ino
             /\ Committed(p).dig = DigestNow(src[p], k.last)
  BY <1>3 DEF Committed
<1>4. ASSUME ~Appends(src[p])
      PROVE  /\ Committed(p).off = Cur(p).off
             /\ Committed(p).ino = Cur(p).ino
             /\ Committed(p).dig = <<k.src, k.gen>>
  <2>1. Cur(p) \in Cursors
    BY <1>0 DEF TypeOK, Cur
  <2>2. Committed(p) = [Cur(p) EXCEPT !.dig = <<k.src, k.gen>>, !.state = "active"]
    BY <1>4 DEF Committed
  <2> HIDE DEF k
  <2> QED BY <2>1, <2>2 DEF Cursors
<1>5. /\ k \in landed /\ k.src = src[p] /\ (Appends(src[p]) => k.first = Cur(p).off + 1)
      /\ chunk[p] \in [part: Parts, ino: Ids, more: BOOLEAN]
  BY <1>0 DEF CursorInv, ChunkContinues, TypeInv, Phase
<1>6. UNCHANGED <<file, landed, stops, faults>>
  BY DEF Commit, env, budgets
<1>7. \A q \in Procs \ {p} : pc[q] = "idle"
  BY <1>0, CollectorAssumption DEF Alone
<1>8. \A q \in Procs : pc'[q] \notin {"land", "commit"}
  <2>1. pc' = [pc EXCEPT ![p] = "tail"] \/ pc' = [pc EXCEPT ![p] = "sources"]
    BY DEF Commit, SourceDone
  <2> QED BY <1>0, <1>7, <2>1 DEF TypeOK
<1> QED BY <1>0, <1>2, <1>3, <1>4, <1>5, <1>6, <1>7, <1>8

LEMMA DigestsStep ==
    ASSUME OwnCursors, RepeatInv, [Next]_vars
    PROVE  DigestsTrail'
<1>0. TypeInv /\ TypeOK
  BY DEF RepeatInv, CursorInv, SeqInv, TypeInv
<1> SUFFICES ASSUME NEW s \in Sources, NEW g \in Gens, ~Appends(s), cursor'[CursorOf[s]].dig = <<s, g>>
             PROVE  g <= file'[s].gen
  BY DEF DigestsTrail, Appends
<1>1. g \in Nat /\ file[s].gen \in Nat /\ file'[s].gen \in Nat /\ file[s].gen <= file'[s].gen
  BY <1>0, GensGrow, CollectorAssumption DEF Gens
<1>2. CASE cursor'[CursorOf[s]].dig = cursor[CursorOf[s]].dig
  BY <1>1, <1>2 DEF RepeatInv, DigestsTrail
<1>3. CASE cursor'[CursorOf[s]].dig # cursor[CursorOf[s]].dig
  <2>1. PICK p \in Procs : Commit(p)
    BY <1>0, <1>3, OnlyCommits, CollectorAssumption
  <2>2. src[p] = s
    BY <1>3, <2>1, CommitIs, CollectorAssumption DEF RepeatInv, OwnCursors
  <2>3. pc[p] = "commit" /\ <<chunk[p].part.src, chunk[p].part.gen>> = <<s, g>>
    BY <2>1, <2>2, CommitIs DEF RepeatInv
  <2>4. chunk[p].part.gen <= file[s].gen
    BY <2>2, <2>3 DEF RepeatInv, WindowNewer, Newer
  <2> QED BY <1>1, <2>3, <2>4
<1> QED BY <1>2, <1>3

LEMMA NewerStep ==
    ASSUME OwnCursors, RepeatInv, [Next]_vars
    PROVE  WindowNewer'
<1>0. TypeInv /\ TypeOK /\ TypeInv' /\ Alone
  BY StepType DEF RepeatInv, CursorInv, SeqInv, TypeInv
<1> SUFFICES ASSUME NEW p \in Procs, pc'[p] \in {"land", "commit"} PROVE Newer(p)'
  BY DEF WindowNewer, Newer, Cur, Appends
<1>1. CASE Read(p)
  <2> DEFINE s == src[p]
             k == chunk'[p].part
  <2>1. /\ s \in Sources /\ k.gen = file[s].gen /\ k.first <= k.last
        /\ UNCHANGED <<file, src, cursor>> /\ file[s].gen \in Nat
    BY <1>0, <1>1, ReadIs, GensGrow DEF Read, env, zone
  <2>2. ASSUME ~Appends(s), NEW g \in Gens, Cur(p).dig = <<s, g>> PROVE g < k.gen
    <3>1. g <= file[s].gen /\ g \in Nat
      BY <2>1, <2>2, CollectorAssumption DEF RepeatInv, DigestsTrail, Cur, Gens
    <3>2. g # file[s].gen
      BY <1>1, <2>2 DEF Read, Unread, Content
    <3> HIDE DEF k, s
    <3> QED BY <2>1, <3>1, <3>2
  <2> HIDE DEF k
  <2> QED BY <2>1, <2>2 DEF Newer, Cur, Appends, k
<1>2. CASE ~Read(p)
  <2>1. /\ pc[p] \in {"land", "commit"} /\ chunk'[p] = chunk[p] /\ src'[p] = src[p] /\ src[p] \in Sources
    BY <1>0, <1>2, WindowsStay DEF TypeInv, Phase
  <2>2. ASSUME NEW q \in Procs PROVE ~Commit(q)
    BY CommitIs DEF RepeatInv
  <2>3. cursor'[CursorOf[src[p]]].dig = Cur(p).dig
    BY <1>0, <2>1, <2>2, OnlyCommits, CollectorAssumption DEF Cur
  <2>4. file[src[p]].gen \in Nat /\ file'[src[p]].gen \in Nat /\ file[src[p]].gen <= file'[src[p]].gen
    BY <1>0, <2>1, GensGrow
  <2>5. chunk[p].part.gen \in Nat
    BY <1>0, <2>1, CollectorAssumption DEF TypeInv, Phase, Parts, Gens
  <2>6. Newer(p)
    BY <2>1 DEF RepeatInv, WindowNewer
  <2> QED BY <2>1, <2>3, <2>4, <2>5, <2>6 DEF Newer, Cur, Appends
<1> QED BY <1>1, <1>2

\* What has gone wrong stays counted.
LEMMA TroubleGrows ==
    ASSUME TypeInv, [Next]_vars
    PROVE  /\ Trouble \in Nat /\ Trouble' \in Nat /\ Trouble <= Trouble'
           /\ stops' + faults' >= stops + faults + 1 => Trouble' >= Trouble + 1
<1> USE DEF budgets
<1>0. stops \in Nat /\ faults \in Nat
  BY CollectorAssumption DEF TypeInv, TypeOK
<1>1. CASE UNCHANGED vars
  BY <1>0, <1>1 DEF vars, Trouble
<1>2. CASE Environment
  <2>1. UNCHANGED <<stops, faults>>
    BY <1>2 DEF Environment, Grow, Replace, Rewrite, Prune, DropIndex
  <2> QED BY <1>0, <2>1 DEF Trouble
<1>3. ASSUME NEW p \in Procs, Step(p) PROVE UNCHANGED <<stops, faults>>
  BY <1>3 DEF Step, Begin, LoadState, LoadIndex, Refuse, Claim, SkipConflicted, MarkGone, FlagConflict,
     ReadNothing, Read, Land, Commit, WriteIndex, SaveMark, Finish
<1>4. ASSUME NEW p \in Procs, Fault(p)
      PROVE  \/ UNCHANGED <<stops, faults>>
             \/ stops' = stops + 1 /\ faults' = faults
             \/ stops' = stops /\ faults' = faults + 1
  BY <1>4 DEF Fault, Busy, TailFails, LandFails, CommitFails, Stop
<1>5. QED
  BY <1>0, <1>1, <1>2, <1>3, <1>4 DEF Next, Trouble

\* A line behind its cursor, or about to be, is never read again.
LEMMA PastStays ==
    ASSUME OwnCursors, RepeatInv, [Next]_vars,
           NEW s \in Sources, NEW g \in Gens, NEW n \in 1 .. MaxLines,
           Past(s, g, n) \/ \E p \in Procs : Commit(p) /\ InHand(p, s, g, n)
    PROVE  Past(s, g, n)'
<1>0. TypeInv /\ TypeOK /\ CursorInv
  BY DEF RepeatInv, CursorInv, SeqInv, TypeInv
<1>1. file[s].gen \in Nat /\ file'[s].gen \in Nat /\ file[s].gen <= file'[s].gen /\ g \in Nat /\ n \in Nat
  BY <1>0, GensGrow, CollectorAssumption DEF Gens
<1>2. cursor[CursorOf[s]].off \in Nat
  BY <1>0, CollectorAssumption DEF TypeOK, Cursors
<1>3. CASE \A p \in Procs : ~Commit(p)
  <2>1. /\ cursor'[CursorOf[s]].off = cursor[CursorOf[s]].off
        /\ cursor'[CursorOf[s]].dig = cursor[CursorOf[s]].dig
    BY <1>0, <1>3, OnlyCommits, CollectorAssumption
  <2>2. Past(s, g, n)
    BY <1>3
  <2> QED BY <1>1, <2>1, <2>2 DEF Past, Appends
<1>4. ASSUME NEW p \in Procs, Commit(p) PROVE Past(s, g, n)'
  <2> DEFINE k == chunk[p].part
             c == CursorOf[src[p]]
  <2>1. /\ pc[p] = "commit" /\ k.src = src[p] /\ k \in Parts /\ UNCHANGED file
        /\ \A d \in Paths \ {c} : cursor'[d] = cursor[d]
        /\ \A q \in Procs \ {p} : pc[q] = "idle"
    BY <1>0, <1>4, CommitIs
  <2>2. ASSUME ~Past(s, g, n) PROVE InHand(p, s, g, n)
    <3>1. PICK q \in Procs : Commit(q) /\ InHand(q, s, g, n)
      BY <2>2
    <3>2. q = p
      BY <1>0, <2>1, <3>1, CommitIs
    <3> QED BY <3>1, <3>2
  <2>3. CASE s # src[p]
    <3>1. Past(s, g, n)
      BY <2>1, <2>2, <2>3 DEF InHand
    <3>2. cursor'[CursorOf[s]] = cursor[CursorOf[s]]
      <4>1. src[p] \in Sources
        BY <1>0, <1>4, CommitIs
      <4> QED BY <2>1, <2>3, <4>1, CollectorAssumption DEF OwnCursors
    <3> QED BY <2>1, <3>1, <3>2 DEF Past, Appends
  <2>4. CASE s = src[p] /\ Appends(s)
    <3>1. cursor'[c].off = k.last /\ k.first = cursor[c].off + 1 /\ k.first <= k.last
      BY <1>0, <1>4, <2>1, <2>4, CommitIs DEF Cur, RepeatInv, WindowNewer, Newer
    <3>2. k.first \in Nat /\ k.last \in Nat
      BY <2>1, CollectorAssumption DEF Parts
    <3>3. n <= cursor[c].off \/ n <= k.last
      <4>1. CASE Past(s, g, n)
        BY <2>4, <4>1 DEF Past
      <4>2. CASE InHand(p, s, g, n)
        BY <1>1, <3>2, <4>2 DEF InHand, Holds
      <4> QED BY <2>2, <4>1, <4>2
    <3>4. n <= k.last
      <4> HIDE DEF k, c
      <4> QED BY <1>1, <1>2, <2>4, <3>1, <3>2, <3>3 DEF c
    <3> QED BY <2>4, <3>1, <3>4 DEF Past, Appends
  <2>5. CASE s = src[p] /\ ~Appends(s)
    <3>1. cursor'[c].dig = <<k.src, k.gen>>
      BY <1>0, <1>4, <2>5, CommitIs
    <3>2. CASE file[s].gen > g
      BY <2>1, <2>5, <3>2 DEF Past, Appends
    <3>3. CASE cursor[c].dig = <<s, g>>
      <4>1. g < k.gen /\ k.gen <= file[s].gen /\ k.gen \in Nat
        BY <2>1, <2>5, <3>3, CollectorAssumption DEF RepeatInv, WindowNewer, Newer, Cur, Parts, Gens
      <4>2. file[s].gen > g
        BY <1>1, <4>1
      <4> QED BY <2>1, <2>5, <4>2 DEF Past, Appends
    <3>4. CASE InHand(p, s, g, n)
      BY <2>5, <3>1, <3>4 DEF InHand, Past, Appends
    <3> QED BY <2>2, <2>5, <3>2, <3>3, <3>4 DEF Past
  <2> QED BY <2>3, <2>4, <2>5
<1> QED BY <1>3, <1>4

\* A landing adds one copy of each of its lines, and nothing else adds any.
LEMMA CopiesStep ==
    ASSUME TypeInv, [Next]_vars, NEW s \in Sources, NEW g \in Gens, NEW n \in 1 .. MaxLines
    PROVE  /\ Cardinality(Copies(s, g, n)) \in Nat
           /\ \/ Copies(s, g, n)' = Copies(s, g, n)
              \/ \E p \in Procs :
                    /\ Land(p) /\ InHand(p, s, g, n)
                    /\ Cardinality(Copies(s, g, n)') \in Nat
                    /\ Cardinality(Copies(s, g, n)') <= Cardinality(Copies(s, g, n)) + 1
<1>1. IsFiniteSet(Copies(s, g, n)) /\ Cardinality(Copies(s, g, n)) \in Nat
  BY FS_Subset, FS_CardinalityType DEF Copies, TypeInv
<1>2. CASE \A p \in Procs : ~Land(p)
  <2>1. landed' = landed
    BY <1>2, OnlyLands, LandedGrows
  <2> QED BY <1>1, <2>1 DEF Copies, Holds
<1>3. ASSUME NEW p \in Procs, Land(p)
      PROVE  \/ Copies(s, g, n)' = Copies(s, g, n)
             \/ /\ InHand(p, s, g, n)
                /\ Cardinality(Copies(s, g, n)') \in Nat
                /\ Cardinality(Copies(s, g, n)') <= Cardinality(Copies(s, g, n)) + 1
  <2> DEFINE k == chunk[p].part
  <2>1. landed' = landed \cup {k}
    BY <1>3 DEF Land
  <2>2. CASE ~InHand(p, s, g, n)
    BY <2>1, <2>2 DEF Copies, InHand, Holds
  <2>3. CASE InHand(p, s, g, n)
    <3>1. Copies(s, g, n)' = Copies(s, g, n) \cup {k}
      BY <2>1, <2>3 DEF Copies, InHand, Holds
    <3>2. \/ Cardinality(Copies(s, g, n) \cup {k}) = Cardinality(Copies(s, g, n))
          \/ Cardinality(Copies(s, g, n) \cup {k}) = Cardinality(Copies(s, g, n)) + 1
      BY <1>1, FS_AddElement
    <3> HIDE DEF k
    <3> QED BY <1>1, <2>3, <3>1, <3>2
  <2> QED BY <2>2, <2>3
<1> QED BY <1>1, <1>2, <1>3

LEMMA CountedStep ==
    ASSUME OwnCursors, RepeatInv, [Next]_vars
    PROVE  Counted'
<1>0. TypeInv /\ TypeOK /\ TypeInv' /\ Alone
  BY StepType DEF RepeatInv, CursorInv, SeqInv, TypeInv
<1> SUFFICES ASSUME NEW s \in Sources, NEW g \in Gens, NEW n \in 1 .. MaxLines,
                    NEW N, N = Cardinality(Copies(s, g, n)),
                    NEW M, M = Cardinality(Copies(s, g, n)'),
                    NEW t, t = Trouble, NEW u, u = Trouble'
             PROVE  /\ M <= u + 1
                    /\ \/ Past(s, g, n)'
                       \/ \E p \in Procs : pc'[p] = "commit" /\ InHand(p, s, g, n)'
                       \/ M <= u
  BY DEF Counted
<1>1. t \in Nat /\ u \in Nat /\ t <= u /\ N \in Nat
  BY <1>0, TroubleGrows, CopiesStep
<1>2. /\ N <= t + 1
      /\ Past(s, g, n) \/ (\E p \in Procs : pc[p] = "commit" /\ InHand(p, s, g, n)) \/ N <= t
  BY DEF RepeatInv, Counted
<1>3. ASSUME NEW p \in Procs, Land(p), InHand(p, s, g, n), M \in Nat, M <= N + 1
      PROVE  M <= u + 1 /\ \E q \in Procs : pc'[q] = "commit" /\ InHand(q, s, g, n)'
  <2>1. pc[p] = "land" /\ pc'[p] = "commit" /\ chunk' = chunk
    BY <1>0, <1>3 DEF Land, TypeOK
  <2>2. N <= t
    BY <1>3, <2>1 DEF RepeatInv, Spared
  <2>3. InHand(p, s, g, n)'
    BY <1>3, <2>1 DEF InHand, Holds
  <2> QED BY <1>1, <1>3, <2>1, <2>2, <2>3
<1>4. CASE M = N
  <2>1. M <= u + 1
    BY <1>1, <1>2, <1>4
  <2>2. CASE Past(s, g, n)
    BY <2>1, <2>2, PastStays
  <2>3. ASSUME NEW p \in Procs, pc[p] = "commit", InHand(p, s, g, n)
        PROVE  \/ Past(s, g, n)'
               \/ pc'[p] = "commit" /\ InHand(p, s, g, n)'
               \/ M <= u
    <3>1. CASE Commit(p)
      BY <2>3, <3>1, PastStays
    <3>2. CASE ~Commit(p)
      <4>1. ~Read(p)
        BY <2>3 DEF Read, Readable
      <4>2. \/ pc'[p] = "commit" /\ chunk'[p] = chunk[p]
            \/ u >= t + 1
        BY <1>0, <2>3, <3>2, <4>1, WindowsStay, TroubleGrows
      <4>3. CASE pc'[p] = "commit" /\ chunk'[p] = chunk[p]
        BY <2>3, <4>3 DEF InHand, Holds
      <4>4. CASE u >= t + 1
        BY <1>1, <1>2, <1>4, <4>4
      <4> QED BY <4>2, <4>3, <4>4
    <3> QED BY <3>1, <3>2
  <2>4. CASE N <= t
    <3>1. M <= u
      BY <1>1, <1>4, <2>4
    <3> QED BY <2>1, <3>1
  <2> QED BY <1>2, <2>1, <2>2, <2>3, <2>4
<1> QED BY <1>0, <1>3, <1>4, CopiesStep

LEMMA SparedStep ==
    ASSUME OwnCursors, RepeatInv, [Next]_vars
    PROVE  Spared'
<1>0. TypeInv /\ TypeOK /\ TypeInv' /\ Alone
  BY StepType DEF RepeatInv, CursorInv, SeqInv, TypeInv
<1> SUFFICES ASSUME NEW p \in Procs, pc'[p] = "land",
                    NEW s \in Sources, NEW g \in Gens, NEW n \in 1 .. MaxLines, InHand(p, s, g, n)'
             PROVE  Cardinality(Copies(s, g, n)') <= Trouble'
  BY DEF Spared
<1> DEFINE N == Cardinality(Copies(s, g, n))
<1>1. Trouble \in Nat /\ Trouble' \in Nat /\ Trouble <= Trouble' /\ N \in Nat /\ n \in Nat
  BY <1>0, TroubleGrows, CopiesStep
<1>2. ASSUME NEW q \in Procs PROVE ~Land(q)
  <2> SUFFICES ASSUME Land(q) PROVE FALSE
    OBVIOUS
  <2>1. pc[q] = "land" /\ pc' = [pc EXCEPT ![q] = "commit"]
    BY DEF Land
  <2>2. p # q /\ pc[p] = "land"
    BY <1>0, <2>1 DEF TypeOK
  <2> QED BY <1>0, <2>1, <2>2, CollectorAssumption DEF Alone
<1>3. Copies(s, g, n)' = Copies(s, g, n)
  BY <1>0, <1>2, CopiesStep
<1>4. N <= Trouble
  <2>1. CASE Read(p)
    <3>1. /\ pc[p] = "tail" /\ src[p] \in Sources /\ chunk'[p].part.src = src[p]
          /\ chunk'[p].part.gen = file[src[p]].gen
          /\ chunk'[p].part.first = IF Appends(src[p]) THEN Cur(p).off + 1 ELSE 1
      BY <1>0, <2>1, ReadIs
    <3>2. s = src[p] /\ g = file[s].gen /\ n >= chunk'[p].part.first
      BY <1>0, <3>1, CollectorAssumption DEF InHand, Holds, TypeInv, Phase, Parts
    <3>3. \A q \in Procs : pc[q] # "commit"
      BY <1>0, <3>1, CollectorAssumption DEF Alone
    <3>4. ~Past(s, g, n)
      <4>1. CASE Appends(s)
        <5>1. cursor[CursorOf[s]].off \in Nat
          BY <1>0, CollectorAssumption DEF TypeOK, Cursors
        <5>2. n >= cursor[CursorOf[s]].off + 1
          BY <3>1, <3>2, <4>1 DEF Cur
        <5> QED BY <1>1, <4>1, <5>1, <5>2 DEF Past
      <4>2. CASE ~Appends(s)
        <5>1. file[s].gen \in Nat
          BY <1>0, GensGrow
        <5>2. cursor[CursorOf[s]].dig # <<s, g>>
          BY <2>1, <3>2, <4>2 DEF Read, Unread, Content, Cur
        <5> QED BY <3>2, <4>2, <5>1, <5>2 DEF Past
      <4> QED BY <4>1, <4>2
    <3> QED BY <3>3, <3>4 DEF RepeatInv, Counted
  <2>2. CASE ~Read(p)
    <3>1. pc[p] = "land" /\ chunk'[p] = chunk[p]
      BY <1>0, <2>2, WindowsStay
    <3>2. InHand(p, s, g, n)
      BY <3>1 DEF InHand, Holds
    <3> QED BY <3>1, <3>2 DEF RepeatInv, Spared
  <2> QED BY <2>1, <2>2
<1> HIDE DEF N
<1> QED BY <1>1, <1>3, <1>4 DEF N

\* A line lands at most once more than something went wrong, whatever crashes, failures and
\* rewrites there were and however the passes took turns, while no two sources share a cursor
\* (collect.go, landAppend and landSnapshot: land, then commit).
THEOREM RepeatsCounted ==
    ASSUME OwnCursors, None \notin Ids
    PROVE  Spec => []RepeatsBounded
<1>1. Init => RepeatInv
  <2> SUFFICES ASSUME Init PROVE RepeatInv
    OBVIOUS
  <2>1. landed = {} /\ stops = 0 /\ faults = 0 /\ \A p \in Procs : pc[p] = "idle"
    BY DEF Init
  <2>2. \A s \in Sources : cursor[CursorOf[s]].dig = None
    BY CollectorAssumption DEF Init, FreshCursor
  <2>3. ASSUME NEW s \in Sources, NEW g \in Gens PROVE <<s, g>> # None
    BY <2>3, CollectorAssumption DEF Ids, Gens
  <2>4. CursorInv /\ WindowNewer /\ Spared
    BY <2>1, SeqInit, CollectorAssumption
    DEF Init, CursorInv, ChunkContinues, CursorBacked, FreshCursor, WindowNewer, Spared
  <2>5. DigestsTrail
    BY <2>2, <2>3 DEF DigestsTrail
  <2>6. Counted
    <3>1. ASSUME NEW s, NEW g, NEW n PROVE Cardinality(Copies(s, g, n)) = 0
      BY <2>1, FS_EmptySet DEF Copies
    <3> QED BY <2>1, <3>1 DEF Counted, Trouble
  <2> QED BY <2>4, <2>5, <2>6 DEF RepeatInv
<1>2. RepeatInv /\ [Next]_vars => RepeatInv'
  <2> SUFFICES ASSUME RepeatInv, [Next]_vars PROVE RepeatInv'
    OBVIOUS
  <2>1. CursorInv'
    BY SeqStep, StepType, ContinuesStep, BackedStep DEF RepeatInv, CursorInv, SeqInv
  <2> QED BY <2>1, DigestsStep, NewerStep, CountedStep, SparedStep DEF RepeatInv
<1>3. RepeatInv => RepeatsBounded
  <2> SUFFICES ASSUME RepeatInv, NEW f \in landed, NEW n \in f.first .. f.last
               PROVE  Cardinality(Copies(f.src, f.gen, n)) <= 1 + stops + faults
    BY DEF RepeatsBounded, Copies
  <2>1. f \in Parts
    BY DEF RepeatInv, CursorInv, SeqInv, TypeInv, TypeOK
  <2>2. f.src \in Sources /\ f.gen \in Gens /\ n \in 1 .. MaxLines
    BY <2>1, CollectorAssumption DEF Parts
  <2>3. Cardinality(Copies(f.src, f.gen, n)) <= Trouble + 1
    BY <2>2 DEF RepeatInv, Counted
  <2>4. stops \in Nat /\ faults \in Nat
    BY CollectorAssumption DEF RepeatInv, CursorInv, SeqInv, TypeInv, TypeOK
  <2>5. Trouble + 1 = 1 + stops + faults
    BY <2>4 DEF Trouble
  <2> QED BY <2>3, <2>5
<1> QED BY <1>1, <1>2, <1>3, PTL DEF Spec
-----------------------------------------------------------------------------
(***************************************************************************)
(* What a pass that reports itself complete collected, while no file is    *)
(* rewritten in place: a source it is done with held nothing when the pass *)
(* began that has not landed, or has changed or gone since.                *)
(***************************************************************************)

\* The lines before a cursor's offset have landed, of the content its inode names.
Consumed ==
    \A c \in Paths : cursor[c].off > 0 =>
        \E s \in Sources, g \in Gens :
            cursor[c].ino = <<s, g>> /\ \A n \in 1 .. cursor[c].off : HasLanded(s, g, n)

\* The body whose digest a cursor has, has landed.
BodiesLanded ==
    \A s \in Sources, g \in Gens :
        ~Appends(s) /\ cursor[CursorOf[s]].dig = <<s, g>> => HasLanded(s, g, 1)

Shapes ==
    \A s \in Sources :
        /\ ~Present(s) => file[s].len = 0
        /\ ~Appends(s) => file[s].len <= 1

\* A source that is what it was when the pass began holds at least what it held.
Promised(p) ==
    \A s \in Sources :
        /\ goal[p][s].gen <= file[s].gen
        /\ goal[p][s].gen = file[s].gen /\ Present(s) => goal[p][s].len <= file[s].len

\* The window in hand follows lines that have landed, and the last one reaches the end of
\* what the pass set out to collect.
Reaches(p) ==
    LET k == chunk[p].part
        s == src[p]
    IN  /\ goal[p][s].gen <= k.gen /\ k.gen <= file[s].gen
        /\ ~chunk[p].more /\ k.gen = goal[p][s].gen => goal[p][s].len <= k.last
        /\ \A n \in 1 .. k.first - 1 : HasLanded(s, k.gen, n)
        /\ k.src = s /\ k.first <= k.last
        /\ IF Appends(s) THEN chunk[p].ino = <<s, k.gen>> ELSE k.first = 1

Settled(p, s) ==
    file[s].gen = goal[p][s].gen /\ Present(s) =>
        \A n \in 1 .. goal[p][s].len : HasLanded(s, goal[p][s].gen, n)

Visited(p) ==
    /\ report[p] \in {"none", "incomplete"}
    /\ pc[p] \in {"mark", "finish"} => todo[p] = {}
    /\ report[p] = "none" => \A s \in Sources \ todo[p] : Settled(p, s)

Pursued ==
    \A p \in Procs :
        /\ pc[p] # "idle" => Promised(p) /\ Visited(p)
        /\ pc[p] \in {"land", "commit"} => Reaches(p)

GoalInv == CursorInv /\ Inodes /\ Shapes /\ Consumed /\ BodiesLanded /\ Pursued

\* What a step may do to a pass that is under way after it.
LEMMA PassSteps ==
    ASSUME TypeInv, [Next]_vars, NEW p \in Procs, pc'[p] # "idle"
    PROVE  \/ Begin(p)
           \/ /\ pc[p] # "idle" /\ goal'[p] = goal[p]
              /\ \/ /\ todo'[p] = todo[p] /\ report'[p] = report[p]
                    /\ pc'[p] \in {"mark", "finish"} => pc[p] = "mark" \/ pc'[p] = pc[p] \/ todo[p] = {}
                 \/ report'[p] = "incomplete" /\ pc'[p] \notin {"mark", "finish"}
                 \/ /\ ReadNothing(p) \/ MarkGone(p) \/ (Commit(p) /\ ~chunk[p].more)
                    /\ todo'[p] = todo[p] \ {src[p]} /\ report'[p] = report[p] /\ pc'[p] = "sources"
<1> USE DEF env, zone, mem, passes, budgets
<1>0. TypeOK
  BY DEF TypeInv
<1> DEFINE Same == pc'[p] = pc[p] /\ goal'[p] = goal[p] /\ todo'[p] = todo[p] /\ report'[p] = report[p]
           On == /\ pc[p] # "idle" /\ goal'[p] = goal[p]
                 /\ \/ /\ todo'[p] = todo[p] /\ report'[p] = report[p]
                       /\ pc'[p] \in {"mark", "finish"} => pc[p] = "mark" \/ pc'[p] = pc[p] \/ todo[p] = {}
                    \/ report'[p] = "incomplete" /\ pc'[p] \notin {"mark", "finish"}
                    \/ /\ ReadNothing(p) \/ MarkGone(p) \/ (Commit(p) /\ ~chunk[p].more)
                       /\ todo'[p] = todo[p] \ {src[p]} /\ report'[p] = report[p] /\ pc'[p] = "sources"
<1>1. ASSUME UNCHANGED vars PROVE Same
  BY <1>1 DEF vars
<1>2. ASSUME Environment PROVE Same
  <2>1. UNCHANGED <<pc, goal, todo, report>>
    BY <1>2 DEF Environment, Grow, Replace, Rewrite, Prune, DropIndex
  <2> QED BY <2>1
<1>3. ASSUME NEW q \in Procs, q # p, Step(q) \/ Fault(q) PROVE Same
  <2>1. CASE Begin(q) \/ LoadState(q) \/ LoadIndex(q) \/ (\E s \in Sources : Refuse(q, s) \/ Claim(q, s))
             \/ Read(q) \/ Land(q) \/ WriteIndex(q) \/ SaveMark(q) \/ Busy(q)
    BY <1>0, <1>3, <2>1 DEF Begin, LoadState, LoadIndex, Refuse, Claim, Read, Land, WriteIndex, SaveMark,
       Busy, TypeOK
  <2>2. CASE SkipConflicted(q) \/ MarkGone(q) \/ FlagConflict(q) \/ ReadNothing(q) \/ Commit(q)
             \/ TailFails(q) \/ LandFails(q) \/ CommitFails(q)
    <3>1. UNCHANGED goal
      BY <2>2 DEF SkipConflicted, MarkGone, FlagConflict, ReadNothing, Commit, TailFails, LandFails, CommitFails
    <3>2. \/ \E ok : SourceDone(q, ok)
          \/ pc' = [pc EXCEPT ![q] = "tail"] /\ UNCHANGED <<todo, report>>
      BY <2>2, Zenon DEF SkipConflicted, MarkGone, FlagConflict, ReadNothing, Commit, TailFails, LandFails, CommitFails
    <3> QED BY <1>0, <1>3, <3>1, <3>2 DEF SourceDone, TypeOK
  <2>3. CASE Finish(q) \/ Stop(q)
    BY <1>0, <1>3, <2>3 DEF Finish, Stop, Forget, TypeOK
  <2> QED BY <1>3, <2>1, <2>2, <2>3 DEF Step, Fault
<1>4. ASSUME LoadState(p) \/ LoadIndex(p) \/ (\E s \in Sources : Claim(p, s)) \/ Read(p) \/ Land(p)
             \/ WriteIndex(p) \/ SaveMark(p)
      PROVE  On
  BY <1>0, <1>4 DEF LoadState, LoadIndex, Claim, Read, Readable, Land, WriteIndex, SaveMark, TypeOK
<1>5. ASSUME \E s \in Sources : Refuse(p, s) PROVE On
  BY <1>0, <1>5 DEF Refuse, TypeOK
<1>6. ASSUME NEW ok \in BOOLEAN, SourceDone(p, ok)
      PROVE  /\ pc'[p] = "sources" /\ todo'[p] = todo[p] \ {src[p]}
             /\ report'[p] = IF ok THEN report[p] ELSE "incomplete"
  BY <1>0, <1>6 DEF SourceDone, Verdict, TypeOK
<1>7. ASSUME SkipConflicted(p) \/ FlagConflict(p) \/ TailFails(p) \/ LandFails(p) \/ CommitFails(p) PROVE On
  <2>1. SourceDone(p, FALSE) /\ pc[p] # "idle" /\ UNCHANGED goal
    BY <1>7 DEF SkipConflicted, FlagConflict, TailFails, LandFails, CommitFails
  <2> QED BY <1>6, <2>1
<1>8. ASSUME MarkGone(p) \/ ReadNothing(p) PROVE On
  <2>1. SourceDone(p, TRUE) /\ pc[p] # "idle" /\ UNCHANGED goal
    BY <1>8 DEF MarkGone, ReadNothing, Readable
  <2> QED BY <1>6, <1>8, <2>1
<1>9. ASSUME Commit(p) PROVE On
  <2>1. pc[p] # "idle" /\ UNCHANGED goal
    BY <1>9 DEF Commit
  <2>2. CASE pc' = [pc EXCEPT ![p] = "tail"] /\ UNCHANGED <<todo, report>>
    BY <1>0, <2>1, <2>2 DEF TypeOK
  <2>3. CASE SourceDone(p, ~chunk[p].more)
    <3>1. chunk[p].more \in BOOLEAN
      BY <1>9 DEF Commit, TypeInv, Phase
    <3> QED BY <1>6, <1>9, <2>1, <2>3, <3>1
  <2> QED BY <1>9, <2>2, <2>3 DEF Commit
<1>10. ~Finish(p) /\ ~Stop(p) /\ ~Busy(p)
  <2>1. Finish(p) \/ Stop(p) => pc'[p] = "idle"
    BY <1>0 DEF Finish, Stop, Forget, TypeOK
  <2>2. Busy(p) => pc'[p] = "idle"
    BY DEF Busy
  <2> QED BY <2>1, <2>2
<1> HIDE DEF On
<1>11. ASSUME Step(p) \/ Fault(p) PROVE Begin(p) \/ On
  <2>1. CASE Step(p)
    BY <1>4, <1>5, <1>7, <1>8, <1>9, <1>10, <2>1 DEF Step
  <2>2. CASE Fault(p)
    BY <1>7, <1>10, <2>2 DEF Fault
  <2> QED BY <1>11, <2>1, <2>2
<1>12. Same => On
  BY DEF On
<1> HIDE DEF Same
<1>13. Begin(p) \/ On
  <2>1. CASE UNCHANGED vars \/ Environment
    BY <1>1, <1>2, <1>12, <2>1
  <2>2. ASSUME NEW q \in Procs, Step(q) \/ Fault(q) PROVE Begin(p) \/ On
    BY <1>3, <1>11, <1>12, <2>2
  <2> QED BY <2>1, <2>2 DEF Next
<1> QED BY <1>13 DEF On

LEMMA FileIs ==
    ASSUME TypeOK, NEW s \in Sources
    PROVE  /\ file[s] \in [ino: Ids \cup {None}, gen: Gens, len: 0 .. MaxLines]
           /\ file[s].gen \in Nat /\ file[s].len \in Nat /\ s \in DOMAIN file
<1>1. file[s] \in [ino: Ids \cup {None}, gen: Gens, len: 0 .. MaxLines] /\ s \in DOMAIN file
  BY DEF TypeOK, Files
<1> QED BY <1>1, CollectorAssumption DEF Gens

LEMMA GoalIs ==
    ASSUME TypeOK, NEW p \in Procs, NEW s \in Sources
    PROVE  goal[p][s].gen \in Nat /\ goal[p][s].len \in Nat
<1>1. goal[p][s] \in [ino: Ids \cup {None}, gen: Gens, len: 0 .. MaxLines]
  BY DEF TypeOK, Files
<1> QED BY <1>1, CollectorAssumption DEF Gens

LEMMA ShapesStep ==
    ASSUME None \notin Ids, InPlace = FALSE, TypeOK, Shapes, [Next]_vars
    PROVE  Shapes'
<1> SUFFICES ASSUME NEW s \in Sources
             PROVE  (file'[s].ino = None => file'[s].len = 0) /\ (~Appends(s) => file'[s].len <= 1)
  BY DEF Shapes, Present, Appends
<1> USE DEF env, zone, mem, passes, budgets
<1>0. (file[s].ino = None => file[s].len = 0) /\ (~Appends(s) => file[s].len <= 1)
  BY DEF Shapes, Present
<1>f. s \in DOMAIN file /\ file[s].len \in Nat /\ file[s].gen \in Gens /\ file \in Files
  BY FileIs DEF TypeOK
<1>1. CASE UNCHANGED file
  BY <1>0, <1>1
<1>2. ASSUME NEW t \in Sources, Grow(t) \/ Prune(t)
      PROVE  (file'[s].ino = None => file'[s].len = 0) /\ (~Appends(s) => file'[s].len <= 1)
  <2>1. CASE t # s
    BY <1>0, <1>f, <1>2, <2>1 DEF Grow, Prune, Files
  <2>2. CASE t = s /\ Grow(s)
    BY <1>f, <2>2 DEF Grow, Present, Files
  <2>3. CASE t = s /\ Prune(s)
    <3>1. file'[s].ino = None /\ file'[s].len = 0
      BY FileIs, <2>3 DEF Prune
    <3> QED BY <3>1
  <2> QED BY <1>2, <2>1, <2>2, <2>3
<1>3. ASSUME NEW t \in Sources, Replace(t)
      PROVE  (file'[s].ino = None => file'[s].len = 0) /\ (~Appends(s) => file'[s].len <= 1)
  <2>1. PICK n \in 0 .. (IF Appends(t) THEN MaxLines ELSE 1) :
            file' = [file EXCEPT ![t] = [ino |-> <<t, file[t].gen + 1>>, gen |-> file[t].gen + 1, len |-> n]]
    BY <1>3, Zenon DEF Replace
  <2>2. CASE t # s
    BY <1>0, <1>f, <2>1, <2>2
  <2>3. CASE t = s
    <3>1. file'[s] = [ino |-> <<s, file[s].gen + 1>>, gen |-> file[s].gen + 1, len |-> n]
      BY <1>f, <2>1, <2>3
    <3>2. <<s, file[s].gen + 1>> \in Ids
      BY <1>f, CollectorAssumption DEF Ids, Gens
    <3>3. ~Appends(s) => n <= 1
      BY <2>3
    <3> QED BY <3>1, <3>2, <3>3
  <2> QED BY <2>2, <2>3
<1>4. ASSUME NEW p \in Procs, Step(p) PROVE UNCHANGED file
  BY <1>4 DEF Step, Begin, LoadState, LoadIndex, Refuse, Claim, SkipConflicted, MarkGone, FlagConflict,
     ReadNothing, Read, Land, Commit, WriteIndex, SaveMark, Finish
<1>5. ASSUME NEW p \in Procs, Fault(p) PROVE UNCHANGED file
  BY <1>5 DEF Fault, Busy, TailFails, LandFails, CommitFails, Stop
<1>6. [Next]_vars => UNCHANGED file \/ \E t \in Sources : Grow(t) \/ Prune(t) \/ Replace(t)
  BY <1>4, <1>5 DEF Next, Environment, DropIndex, Rewrite, vars
<1> QED BY <1>1, <1>2, <1>3, <1>6

\* A source that has not changed since the pass began has not shrunk.
LEMMA PromisedStep ==
    ASSUME TypeInv, [Next]_vars, NEW p \in Procs, pc'[p] # "idle", pc[p] # "idle" => Promised(p)
    PROVE  Promised(p)'
<1>0. TypeOK
  BY DEF TypeInv
<1> SUFFICES ASSUME NEW s \in Sources
             PROVE  /\ goal'[p][s].gen <= file'[s].gen
                    /\ goal'[p][s].gen = file'[s].gen /\ file'[s].ino # None => goal'[p][s].len <= file'[s].len
  BY DEF Promised, Present
<1>1. CASE Begin(p)
  <2>1. goal'[p] = file /\ file' = file
    BY <1>0, <1>1 DEF Begin, env, TypeOK
  <2> QED BY <1>0, <2>1, FileIs
<1>2. CASE ~Begin(p)
  <2>1. pc[p] # "idle" /\ goal'[p] = goal[p]
    BY <1>2, PassSteps
  <2>2. /\ goal[p][s].gen <= file[s].gen
        /\ goal[p][s].gen = file[s].gen /\ Present(s) => goal[p][s].len <= file[s].len
    BY <2>1 DEF Promised
  <2>3. /\ file[s].gen \in Nat /\ file'[s].gen \in Nat /\ file[s].gen <= file'[s].gen
        /\ file'[s].gen = file[s].gen => file'[s] = file[s] \/ Grow(s) \/ Prune(s)
    BY <1>0, GensGrow
  <2>4. goal[p][s].gen \in Nat /\ goal[p][s].len \in Nat /\ file[s].len \in Nat
    BY <1>0, FileIs, GoalIs
  <2>5. Grow(s) => file[s].ino # None /\ file'[s].len = file[s].len + 1
    BY <1>0, FileIs DEF Grow, Present
  <2>6. Prune(s) => file'[s].ino = None
    BY <1>0, FileIs DEF Prune
  <2> QED BY <2>1, <2>2, <2>3, <2>4, <2>5, <2>6 DEF Present
<1> QED BY <1>1, <1>2

\* Behind a cursor that is not in conflict the lines it consumed are those of the file.
LEMMA ConsumedHere ==
    ASSUME None \notin Ids, GoalInv, NEW p \in Procs, Readable(p), Appends(src[p])
    PROVE  /\ src[p] \in Sources /\ Cur(p).off \in Nat
           /\ file[src[p]].ino = <<src[p], file[src[p]].gen>>
           /\ \A n \in 1 .. Cur(p).off : HasLanded(src[p], file[src[p]].gen, n)
<1> DEFINE s == src[p]
<1>0. TypeOK /\ s \in Sources
  BY DEF GoalInv, CursorInv, SeqInv, TypeInv, Phase, Readable
<1>1. Cur(p).off \in Nat /\ CursorOf[s] \in Paths
  BY <1>0, CollectorAssumption DEF TypeOK, Cur, Cursors
<1>2. file[s].ino # None /\ ~ConflictOn(s, Cur(p)) /\ file[s].ino = <<s, file[s].gen>>
  BY <1>0 DEF Readable, Present, GoalInv, Inodes
<1>3. ASSUME NEW n \in 1 .. Cur(p).off PROVE HasLanded(s, file[s].gen, n)
  <2>1. Cur(p).off > 0
    BY <1>1, <1>3
  <2>2. PICK t \in Sources, g \in Gens :
            Cur(p).ino = <<t, g>> /\ \A m \in 1 .. Cur(p).off : HasLanded(t, g, m)
    BY <1>1, <2>1 DEF GoalInv, Consumed, Cur
  <2>3. Cur(p).ino # None
    BY <2>2, CollectorAssumption DEF Ids, Gens
  <2>4. Cur(p).ino = file[s].ino
    BY <1>2, <2>3 DEF ConflictOn, Fresh, Replaced
  <2> QED BY <1>2, <1>3, <2>2, <2>4
<1> QED BY <1>0, <1>1, <1>2, <1>3

\* What a pass is about to be done with has landed.
LEMMA SettledNow ==
    ASSUME None \notin Ids, GoalInv, NEW p \in Procs,
           ReadNothing(p) \/ MarkGone(p) \/ (Commit(p) /\ ~chunk[p].more)
    PROVE  Settled(p, src[p])
<1> DEFINE s == src[p]
           g == goal[p][s].gen
<1>0. TypeInv /\ TypeOK /\ CursorInv
  BY DEF GoalInv, CursorInv, SeqInv, TypeInv
<1>1. s \in Sources /\ pc[p] \in {"tail", "commit"}
  BY <1>0 DEF TypeInv, Phase, ReadNothing, Readable, MarkGone, Commit
<1>2. Promised(p)
  BY <1>1 DEF GoalInv, Pursued
<1>3. g \in Nat /\ goal[p][s].len \in Nat /\ file[s].gen \in Nat /\ file[s].len \in Nat
  BY <1>0, <1>1, FileIs, GoalIs
<1> SUFFICES ASSUME file[s].gen = g, Present(s), NEW n \in 1 .. goal[p][s].len
             PROVE  HasLanded(s, g, n)
  BY DEF Settled
<1>4. goal[p][s].len <= file[s].len
  BY <1>1, <1>2 DEF Promised
<1> HIDE DEF s, g
<1>5. CASE ReadNothing(p)
  <2>1. CASE Appends(s)
    <3>1. /\ Cur(p).off \in Nat /\ \A m \in 1 .. Cur(p).off : HasLanded(s, file[s].gen, m)
      BY <1>5, <2>1, ConsumedHere DEF ReadNothing, s
    <3>2. ~(file[s].len > Cur(p).off)
      BY <1>5, <2>1 DEF ReadNothing, Unread, s
    <3> QED BY <1>3, <1>4, <3>1, <3>2
  <2>2. CASE ~Appends(s)
    <3>1. file[s].len <= 1
      BY <1>1, <2>2 DEF GoalInv, Shapes
    <3>2. n = 1 /\ file[s].len > 0
      BY <1>3, <1>4, <3>1
    <3>3. Cur(p).dig = Content(s)
      BY <1>5, <2>2, <3>2 DEF ReadNothing, Unread, s
    <3>4. cursor[CursorOf[s]].dig = <<s, g>> /\ g \in Gens
      BY <1>0, <1>1, <3>3, FileIs DEF Cur, Content, s
    <3> QED BY <1>1, <2>2, <3>2, <3>4 DEF GoalInv, BodiesLanded
  <2> QED BY <2>1, <2>2
<1>6. ~MarkGone(p)
  BY DEF MarkGone, s
<1>7. CASE Commit(p) /\ ~chunk[p].more
  <2> DEFINE k == chunk[p].part
  <2>1. k \in Parts /\ k \in landed /\ k.src = s /\ pc[p] = "commit"
    BY <1>0, <1>7, CommitIs DEF s
  <2>2. k.gen \in Nat /\ k.first \in Nat /\ k.last \in Nat
    BY <2>1, CollectorAssumption DEF Parts, Gens
  <2>3. /\ g <= k.gen /\ k.gen <= file[s].gen
        /\ k.gen = g => goal[p][s].len <= k.last
        /\ \A m \in 1 .. k.first - 1 : HasLanded(s, k.gen, m)
    BY <1>7, <2>1 DEF GoalInv, Pursued, Reaches, s, g
  <2> HIDE DEF k
  <2>4. k.gen = g /\ goal[p][s].len <= k.last
    BY <1>3, <2>2, <2>3
  <2>5. CASE n < k.first
    BY <1>3, <2>2, <2>3, <2>4, <2>5
  <2>6. CASE n >= k.first
    <3>1. Holds(k, n)
      BY <1>3, <2>2, <2>4, <2>6 DEF Holds
    <3> QED BY <2>1, <2>4, <3>1 DEF HasLanded
  <2> QED BY <1>3, <2>2, <2>5, <2>6
<1> QED BY <1>5, <1>6, <1>7

\* What has settled stays settled: the source grows, changes or goes.
LEMMA SettledStays ==
    ASSUME TypeOK, [Next]_vars, NEW p \in Procs, NEW s \in Sources,
           Settled(p, s), Promised(p), goal'[p] = goal[p]
    PROVE  Settled(p, s)'
<1>1. /\ file[s].gen \in Nat /\ file'[s].gen \in Nat /\ file[s].gen <= file'[s].gen
      /\ file'[s].gen = file[s].gen => file'[s] = file[s] \/ Grow(s) \/ Prune(s)
  BY GensGrow
<1>2. goal[p][s].gen \in Nat /\ goal[p][s].gen <= file[s].gen
  BY GoalIs DEF Promised
<1>3. Prune(s) => file'[s].ino = None
  BY FileIs DEF Prune
<1>4. Grow(s) => Present(s)
  BY DEF Grow
<1>5. landed \subseteq landed'
  BY LandedGrows
<1> SUFFICES ASSUME file'[s].gen = goal[p][s].gen, file'[s].ino # None, NEW n \in 1 .. goal[p][s].len
             PROVE  HasLanded(s, goal[p][s].gen, n)'
  <2>1. goal'[p][s] = goal[p][s]
    OBVIOUS
  <2> QED BY <2>1 DEF Settled, Present, HasLanded
<1>6. file[s].gen = goal[p][s].gen
  BY <1>1, <1>2
<1>7. Present(s)
  BY <1>1, <1>3, <1>4, <1>6 DEF Present
<1>8. HasLanded(s, goal[p][s].gen, n)
  BY <1>6, <1>7 DEF Settled
<1>9. \A m : HasLanded(s, goal[p][s].gen, m) => \E f \in landed' : f.src = s /\ f.gen = goal[p][s].gen /\ Holds(f, m)
  BY <1>5 DEF HasLanded
<1> QED BY <1>8, <1>9 DEF HasLanded, Holds

LEMMA ReachesStep ==
    ASSUME None \notin Ids, GoalInv, [Next]_vars, NEW p \in Procs, pc'[p] \in {"land", "commit"}
    PROVE  Reaches(p)'
<1>0. TypeInv /\ TypeOK /\ CursorInv /\ TypeInv'
  BY StepType DEF GoalInv, CursorInv, SeqInv, TypeInv
<1>1. CASE Read(p)
  <2> DEFINE s == src[p]
             k == chunk'[p].part
  <2>1. /\ s \in Sources /\ Readable(p) /\ pc[p] = "tail"
        /\ k.src = s /\ k.gen = file[s].gen /\ k.first = (IF Appends(s) THEN Cur(p).off + 1 ELSE 1)
        /\ k.first <= k.last /\ (~chunk'[p].more => k.last = file[s].len)
        /\ chunk'[p].ino = file[s].ino
    BY <1>0, <1>1, ReadIs
  <2>2. UNCHANGED <<file, src, goal, landed>>
    BY <1>1 DEF Read, env, zone
  <2>3. Promised(p) /\ Present(s)
    BY <2>1 DEF GoalInv, Pursued, Readable
  <2>4. goal[p][s].gen <= file[s].gen /\ (file[s].gen = goal[p][s].gen => goal[p][s].len <= file[s].len)
    BY <2>1, <2>3 DEF Promised
  <2>5. file[s].gen \in Nat
    BY <1>0, <2>1, FileIs
  <2>6. \A n \in 1 .. k.first - 1 : HasLanded(s, k.gen, n)
    <3>1. CASE Appends(s)
      <4>1. Cur(p).off \in Nat /\ \A n \in 1 .. Cur(p).off : HasLanded(s, file[s].gen, n)
        BY <2>1, <3>1, ConsumedHere
      <4>2. k.first - 1 = Cur(p).off
        <5> HIDE DEF k
        <5> QED BY <2>1, <3>1, <4>1
      <4> HIDE DEF k, s
      <4> QED BY <2>1, <4>1, <4>2
    <3>2. CASE ~Appends(s)
      <4> HIDE DEF k, s
      <4> QED BY <2>1, <3>2
    <3> QED BY <3>1, <3>2
  <2>7. IF Appends(s) THEN chunk'[p].ino = <<s, k.gen>> ELSE k.first = 1
    <3>1. Appends(s) => file[s].ino = <<s, file[s].gen>>
      BY <2>1, ConsumedHere
    <3> HIDE DEF k, s
    <3> QED BY <2>1, <3>1
  <2>9. /\ goal[p][s].gen <= k.gen /\ k.gen <= file[s].gen
        /\ ~chunk'[p].more /\ k.gen = goal[p][s].gen => goal[p][s].len <= k.last
    <3> HIDE DEF k, s
    <3> QED BY <2>1, <2>4, <2>5
  <2>8. \A n \in 1 .. k.first - 1 : \E f \in landed' : f.src = s /\ f.gen = k.gen /\ Holds(f, n)
    <3> HIDE DEF k, s
    <3> QED BY <2>2, <2>6 DEF HasLanded
  <2> QED BY <2>1, <2>2, <2>7, <2>8, <2>9 DEF Reaches, Appends, HasLanded
<1>2. CASE ~Read(p)
  <2> DEFINE s == src[p]
             k == chunk[p].part
  <2>1. pc[p] \in {"land", "commit"} /\ chunk'[p] = chunk[p] /\ src'[p] = src[p]
    BY <1>0, <1>2, WindowsStay
  <2>2. s \in Sources /\ k \in Parts
    BY <1>0, <2>1 DEF TypeInv, Phase
  <2>3. ~Begin(p) /\ pc'[p] # "idle"
    BY <2>1 DEF Begin
  <2>4. goal'[p] = goal[p]
    BY <1>0, <2>3, PassSteps
  <2>5. Reaches(p)
    BY <2>1 DEF GoalInv, Pursued
  <2>6. file[s].gen \in Nat /\ file'[s].gen \in Nat /\ file[s].gen <= file'[s].gen /\ k.gen \in Nat
    BY <1>0, <2>2, GensGrow, CollectorAssumption DEF Parts, Gens
  <2>7. \A n : HasLanded(s, k.gen, n) => \E f \in landed' : f.src = s /\ f.gen = k.gen /\ Holds(f, n)
    BY LandedGrows DEF HasLanded
  <2>8. \A n \in 1 .. k.first - 1 : \E f \in landed' : f.src = s /\ f.gen = k.gen /\ Holds(f, n)
    BY <2>5, <2>7 DEF Reaches
  <2>9. goal[p][s].gen <= k.gen /\ k.gen <= file[s].gen
    BY <2>5 DEF Reaches
  <2>10. /\ ~chunk[p].more /\ k.gen = goal[p][s].gen => goal[p][s].len <= k.last
         /\ k.src = s /\ k.first <= k.last
         /\ IF Appends(s) THEN chunk[p].ino = <<s, k.gen>> ELSE k.first = 1
    BY <2>5 DEF Reaches
  <2>11. k.gen <= file'[s].gen
    <3> HIDE DEF k, s
    <3> QED BY <2>6, <2>9
  <2> QED BY <2>1, <2>4, <2>8, <2>9, <2>10, <2>11 DEF Reaches, Appends, HasLanded
<1> QED BY <1>1, <1>2

LEMMA VisitedStep ==
    ASSUME None \notin Ids, GoalInv, [Next]_vars, NEW p \in Procs, pc'[p] # "idle"
    PROVE  Visited(p)'
<1>0. TypeInv /\ TypeOK
  BY DEF GoalInv, CursorInv, SeqInv, TypeInv
<1>1. CASE Begin(p)
  <2>1. /\ goal'[p] = file /\ file' = file /\ report'[p] = "none" /\ pc'[p] = "load"
        /\ todo'[p] = {s \in Sources : Present(s)}
    BY <1>0, <1>1 DEF Begin, env, TypeOK
  <2> QED BY <2>1 DEF Visited, Settled, Present
<1>2. CASE pc[p] # "idle" /\ goal'[p] = goal[p]
  <2>1. Promised(p) /\ Visited(p)
    BY <1>2 DEF GoalInv, Pursued
  <2>2. ASSUME NEW s \in Sources, Settled(p, s) PROVE Settled(p, s)'
    BY <1>0, <1>2, <2>1, <2>2, SettledStays
  <2>3. ASSUME todo'[p] = todo[p], report'[p] = report[p],
               pc'[p] \in {"mark", "finish"} => pc[p] = "mark" \/ pc'[p] = pc[p] \/ todo[p] = {}
        PROVE  Visited(p)'
    BY <2>1, <2>2, <2>3 DEF Visited
  <2>4. ASSUME report'[p] = "incomplete", pc'[p] \notin {"mark", "finish"} PROVE Visited(p)'
    BY <2>4 DEF Visited
  <2>5. ASSUME ReadNothing(p) \/ MarkGone(p) \/ (Commit(p) /\ ~chunk[p].more),
               todo'[p] = todo[p] \ {src[p]}, report'[p] = report[p], pc'[p] = "sources"
        PROVE  Visited(p)'
    <3>1. Settled(p, src[p])
      BY <2>5, SettledNow
    <3>2. \A s \in Sources \ todo'[p] : s = src[p] \/ s \in Sources \ todo[p]
      BY <2>5
    <3>3. report'[p] = "none" => \A s \in Sources \ todo'[p] : Settled(p, s)
      BY <2>1, <2>5, <3>1, <3>2 DEF Visited
    <3>4. report'[p] = "none" => \A s \in Sources \ todo'[p] : Settled(p, s)'
      BY <2>2, <3>3
    <3> QED BY <2>1, <2>5, <3>4 DEF Visited
  <2> QED BY <1>0, <1>2, <2>3, <2>4, <2>5, PassSteps DEF Begin
<1> QED BY <1>0, <1>1, <1>2, PassSteps

LEMMA ConsumedStep ==
    ASSUME GoalInv, [Next]_vars
    PROVE  Consumed'
<1>0. TypeInv /\ CursorInv
  BY DEF GoalInv, CursorInv, SeqInv
<1>k. ASSUME NEW s, NEW g, NEW n, HasLanded(s, g, n) PROVE HasLanded(s, g, n)'
  BY <1>k, LandedGrows DEF HasLanded, Holds
<1> SUFFICES ASSUME NEW c \in Paths, cursor'[c].off > 0
             PROVE  \E s \in Sources, g \in Gens :
                        cursor'[c].ino = <<s, g>> /\ \A n \in 1 .. cursor'[c].off : HasLanded(s, g, n)'
  BY DEF Consumed
<1>1. CASE cursor'[c].off = cursor[c].off /\ cursor'[c].ino = cursor[c].ino
  <2>1. PICK s \in Sources, g \in Gens :
            cursor[c].ino = <<s, g>> /\ \A n \in 1 .. cursor[c].off : HasLanded(s, g, n)
    BY <1>1 DEF GoalInv, Consumed
  <2> QED BY <1>1, <1>k, <2>1
<1>2. ASSUME NEW p \in Procs, Commit(p), c = CursorOf[src[p]], Appends(src[p])
      PROVE  \E s \in Sources, g \in Gens :
                 cursor'[c].ino = <<s, g>> /\ \A n \in 1 .. cursor'[c].off : HasLanded(s, g, n)'
  <2> DEFINE k == chunk[p].part
             s == src[p]
  <2>1. /\ pc[p] = "commit" /\ s \in Sources /\ k \in Parts /\ k \in landed /\ k.src = s
        /\ cursor'[c].off = k.last /\ cursor'[c].ino = chunk[p].ino
    BY <1>0, <1>2, CommitIs
  <2>2. chunk[p].ino = <<s, k.gen>> /\ \A n \in 1 .. k.first - 1 : HasLanded(s, k.gen, n)
    BY <1>2, <2>1 DEF GoalInv, Pursued, Reaches
  <2>3. k.gen \in Gens /\ k.first \in Nat /\ k.last \in Nat
    BY <2>1, CollectorAssumption DEF Parts
  <2>4. ASSUME NEW n \in 1 .. k.last PROVE HasLanded(s, k.gen, n)
    <3>1. CASE n < k.first
      <4> HIDE DEF k, s
      <4> QED BY <2>2, <2>3, <2>4, <3>1
    <3>2. CASE n >= k.first
      <4>1. Holds(k, n)
        <5> HIDE DEF k, s
        <5> QED BY <2>3, <2>4, <3>2 DEF Holds
      <4> QED BY <2>1, <4>1 DEF HasLanded
    <3> HIDE DEF k, s
    <3> QED BY <2>3, <2>4, <3>1, <3>2
  <2>5. PICK t \in Sources, g \in Gens : t = s /\ g = k.gen
    BY <2>1, <2>3
  <2>6. \A n \in 1 .. k.last : HasLanded(t, g, n)'
    <3> HIDE DEF k, s
    <3> QED BY <1>k, <2>4, <2>5
  <2>7. cursor'[c].ino = <<t, g>> /\ cursor'[c].off = k.last
    BY <2>1, <2>2, <2>5
  <2> HIDE DEF k, s
  <2> QED BY <2>6, <2>7
<1>3. CASE \A p \in Procs : ~Commit(p)
  <2>1. cursor'[c].off = cursor[c].off /\ cursor'[c].ino = cursor[c].ino
    BY <1>0, <1>3, OnlyCommits
  <2> QED BY <1>1, <2>1
<1>4. ASSUME NEW p \in Procs, Commit(p), c # CursorOf[src[p]] \/ ~Appends(src[p])
      PROVE  cursor'[c].off = cursor[c].off /\ cursor'[c].ino = cursor[c].ino
  BY <1>0, <1>4, CommitIs DEF Cur
<1> QED BY <1>1, <1>2, <1>3, <1>4

LEMMA BodiesStep ==
    ASSUME None \notin Ids, GoalInv, [Next]_vars
    PROVE  BodiesLanded'
<1>0. TypeInv /\ TypeOK /\ CursorInv
  BY DEF GoalInv, CursorInv, SeqInv, TypeInv
<1> SUFFICES ASSUME NEW s \in Sources, NEW g \in Gens, ~Appends(s), cursor'[CursorOf[s]].dig = <<s, g>>
             PROVE  HasLanded(s, g, 1)
  BY LandedGrows DEF BodiesLanded, Appends, HasLanded, Holds
<1>1. CASE cursor'[CursorOf[s]].dig = cursor[CursorOf[s]].dig
  BY <1>1 DEF GoalInv, BodiesLanded
<1>2. CASE cursor'[CursorOf[s]].dig # cursor[CursorOf[s]].dig
  <2>1. PICK p \in Procs : Commit(p)
    BY <1>0, <1>2, OnlyCommits, CollectorAssumption
  <2> DEFINE k == chunk[p].part
  <2>2. /\ CursorOf[s] = CursorOf[src[p]] /\ src[p] \in Sources /\ pc[p] = "commit"
        /\ k \in Parts /\ k \in landed /\ k.src = src[p]
    BY <1>0, <1>2, <2>1, CommitIs, CollectorAssumption
  <2>3. ~Appends(src[p])
    <3> SUFFICES ASSUME Appends(src[p]) PROVE FALSE
      OBVIOUS
    <3>1. <<s, g>> = DigestNow(src[p], k.last)
      BY <1>0, <2>1, <2>2, CommitIs
    <3>2. <<s, g>> \in Ids
      BY CollectorAssumption DEF Ids, Gens
    <3>3. DigestNow(src[p], k.last) \in {None, <<src[p], file[src[p]].gen>>, <<src[p], MaxGen + 1>>}
      BY DEF DigestNow, Content, Garbled
    <3>4. s = src[p]
      BY <3>1, <3>2, <3>3
    <3> QED BY <3>4
  <2>4. <<s, g>> = <<k.src, k.gen>>
    BY <1>0, <2>1, <2>2, <2>3, CommitIs
  <2>5. k.first = 1 /\ k.first <= k.last
    BY <2>2, <2>3 DEF GoalInv, Pursued, Reaches
  <2>6. k.last \in Nat
    BY <2>2, CollectorAssumption DEF Parts
  <2>7. Holds(k, 1)
    <3> HIDE DEF k
    <3> QED BY <2>5, <2>6 DEF Holds
  <2> QED BY <2>2, <2>4, <2>7 DEF HasLanded
<1> QED BY <1>1, <1>2

\* A pass that reports itself complete has collected everything the sources held when it
\* began, but for the sources that have been replaced or pruned since - however many passes
\* failed or were interrupted before it, and whatever the runtime wrote in the meantime
\* (collect.go, Stats.Complete).
THEOREM CompletePassCollects ==
    ASSUME InPlace = FALSE, None \notin Ids
    PROVE  Spec => CompleteMeansCollected
<1>1. Init => GoalInv
  <2> SUFFICES ASSUME Init PROVE GoalInv
    OBVIOUS
  <2>1. CursorInv
    BY SeqInit, CollectorAssumption DEF Init, CursorInv, ChunkContinues, CursorBacked, FreshCursor
  <2>2. ASSUME NEW s \in Sources, NEW g \in Gens PROVE <<s, g>> # None
    BY <2>2, CollectorAssumption DEF Ids, Gens
  <2>3. BodiesLanded /\ Consumed
    <3>1. \A c \in Paths : cursor[c].off = 0 /\ cursor[c].dig = None
      BY DEF Init, FreshCursor
    <3>2. Consumed
      BY <3>1, SMT DEF Consumed
    <3>3. ASSUME NEW s \in Sources PROVE cursor[CursorOf[s]].dig = None
      BY <3>1, CollectorAssumption
    <3>4. BodiesLanded
      BY <2>2, <3>3, Zenon DEF BodiesLanded
    <3> QED BY <3>2, <3>4
  <2>4. Inodes /\ Shapes /\ Pursued
    BY DEF Init, Inodes, Shapes, Pursued, Present, NoFiles
  <2> QED BY <2>1, <2>3, <2>4 DEF GoalInv
<1>2. GoalInv /\ [Next]_vars => GoalInv'
  <2> SUFFICES ASSUME GoalInv, [Next]_vars PROVE GoalInv'
    OBVIOUS
  <2>1. TypeInv /\ TypeOK
    BY DEF GoalInv, CursorInv, SeqInv, TypeInv
  <2>2. CursorInv'
    BY SeqStep, StepType, ContinuesStep, BackedStep DEF GoalInv, CursorInv, SeqInv
  <2>3. Inodes' /\ Shapes'
    BY <2>1, InodesStep, ShapesStep DEF GoalInv
  <2>4. ASSUME NEW p \in Procs, pc'[p] # "idle" PROVE Promised(p)'
    BY <2>1, <2>4, PromisedStep DEF GoalInv, Pursued
  <2>5. ASSUME NEW p \in Procs, pc'[p] # "idle" PROVE Visited(p)'
    BY <2>5, VisitedStep
  <2>6. ASSUME NEW p \in Procs, pc'[p] \in {"land", "commit"} PROVE Reaches(p)'
    BY <2>6, ReachesStep
  <2>7. Pursued'
    BY <2>4, <2>5, <2>6 DEF Pursued
  <2> QED BY <2>2, <2>3, <2>7, ConsumedStep, BodiesStep DEF GoalInv
<1>3. GoalInv /\ [Next]_vars => [\A p \in Procs : PassCompletes(p) => Collected(goal[p])]_vars
  <2> SUFFICES ASSUME GoalInv, [Next]_vars, NEW p \in Procs, PassCompletes(p),
                      NEW s \in Sources, NEW n \in 1 .. goal[p][s].len,
                      file[s].gen = goal[p][s].gen, Present(s)
               PROVE  HasLanded(s, goal[p][s].gen, n)
    BY DEF Collected
  <2>1. TypeOK
    BY DEF GoalInv, CursorInv, SeqInv, TypeInv
  <2>2. Finish(p) /\ report'[p] = "complete" /\ pc[p] # "idle"
    BY <2>1, OnlyFinishes DEF PassCompletes
  <2>3. Visited(p)
    BY <2>2 DEF GoalInv, Pursued
  <2>4. report[p] = "none"
    <3>1. report'[p] = IF report[p] = "none" THEN "complete" ELSE report[p]
      BY <2>1, <2>2 DEF Finish, TypeOK
    <3> QED BY <2>2, <2>3, <3>1 DEF Visited
  <2>5. todo[p] = {}
    BY <2>2, <2>3 DEF Finish, Visited
  <2> QED BY <2>3, <2>4, <2>5 DEF Visited, Settled
<1> QED BY <1>1, <1>2, <1>3, PTL DEF Spec, CompleteMeansCollected
-----------------------------------------------------------------------------
(***************************************************************************)
(* Append sources that map to one cursor.  The one whose window is saved   *)
(* owns the cursor, across passes too, because the cursor names its file   *)
(* and the others conflict with that.  A source that lands and loses its   *)
(* commit leaves the cursor to another, so the sources that landed behind  *)
(* it and do not own it are no more than what has gone wrong.              *)
(***************************************************************************)

\* An inode belongs to one source, whatever is rewritten in it.
OwnInodes == \A s \in Sources : file[s].ino = None \/ \E g \in Gens : file[s].ino = <<s, g>>

\* Only append sources map to the cursor.
Sole(c) == \A s \in Sources : CursorOf[s] = c => Appends(s)

\* The source a cursor names, or is about to.
Owners(c) ==
    {s \in Sources :
        /\ CursorOf[s] = c
        /\ \/ \E g \in Gens : cursor[c].ino = <<s, g>>
           \/ \E p \in Procs : pc[p] = "commit" /\ src[p] = s}

\* The sources that landed behind a cursor and that nothing remembers.
Lost(c) == Landers(c) \ Owners(c)

LostFew == \A c \in Paths : Sole(c) => IsFiniteSet(Lost(c)) /\ Cardinality(Lost(c)) <= Trouble

\* The window in hand is of the source its cursor names, if it names one.
Single ==
    \A p \in Procs : (pc[p] \in {"land", "commit"} /\ Appends(src[p])) =>
        /\ \E g \in Gens : chunk[p].ino = <<src[p], g>>
        /\ Cur(p).ino = None \/ \E g \in Gens : Cur(p).ino = <<src[p], g>>

OwnerInv == CursorInv /\ OwnInodes /\ Single /\ LostFew

LEMMA OwnInodesStep ==
    ASSUME TypeOK, OwnInodes, [Next]_vars
    PROVE  OwnInodes'
<1> USE DEF env, zone, mem, passes, budgets
<1>1. CASE UNCHANGED file
  BY <1>1 DEF OwnInodes
<1>2. ASSUME NEW s \in Sources, Grow(s) \/ Replace(s) \/ Rewrite(s) \/ Prune(s) PROVE OwnInodes'
  <2>1. \A t \in Sources \ {s} : file'[t] = file[t]
    BY <1>2, Zenon DEF Grow, Replace, Rewrite, Prune, TypeOK, Files
  <2>2. file[s] \in [ino: Ids \cup {None}, gen: Gens, len: 0 .. MaxLines] /\ s \in DOMAIN file /\ file[s].gen \in Nat
    BY FileIs
  <2>3. file'[s].ino = file[s].ino \/ file'[s].ino = None \/ \E g \in Gens : file'[s].ino = <<s, g>>
    <3>1. Grow(s) => file'[s].ino = file[s].ino
      BY <2>2 DEF Grow
    <3>2. Replace(s) => file'[s].ino = <<s, file[s].gen + 1>> /\ file[s].gen + 1 \in Gens
      BY <2>2, CollectorAssumption DEF Replace, Gens
    <3>3. Prune(s) => file'[s].ino = None
      BY FileIs DEF Prune
    <3>4. ASSUME Rewrite(s) PROVE file'[s].ino = file[s].ino
      <4>1. PICK n : file' = [file EXCEPT ![s].gen = file[s].gen + 1, ![s].len = n]
        BY <3>4 DEF Rewrite
      <4> QED BY <2>2, <4>1
    <3> QED BY <1>2, <3>1, <3>2, <3>3, <3>4
  <2> QED BY <2>1, <2>3 DEF OwnInodes
<1>3. ASSUME NEW p \in Procs, Step(p) PROVE UNCHANGED file
  BY <1>3 DEF Step, Begin, LoadState, LoadIndex, Refuse, Claim, SkipConflicted, MarkGone, FlagConflict,
     ReadNothing, Read, Land, Commit, WriteIndex, SaveMark, Finish
<1>4. ASSUME NEW p \in Procs, Fault(p) PROVE UNCHANGED file
  BY <1>4 DEF Fault, Busy, TailFails, LandFails, CommitFails, Stop
<1>5. QED
  BY <1>1, <1>2, <1>3, <1>4 DEF Next, Environment, DropIndex, vars

LEMMA OneMore ==
    ASSUME NEW S, NEW x, IsFiniteSet(S)
    PROVE  IsFiniteSet(S \cup {x}) /\ Cardinality(S \cup {x}) <= Cardinality(S) + 1
<1>1. /\ IsFiniteSet(S \cup {x})
      /\ Cardinality(S \cup {x}) = IF x \in S THEN Cardinality(S) ELSE Cardinality(S) + 1
  BY FS_AddElement
<1>2. Cardinality(S) \in Nat
  BY FS_CardinalityType
<1> QED BY <1>1, <1>2

\* A source that owns a cursor stays its owner, unless its commit is what goes wrong.
LEMMA OwnersStay ==
    ASSUME None \notin Ids, OwnerInv, [Next]_vars,
           NEW c \in Paths, Sole(c), NEW s \in Owners(c), s \notin Owners(c)'
    PROVE  s = src[lock] /\ stops' + faults' >= stops + faults + 1
<1>0. TypeInv /\ TypeOK /\ CursorInv /\ Alone /\ None \notin Procs
  BY CollectorAssumption DEF OwnerInv, CursorInv, SeqInv, TypeInv
<1>1. s \in Sources /\ CursorOf[s] = c /\ Appends(s)
  BY DEF Owners, Sole
<1>2. /\ ~\E g \in Gens : cursor'[c].ino = <<s, g>>
      /\ ~\E p \in Procs : pc'[p] = "commit" /\ src'[p] = s
  BY <1>1 DEF Owners
<1>3. ASSUME NEW p \in Procs, Commit(p), src[p] = s PROVE FALSE
  <2>1. pc[p] = "commit" /\ cursor'[c].ino = chunk[p].ino
    BY <1>0, <1>1, <1>3, CommitIs
  <2>2. \E g \in Gens : chunk[p].ino = <<s, g>>
    BY <1>1, <1>3, <2>1 DEF OwnerInv, Single
  <2> QED BY <1>2, <2>1, <2>2
<1>4. ~\E g \in Gens : cursor[c].ino = <<s, g>>
  <2> SUFFICES ASSUME NEW g \in Gens, cursor[c].ino = <<s, g>> PROVE FALSE
    OBVIOUS
  <2>1. PICK p \in Procs : Commit(p)
    BY <1>0, <1>2, OnlyCommits
  <2>2. CASE CursorOf[src[p]] # c
    BY <1>0, <1>2, <2>1, <2>2, CommitIs
  <2>3. CASE CursorOf[src[p]] = c
    <3>1. pc[p] = "commit" /\ src[p] \in Sources
      BY <1>0, <2>1, CommitIs
    <3>2. Appends(src[p])
      BY <2>3, <3>1 DEF Sole
    <3>3. Cur(p).ino = None \/ \E h \in Gens : Cur(p).ino = <<src[p], h>>
      BY <3>1, <3>2 DEF OwnerInv, Single
    <3>4. <<s, g>> # None
      BY <1>1, CollectorAssumption DEF Ids, Gens
    <3>5. src[p] = s
      BY <2>3, <3>3, <3>4 DEF Cur
    <3> QED BY <1>3, <2>1, <3>5
  <2> QED BY <2>2, <2>3
<1>5. PICK p \in Procs : pc[p] = "commit" /\ src[p] = s
  BY <1>4 DEF Owners
<1>6. ~Commit(p) /\ ~Read(p)
  BY <1>3, <1>5 DEF Read, Readable
<1>7. stops' + faults' >= stops + faults + 1
  BY <1>0, <1>2, <1>5, <1>6, WindowsStay
<1>8. lock = p
  BY <1>0, <1>5 DEF Alone
<1> QED BY <1>5, <1>7, <1>8

LEMMA LostStep ==
    ASSUME None \notin Ids, OwnerInv, [Next]_vars
    PROVE  LostFew'
<1>0. TypeInv /\ TypeOK /\ CursorInv
  BY DEF OwnerInv, CursorInv, SeqInv, TypeInv
<1> SUFFICES ASSUME NEW c \in Paths, Sole(c)
             PROVE  IsFiniteSet(Lost(c)') /\ Cardinality(Lost(c)') <= Trouble'
  BY DEF LostFew, Sole, Appends
<1>1. IsFiniteSet(Lost(c)) /\ Cardinality(Lost(c)) <= Trouble /\ Cardinality(Lost(c)) \in Nat
  BY FS_CardinalityType DEF OwnerInv, LostFew
<1>2. /\ Trouble \in Nat /\ Trouble' \in Nat /\ Trouble <= Trouble'
      /\ stops' + faults' >= stops + faults + 1 => Trouble' >= Trouble + 1
  BY <1>0, TroubleGrows
<1>3. ASSUME NEW s \in Landers(c)', s \notin Landers(c) PROVE s \in Owners(c)'
  <2>1. s \in Sources /\ CursorOf[s] = c
    BY DEF Landers
  <2>2. PICK f \in landed' : f.src = s /\ f \notin landed
    BY <1>3, <2>1 DEF Landers
  <2>3. PICK p \in Procs : Land(p)
    BY <2>2, OnlyLands
  <2>4. f = chunk[p].part /\ pc[p] = "land" /\ pc'[p] = "commit" /\ src' = src
    BY <1>0, <2>2, <2>3 DEF Land, TypeOK
  <2>5. src[p] = s
    BY <1>0, <2>2, <2>4 DEF CursorInv, ChunkContinues
  <2> QED BY <2>1, <2>4, <2>5 DEF Owners
<1>4. ASSUME NEW s \in Lost(c)', s \notin Lost(c)
      PROVE  s = src[lock] /\ stops' + faults' >= stops + faults + 1
  <2>1. s \in Landers(c)' /\ s \notin Owners(c)'
    BY <1>4 DEF Lost
  <2>2. s \in Owners(c)
    BY <1>3, <1>4, <2>1 DEF Lost
  <2> QED BY <2>1, <2>2, OwnersStay
<1> HIDE DEF Trouble
<1>5. CASE stops' + faults' >= stops + faults + 1
  <2>1. Lost(c)' \in SUBSET (Lost(c) \cup {src[lock]})
    BY <1>4
  <2>2. /\ IsFiniteSet(Lost(c) \cup {src[lock]})
        /\ Cardinality(Lost(c) \cup {src[lock]}) <= Cardinality(Lost(c)) + 1
    BY <1>1, OneMore
  <2>3. /\ IsFiniteSet(Lost(c)')
        /\ Cardinality(Lost(c)') <= Cardinality(Lost(c) \cup {src[lock]})
    BY <2>1, <2>2, FS_Subset
  <2>4. Cardinality(Lost(c)') \in Nat /\ Cardinality(Lost(c) \cup {src[lock]}) \in Nat
    BY <2>2, <2>3, FS_CardinalityType
  <2> QED BY <1>1, <1>2, <1>5, <2>2, <2>3, <2>4
<1>6. CASE ~(stops' + faults' >= stops + faults + 1)
  <2>1. Lost(c)' \in SUBSET Lost(c)
    BY <1>4, <1>6
  <2>2. IsFiniteSet(Lost(c)') /\ Cardinality(Lost(c)') <= Cardinality(Lost(c))
    BY <1>1, <2>1, FS_Subset
  <2>3. Cardinality(Lost(c)') \in Nat
    BY <2>2, FS_CardinalityType
  <2> QED BY <1>1, <1>2, <2>2, <2>3
<1> QED BY <1>5, <1>6

LEMMA SingleStep ==
    ASSUME OwnerInv, [Next]_vars
    PROVE  Single'
<1>0. TypeInv /\ TypeOK /\ CursorInv
  BY DEF OwnerInv, CursorInv, SeqInv, TypeInv
<1> SUFFICES ASSUME NEW p \in Procs, pc'[p] \in {"land", "commit"}, Appends(src'[p])
             PROVE  /\ \E g \in Gens : chunk'[p].ino = <<src'[p], g>>
                    /\ \/ cursor'[CursorOf[src'[p]]].ino = None
                       \/ \E g \in Gens : cursor'[CursorOf[src'[p]]].ino = <<src'[p], g>>
  BY DEF Single, Cur, Appends
<1>1. CASE Read(p)
  <2>1. /\ src[p] \in Sources /\ Readable(p) /\ chunk'[p].ino = file[src[p]].ino
        /\ UNCHANGED <<cursor, src>>
    BY <1>0, <1>1, ReadIs DEF Read, zone
  <2>2. PICK g \in Gens : file[src[p]].ino = <<src[p], g>>
    BY <2>1 DEF Readable, Present, OwnerInv, OwnInodes
  <2>3. ~ConflictOn(src[p], Cur(p))
    BY <2>1 DEF Readable
  <2>4. Cur(p).ino = None \/ Cur(p).ino = file[src[p]].ino
    BY <2>3 DEF ConflictOn, Fresh, Replaced
  <2> QED BY <2>1, <2>2, <2>4 DEF Cur
<1>2. CASE ~Read(p)
  <2>1. pc[p] \in {"land", "commit"} /\ chunk'[p] = chunk[p] /\ src'[p] = src[p]
    BY <1>0, <1>2, WindowsStay
  <2>2. \A q \in Procs : ~Commit(q)
    BY <1>0, CommitIs
  <2>3. src[p] \in Sources /\ CursorOf[src[p]] \in Paths
    BY <1>0, <2>1, CollectorAssumption DEF TypeInv, Phase
  <2>4. cursor'[CursorOf[src[p]]].ino = Cur(p).ino
    BY <1>0, <2>2, <2>3, OnlyCommits DEF Cur
  <2> QED BY <2>1, <2>4 DEF OwnerInv, Single
<1> QED BY <1>1, <1>2

\* A cursor has one owner.
LEMMA OneOwns ==
    ASSUME None \notin Ids, OwnerInv, NEW c \in Paths, Sole(c),
           NEW s \in Owners(c), NEW t \in Owners(c)
    PROVE  s = t
<1>0. Alone /\ None \notin Procs
  BY CollectorAssumption DEF OwnerInv, CursorInv, SeqInv
<1>1. ASSUME NEW u \in Owners(c) PROVE u \in Sources /\ CursorOf[u] = c /\ Appends(u)
  BY <1>1 DEF Owners, Sole
<1>2. ASSUME NEW u \in Owners(c), NEW v \in Owners(c), NEW g \in Gens, cursor[c].ino = <<u, g>>
      PROVE  u = v
  <2>1. CASE \E h \in Gens : cursor[c].ino = <<v, h>>
    BY <1>2, <2>1
  <2>2. ASSUME NEW p \in Procs, pc[p] = "commit", src[p] = v PROVE u = v
    <3>1. CursorOf[v] = c /\ Appends(v) /\ u \in Sources
      BY <1>1, <1>2
    <3>2. Cur(p).ino = None \/ \E h \in Gens : Cur(p).ino = <<v, h>>
      BY <2>2, <3>1 DEF OwnerInv, Single
    <3>3. <<u, g>> # None
      BY <3>1, CollectorAssumption DEF Ids, Gens
    <3> QED BY <1>2, <2>2, <3>1, <3>2, <3>3 DEF Cur
  <2> QED BY <1>2, <2>1, <2>2 DEF Owners
<1>3. CASE \E g \in Gens : cursor[c].ino = <<s, g>> \/ cursor[c].ino = <<t, g>>
  BY <1>2, <1>3
<1>4. CASE ~\E g \in Gens : cursor[c].ino = <<s, g>> \/ cursor[c].ino = <<t, g>>
  <2>1. PICK p \in Procs : pc[p] = "commit" /\ src[p] = s
    BY <1>4 DEF Owners
  <2>2. PICK q \in Procs : pc[q] = "commit" /\ src[q] = t
    BY <1>4 DEF Owners
  <2> QED BY <1>0, <2>1, <2>2 DEF Alone
<1> QED BY <1>3, <1>4

\* Of the append sources that map to one cursor path, one lands records behind it, in one pass
\* or in several, and one more at most for each time that a pass was interrupted or a write
\* failed - even when a file is rewritten in place (collect.go, "Two distinct sources must
\* never share a landing directory"; tail.go, the inode check of TailAppend).
THEOREM OneOwner ==
    ASSUME None \notin Ids
    PROVE  Spec => []OneSourcePerPath
<1>1. Init => OwnerInv
  <2> SUFFICES ASSUME Init PROVE OwnerInv
    OBVIOUS
  <2>1. CursorInv /\ OwnInodes /\ Single
    BY SeqInit, CollectorAssumption
    DEF Init, CursorInv, ChunkContinues, CursorBacked, FreshCursor, NoFiles, OwnInodes, Single
  <2>2. \A c \in Paths : Lost(c) = {}
    BY DEF Init, Lost, Landers
  <2>3. Trouble = 0
    BY DEF Init, Trouble
  <2> QED BY <2>1, <2>2, <2>3, FS_EmptySet DEF OwnerInv, LostFew
<1>2. OwnerInv /\ [Next]_vars => OwnerInv'
  <2> SUFFICES ASSUME OwnerInv, [Next]_vars PROVE OwnerInv'
    OBVIOUS
  <2>0. TypeInv /\ TypeOK
    BY DEF OwnerInv, CursorInv, SeqInv, TypeInv
  <2>1. CursorInv'
    BY SeqStep, StepType, ContinuesStep, BackedStep DEF OwnerInv, CursorInv, SeqInv
  <2> QED BY <2>0, <2>1, OwnInodesStep, SingleStep, LostStep DEF OwnerInv
<1>3. OwnerInv => OneSourcePerPath
  <2> SUFFICES ASSUME OwnerInv, NEW c \in Paths, Sole(c)
               PROVE  Cardinality(Landers(c)) <= 1 + stops + faults
    BY DEF OneSourcePerPath, Sole
  <2>1. /\ IsFiniteSet(Lost(c)) /\ Cardinality(Lost(c)) <= Trouble
        /\ Cardinality(Lost(c)) \in Nat /\ stops \in Nat /\ faults \in Nat
    BY FS_CardinalityType, CollectorAssumption DEF OwnerInv, LostFew, CursorInv, SeqInv, TypeInv, TypeOK
  <2>2. PICK x : Owners(c) \subseteq {x}
    BY OneOwns
  <2>3. Landers(c) \in SUBSET (Lost(c) \cup {x})
    BY <2>2 DEF Lost
  <2>4. /\ IsFiniteSet(Lost(c) \cup {x})
        /\ Cardinality(Lost(c) \cup {x}) <= Cardinality(Lost(c)) + 1
    BY <2>1, OneMore
  <2>5. /\ IsFiniteSet(Landers(c))
        /\ Cardinality(Landers(c)) <= Cardinality(Lost(c) \cup {x})
    BY <2>3, <2>4, FS_Subset
  <2>6. Cardinality(Landers(c)) \in Nat /\ Cardinality(Lost(c) \cup {x}) \in Nat
    BY <2>4, <2>5, FS_CardinalityType
  <2> QED BY <2>1, <2>4, <2>5, <2>6 DEF Trouble
<1> QED BY <1>1, <1>2, <1>3, PTL DEF Spec
-----------------------------------------------------------------------------
(***************************************************************************)
(* The verifier.  A walk over files of one content has one closed form: it *)
(* stands at the greatest line any of them ends with, and each file that   *)
(* begins past the next line is a problem.  What the collector lands is    *)
(* such that this is a hole: the files of a source, in the order of their  *)
(* sequences, never begin further back.                                    *)
(***************************************************************************)
\* Landed files are numbered apart, hold something, and each one of a source begins where the
\* one before it did or further on, within what the cursor leads to.
Apart     == \A f, g \in landed : f.seq = g.seq => f = g
Nonempty  == \A f \in landed : f.first <= f.last
Within(k) == k.first <= cursor[CursorOf[k.src]].off + 1 /\ (~Appends(k.src) => k.first = 1)
Advance   == \A f, g \in landed : f.src = g.src /\ f.seq < g.seq => f.first <= g.first

\* What a window in hand brings to that.
Brings ==
    \A p \in Procs : pc[p] \in {"land", "commit"} =>
        LET k == chunk[p].part IN
        /\ k.first <= k.last
        /\ ~Appends(k.src) => k.first = 1

\* The walk over the landed files, made inductive: the files of a source advance.
WalkInv ==
    CursorInv /\ Brings /\ Apart /\ Nonempty /\ (\A f \in landed : Within(f)) /\ Advance

\* A pass reads at least a line, and a whole body from its first.
LEMMA BringsStep ==
    ASSUME CursorInv, Brings, [Next]_vars
    PROVE  Brings'
<1>0. TypeInv
  BY DEF CursorInv, SeqInv
<1> SUFFICES ASSUME NEW p \in Procs, pc'[p] \in {"land", "commit"}
             PROVE  /\ chunk'[p].part.first <= chunk'[p].part.last
                    /\ ~Appends(chunk'[p].part.src) => chunk'[p].part.first = 1
  BY DEF Brings, Appends
<1>1. CASE Read(p)
  BY <1>0, <1>1, ReadIs
<1>2. CASE ~Read(p)
  BY <1>0, <1>2, WindowsStay DEF Brings
<1> QED BY <1>1, <1>2

\* What the type of a landed file says of it.
LEMMA PartIs ==
    ASSUME NEW f \in Parts
    PROVE  /\ f.src \in Sources /\ CursorOf[f.src] \in Paths
           /\ f.seq \in Nat \ {0} /\ f.first \in Nat /\ f.last \in Nat /\ f.gen \in Nat
           /\ f.first >= 1 /\ f.last <= MaxLines
BY CollectorAssumption DEF Parts, Gens

\* An offset never goes back.
LEMMA OffsetGrows ==
    ASSUME CursorInv, Brings, [Next]_vars, NEW c \in Paths
    PROVE  cursor[c].off \in Nat /\ cursor'[c].off \in Nat /\ cursor[c].off <= cursor'[c].off
<1>0. TypeInv /\ TypeOK /\ TypeOK'
  BY StepType DEF CursorInv, SeqInv, TypeInv
<1>1. cursor[c].off \in Nat /\ cursor'[c].off \in Nat
  <2>1. cursor[c] \in Cursors /\ cursor'[c] \in Cursors
    BY <1>0 DEF TypeOK
  <2> QED BY <2>1, CollectorAssumption DEF Cursors
<1>2. CASE \A p \in Procs : ~Commit(p)
  BY <1>0, <1>1, <1>2, OnlyCommits
<1>3. ASSUME NEW p \in Procs, Commit(p) PROVE cursor[c].off <= cursor'[c].off
  <2>1. CASE c # CursorOf[src[p]]
    BY <1>1, <1>3, <2>1, CommitIs
  <2>2. CASE c = CursorOf[src[p]] /\ ~Appends(src[p])
    BY <1>1, <1>3, <2>2, CommitIs DEF Cur
  <2>3. CASE c = CursorOf[src[p]] /\ Appends(src[p])
    <3>1. /\ pc[p] = "commit" /\ chunk[p].part \in landed
          /\ chunk[p].part.first = cursor[c].off + 1 /\ cursor'[c].off = chunk[p].part.last
      BY <1>3, <2>3, CommitIs DEF Cur
    <3>2. chunk[p].part.first <= chunk[p].part.last
      BY <3>1 DEF Brings
    <3> QED
      <4>1. chunk[p].part.first \in Nat /\ chunk[p].part.last \in Nat
        BY <1>0, <3>1, PartIs DEF TypeOK
      <4> QED BY <1>1, <3>1, <3>2, <4>1
  <2> QED BY <2>1, <2>2, <2>3
<1> QED BY <1>1, <1>2, <1>3

\* WalkInv is inductive.
LEMMA WalkStep ==
    ASSUME WalkInv, [Next]_vars
    PROVE  WalkInv'
<1>0. CursorInv /\ Brings /\ TypeInv /\ TypeOK /\ SeqInv
  BY DEF WalkInv, CursorInv, SeqInv, TypeInv
<1>1. CursorInv' /\ TypeOK' /\ landed \subseteq Parts /\ landed' \subseteq Parts
  BY <1>0, SeqStep, StepType, ContinuesStep, BackedStep DEF CursorInv, SeqInv, TypeInv, TypeOK
<1>2. Brings'
  BY <1>0, BringsStep
<1>3. CASE \A p \in Procs : ~Land(p)
  <2>1. landed' = landed
    BY <1>3, OnlyLands, LandedGrows
  <2>2. ASSUME NEW f \in landed PROVE Within(f)'
    BY <1>0, <1>1, <2>2, PartIs, OffsetGrows DEF WalkInv, Within, Appends
  <2> QED BY <1>1, <1>2, <2>1, <2>2 DEF WalkInv, Apart, Nonempty, Advance
<1>4. ASSUME NEW p \in Procs, Land(p) PROVE WalkInv'
  <2> DEFINE k == chunk[p].part
  <2>1. pc[p] = "land" /\ landed' = landed \cup {k} /\ cursor' = cursor
    BY <1>4 DEF Land
  <2>2. k.src = src[p] /\ (Appends(src[p]) => k.first = Cur(p).off + 1)
    BY <1>0, <2>1 DEF CursorInv, ChunkContinues
  <2>3. k.first <= k.last /\ (~Appends(k.src) => k.first = 1)
    BY <1>0, <2>1 DEF Brings
  <2>4. \A f \in landed : f.seq < k.seq
    BY <1>0, <2>1 DEF SeqInv, ChunkAbove
  <2>5. k \in landed'
    BY <2>1
  <2>6. /\ k.seq \in Nat /\ k.first \in Nat /\ k.last \in Nat
        /\ k.src \in Sources /\ k.first >= 1 /\ CursorOf[k.src] \in Paths
    BY <1>1, <2>5, PartIs
  <2>7. cursor[CursorOf[k.src]].off \in Nat
    BY <1>0, <2>6, OffsetGrows
  <2> HIDE DEF k
  <2>8. Within(k)
    BY <2>2, <2>3, <2>6, <2>7 DEF Within, Cur
  <2>9. ASSUME NEW f \in landed, f.src = k.src PROVE f.first <= k.first
    <3>1. CASE Appends(k.src)
      BY <1>0, <1>1, <2>2, <2>6, <2>7, <2>9, <3>1, PartIs DEF WalkInv, Within, Cur
    <3>2. CASE ~Appends(k.src)
      BY <2>3, <2>9, <3>2 DEF WalkInv, Within
    <3> QED BY <3>1, <3>2
  <2>10. Apart'
    <3> SUFFICES ASSUME NEW f \in landed', NEW g \in landed', f.seq = g.seq PROVE f = g
      BY DEF Apart
    <3>1. f.seq \in Nat /\ g.seq \in Nat
      BY <1>1, PartIs
    <3> QED BY <2>1, <2>4, <3>1 DEF WalkInv, Apart
  <2>11. Nonempty'
    BY <2>1, <2>3 DEF WalkInv, Nonempty
  <2>12. \A f \in landed' : Within(f)'
    BY <2>1, <2>8 DEF WalkInv, Within, Appends
  <2>13. Advance'
    <3> SUFFICES ASSUME NEW f \in landed', NEW g \in landed', f.src = g.src, f.seq < g.seq
                 PROVE  f.first <= g.first
      BY DEF Advance
    <3>1. f.seq \in Nat /\ g.seq \in Nat
      BY <1>1, PartIs
    <3>2. CASE f \in landed /\ g \in landed
      BY <3>2 DEF WalkInv, Advance
    <3>3. CASE g = k
      BY <2>1, <2>9, <3>3, <2>6
    <3>4. CASE f = k /\ g \in landed
      BY <2>4, <3>1, <3>4
    <3> QED BY <2>1, <3>2, <3>3, <3>4
  <2> QED BY <1>1, <1>2, <2>10, <2>11, <2>12, <2>13 DEF WalkInv
<1> QED BY <1>3, <1>4

\* Induction over the naturals, for a set of them: the library states it for an operator.
LEMMA NatInduct ==
    ASSUME NEW T \in SUBSET Nat, 0 \in T, \A n \in T : n + 1 \in T
    PROVE  T = Nat
<1> SUFFICES ASSUME Nat \ T # {} PROVE FALSE
  OBVIOUS
<1> DEFINE B == Nat \ T
<1>1. PICK x \in B : \A y \in B : ~ (<<y, x>> \in OpToRel(<, Nat))
  <2>1. B \subseteq Nat /\ B # {}
    OBVIOUS
  <2> HIDE DEF B
  <2> QED BY <2>1, NatLessThanWellFounded, WFMin
<1>2. x - 1 \in Nat /\ x - 1 < x
  <2>1. x \in Nat /\ x # 0
    OBVIOUS
  <2> QED BY <2>1
<1>3. x - 1 \in T
  BY <1>1, <1>2 DEF OpToRel
<1> QED BY <1>2, <1>3

\* The arithmetic of offsets: whole lines of one length.
LEMMA Times ==
    ASSUME NEW L \in Nat \ {0}, NEW a \in Int, NEW b \in Int
    PROVE  /\ L * a \in Int
           /\ L * (a - 1) + L = L * a
           /\ L * a = L * b => a = b
<1>1. L * (a - 1) = L * a - L
  OBVIOUS
<1>2. L * a = L * b => L * (a - b) = 0
  OBVIOUS
<1>3. L * (a - b) = 0 => a - b = 0
  OBVIOUS
<1> QED BY <1>1, <1>2, <1>3

\* A line starts where the ones before it end.
LEMMA OffIs ==
    ASSUME NEW f \in Parts, NEW n \in Nat
    PROVE  /\ LineBytes(f) \in Nat \ {0}
           /\ LineBytes(f) * n \in Int
           /\ Off(f, n) + LineBytes(f) = LineBytes(f) * n
           /\ \A m \in Nat : Off(f, n) = LineBytes(f) * m <=> n = m + 1
<1>1. LineBytes(f) \in Nat \ {0}
  BY PartIs DEF LineBytes
<1> DEFINE L == LineBytes(f)
<1> HIDE DEF L
<1>2. Off(f, n) = L * (n - 1) /\ L \in Nat \ {0}
  BY <1>1 DEF Off, L
<1>3. \A m \in Nat : Off(f, n) = L * m <=> n - 1 = m
  BY <1>2, Times
<1>4. Off(f, n) + L = L * n /\ L * n \in Int
  BY <1>2, Times
<1> QED BY <1>1, <1>3, <1>4 DEF L

\* What a walk can have counted.
Counts == [ord: Nat, end: Int, relanded: Nat, problems: Nat]
Count(o, e, r, p) == [ord |-> o, end |-> e, relanded |-> r, problems |-> p]

\* A walk has read whole lines, of the length the content of f has.
Even(w, f) == w \in Counts /\ w.end = LineBytes(f) * w.ord

\* A record of such a content either repeats or advances; when it skips, by ordinals and bytes.
LEMMA CheckIs ==
    ASSUME NEW f \in Parts, NEW w, Even(w, f), NEW n \in Nat
    PROVE  Check(w, f, n) =
              IF n <= w.ord THEN Count(w.ord, w.end, w.relanded + 1, w.problems)
              ELSE Count(n, LineBytes(f) * n, w.relanded, w.problems + IF n = w.ord + 1 THEN 0 ELSE 2)
<1>1. /\ w.ord \in Nat /\ w.end \in Int /\ w.relanded \in Nat /\ w.problems \in Nat
      /\ w = Count(w.ord, w.end, w.relanded, w.problems)
  BY DEF Even, Counts, Count
<1>2. CASE n <= w.ord
  <2>1. Check(w, f, n) = [w EXCEPT !.relanded = w.relanded + 1]
    BY <1>2 DEF Check
  <2> QED BY <1>1, <1>2, <2>1 DEF Count
<1>3. CASE ~(n <= w.ord)
  <2>1. Off(f, n) + LineBytes(f) = LineBytes(f) * n
    BY OffIs
  <2>2. Off(f, n) = w.end <=> n = w.ord + 1
    BY SMTT(30), <1>1, OffIs DEF Even
  <2>3. Check(w, f, n) = Count(n, LineBytes(f) * n, w.relanded,
            w.problems + (IF n # w.ord + 1 THEN 1 ELSE 0) + (IF n # w.ord + 1 THEN 1 ELSE 0))
    BY <1>3, <2>1, <2>2 DEF Check, Count
  <2> QED BY <1>1, <1>3, <2>3
<1> QED BY <1>2, <1>3

\* What a walk has counted when it is at line n of a file.
Line(w, f, n) ==
    IF n = f.first - 1 THEN w
    ELSE IF n <= w.ord THEN Count(w.ord, w.end, w.relanded + (n - (f.first - 1)), w.problems)
    ELSE Count(n, LineBytes(f) * n,
               w.relanded + (IF w.ord >= f.first THEN w.ord - (f.first - 1) ELSE 0),
               w.problems + (IF w.ord < f.first - 1 THEN 2 ELSE 0))

\* ... which is again whole lines,
LEMMA LineEven ==
    ASSUME NEW f \in Parts, NEW w, Even(w, f), NEW n \in Nat, f.first - 1 <= n
    PROVE  Even(Line(w, f, n), f)
<1>1. /\ w.ord \in Nat /\ w.end \in Int /\ w.relanded \in Nat /\ w.problems \in Nat
      /\ f.first \in Nat /\ f.first >= 1 /\ LineBytes(f) * n \in Int
  BY PartIs, OffIs DEF Even, Counts
<1> DEFINE b == LineBytes(f) * n
<1>2. CASE n = f.first - 1
  BY <1>2 DEF Line
<1>3. CASE n # f.first - 1 /\ n <= w.ord
  <2>1. Line(w, f, n) = Count(w.ord, w.end, w.relanded + (n - (f.first - 1)), w.problems)
    BY <1>3 DEF Line
  <2> QED BY <1>1, <1>3, <2>1 DEF Even, Counts, Count
<1>4. CASE n # f.first - 1 /\ ~(n <= w.ord)
  <2> DEFINE r == w.relanded + (IF w.ord >= f.first THEN w.ord - (f.first - 1) ELSE 0)
             p == w.problems + (IF w.ord < f.first - 1 THEN 2 ELSE 0)
  <2>1. Line(w, f, n) = Count(n, b, r, p)
    BY <1>4 DEF Line
  <2>2. r \in Nat /\ p \in Nat
    BY <1>1
  <2>3. b \in Int /\ b = LineBytes(f) * n
    BY <1>1
  <2> HIDE DEF r, p, b
  <2> QED BY <2>1, <2>2, <2>3 DEF Even, Counts, Count
<1> QED BY <1>2, <1>3, <1>4

\* ... and what checking the next record gives.
LEMMA LineNext ==
    ASSUME NEW f \in Parts, NEW w, Even(w, f), NEW n \in Nat, f.first <= n
    PROVE  Line(w, f, n) = Check(Line(w, f, n - 1), f, n)
<1> DEFINE v == Line(w, f, n - 1)
           b == LineBytes(f) * n
<1> SUFFICES Line(w, f, n) = Check(v, f, n)
  OBVIOUS
<1>1. /\ w.ord \in Nat /\ w.end \in Int /\ w.relanded \in Nat /\ w.problems \in Nat
      /\ f.first \in Nat /\ f.first >= 1 /\ n - 1 \in Nat
  BY PartIs DEF Even, Counts
<1>2. Even(v, f)
  BY <1>1, LineEven
<1>3. Check(v, f, n) =
              IF n <= v.ord THEN Count(v.ord, v.end, v.relanded + 1, v.problems)
              ELSE Count(n, b, v.relanded, v.problems + IF n = v.ord + 1 THEN 0 ELSE 2)
  BY <1>2, CheckIs
<1> HIDE DEF b
<1>4. Line(w, f, n) =
        IF n <= w.ord THEN Count(w.ord, w.end, w.relanded + (n - (f.first - 1)), w.problems)
        ELSE Count(n, b, w.relanded + (IF w.ord >= f.first THEN w.ord - (f.first - 1) ELSE 0),
                   w.problems + (IF w.ord < f.first - 1 THEN 2 ELSE 0))
  BY <1>1 DEF Line, b
<1>5. CASE n = f.first
  <2>1. v = w
    BY <1>1, <1>5 DEF Line
  <2> HIDE DEF v
  <2> QED BY <1>1, <1>3, <1>4, <1>5, <2>1
<1>6. CASE n # f.first /\ n - 1 <= w.ord
  <2>1. v = Count(w.ord, w.end, w.relanded + ((n - 1) - (f.first - 1)), w.problems)
    BY <1>1, <1>6 DEF Line
  <2>2. /\ v.ord = w.ord /\ v.end = w.end /\ v.relanded = w.relanded + ((n - 1) - (f.first - 1))
        /\ v.problems = w.problems
    BY <2>1 DEF Count
  <2> HIDE DEF v
  <2>3. CASE n <= w.ord
    <3>1. v.relanded + 1 = w.relanded + (n - (f.first - 1))
      BY <1>1, <2>2
    <3> QED BY <1>3, <1>4, <2>2, <2>3, <3>1
  <2>4. CASE ~(n <= w.ord)
    <3>1. /\ v.relanded = w.relanded + (IF w.ord >= f.first THEN w.ord - (f.first - 1) ELSE 0)
          /\ v.problems + (IF n = v.ord + 1 THEN 0 ELSE 2) = w.problems + (IF w.ord < f.first - 1 THEN 2 ELSE 0)
      BY <1>1, <1>6, <2>2, <2>4
    <3> QED BY <1>3, <1>4, <2>2, <2>4, <3>1
  <2> QED BY <2>3, <2>4
<1>7. CASE n # f.first /\ ~(n - 1 <= w.ord)
  <2>1. v = Count(n - 1, LineBytes(f) * (n - 1),
                  w.relanded + (IF w.ord >= f.first THEN w.ord - (f.first - 1) ELSE 0),
                  w.problems + (IF w.ord < f.first - 1 THEN 2 ELSE 0))
    BY <1>1, <1>7 DEF Line
  <2>2. /\ v.ord = n - 1
        /\ v.relanded = w.relanded + (IF w.ord >= f.first THEN w.ord - (f.first - 1) ELSE 0)
        /\ v.problems = w.problems + (IF w.ord < f.first - 1 THEN 2 ELSE 0)
    BY <2>1 DEF Count
  <2> HIDE DEF v
  <2>3. /\ ~(n <= v.ord) /\ ~(n <= w.ord)
        /\ v.problems + (IF n = v.ord + 1 THEN 0 ELSE 2) = v.problems
    BY <1>1, <1>7, <2>2
  <2> QED BY <1>3, <1>4, <2>2, <2>3
<1> QED BY <1>1, <1>5, <1>6, <1>7

\* Line is what the recursion of Walk computes.
LEMMA WalkIs ==
    ASSUME NEW f \in Parts, f.first <= f.last, NEW w, Even(w, f)
    PROVE  Walk(w, f) = Line(w, f, f.last)
<1> DEFINE D == f.first - 1 .. f.last
           eq(u) == u = [n \in D |-> IF n < f.first THEN w ELSE Check(u[n - 1], f, n)]
           to == CHOOSE u : eq(u)
           u0 == [n \in D |-> Line(w, f, n)]
<1>0. f.first \in Nat /\ f.last \in Nat /\ f.first >= 1
  BY PartIs
<1>1. eq(u0)
  <2>1. ASSUME NEW n \in D
        PROVE  u0[n] = IF n < f.first THEN w ELSE Check(u0[n - 1], f, n)
    <3>1. CASE n < f.first
      <4>1. n = f.first - 1
        BY <1>0, <3>1
      <4> QED BY <3>1, <4>1 DEF Line
    <3>2. CASE ~(n < f.first)
      <4>1. n \in Nat /\ n - 1 \in D /\ f.first <= n
        BY <1>0, <3>2
      <4>2. u0[n - 1] = Line(w, f, n - 1)
        BY <4>1
      <4> QED BY <3>2, <4>1, <4>2, LineNext
    <3> QED BY <3>1, <3>2
  <2>2. u0 = [n \in D |-> u0[n]]
    OBVIOUS
  <2> HIDE DEF u0, D
  <2> QED BY <2>1, <2>2
<1>2. eq(to)
  <2> HIDE DEF eq, u0
  <2> QED BY <1>1
<1>3. Walk(w, f) = to[f.last]
  BY DEF Walk
<1>4. ASSUME NEW n \in D
      PROVE  to[n] = IF n < f.first THEN w ELSE Check(to[n - 1], f, n)
  <2> HIDE DEF to, D
  <2>1. to = [m \in D |-> IF m < f.first THEN w ELSE Check(to[m - 1], f, m)]
    BY <1>2
  <2> DEFINE F == [m \in D |-> IF m < f.first THEN w ELSE Check(to[m - 1], f, m)]
  <2>2. to[n] = F[n]
    BY <2>1
  <2> QED BY <2>2
<1> HIDE DEF to
<1> DEFINE T == {k \in Nat : (f.first - 1) + k <= f.last => to[(f.first - 1) + k] = Line(w, f, (f.first - 1) + k)}
<1>5. 0 \in T
  <2>1. f.first - 1 \in D /\ f.first - 1 < f.first /\ (f.first - 1) + 0 = f.first - 1
    BY <1>0
  <2>2. to[f.first - 1] = w
    BY <1>4, <2>1
  <2> QED BY <2>1, <2>2 DEF Line
<1>6. ASSUME NEW k \in T
      PROVE  k + 1 \in T
  <2> DEFINE n == (f.first - 1) + (k + 1)
  <2>0. k \in Nat
    OBVIOUS
  <2>1. ASSUME n <= f.last PROVE to[n] = Line(w, f, n)
    <3>1. n \in D /\ ~(n < f.first) /\ n \in Nat /\ n - 1 = (f.first - 1) + k /\ n - 1 <= f.last
      BY <1>0, <2>0, <2>1
    <3>2. to[n - 1] = Line(w, f, n - 1)
      BY <3>1
    <3>3. to[n] = Check(to[n - 1], f, n)
      BY <1>4, <3>1
    <3>4. f.first <= n
      BY <1>0, <3>1
    <3> HIDE DEF n
    <3> QED BY <3>1, <3>2, <3>3, <3>4, LineNext
  <2>2. k + 1 \in Nat /\ (n <= f.last => to[n] = Line(w, f, n))
    BY <2>0, <2>1
  <2> QED BY ONLY <2>2
<1>7. T = Nat
  <2>1. T \in SUBSET Nat
    OBVIOUS
  <2> HIDE DEF T
  <2> QED BY <1>5, <1>6, <2>1, NatInduct
<1>8. PICK k \in Nat : (f.first - 1) + k = f.last
  <2>1. f.last - (f.first - 1) \in Nat /\ (f.first - 1) + (f.last - (f.first - 1)) = f.last
    BY <1>0
  <2> QED BY <2>1
<1>9. (f.first - 1) + k <= f.last => to[(f.first - 1) + k] = Line(w, f, (f.first - 1) + k)
  BY <1>7
<1>10. to[f.last] = Line(w, f, f.last)
  BY <1>0, <1>8, <1>9
<1> QED BY <1>3, <1>10

\* Walking over a file advances to its end and meets a problem where it begins too late.
LEMMA WalkCounts ==
    ASSUME NEW f \in Parts, f.first <= f.last, NEW w, Even(w, f)
    PROVE  LET v == Walk(w, f) IN
           /\ Even(v, f)
           /\ v.ord = IF f.last <= w.ord THEN w.ord ELSE f.last
           /\ v.problems >= w.problems
           /\ v.problems > w.problems <=> w.ord + 1 < f.first
<1>0. /\ f.first \in Nat /\ f.last \in Nat /\ f.first >= 1 /\ f.last # f.first - 1
      /\ w.ord \in Nat /\ w.relanded \in Nat /\ w.problems \in Nat
  BY PartIs DEF Even, Counts
<1>1. Walk(w, f) = Line(w, f, f.last) /\ Even(Walk(w, f), f)
  BY <1>0, WalkIs, LineEven
<1>2. Walk(w, f).ord = (IF f.last <= w.ord THEN w.ord ELSE f.last)
  BY <1>0, <1>1 DEF Line, Count
<1>3. Walk(w, f).problems = w.problems + (IF w.ord + 1 < f.first THEN 2 ELSE 0)
  <2>1. CASE f.last <= w.ord
    BY <1>0, <1>1, <2>1 DEF Line, Count
  <2>2. CASE ~(f.last <= w.ord)
    BY <1>0, <1>1, <2>2 DEF Line, Count
  <2> QED BY <2>1, <2>2
<1> QED BY <1>0, <1>1, <1>2, <1>3

\* Finitely many files have a last one,
LEMMA LastFile ==
    ASSUME NEW S \in SUBSET Parts, IsFiniteSet(S), S # {}
    PROVE  \E h \in S : \A f \in S : f.seq <= h.seq
<1> DEFINE T == {n \in Nat : \A R \in SUBSET Parts :
                    IsFiniteSet(R) /\ Cardinality(R) = n /\ R # {} => \E h \in R : \A f \in R : f.seq <= h.seq}
<1>1. 0 \in T
  BY FS_EmptySet
<1>2. ASSUME NEW n \in T
      PROVE  n + 1 \in T
  <2> SUFFICES ASSUME NEW R \in SUBSET Parts, IsFiniteSet(R), Cardinality(R) = n + 1, R # {}
               PROVE  \E h \in R : \A f \in R : f.seq <= h.seq
    OBVIOUS
  <2>1. PICK e \in R : TRUE
    OBVIOUS
  <2> DEFINE Q == R \ {e}
  <2>2. Q \in SUBSET Parts /\ IsFiniteSet(Q) /\ Cardinality(Q) = n
    <3>1. IsFiniteSet(Q) /\ Cardinality(Q) = Cardinality(R) - 1
      BY <2>1, FS_RemoveElement
    <3>2. n \in Nat /\ n + 1 - 1 = n
      OBVIOUS
    <3> QED BY <3>1, <3>2
  <2>3. \A f \in R : f.seq \in Nat
    BY PartIs
  <2>4. CASE Q = {}
    BY <2>1, <2>3, <2>4
  <2>5. CASE Q # {}
    <3>1. PICK h \in Q : \A f \in Q : f.seq <= h.seq
      <4> HIDE DEF Q
      <4> QED BY <2>2, <2>5
    <3>2. CASE h.seq <= e.seq
      <4>1. \A f \in R : f.seq <= e.seq
        BY <2>1, <2>3, <3>1, <3>2
      <4> QED BY <2>1, <4>1
    <3>3. CASE ~(h.seq <= e.seq)
      <4>1. \A f \in R : f.seq <= h.seq
        BY <2>1, <2>3, <3>1, <3>3
      <4> QED BY <3>1, <4>1
    <3> QED BY <3>2, <3>3
  <2> QED BY <2>4, <2>5
<1>3. T = Nat
  <2>1. T \in SUBSET Nat
    OBVIOUS
  <2> HIDE DEF T
  <2> QED BY <1>1, <1>2, <2>1, NatInduct
<1>4. Cardinality(S) \in T
  BY <1>3, FS_CardinalityType
<1> QED BY <1>4

\* ... any have a first,
LEMMA FirstFile ==
    ASSUME NEW S \in SUBSET Parts, S # {}
    PROVE  Beginning(S) \in S /\ \A f \in S : Beginning(S).seq <= f.seq
<1> DEFINE B == {f.seq : f \in S}
<1>0. \A f \in S : f.seq \in Nat
  BY PartIs
<1>1. PICK x \in B : \A y \in B : ~ (<<y, x>> \in OpToRel(<, Nat))
  <2>1. B \subseteq Nat /\ B # {}
    BY <1>0
  <2> HIDE DEF B
  <2> QED BY <2>1, NatLessThanWellFounded, WFMin
<1>2. PICK e \in S : x = e.seq
  OBVIOUS
<1>3. ASSUME NEW f \in S PROVE e.seq <= f.seq
  <2>1. ~ (<<f.seq, e.seq>> \in OpToRel(<, Nat))
    BY <1>1, <1>2
  <2> QED BY <1>0, <1>2, <2>1 DEF OpToRel
<1> QED BY <1>2, <1>3 DEF Beginning

\* ... and a greatest sequence.
LEMMA MaxIs ==
    ASSUME NEW S \in SUBSET Parts, IsFiniteSet(S), S # {}
    PROVE  LET m == Max({f.seq : f \in S}) IN m \in Nat /\ \A f \in S : f.seq <= m
<1>1. PICK h \in S : \A f \in S : f.seq <= h.seq
  BY LastFile
<1> DEFINE U == {f.seq : f \in S}
<1>2. \E x \in U : \A y \in U : x >= y
  BY <1>1, PartIs
<1>3. Max(U) \in U /\ \A y \in U : Max(U) >= y
  <2> HIDE DEF U
  <2> QED BY <1>2 DEF Max
<1> QED BY <1>3, PartIs

\* The recursion of Stream over the sequences up to m.
Goes(u, S, m) ==
    u = [n \in 0 .. m |->
            IF n = 0 THEN Opened(Beginning(S))
            ELSE IF Numbered(S, n) = {} THEN u[n - 1]
            ELSE Walk(u[n - 1], CHOOSE f \in Numbered(S, n) : TRUE)]

\* One step of it.
LEMMA GoesAt ==
    ASSUME NEW u, NEW S, NEW m \in Nat, Goes(u, S, m), NEW n \in 0 .. m
    PROVE  u[n] = IF n = 0 THEN Opened(Beginning(S))
                  ELSE IF Numbered(S, n) = {} THEN u[n - 1]
                  ELSE Walk(u[n - 1], CHOOSE f \in Numbered(S, n) : TRUE)
<1> DEFINE F == [k \in 0 .. m |->
            IF k = 0 THEN Opened(Beginning(S))
            ELSE IF Numbered(S, k) = {} THEN u[k - 1]
            ELSE Walk(u[k - 1], CHOOSE f \in Numbered(S, k) : TRUE)]
<1>1. u = F
  BY DEF Goes
<1>2. u[n] = F[n]
  BY <1>1
<1> QED BY <1>2

\* There is a function that satisfies it,
LEMMA GoesExists ==
    ASSUME NEW S, NEW m \in Nat
    PROVE  \E u : Goes(u, S, m)
<1> DEFINE T == {k \in Nat : \E u : Goes(u, S, k)}
           Step1(u, n) == IF n = 0 THEN Opened(Beginning(S))
                          ELSE IF Numbered(S, n) = {} THEN u[n - 1]
                          ELSE Walk(u[n - 1], CHOOSE f \in Numbered(S, n) : TRUE)
<1>1. 0 \in T
  <2> DEFINE u == [n \in 0 .. 0 |-> Opened(Beginning(S))]
  <2>1. \A n \in 0 .. 0 : Step1(u, n) = Opened(Beginning(S))
    OBVIOUS
  <2>2. u = [n \in 0 .. 0 |-> Step1(u, n)]
    <3> HIDE DEF Step1
    <3> QED BY <2>1
  <2>3. Goes(u, S, 0)
    BY <2>2 DEF Goes
  <2> QED BY <2>3
<1>2. ASSUME NEW k \in T
      PROVE  k + 1 \in T
  <2>1. PICK u : Goes(u, S, k)
    OBVIOUS
  <2>0. k \in Nat
    OBVIOUS
  <2> DEFINE v == [n \in 0 .. (k + 1) |-> IF n <= k THEN u[n] ELSE Step1(u, n)]
  <2>2. ASSUME NEW n \in 0 .. (k + 1)
        PROVE  v[n] = Step1(v, n)
    <3>1. CASE n <= k
      <4>1. n \in 0 .. k /\ v[n] = u[n]
        BY <2>0, <3>1
      <4>2. u[n] = Step1(u, n)
        BY <2>0, <2>1, <4>1, GoesAt
      <4>3. n # 0 => v[n - 1] = u[n - 1]
        BY <2>0, <3>1
      <4> HIDE DEF v
      <4> QED BY <4>1, <4>2, <4>3
    <3>2. CASE ~(n <= k)
      <4>1. n = k + 1 /\ n # 0 /\ v[n] = Step1(u, n) /\ v[n - 1] = u[n - 1]
        BY <2>0, <3>2
      <4> HIDE DEF v
      <4> QED BY <4>1
    <3> QED BY <3>1, <3>2
  <2>3. v = [n \in 0 .. (k + 1) |-> Step1(v, n)]
    <3>1. v = [n \in 0 .. (k + 1) |-> v[n]]
      OBVIOUS
    <3> HIDE DEF v, Step1
    <3> QED BY <2>2, <3>1
  <2>4. Goes(v, S, k + 1)
    <3> HIDE DEF v
    <3> QED BY <2>3 DEF Goes
  <2> HIDE DEF v
  <2> QED BY <2>0, <2>4
<1>3. T = Nat
  <2>1. T \in SUBSET Nat
    OBVIOUS
  <2> HIDE DEF T
  <2> QED BY <1>1, <1>2, <2>1, NatInduct
<1> QED BY <1>3

\* ... so that Stream is the value of one.
LEMMA StreamGoes ==
    ASSUME NEW S, S # {}, NEW m \in Nat, m = Max({f.seq : f \in S})
    PROVE  \E u : Goes(u, S, m) /\ Stream(S) = u[m]
<1> DEFINE u == CHOOSE w : Goes(w, S, m)
<1>1. Goes(u, S, m)
  BY GoesExists
<1>2. Stream(S) = u[m]
  BY DEF Stream, Goes
<1> QED BY <1>1, <1>2

\* A file begins behind a hole: everything before it ends earlier.
Late(S, g) ==
    /\ \E f \in S : f.seq < g.seq
    /\ \A f \in S : f.seq < g.seq => f.last + 1 < g.first

\* What the walk knows of the files numbered up to n.
Knows(w, S, n) ==
    LET b == Beginning(S) IN
    /\ Even(w, b)
    /\ \A f \in S : f.seq <= n => f.last <= w.ord
    /\ IF b.seq <= n THEN \E f \in S : f.seq <= n /\ f.last = w.ord ELSE w.ord = b.first - 1
    /\ w.problems > 0 <=> \E g \in S : g.seq <= n /\ Late(S, g)

\* The walk of one content reports a problem exactly when a file of it begins behind a hole,
LEMMA StreamCounts ==
    ASSUME NEW S \in SUBSET Parts, S # {}, IsFiniteSet(S),
           \A f, g \in S : f.seq = g.seq => f = g,
           \A f \in S : f.first <= f.last,
           \A f, g \in S : f.gen = g.gen
    PROVE  Stream(S).problems > 0 <=> \E g \in S : Late(S, g)
<1> DEFINE m == Max({f.seq : f \in S})
           b == Beginning(S)
<1>1. m \in Nat /\ \A f \in S : f.seq <= m
  BY MaxIs
<1>2. b \in S /\ \A f \in S : b.seq <= f.seq
  BY FirstFile
<1>3. /\ \A f \in S : f.seq \in Nat /\ f.seq # 0 /\ f.first \in Nat /\ f.first >= 1 /\ f.last \in Nat
      /\ b \in Parts
  BY <1>2, PartIs
<1>4. \A f \in S : LineBytes(f) = LineBytes(b)
  BY <1>2 DEF LineBytes
<1> HIDE DEF m, b
<1>5. PICK u : Goes(u, S, m) /\ Stream(S) = u[m]
  BY <1>1, StreamGoes DEF m
<1> DEFINE T == {n \in Nat : n <= m => Knows(u[n], S, n)}
<1>6. 0 \in T
  <2>1. 0 \in 0 .. m
    BY <1>1
  <2>2. u[0] = Opened(b)
    BY <1>1, <1>5, <2>1, GoesAt DEF b
  <2>3. /\ Opened(b).ord = b.first - 1 /\ Opened(b).end = Off(b, b.first) /\ Opened(b).problems = 0
        /\ Opened(b).relanded = 0
        /\ Opened(b) = Count(b.first - 1, Off(b, b.first), 0, 0)
    BY DEF Opened, Count
  <2>4. b.first - 1 \in Nat /\ b.first = (b.first - 1) + 1
    BY <1>2, <1>3
  <2>5. Off(b, b.first) = LineBytes(b) * (b.first - 1) /\ Off(b, b.first) \in Int
    <3>1. LineBytes(b) * (b.first - 1) \in Int
      BY <1>3, <2>4, OffIs
    <3> QED BY <3>1 DEF Off
  <2>6. Even(Opened(b), b)
    BY <2>3, <2>4, <2>5 DEF Even, Counts, Count
  <2>7. \A f \in S : ~(f.seq <= 0)
    BY <1>3
  <2> QED BY <1>2, <2>2, <2>3, <2>6, <2>7 DEF Knows, b
<1>7. ASSUME NEW n \in T
      PROVE  n + 1 \in T
  <2>0. n \in Nat /\ n + 1 \in Nat
    OBVIOUS
  <2> SUFFICES ASSUME n + 1 <= m PROVE Knows(u[n + 1], S, n + 1)
    BY <2>0
  <2> DEFINE w == u[n]
             v == u[n + 1]
  <2>1. Knows(w, S, n) /\ n <= m /\ n + 1 \in 0 .. m /\ n + 1 # 0 /\ (n + 1) - 1 = n
    BY <1>1, <2>0
  <2>2. v = IF Numbered(S, n + 1) = {} THEN w
            ELSE Walk(w, CHOOSE f \in Numbered(S, n + 1) : TRUE)
    BY <1>1, <1>5, <2>1, GoesAt
  <2>3. /\ Even(w, b) /\ \A f \in S : f.seq <= n => f.last <= w.ord
        /\ IF b.seq <= n THEN \E f \in S : f.seq <= n /\ f.last = w.ord ELSE w.ord = b.first - 1
        /\ w.problems > 0 <=> \E g \in S : g.seq <= n /\ Late(S, g)
    BY <2>1 DEF Knows, b
  <2> HIDE DEF w, v
  <2> SUFFICES Knows(v, S, n + 1)
    BY DEF v
  <2>4. CASE Numbered(S, n + 1) = {}
    <3>1. \A f \in S : f.seq <= n + 1 <=> f.seq <= n
      BY <1>3, <2>0, <2>4 DEF Numbered
    <3>2. v = w
      BY <2>2, <2>4
    <3> QED BY <1>2, <2>3, <3>1, <3>2 DEF Knows, b
  <2>5. ASSUME NEW f \in Numbered(S, n + 1)
        PROVE  Knows(v, S, n + 1)
    <3>1. f \in S /\ f.seq = n + 1 /\ f \in Parts /\ f.first <= f.last
      BY <2>5 DEF Numbered
    <3>2. Numbered(S, n + 1) = {f}
      BY <3>1 DEF Numbered
    <3>3. v = Walk(w, f)
      BY <2>2, <3>2
    <3>4. Even(w, f)
      BY <1>4, <2>3, <3>1 DEF Even
    <3>5. /\ Even(v, f)
          /\ v.ord = IF f.last <= w.ord THEN w.ord ELSE f.last
          /\ v.problems >= w.problems
          /\ v.problems > w.problems <=> w.ord + 1 < f.first
      BY <3>1, <3>3, <3>4, WalkCounts
    <3>6. /\ w.ord \in Nat /\ w.problems \in Nat /\ v.ord \in Nat /\ v.problems \in Nat
      BY <3>4, <3>5 DEF Even, Counts
    <3>7. \A g \in S : g.seq <= n + 1 <=> g.seq <= n \/ g = f
      BY <1>3, <2>0, <3>1
    <3>8. Even(v, b)
      BY <1>4, <3>1, <3>5 DEF Even
    <3>9. \A g \in S : g.seq <= n + 1 => g.last <= v.ord
      BY <1>3, <2>3, <3>1, <3>5, <3>6, <3>7
    <3>10. f.first \in Nat /\ f.last \in Nat /\ b.seq <= n + 1
      BY <1>2, <1>3, <3>1
    <3>11. \E g \in S : g.seq <= n + 1 /\ g.last = v.ord
      <4>1. CASE b.seq <= n
        BY <2>3, <3>1, <3>5, <3>7, <4>1
      <4>2. CASE ~(b.seq <= n)
        <5>1. b = f
          BY <1>2, <3>7, <3>10, <4>2
        <5>2. w.ord = b.first - 1
          BY <2>3, <4>2
        <5>3. v.ord = f.last
          BY <3>1, <3>5, <3>6, <3>10, <5>1, <5>2
        <5> QED BY <3>1, <3>7, <5>3
      <4> QED BY <4>1, <4>2
    <3>12. w.ord + 1 < f.first <=> Late(S, f)
      <4>1. \A g \in S : g.seq < f.seq <=> g.seq <= n
        BY <1>3, <2>0, <3>1
      <4>2. CASE b.seq <= n
        <5>1. PICK g \in S : g.seq <= n /\ g.last = w.ord
          BY <2>3, <4>2
        <5>2. ASSUME w.ord + 1 < f.first PROVE Late(S, f)
          BY <1>3, <2>3, <3>6, <3>10, <4>1, <5>1, <5>2 DEF Late
        <5>3. ASSUME Late(S, f) PROVE w.ord + 1 < f.first
          BY <4>1, <5>1, <5>3 DEF Late
        <5> QED BY <5>2, <5>3
      <4>3. CASE ~(b.seq <= n)
        <5>1. b = f
          BY <1>2, <3>7, <3>10, <4>3
        <5>2. ~Late(S, f)
          BY <1>2, <1>3, <3>1, <5>1 DEF Late
        <5>3. ~(w.ord + 1 < f.first)
          BY <2>3, <3>10, <4>3, <5>1
        <5> QED BY <5>2, <5>3
      <4> QED BY <4>2, <4>3
    <3>13. v.problems > 0 <=> \E g \in S : g.seq <= n + 1 /\ Late(S, g)
      <4>1. v.problems > 0 <=> w.problems > 0 \/ v.problems > w.problems
        BY <3>5, <3>6
      <4> QED BY <2>3, <3>1, <3>5, <3>7, <3>12, <4>1
    <3> QED BY <3>8, <3>9, <3>10, <3>11, <3>13 DEF Knows, b
  <2> QED BY <2>4, <2>5
<1>8. T = Nat
  <2>1. T \in SUBSET Nat
    OBVIOUS
  <2> HIDE DEF T
  <2> QED BY <1>6, <1>7, <2>1, NatInduct
<1>9. Knows(u[m], S, m)
  <2>1. m \in T /\ m <= m
    BY <1>1, <1>8
  <2> QED BY <2>1
<1> QED BY <1>1, <1>5, <1>9 DEF Knows

\* ... which is when a line between two files is in none.
LEMMA LateIsHole ==
    ASSUME NEW S \in SUBSET Parts, S # {}, \A f \in S : f.first <= f.last,
           \A f, g \in S : f.seq < g.seq => f.first <= g.first,
           \A f, g \in S : f.seq = g.seq => f = g
    PROVE  (\E g \in S : Late(S, g)) <=> Holes(S) # {}
<1>1. \A f \in S : f.seq \in Nat /\ f.first \in Nat /\ f.first >= 1 /\ f.last \in Nat /\ f.last <= MaxLines
  BY PartIs
<1>2. ASSUME NEW g \in S, Late(S, g) PROVE Holes(S) # {}
  <2>1. PICK f \in S : f.seq < g.seq /\ f.last + 1 < g.first
    BY <1>2 DEF Late
  <2> DEFINE n == g.first - 1
  <2>2. n \in 1 .. MaxLines /\ f.first < n /\ n < g.first
    BY <1>1, <2>1, CollectorAssumption
  <2>3. ASSUME NEW h \in S PROVE ~Holds(h, n)
    <3>1. CASE h.seq < g.seq
      BY <1>1, <1>2, <2>3, <3>1 DEF Late, Holds
    <3>2. CASE ~(h.seq < g.seq)
      <4>1. g.first <= h.first
        BY <1>1, <2>3, <3>2
      <4> QED BY <1>1, <2>3, <4>1 DEF Holds
    <3> QED BY <3>1, <3>2
  <2> HIDE DEF n
  <2> QED BY <2>2, <2>3 DEF Holes
<1>3. ASSUME Holes(S) # {} PROVE \E g \in S : Late(S, g)
  <2>1. PICK n \in 1 .. MaxLines : /\ \A f \in S : ~Holds(f, n)
                                   /\ \E f, g \in S : f.first < n /\ n < g.first
    BY <1>3 DEF Holes
  <2>2. PICK f \in S : f.first < n
    BY <2>1
  <2> DEFINE Q == {g \in S : n < g.first}
             g == Beginning(Q)
  <2>3. g \in Q /\ \A h \in Q : g.seq <= h.seq
    <3>1. Q \in SUBSET Parts /\ Q # {}
      BY <2>1
    <3> QED BY <3>1, FirstFile
  <2> HIDE DEF g
  <2>4. f.seq < g.seq
    BY <1>1, <2>1, <2>2, <2>3
  <2>5. ASSUME NEW h \in S, h.seq < g.seq PROVE h.last + 1 < g.first
    <3>1. ~(n < h.first)
      BY <1>1, <2>3, <2>5
    <3>2. h.last < n
      BY <1>1, <2>1, <2>5, <3>1 DEF Holds
    <3> QED BY <1>1, <2>3, <2>5, <3>2
  <2> QED BY <2>3, <2>4, <2>5 DEF Late
<1> QED BY <1>2, <1>3

\* The walk over any of the files landed behind one cursor reports a problem exactly when the
\* files that are missing leave a hole, whatever was landed twice on the way and however the
\* passes were interrupted (verify.go, "only going FORWARDS past unaccounted bytes is data loss").
THEOREM VerifierExact ==
    Spec => []HolesFound
<1>1. Init => WalkInv
  BY SeqInit, CollectorAssumption
  DEF Init, WalkInv, CursorInv, ChunkContinues, CursorBacked, FreshCursor, Brings, Apart, Nonempty, Advance
<1>2. WalkInv /\ [Next]_vars => WalkInv'
  BY WalkStep
<1>3. WalkInv => HolesFound
  <2> SUFFICES ASSUME WalkInv, NEW c \in Paths, OneContent(LandedAt(c)), NEW S \in SUBSET LandedAt(c)
               PROVE  Stream(S).problems > 0 <=> Holes(S) # {}
    BY DEF HolesFound
  <2>1. landed \subseteq Parts /\ IsFiniteSet(landed)
    BY DEF WalkInv, CursorInv, SeqInv, TypeInv, TypeOK
  <2>2. S \in SUBSET Parts /\ S \in SUBSET landed /\ IsFiniteSet(S)
    BY <2>1, FS_Subset DEF LandedAt
  <2>3. CASE S = {}
    BY <2>3 DEF Stream, Holes
  <2>4. CASE S # {}
    <3>1. /\ \A f, g \in S : f.seq = g.seq => f = g
          /\ \A f \in S : f.first <= f.last
          /\ \A f, g \in S : f.gen = g.gen /\ f.src = g.src
      BY <2>2 DEF WalkInv, Apart, Nonempty, OneContent
    <3>2. \A f, g \in S : f.seq < g.seq => f.first <= g.first
      BY <2>2, <3>1 DEF WalkInv, Advance
    <3> QED BY <2>2, <2>4, <3>1, <3>2, StreamCounts, LateIsHole
  <2> QED BY <2>3, <2>4
<1> QED BY <1>1, <1>2, <1>3, PTL DEF Spec
=============================================================================
