--------------------------- MODULE CollectorProofs ---------------------------
(***************************************************************************)
(* Proofs about Collector, for every number of collectors, sources, cursor *)
(* paths and every bound.                                                  *)
(***************************************************************************)
EXTENDS Collector, FiniteSetTheorems, SequenceTheorems, TLAPS

\* A pass that drains a source has one, and between reading a window and committing its
\* cursor it has the window.
Phase ==
    \A p \in Procs :
        /\ pc[p] \in {"tail", "land", "commit"} => src[p] \in Sources
        /\ pc[p] \in {"land", "commit"} =>
              chunk[p] \in [part: Parts, ino: Ids, more: BOOLEAN]

\* The type invariant, made inductive: what a pass holds in each phase, and that
\* finitely many files landed.
TypeInv == TypeOK /\ Phase /\ IsFiniteSet(landed)

\* A function over an initial segment of the naturals is a sequence.
LEMMA FcnIsSeq ==
    ASSUME NEW S, NEW n \in Nat, NEW q \in [1 .. n -> S]
    PROVE  q \in Seq(S)
  OBVIOUS

\* What LandedAbove lists is a sequence of landed files.
LEMMA LandedAboveType ==
    ASSUME TypeInv, NEW n, NEW q \in LandedAbove(n)
    PROVE  q \in Seq(Parts)
<1> DEFINE S == {f \in landed : f.seq > n}
<1>1. IsFiniteSet(S)
  BY FS_Subset DEF TypeInv
<1>2. Cardinality(S) \in Nat
  BY <1>1, FS_CardinalityType
<1>3. q \in [1 .. Cardinality(S) -> S]
  BY DEF LandedAbove, InSeqOrder
<1>4. S \subseteq Parts
  BY DEF TypeInv, TypeOK
<1>5. q \in [1 .. Cardinality(S) -> Parts]
  BY <1>3, <1>4
<1>6. QED
  BY <1>2, <1>5, FcnIsSeq

\* The drain loop of a source ends in a well-typed state.
LEMMA SourceDoneType ==
    ASSUME TypeInv, NEW p \in Procs, NEW ok \in BOOLEAN, SourceDone(p, ok)
    PROVE  /\ todo' \in [Procs -> SUBSET Sources]
           /\ src' \in [Procs -> Sources \cup {None}]
           /\ rounds' \in [Procs -> 0 .. MaxDrain]
           /\ chunk' \in [Procs -> [part: Parts, ino: Ids, more: BOOLEAN] \cup {NoChunk}]
           /\ report' \in [Procs -> {"none", "complete", "incomplete", "busy"}]
           /\ pc' \in [Procs -> PCs]
           /\ Phase'
  BY CollectorAssumption DEF SourceDone, Verdict, TypeInv, TypeOK, Phase, PCs

LEMMA ForgetType ==
    ASSUME TypeInv, NEW p \in Procs, Forget(p)
    PROVE  /\ lock' \in Procs \cup {None}
           /\ pc' \in [Procs -> PCs]
           /\ todo' \in [Procs -> SUBSET Sources]
           /\ claimed' \in [Procs -> SUBSET Sources]
           /\ src' \in [Procs -> Sources \cup {None}]
           /\ rounds' \in [Procs -> 0 .. MaxDrain]
           /\ chunk' \in [Procs -> [part: Parts, ino: Ids, more: BOOLEAN] \cup {NoChunk}]
           /\ next' \in [Procs -> Nat \ {0}]
           /\ ix' \in [Procs -> Seq(Parts)]
           /\ mark' \in [Procs -> Nat \cup {NoMark}]
           /\ dirty' \in [Procs -> BOOLEAN]
           /\ goal' \in [Procs -> Files]
           /\ Phase'
  BY CollectorAssumption DEF Forget, TypeInv, TypeOK, Phase, PCs, Files, NoFiles, Gens

\* What the runtime does to one source's file keeps the files well typed.
LEMMA FileType ==
    ASSUME TypeInv, NEW s \in Sources, Grow(s) \/ Replace(s) \/ Rewrite(s) \/ Prune(s)
    PROVE  file' \in Files
<1>0. file \in [Sources -> [ino: Ids \cup {None}, gen: Gens, len: 0 .. MaxLines]]
  BY DEF TypeInv, TypeOK, Files
<1>1. CASE Grow(s)
  <2>1. file[s].len + 1 \in 0 .. MaxLines
    BY <1>0, <1>1, CollectorAssumption DEF Grow
  <2>2. file' = [file EXCEPT ![s].len = file[s].len + 1]
    BY <1>1, Zenon DEF Grow
  <2>3. QED
    BY <1>0, <2>1, <2>2, Zenon DEF Files
<1>2. CASE Replace(s)
  <2>1. PICK n \in 0 .. (IF Appends(s) THEN MaxLines ELSE 1) :
            file' = [file EXCEPT ![s] = [ino |-> <<s, file[s].gen + 1>>, gen |-> file[s].gen + 1,
                                         len |-> n]]
    BY <1>2, Zenon DEF Replace
  <2>2. n \in 0 .. MaxLines
    BY CollectorAssumption
  <2>3. file[s].gen + 1 \in Gens /\ <<s, file[s].gen + 1>> \in Ids
    BY <1>0, <1>2, CollectorAssumption DEF Replace, Gens, Ids
  <2>4. QED
    BY <1>0, <2>1, <2>2, <2>3, Zenon DEF Files
<1>3. CASE Rewrite(s)
  <2>1. PICK n \in 0 .. (IF Appends(s) THEN MaxLines ELSE 1) :
            file' = [file EXCEPT ![s].gen = file[s].gen + 1, ![s].len = n]
    BY <1>3, Zenon DEF Rewrite
  <2>2. n \in 0 .. MaxLines
    BY CollectorAssumption
  <2>3. file[s].gen + 1 \in Gens
    <3>1. file[s].gen < MaxGen
      BY <1>3, Zenon DEF Rewrite
    <3>2. QED
      BY <1>0, <3>1, CollectorAssumption DEF Gens
  <2>4. QED
    BY <1>0, <2>1, <2>2, <2>3, Zenon DEF Files
<1>4. CASE Prune(s)
  <2>1. file' = [file EXCEPT ![s].ino = None, ![s].len = 0]
    BY <1>4, Zenon DEF Prune
  <2>2. 0 \in 0 .. MaxLines
    BY CollectorAssumption
  <2>3. QED
    BY <1>0, <2>1, <2>2, Zenon DEF Files
<1>5. QED
  BY <1>1, <1>2, <1>3, <1>4

\* Saving a well-typed cursor keeps the cursors well typed.
LEMMA CursorType ==
    ASSUME TypeInv, NEW p \in Procs, src[p] \in Sources, NEW c \in Cursors, SetCursor(p, c)
    PROVE  cursor' \in [Paths -> Cursors]
  BY CollectorAssumption DEF TypeInv, TypeOK, SetCursor

\* The cursor of the source a pass drains, and what becomes of it, are cursors.
LEMMA CursorStateType ==
    ASSUME TypeInv, NEW p \in Procs, src[p] \in Sources,
           NEW st \in {"active", "source_gone", "conflict"}, NEW d \in Ids \cup {None}
    PROVE  /\ Cur(p) \in Cursors
           /\ [Cur(p) EXCEPT !.state = st] \in Cursors
           /\ [Cur(p) EXCEPT !.dig = d, !.state = st] \in Cursors
<1>1. Cur(p) \in Cursors
  BY CollectorAssumption DEF TypeInv, TypeOK, Cur
<1>2. [Cur(p) EXCEPT !.state = st] \in Cursors
  BY <1>1 DEF Cursors
<1>3. [Cur(p) EXCEPT !.dig = d, !.state = st] \in Cursors
  BY <1>1 DEF Cursors
<1>4. QED
  BY <1>1, <1>2, <1>3

\* The rows of a window that a broken write reached are a part.
LEMMA PartPrefix ==
    ASSUME NEW k \in Parts, NEW n \in k.first .. k.last
    PROVE  [k EXCEPT !.last = n] \in Parts
<1>1. k.first \in 1 .. MaxLines /\ k.last \in 1 .. MaxLines
  BY DEF Parts
<1>2. n \in 1 .. MaxLines
  BY <1>1, CollectorAssumption
<1>3. QED
  BY <1>2 DEF Parts

\* What a cursor becomes after its window landed is a cursor.
LEMMA CommittedType ==
    ASSUME TypeInv, NEW p \in Procs, src[p] \in Sources,
           chunk[p] \in [part: Parts, ino: Ids, more: BOOLEAN]
    PROVE  Committed(p) \in Cursors
<1> DEFINE k == chunk[p].part
<1>1. k \in Parts /\ k.src \in Sources /\ k.gen \in Gens /\ k.last \in 0 .. MaxLines
  BY CollectorAssumption DEF Parts
<1>2. chunk[p].ino \in Ids
  OBVIOUS
<1>3. DigestNow(src[p], k.last) \in Ids \cup {None}
  BY CollectorAssumption
  DEF DigestNow, Content, Garbled, Ids, Gens, TypeInv, TypeOK, Files
<1>4. <<k.src, k.gen>> \in Ids
  BY <1>1, CollectorAssumption DEF Ids, Gens
<1>5. CASE Appends(src[p])
  BY <1>1, <1>2, <1>3, <1>5 DEF Committed, Cursors
<1>6. CASE ~Appends(src[p])
  BY <1>4, <1>6, CursorStateType DEF Committed
<1>7. QED
  BY <1>5, <1>6

LEMMA InitType == Init => TypeInv
  BY CollectorAssumption, FS_EmptySet
  DEF Init, TypeInv, TypeOK, Phase, PCs, Files, NoFiles, Gens, Cursors, FreshCursor, NoMark, NoIndex

\* Every step keeps the type invariant.
LEMMA StepType ==
    ASSUME TypeInv, [Next]_vars
    PROVE  TypeInv'
<1> USE CollectorAssumption DEF TypeInv, TypeOK, Phase, env, zone, mem, passes, budgets
<1>1. ASSUME NEW s \in Sources, Grow(s) PROVE TypeInv'
  <2>1. file' \in Files
    BY <1>1, FileType
  <2>2. QED
    BY <1>1, <2>1 DEF Grow
<1>2. ASSUME NEW s \in Sources, Replace(s) PROVE TypeInv'
  <2>1. file' \in Files
    BY <1>2, FileType
  <2>2. QED
    BY <1>2, <2>1 DEF Replace
<1>3. ASSUME NEW s \in Sources, Rewrite(s) PROVE TypeInv'
  <2>1. file' \in Files
    BY <1>3, FileType
  <2>2. QED
    BY <1>3, <2>1 DEF Rewrite
<1>4. ASSUME NEW s \in Sources, Prune(s) PROVE TypeInv'
  <2>1. file' \in Files
    BY <1>4, FileType
  <2>2. QED
    BY <1>4, <2>1 DEF Prune
<1>5. CASE DropIndex
  BY <1>5 DEF DropIndex
<1>6. ASSUME NEW p \in Procs, Begin(p) PROVE TypeInv'
  BY <1>6 DEF Begin, PCs
<1>7. ASSUME NEW p \in Procs, Busy(p) PROVE TypeInv'
  BY <1>7 DEF Busy
<1>8. ASSUME NEW p \in Procs, LoadState(p) PROVE TypeInv'
  <2>1. PICK n \in RecoverNextSeq(nextFile) : next' = [next EXCEPT ![p] = n]
    BY <1>8 DEF LoadState
  <2>2. n \in Nat \ {0}
    BY <2>1 DEF RecoverNextSeq, Parts
  <2>3. QED
    BY <1>8, <2>1, <2>2 DEF LoadState, PCs
<1>9. ASSUME NEW p \in Procs, LoadIndex(p) PROVE TypeInv'
  <2> DEFINE usable == Usable(p)
             from   == IF usable THEN mark[p] ELSE 0
             gap    == Gap(from, next[p])
             base   == IF usable THEN ixFile ELSE <<>>
  <2>1. PICK found \in (IF gap THEN LandedAbove(from) ELSE {<<>>}) :
            ix' = [ix EXCEPT ![p] = base \o found]
    BY <1>9 DEF LoadIndex
  <2>2. found \in Seq(Parts)
    <3>1. CASE gap
      BY <2>1, <3>1, LandedAboveType, Zenon
    <3>2. CASE ~gap
      BY <2>1, <3>2
    <3>3. QED
      BY <3>1, <3>2
  <2>3. base \in Seq(Parts)
    BY <1>9 DEF Usable
  <2>4. base \o found \in Seq(Parts)
    BY <2>2, <2>3
  <2>5. ix' \in [Procs -> Seq(Parts)]
    BY <2>1, <2>4
  <2>6. mark' \in [Procs -> Nat \cup {NoMark}]
    BY <1>9 DEF LoadIndex, NoMark
  <2>7. QED
    BY SMTT(30), <1>9, <2>5, <2>6 DEF LoadIndex, PCs, Gap
<1>10. ASSUME NEW p \in Procs, NEW s \in Sources, Refuse(p, s) PROVE TypeInv'
  BY <1>10 DEF Refuse
<1>11. ASSUME NEW p \in Procs, NEW s \in Sources, Claim(p, s) PROVE TypeInv'
  BY <1>11 DEF Claim, PCs
<1>12. ASSUME NEW p \in Procs, SkipConflicted(p) PROVE TypeInv'
  BY <1>12, SourceDoneType DEF SkipConflicted
<1>13. ASSUME NEW p \in Procs, MarkGone(p) PROVE TypeInv'
  <2>1. cursor' \in [Paths -> Cursors]
    BY <1>13, CursorStateType, CursorType DEF MarkGone
  <2>2. QED
    BY <1>13, <2>1, SourceDoneType DEF MarkGone
<1>14. ASSUME NEW p \in Procs, FlagConflict(p) PROVE TypeInv'
  <2>1. cursor' \in [Paths -> Cursors]
    BY <1>14, CursorStateType, CursorType DEF FlagConflict
  <2>2. QED
    BY <1>14, <2>1, SourceDoneType DEF FlagConflict
<1>15. ASSUME NEW p \in Procs, ReadNothing(p) PROVE TypeInv'
  BY <1>15, SourceDoneType DEF ReadNothing
<1>16. ASSUME NEW p \in Procs, Read(p) PROVE TypeInv'
  <2> DEFINE s == src[p]
             f == file[s]
             from == IF Appends(s) THEN Cur(p).off + 1 ELSE 1
             to == IF Appends(s) /\ f.len >= from + Window THEN from + Window - 1 ELSE f.len
             k == [seq |-> next[p], src |-> s, gen |-> f.gen, first |-> from, last |-> to]
  <2>1. s \in Sources /\ Present(s)
    BY <1>16 DEF Read, Readable
  <2>2. f.gen \in Gens /\ f.len \in 0 .. MaxLines /\ f.ino \in Ids
    BY <2>1 DEF Files, Present
  <2>3. from \in 1 .. MaxLines /\ to \in 1 .. MaxLines
    <3>1. Cur(p).off \in 0 .. MaxLines
      BY <2>1, CursorStateType DEF Cursors
    <3>2. CASE Appends(s)
      <4>1. f.len > Cur(p).off
        BY <1>16, <3>2 DEF Read, Unread
      <4>2. QED
        <5>1. \A o, l \in 0 .. MaxLines : l > o =>
                 /\ o + 1 \in 1 .. MaxLines /\ l \in 1 .. MaxLines
                 /\ l >= o + 1 + Window => o + 1 + Window - 1 \in 1 .. MaxLines
          OBVIOUS
        <5>2. QED
          BY <2>2, <3>1, <3>2, <4>1, <5>1, Zenon
    <3>3. CASE ~Appends(s)
      <4>1. f.len > 0
        BY <1>16, <3>3 DEF Read, Unread
      <4>2. QED
        BY <2>2, <3>3, <4>1
    <3>4. QED
      BY <3>2, <3>3
  <2>4. k \in Parts
    BY <2>1, <2>2, <2>3 DEF Parts
  <2>5. (to < f.len) \in BOOLEAN
    OBVIOUS
  <2>6. [part |-> k, ino |-> f.ino, more |-> to < f.len] \in [part: Parts, ino: Ids, more: BOOLEAN]
    BY <2>2, <2>4, <2>5
  <2>7. chunk' = [chunk EXCEPT ![p] = [part |-> k, ino |-> f.ino, more |-> to < f.len]]
    BY <1>16 DEF Read
  <2> HIDE DEF k
  <2>8. /\ chunk' \in [Procs -> [part: Parts, ino: Ids, more: BOOLEAN] \cup {NoChunk}]
        /\ chunk'[p] \in [part: Parts, ino: Ids, more: BOOLEAN]
        /\ \A q \in Procs \ {p} : chunk'[q] = chunk[q]
    BY <2>6, <2>7
  <2>9. QED
    BY SMTT(30), <1>16, <2>1, <2>8 DEF Read, PCs
<1>17. ASSUME NEW p \in Procs, Land(p) PROVE TypeInv'
  <2>1. chunk[p].part \in Parts
    BY <1>17 DEF Land
  <2>2. landed' \subseteq Parts /\ IsFiniteSet(landed')
    <3>1. landed' = landed \cup {chunk[p].part}
      BY <1>17, Zenon DEF Land
    <3>2. IsFiniteSet(landed \cup {chunk[p].part})
      BY FS_AddElement, Zenon
    <3>3. landed \cup {chunk[p].part} \subseteq Parts
      BY <2>1, Zenon
    <3>4. QED
      BY <3>1, <3>2, <3>3, Zenon
  <2>3. ix' \in [Procs -> Seq(Parts)]
    BY <1>17, <2>1 DEF Land, IndexedPart
  <2>4. QED
    BY <1>17, <2>2, <2>3 DEF Land, PCs
<1>18. ASSUME NEW p \in Procs, LandFails(p) PROVE TypeInv'
  <2> DEFINE k == chunk[p].part
  <2>1. k \in Parts
    BY <1>18 DEF LandFails
  <2>2. PICK n \in k.first - 1 .. k.last :
            ix' = [ix EXCEPT ![p] = IF n < k.first THEN ix[p] ELSE Append(ix[p], [k EXCEPT !.last = n])]
    BY <1>18 DEF LandFails
  <2>3. n >= k.first => [k EXCEPT !.last = n] \in Parts
    BY SMTT(30), <2>1, <2>2, PartPrefix
  <2> HIDE DEF k
  <2>4. n \in Int /\ k.first \in Int
    BY <2>1, <2>2 DEF Parts
  <2>5. ix' \in [Procs -> Seq(Parts)]
    <3>1. CASE n < k.first
      BY <2>2, <3>1
    <3>2. CASE n >= k.first
      <4>1. Append(ix[p], [k EXCEPT !.last = n]) \in Seq(Parts)
        BY <2>3, <3>2
      <4>2. ix' = [ix EXCEPT ![p] = Append(ix[p], [k EXCEPT !.last = n])]
        <5>1. ~(n < k.first)
          BY <2>4, <3>2
        <5>2. QED
          BY <2>2, <5>1, Zenon
      <4>3. QED
        BY <4>1, <4>2
    <3>3. QED
      BY <2>4, <3>1, <3>2
  <2>6. SourceDone(p, FALSE) /\ FALSE \in BOOLEAN
    BY <1>18 DEF LandFails
  <2>7. faults' \in 0 .. MaxFaults
    BY <1>18 DEF LandFails
  <2>8. QED
    BY <1>18, <2>5, <2>6, <2>7, SourceDoneType DEF LandFails
<1>19. ASSUME NEW p \in Procs, Commit(p) PROVE TypeInv'
  <2>1. src[p] \in Sources /\ chunk[p] \in [part: Parts, ino: Ids, more: BOOLEAN]
    BY <1>19 DEF Commit
  <2>2. Committed(p) \in Cursors
    BY <2>1, CommittedType
  <2>3. cursor' \in [Paths -> Cursors]
    BY <1>19, <2>1, <2>2, CursorType DEF Commit
  <2>4. CASE Drains(p)
    <3>1. rounds' \in [Procs -> 0 .. MaxDrain]
      <4>1. rounds[p] + 1 \in 0 .. MaxDrain
        BY <2>4 DEF Drains
      <4>2. rounds' = [rounds EXCEPT ![p] = rounds[p] + 1]
        BY <1>19, <2>4, Zenon DEF Commit
      <4>3. QED
        BY <4>1, <4>2
    <3>2. /\ pc' = [pc EXCEPT ![p] = "tail"] /\ chunk' = [chunk EXCEPT ![p] = NoChunk]
          /\ todo' = todo /\ src' = src /\ report' = report
      BY <1>19, <2>4, Zenon DEF Commit
    <3>3. dirty' \in [Procs -> BOOLEAN]
      BY <1>19 DEF Commit
    <3>4. pc' \in [Procs -> PCs]
      BY <3>2 DEF PCs
    <3>5. chunk' \in [Procs -> [part: Parts, ino: Ids, more: BOOLEAN] \cup {NoChunk}]
      BY <3>2
    <3>6. Phase'
      BY <2>1, <3>2 DEF Phase
    <3>7. UNCHANGED <<env, landed, ixFile, ixMark, nextFile, budgets, lock, goal, claimed, next, ix, mark>>
      BY <1>19 DEF Commit
    <3>8. QED
      BY <2>3, <3>1, <3>2, <3>3, <3>4, <3>5, <3>6, <3>7
  <2>5. CASE ~Drains(p)
    <3>1. (~chunk[p].more) \in BOOLEAN /\ SourceDone(p, ~chunk[p].more)
      BY <1>19, <2>5 DEF Commit
    <3>2. QED
      BY <1>19, <2>3, <3>1, SourceDoneType DEF Commit
  <2>6. QED
    BY <2>4, <2>5
<1>20. ASSUME NEW p \in Procs, CommitFails(p) \/ TailFails(p) PROVE TypeInv'
  <2>1. SourceDone(p, FALSE) /\ FALSE \in BOOLEAN
    BY <1>20 DEF CommitFails, TailFails
  <2>2. faults' \in 0 .. MaxFaults
    <3>1. faults < MaxFaults /\ faults' = faults + 1
      BY <1>20, Zenon DEF CommitFails, TailFails
    <3>2. QED
      BY <3>1
  <2>3. QED
    BY <1>20, <2>1, <2>2, SourceDoneType DEF CommitFails, TailFails
<1>21. ASSUME NEW p \in Procs, WriteIndex(p) PROVE TypeInv'
  BY <1>21 DEF WriteIndex, CoveredTo, PCs
<1>22. ASSUME NEW p \in Procs, SaveMark(p) PROVE TypeInv'
  BY <1>22 DEF SaveMark, PCs
<1>23. ASSUME NEW p \in Procs, Finish(p) PROVE TypeInv'
  BY <1>23, ForgetType DEF Finish
<1>24. ASSUME NEW p \in Procs, Stop(p) PROVE TypeInv'
  <2>1. /\ UNCHANGED <<file, cursor, landed, nextFile, ixFile, ixMark, faults, drops>>
        /\ report' = [report EXCEPT ![p] = "incomplete"]
    BY <1>24, Zenon DEF Stop
  <2>2. stops' \in 0 .. MaxStops
    <3>1. stops < MaxStops /\ stops' = stops + 1
      BY <1>24, Zenon DEF Stop
    <3>2. QED
      BY <3>1
  <2>3. Forget(p)
    BY <1>24, Zenon DEF Stop
  <2>4. QED
    BY <2>1, <2>2, <2>3, ForgetType
<1>25. CASE UNCHANGED vars
  BY <1>25 DEF vars
<1>26. QED
  BY <1>1, <1>2, <1>3, <1>4, <1>5, <1>6, <1>7, <1>8, <1>9, <1>10, <1>11, <1>12, <1>13, <1>14,
     <1>15, <1>16, <1>17, <1>18, <1>19, <1>20, <1>21, <1>22, <1>23, <1>24, <1>25
  DEF Next, Environment, Step, Fault

\* Every state of a behaviour is well typed: no pass ever reads a source outside its
\* bounds, loses its source in the middle of a window, or spends more windows on one
\* source than the drain loop allows (collect.go, collectSession).
THEOREM TypeCorrect == Spec => []TypeOK
<1>1. Init => TypeInv
  BY InitType
<1>2. TypeInv /\ [Next]_vars => TypeInv'
  BY StepType
<1>3. TypeInv => TypeOK
  BY DEF TypeInv
<1>4. QED
  BY <1>1, <1>2, <1>3, PTL DEF Spec
-----------------------------------------------------------------------------
(***************************************************************************)
(* The sequence grows.  The lock makes a pass alone, its counter stays     *)
(* above everything landed from the moment it is recovered, and the number *)
(* of the window it is about to land is between the two.                   *)
(***************************************************************************)

\* Only the holder of the lock has a pass.
Alone == \A p \in Procs : pc[p] # "idle" => lock = p

\* The counter of a pass is above everything landed.
CounterAbove ==
    \A p \in Procs : pc[p] \in {"loaded", "sources", "tail", "land", "commit"} =>
        \A f \in landed : f.seq < next[p]

\* The sequence of a window that has not landed is taken, and used by no file.
ChunkAbove ==
    \A p \in Procs : pc[p] = "land" =>
        /\ chunk[p].part.seq < next[p]
        /\ \A f \in landed : f.seq < chunk[p].part.seq

SeqInv == TypeInv /\ Alone /\ CounterAbove /\ ChunkAbove

LEMMA SeqInit == Init => SeqInv
  BY InitType DEF Init, SeqInv, Alone, CounterAbove, ChunkAbove

LEMMA SeqStep ==
    ASSUME SeqInv, [Next]_vars
    PROVE  Alone' /\ CounterAbove' /\ ChunkAbove'
<1> USE CollectorAssumption
    DEF SeqInv, Alone, CounterAbove, ChunkAbove, TypeInv, TypeOK,
        env, zone, mem, passes, budgets
<1> DEFINE Goal == Alone' /\ CounterAbove' /\ ChunkAbove'
<1>1. ASSUME NEW s \in Sources, Grow(s) \/ Replace(s) \/ Rewrite(s) \/ Prune(s) PROVE Goal
  BY <1>1 DEF Grow, Replace, Rewrite, Prune
<1>2. CASE DropIndex
  BY <1>2 DEF DropIndex
<1>3. ASSUME NEW p \in Procs, Begin(p) PROVE Goal
  BY <1>3 DEF Begin, LockFree
<1>4. ASSUME NEW p \in Procs, Busy(p) PROVE Goal
  BY <1>4 DEF Busy
<1>5. ASSUME NEW p \in Procs, LoadState(p) PROVE Goal
  BY <1>5 DEF LoadState, RecoverNextSeq
<1>6. ASSUME NEW p \in Procs, LoadIndex(p) PROVE Goal
  BY <1>6 DEF LoadIndex
<1>7. ASSUME NEW p \in Procs, NEW s \in Sources, Refuse(p, s) PROVE Goal
  BY <1>7 DEF Refuse
<1>8. ASSUME NEW p \in Procs, NEW s \in Sources, Claim(p, s) PROVE Goal
  BY <1>8 DEF Claim
<1>9. ASSUME NEW p \in Procs, SkipConflicted(p) PROVE Goal
  BY <1>9 DEF SkipConflicted, SourceDone
<1>10. ASSUME NEW p \in Procs, MarkGone(p) PROVE Goal
  BY <1>10 DEF MarkGone, SourceDone
<1>11. ASSUME NEW p \in Procs, FlagConflict(p) PROVE Goal
  BY <1>11 DEF FlagConflict, SourceDone
<1>12. ASSUME NEW p \in Procs, ReadNothing(p) PROVE Goal
  BY <1>12 DEF ReadNothing, Readable, SourceDone
<1>13. ASSUME NEW p \in Procs, Read(p) PROVE Goal
  <2>1. pc[p] = "tail" /\ src[p] \in Sources
    BY <1>13 DEF Read, Readable, Phase
  <2>2. chunk'[p].part.seq = next[p]
    BY <1>13, Zenon DEF Read
  <2>3. /\ \A q \in Procs \ {p} : chunk'[q] = chunk[q]
        /\ next' = [next EXCEPT ![p] = next[p] + 1]
        /\ pc' = [pc EXCEPT ![p] = "land"]
        /\ lock' = lock /\ landed' = landed
    BY <1>13 DEF Read
  <2>4. /\ next[p] \in Nat /\ next'[p] = next[p] + 1 /\ pc'[p] = "land"
        /\ \A q \in Procs \ {p} : next'[q] = next[q] /\ pc'[q] = pc[q]
    BY <2>3
  <2>5. \A f \in landed : f.seq \in Nat /\ f.seq < next[p]
    BY <2>1 DEF Parts
  <2>6. Alone'
    BY <2>1, <2>3, <2>4
  <2>7. CounterAbove'
    BY <2>3, <2>4, <2>5
  <2>8. ChunkAbove'
    BY <2>2, <2>3, <2>4, <2>5
  <2>9. QED
    BY <2>6, <2>7, <2>8
<1>14. ASSUME NEW p \in Procs, Land(p) PROVE Goal
  BY ZenonT(60), <1>14 DEF Land
<1>15. ASSUME NEW p \in Procs, LandFails(p) PROVE Goal
  BY <1>15 DEF LandFails, SourceDone
<1>16. ASSUME NEW p \in Procs, Commit(p) PROVE Goal
  BY ZenonT(60), <1>16 DEF Commit, SourceDone
<1>17. ASSUME NEW p \in Procs, CommitFails(p) \/ TailFails(p) PROVE Goal
  BY ZenonT(60), <1>17 DEF CommitFails, TailFails, SourceDone
<1>18. ASSUME NEW p \in Procs, WriteIndex(p) PROVE Goal
  BY <1>18 DEF WriteIndex
<1>19. ASSUME NEW p \in Procs, SaveMark(p) PROVE Goal
  BY <1>19 DEF SaveMark
<1>20. ASSUME NEW p \in Procs, Finish(p) PROVE Goal
  BY <1>20 DEF Finish, Forget
<1>21. ASSUME NEW p \in Procs, Stop(p) PROVE Goal
  BY <1>21 DEF Stop, Forget
<1>22. CASE UNCHANGED vars
  BY <1>22 DEF vars
<1>23. QED
  BY <1>1, <1>2, <1>3, <1>4, <1>5, <1>6, <1>7, <1>8, <1>9, <1>10, <1>11, <1>12, <1>13, <1>14, <1>15, <1>16, <1>17, <1>18, <1>19, <1>20, <1>21, <1>22
  DEF Next, Environment, Step, Fault

LEMMA SeqInductive == Spec => []SeqInv
<1>1. SeqInv /\ [Next]_vars => SeqInv'
  BY SeqStep, StepType DEF SeqInv
<1>2. QED
  BY <1>1, SeqInit, PTL DEF Spec

\* No other action lands a file.
LEMMA OnlyLands ==
    ASSUME [Next]_vars, NEW f \in landed' \ landed
    PROVE  \E p \in Procs : Land(p)
<1> SUFFICES ASSUME \A p \in Procs : ~Land(p) PROVE landed' = landed
  OBVIOUS
<1> USE DEF env, zone, mem, passes, budgets
<1>1. CASE UNCHANGED vars
  BY <1>1 DEF vars
<1>2. CASE Environment
  BY <1>2 DEF Environment, Grow, Replace, Rewrite, Prune, DropIndex
<1>3. ASSUME NEW p \in Procs, Step(p) PROVE landed' = landed
  BY <1>3 DEF Step, Begin, LoadState, LoadIndex, Refuse, Claim, SkipConflicted, MarkGone,
     FlagConflict, ReadNothing, Read, Commit, WriteIndex, SaveMark, Finish
<1>4. ASSUME NEW p \in Procs, Fault(p) PROVE landed' = landed
  BY <1>4 DEF Fault, Busy, TailFails, LandFails, CommitFails, Stop
<1>5. QED
  BY <1>1, <1>2, <1>3, <1>4 DEF Next

\* A file lands above everything landed before it, whichever collector lands it and
\* whatever was interrupted: one watermark is enough to know what has been read
\* (state.go, RecoverNextSeq).
THEOREM LandsAbove == Spec => SequenceGrows
<1>1. SeqInv /\ [Next]_vars => [\A f \in landed' \ landed : \A g \in landed : g.seq < f.seq]_vars
  <2> SUFFICES ASSUME SeqInv, [Next]_vars, NEW f \in landed' \ landed, NEW g \in landed
               PROVE  g.seq < f.seq
    OBVIOUS
  <2>1. PICK p \in Procs : Land(p)
    BY OnlyLands
  <2>2. QED
    BY <2>1 DEF Land, SeqInv, ChunkAbove
<1>2. QED
  BY <1>1, SeqInductive, PTL DEF SequenceGrows, Spec
-----------------------------------------------------------------------------
(***************************************************************************)
(* Land before commit.  The window a pass holds continues its cursor, and  *)
(* it has landed by the time the cursor moves over it; nobody else moves   *)
(* that cursor, because the pass is alone.                                 *)
(***************************************************************************)

\* The window in hand is of the source in hand and, in an append source, starts right
\* behind its cursor; when the cursor is to be committed, it has landed.
ChunkContinues ==
    \A p \in Procs : pc[p] \in {"land", "commit"} =>
        /\ chunk[p].part.src = src[p]
        /\ Appends(src[p]) => chunk[p].part.first = Cur(p).off + 1
        /\ pc[p] = "commit" => chunk[p].part \in landed

CursorInv == SeqInv /\ ChunkContinues /\ CursorBacked

LEMMA ContinuesStep ==
    ASSUME CursorInv, [Next]_vars
    PROVE  ChunkContinues'
<1> USE CollectorAssumption
    DEF CursorInv, SeqInv, Alone, ChunkContinues, TypeInv, TypeOK, Phase, Cur,
        env, zone, mem, passes, budgets
<1>1. ASSUME NEW s \in Sources, Grow(s) \/ Replace(s) \/ Rewrite(s) \/ Prune(s)
      PROVE  ChunkContinues'
  BY <1>1 DEF Grow, Replace, Rewrite, Prune, Appends
<1>2. CASE DropIndex
  BY <1>2 DEF DropIndex, Appends
<1>3. ASSUME NEW p \in Procs, Begin(p) PROVE ChunkContinues'
  BY <1>3 DEF Begin, LockFree, Appends
<1>4. ASSUME NEW p \in Procs, Busy(p) PROVE ChunkContinues'
  BY <1>4 DEF Busy, Appends
<1>5. ASSUME NEW p \in Procs, LoadState(p) PROVE ChunkContinues'
  BY <1>5 DEF LoadState, Appends
<1>6. ASSUME NEW p \in Procs, LoadIndex(p) PROVE ChunkContinues'
  BY <1>6 DEF LoadIndex, Appends
<1>7. ASSUME NEW p \in Procs, NEW s \in Sources, Refuse(p, s) PROVE ChunkContinues'
  BY <1>7 DEF Refuse, Appends
<1>8. ASSUME NEW p \in Procs, NEW s \in Sources, Claim(p, s) PROVE ChunkContinues'
  BY <1>8 DEF Claim, Appends
<1>9. ASSUME NEW p \in Procs, SkipConflicted(p) PROVE ChunkContinues'
  BY <1>9 DEF SkipConflicted, SourceDone, Appends
<1>10. ASSUME NEW p \in Procs, MarkGone(p) PROVE ChunkContinues'
  BY ZenonT(60), <1>10 DEF MarkGone, SourceDone, SetCursor, Appends
<1>11. ASSUME NEW p \in Procs, FlagConflict(p) PROVE ChunkContinues'
  BY ZenonT(60), <1>11 DEF FlagConflict, SourceDone, SetCursor, Appends
<1>12. ASSUME NEW p \in Procs, ReadNothing(p) PROVE ChunkContinues'
  BY <1>12 DEF ReadNothing, Readable, SourceDone, Appends
<1>13. ASSUME NEW p \in Procs, Read(p) PROVE ChunkContinues'
  BY <1>13 DEF Read, Readable, Appends
<1>14. ASSUME NEW p \in Procs, Land(p) PROVE ChunkContinues'
  BY <1>14 DEF Land, Appends
<1>15. ASSUME NEW p \in Procs, LandFails(p) PROVE ChunkContinues'
  BY <1>15 DEF LandFails, SourceDone, Appends
<1>16. ASSUME NEW p \in Procs, Commit(p) PROVE ChunkContinues'
  <2>1. pc' = [pc EXCEPT ![p] = "tail"] \/ pc' = [pc EXCEPT ![p] = "sources"]
    BY <1>16 DEF Commit, SourceDone
  <2>2. \A q \in Procs \ {p} : pc[q] = "idle"
    BY <1>16 DEF Commit
  <2>3. \A q \in Procs : pc'[q] \notin {"land", "commit"}
    BY ZenonT(60), <2>1, <2>2
  <2>4. QED
    BY <2>3, Zenon
<1>17. ASSUME NEW p \in Procs, CommitFails(p) \/ TailFails(p) PROVE ChunkContinues'
  BY ZenonT(60), <1>17 DEF CommitFails, TailFails, SourceDone, Appends
<1>18. ASSUME NEW p \in Procs, WriteIndex(p) PROVE ChunkContinues'
  BY <1>18 DEF WriteIndex, Appends
<1>19. ASSUME NEW p \in Procs, SaveMark(p) PROVE ChunkContinues'
  BY <1>19 DEF SaveMark, Appends
<1>20. ASSUME NEW p \in Procs, Finish(p) PROVE ChunkContinues'
  BY <1>20 DEF Finish, Forget, Appends
<1>21. ASSUME NEW p \in Procs, Stop(p) PROVE ChunkContinues'
  BY <1>21 DEF Stop, Forget, Appends
<1>22. CASE UNCHANGED vars
  BY <1>22 DEF vars, Appends
<1>23. QED
  BY <1>1, <1>2, <1>3, <1>4, <1>5, <1>6, <1>7, <1>8, <1>9, <1>10, <1>11, <1>12, <1>13,
     <1>14, <1>15, <1>16, <1>17, <1>18, <1>19, <1>20, <1>21, <1>22
  DEF Next, Environment, Step, Fault

\* What has landed stays landed.
LEMMA LandedGrows ==
    ASSUME [Next]_vars
    PROVE  landed \subseteq landed'
<1> USE DEF env, zone, mem, passes, budgets
<1>1. CASE UNCHANGED vars
  BY <1>1 DEF vars
<1>2. CASE Environment
  BY <1>2 DEF Environment, Grow, Replace, Rewrite, Prune, DropIndex
<1>3. ASSUME NEW p \in Procs, Step(p) PROVE landed \subseteq landed'
  BY <1>3 DEF Step, Begin, LoadState, LoadIndex, Refuse, Claim, SkipConflicted, MarkGone,
     FlagConflict, ReadNothing, Read, Land, Commit, WriteIndex, SaveMark, Finish
<1>4. ASSUME NEW p \in Procs, Fault(p) PROVE landed \subseteq landed'
  BY <1>4 DEF Fault, Busy, TailFails, LandFails, CommitFails, Stop
<1>5. QED
  BY <1>1, <1>2, <1>3, <1>4 DEF Next

\* Only a commit moves an offset.
LEMMA OnlyCommits ==
    ASSUME TypeInv, [Next]_vars, \A p \in Procs : ~Commit(p), NEW c \in Paths
    PROVE  /\ cursor'[c].off = cursor[c].off
           /\ cursor'[c].ino = cursor[c].ino
           /\ cursor'[c].dig = cursor[c].dig
<1> DEFINE Same == /\ cursor'[c].off = cursor[c].off
                   /\ cursor'[c].ino = cursor[c].ino
                   /\ cursor'[c].dig = cursor[c].dig
<1> USE DEF env, zone, mem, passes, budgets
<1>1. CASE UNCHANGED vars
  BY <1>1 DEF vars
<1>2. CASE Environment
  BY <1>2 DEF Environment, Grow, Replace, Rewrite, Prune, DropIndex
<1>3. ASSUME NEW p \in Procs, MarkGone(p) \/ FlagConflict(p) PROVE Same
  <2>1. PICK st : cursor' = [cursor EXCEPT ![CursorOf[src[p]]] = [Cur(p) EXCEPT !.state = st]]
    BY <1>3, Zenon DEF MarkGone, FlagConflict, SetCursor
  <2> DEFINE d == [Cur(p) EXCEPT !.state = st]
  <2>2. d.off = Cur(p).off /\ d.ino = Cur(p).ino /\ d.dig = Cur(p).dig
    BY <1>3, CollectorAssumption DEF MarkGone, FlagConflict, TypeInv, TypeOK, Phase, Cur, Cursors
  <2> HIDE DEF d
  <2>3. cursor' = [cursor EXCEPT ![CursorOf[src[p]]] = d]
    BY <2>1 DEF d
  <2>4. QED
    BY <2>2, <2>3 DEF TypeInv, TypeOK, Cur
<1>4. ASSUME NEW p \in Procs, Step(p), ~MarkGone(p), ~FlagConflict(p)
      PROVE  cursor' = cursor
  BY <1>4 DEF Step, Begin, LoadState, LoadIndex, Refuse, Claim, SkipConflicted, ReadNothing, Read,
     Land, WriteIndex, SaveMark, Finish
<1>5. ASSUME NEW p \in Procs, Fault(p) PROVE cursor' = cursor
  BY <1>5 DEF Fault, Busy, TailFails, LandFails, CommitFails, Stop
<1>6. QED
  BY <1>1, <1>2, <1>3, <1>4, <1>5 DEF Next

\* Whatever a cursor says was consumed has landed.
LEMMA BackedStep ==
    ASSUME CursorInv, [Next]_vars
    PROVE  CursorBacked'
<1> SUFFICES ASSUME NEW c \in Paths, NEW n \in 1 .. cursor'[c].off
             PROVE  \E f \in landed' : CursorOf[f.src] = c /\ Holds(f, n)
  BY DEF CursorBacked, Holds
<1>1. CASE \A p \in Procs : ~Commit(p)
  BY <1>1, OnlyCommits, LandedGrows DEF CursorInv, SeqInv, CursorBacked, Holds
<1>2. ASSUME NEW p \in Procs, Commit(p)
      PROVE  \E f \in landed' : CursorOf[f.src] = c /\ Holds(f, n)
  <2> DEFINE k == chunk[p].part
  <2>1. /\ pc[p] = "commit" /\ src[p] \in Sources
        /\ chunk[p] \in [part: Parts, ino: Ids, more: BOOLEAN]
    BY <1>2 DEF Commit, CursorInv, SeqInv, TypeInv, Phase
  <2>2. k \in landed /\ k.src = src[p] /\ (Appends(src[p]) => k.first = Cur(p).off + 1)
    BY <2>1 DEF CursorInv, ChunkContinues
  <2>3. k.first \in Nat /\ k.last \in Nat /\ Cur(p).off \in Nat
    BY SMTT(30), <2>1, CollectorAssumption
    DEF Parts, CursorInv, SeqInv, TypeInv, TypeOK, Cur, Cursors
  <2>4. cursor' = [cursor EXCEPT ![CursorOf[src[p]]] = Committed(p)] /\ landed' = landed
    BY <1>2 DEF Commit, SetCursor
  <2>5. CASE c # CursorOf[src[p]]
    <3>1. cursor'[c] = cursor[c]
      BY <2>4, <2>5 DEF CursorInv, SeqInv, TypeInv, TypeOK
    <3>2. QED
      BY <2>4, <3>1 DEF CursorInv, CursorBacked, Holds
  <2>6. CASE c = CursorOf[src[p]] /\ ~Appends(src[p])
    <3>1. cursor'[c] = [Cur(p) EXCEPT !.dig = <<k.src, k.gen>>, !.state = "active"]
      BY <2>4, <2>6 DEF Committed, CursorInv, SeqInv, TypeInv, TypeOK
    <3>2. Cur(p) \in Cursors
      BY <2>1, CollectorAssumption DEF CursorInv, SeqInv, TypeInv, TypeOK, Cur
    <3>3. cursor'[c].off = cursor[c].off
      BY <2>6, <3>1, <3>2 DEF Cursors, Cur
    <3>4. QED
      BY <2>4, <3>3 DEF CursorInv, CursorBacked, Holds
  <2>7. CASE c = CursorOf[src[p]] /\ Appends(src[p])
    <3>1. cursor'[c] = Committed(p)
      BY <2>4, <2>7 DEF CursorInv, SeqInv, TypeInv, TypeOK
    <3>2. cursor'[c].off = k.last
      BY <2>7, <3>1 DEF Committed
    <3>3. CASE n <= Cur(p).off
      <4>1. n \in 1 .. cursor[c].off
        BY <2>3, <2>7, <3>3 DEF Cur
      <4>2. QED
        BY <2>4, <4>1 DEF CursorInv, CursorBacked, Holds
    <3>4. CASE n > Cur(p).off
      <4>1. Holds(k, n)
        BY <2>2, <2>3, <2>7, <3>2, <3>4 DEF Holds
      <4>2. QED
        BY <2>2, <2>4, <2>7, <4>1
    <3>5. QED
      BY <2>3, <3>2, <3>3, <3>4
  <2>8. QED
    BY <2>5, <2>6, <2>7
<1>3. QED
  BY <1>1, <1>2

\* An interruption repeats records and never loses them: in every reachable state each
\* line a cursor counts as consumed is in a landed file of that cursor's source
\* (collect.go, landAppend: land before commit).
THEOREM NothingSkipped == Spec => []CursorBacked
<1>1. Init => CursorInv
  BY SeqInit, CollectorAssumption
  DEF Init, CursorInv, ChunkContinues, CursorBacked, FreshCursor
<1>2. CursorInv /\ [Next]_vars => CursorInv'
  BY SeqStep, StepType, ContinuesStep, BackedStep DEF CursorInv, SeqInv
<1>3. CursorInv => CursorBacked
  BY DEF CursorInv
<1>4. QED
  BY <1>1, <1>2, <1>3, PTL DEF Spec
-----------------------------------------------------------------------------
(***************************************************************************)
(* A conflict is sticky.  A pass reads behind a cursor only when that is   *)
(* not in conflict, and while it lands and commits nobody else flags it.   *)
(***************************************************************************)
Clear == \A p \in Procs : pc[p] \in {"land", "commit"} => Cur(p).state # "conflict"

LEMMA ClearStep ==
    ASSUME CursorInv, Clear, [Next]_vars
    PROVE  Clear'
<1>0. TypeInv /\ TypeOK /\ Alone
  BY DEF CursorInv, SeqInv, TypeInv
<1> USE DEF env, zone, mem, passes, budgets
\* Another pass cannot be between its window and its cursor.
<1>a. ASSUME NEW p \in Procs, pc[p] # "idle", pc'[p] \notin {"land", "commit"},
             \A q \in Procs \ {p} : pc'[q] = pc[q]
      PROVE  Clear'
  BY <1>0, <1>a, CollectorAssumption DEF Alone, Clear
<1>b. ASSUME UNCHANGED <<cursor, src>>, \A p \in Procs : pc'[p] \in {"land", "commit"} => pc[p] \in {"land", "commit"}
      PROVE  Clear'
  BY <1>b DEF Clear, Cur
<1>1. CASE UNCHANGED vars
  BY <1>b, <1>1 DEF vars
<1>2. CASE Environment
  BY <1>b, <1>2 DEF Environment, Grow, Replace, Rewrite, Prune, DropIndex
<1>3. ASSUME NEW p \in Procs,
             Begin(p) \/ LoadState(p) \/ LoadIndex(p) \/ Busy(p) \/ Land(p) \/ WriteIndex(p) \/ SaveMark(p)
             \/ (\E s \in Sources : Refuse(p, s))
      PROVE  Clear'
  BY <1>0, <1>b, <1>3 DEF Begin, LoadState, LoadIndex, Busy, Land, WriteIndex, SaveMark, Refuse, TypeOK
<1>4. ASSUME NEW p \in Procs, Read(p) PROVE Clear'
  <2>1. /\ pc[p] = "tail" /\ Cur(p).state # "conflict" /\ UNCHANGED <<cursor, src>>
        /\ \A q \in Procs \ {p} : pc'[q] = pc[q]
    BY <1>0, <1>4 DEF Read, Readable, Conflicted, TypeOK
  <2> QED BY <2>1 DEF Clear, Cur
<1>5. ASSUME NEW p \in Procs,
             SkipConflicted(p) \/ MarkGone(p) \/ FlagConflict(p) \/ ReadNothing(p) \/ Commit(p)
             \/ TailFails(p) \/ LandFails(p) \/ CommitFails(p)
      PROVE  Clear'
  <2>1. pc[p] # "idle" /\ (pc' = [pc EXCEPT ![p] = "sources"] \/ pc' = [pc EXCEPT ![p] = "tail"])
    BY <1>5 DEF SkipConflicted, MarkGone, FlagConflict, ReadNothing, Readable, Commit,
       TailFails, LandFails, CommitFails, SourceDone
  <2> QED BY <1>0, <1>a, <2>1 DEF TypeOK
<1>6. ASSUME NEW p \in Procs, Finish(p) \/ Stop(p) \/ (\E s \in Sources : Claim(p, s)) PROVE Clear'
  <2>1. pc[p] # "idle" /\ (pc' = [pc EXCEPT ![p] = "idle"] \/ pc' = [pc EXCEPT ![p] = "tail"])
    BY <1>6 DEF Finish, Stop, Forget, Claim
  <2> QED BY <1>0, <1>a, <2>1 DEF TypeOK
<1>7. QED
  BY <1>1, <1>2, <1>3, <1>4, <1>5, <1>6 DEF Next, Step, Fault

\* Only these touch a cursor.
LEMMA OnlyMoves ==
    ASSUME [Next]_vars, cursor' # cursor
    PROVE  \E p \in Procs : MarkGone(p) \/ FlagConflict(p) \/ Commit(p)
<1> SUFFICES ASSUME \A p \in Procs : ~MarkGone(p) /\ ~FlagConflict(p) /\ ~Commit(p) PROVE cursor' = cursor
  OBVIOUS
<1> USE DEF env, zone, mem, passes, budgets
<1>1. CASE UNCHANGED vars
  BY <1>1 DEF vars
<1>2. CASE Environment
  BY <1>2 DEF Environment, Grow, Replace, Rewrite, Prune, DropIndex
<1>3. ASSUME NEW p \in Procs, Step(p) PROVE cursor' = cursor
  BY <1>3 DEF Step, Begin, LoadState, LoadIndex, Refuse, Claim, SkipConflicted, ReadNothing, Read,
     Land, WriteIndex, SaveMark, Finish
<1>4. ASSUME NEW p \in Procs, Fault(p) PROVE cursor' = cursor
  BY <1>4 DEF Fault, Busy, TailFails, LandFails, CommitFails, Stop
<1>5. QED
  BY <1>1, <1>2, <1>3, <1>4 DEF Next

\* Once a source changed underneath its cursor, no later pass of any collector moves that
\* cursor or lands anything behind it, whatever the file does (collect.go, collectSource).
THEOREM ConflictStays == Spec => ConflictSticky
<1>1. Init => CursorInv /\ Clear
  BY SeqInit, CollectorAssumption
  DEF Init, CursorInv, ChunkContinues, CursorBacked, FreshCursor, Clear
<1>2. CursorInv /\ Clear /\ [Next]_vars => (CursorInv /\ Clear)'
  BY SeqStep, StepType, ContinuesStep, BackedStep, ClearStep DEF CursorInv, SeqInv
<1>3. ASSUME CursorInv, Clear, [Next]_vars, NEW c \in Paths, cursor[c].state = "conflict"
      PROVE  /\ cursor'[c] = cursor[c]
             /\ \A f \in landed' \ landed : CursorOf[f.src] # c
  <2>0. TypeInv /\ TypeOK
    BY <1>3 DEF CursorInv, SeqInv, TypeInv
  <2>1. cursor'[c] = cursor[c]
    <3> SUFFICES ASSUME cursor' # cursor PROVE cursor'[c] = cursor[c]
      OBVIOUS
    <3>1. PICK p \in Procs : MarkGone(p) \/ FlagConflict(p) \/ Commit(p)
      BY <1>3, OnlyMoves
    <3>2. Cur(p).state # "conflict"
      BY <1>3, <3>1 DEF MarkGone, FlagConflict, Commit, Conflicted, Clear
    <3>3. CursorOf[src[p]] # c
      BY <1>3, <3>2 DEF Cur
    <3>4. PICK d : cursor' = [cursor EXCEPT ![CursorOf[src[p]]] = d]
      BY <3>1, Zenon DEF MarkGone, FlagConflict, Commit, SetCursor
    <3> QED BY <2>0, <3>3, <3>4 DEF TypeOK
  <2>2. ASSUME NEW f \in landed' \ landed PROVE CursorOf[f.src] # c
    <3>1. PICK p \in Procs : Land(p)
      BY <1>3, <2>2, OnlyLands
    <3>2. pc[p] = "land" /\ f = chunk[p].part
      BY <2>2, <3>1 DEF Land
    <3>3. f.src = src[p] /\ Cur(p).state # "conflict"
      BY <1>3, <3>2 DEF CursorInv, ChunkContinues, Clear
    <3> QED BY <1>3, <3>3 DEF Cur
  <2> QED BY <2>1, <2>2
<1>4. CursorInv /\ Clear /\ [Next]_vars =>
        [\A c \in Paths : cursor[c].state = "conflict" =>
            /\ cursor'[c] = cursor[c]
            /\ \A f \in landed' \ landed : CursorOf[f.src] # c]_vars
  BY <1>3
<1>5. QED
  BY <1>1, <1>2, <1>4, PTL DEF Spec, ConflictSticky
\* Only the end of a pass reports it complete.
LEMMA OnlyFinishes ==
    ASSUME TypeOK, [Next]_vars, NEW p \in Procs, PassCompletes(p)
    PROVE  Finish(p)
<1>0. TypeOK /\ pc[p] # "idle" /\ pc'[p] = "idle" /\ report'[p] = "complete"
  BY DEF PassCompletes
<1> USE <1>0 DEF env, zone, mem, passes, budgets
<1>1. ~UNCHANGED pc
  OBVIOUS
<1>2. \A s \in Sources : ~(Grow(s) \/ Replace(s) \/ Rewrite(s) \/ Prune(s))
  BY <1>1 DEF Grow, Replace, Rewrite, Prune
<1>3. ~DropIndex /\ ~UNCHANGED vars
  BY <1>1 DEF DropIndex, vars
<1>4. ASSUME NEW q \in Procs,
             Begin(q) \/ LoadState(q) \/ LoadIndex(q) \/ (\E s \in Sources : Refuse(q, s) \/ Claim(q, s))
             \/ Busy(q) \/ Read(q) \/ Land(q) \/ WriteIndex(q) \/ SaveMark(q)
      PROVE  FALSE
  BY SMTT(30), <1>4 DEF Begin, LoadState, LoadIndex, Refuse, Claim, Busy, Read, Land, WriteIndex, SaveMark, TypeOK
<1>5. ASSUME NEW q \in Procs,
             SkipConflicted(q) \/ MarkGone(q) \/ FlagConflict(q) \/ ReadNothing(q) \/ Commit(q)
             \/ TailFails(q) \/ LandFails(q) \/ CommitFails(q)
      PROVE  FALSE
  <2>1. pc' = [pc EXCEPT ![q] = "sources"] \/ pc' = [pc EXCEPT ![q] = "tail"]
    BY <1>5 DEF SkipConflicted, MarkGone, FlagConflict, ReadNothing, Commit, TailFails, LandFails, CommitFails, SourceDone
  <2> QED BY <2>1 DEF TypeOK
<1>6. ASSUME NEW q \in Procs, Stop(q) PROVE FALSE
  <2>1. report' = [report EXCEPT ![q] = "incomplete"] /\ pc' = [pc EXCEPT ![q] = "idle"]
    BY <1>6 DEF Stop, Forget
  <2> QED BY <2>1 DEF TypeOK
<1>7. ASSUME NEW q \in Procs, Finish(q) PROVE Finish(p)
  <2>1. pc' = [pc EXCEPT ![q] = "idle"]
    BY <1>7 DEF Finish, Forget
  <2>2. q = p
    BY <2>1 DEF TypeOK
  <2> QED BY <1>7, <2>2
<1>8. QED
  BY <1>2, <1>3, <1>4, <1>5, <1>6, <1>7 DEF Next, Environment, Step, Fault
-----------------------------------------------------------------------------
(***************************************************************************)
(* What a step may do to the files, and to the windows in hand.            *)
(***************************************************************************)

\* A path never goes back to a content it had.
LEMMA GensGrow ==
    ASSUME TypeOK, [Next]_vars, NEW s \in Sources
    PROVE  /\ file'[s].gen \in Nat /\ file[s].gen \in Nat /\ file[s].gen <= file'[s].gen
           /\ file'[s].gen = file[s].gen => file'[s] = file[s] \/ Grow(s) \/ Prune(s)
<1>0. file[s] \in [ino: Ids \cup {None}, gen: Gens, len: 0 .. MaxLines] /\ s \in DOMAIN file
  BY DEF TypeOK, Files
<1>1. file[s].gen \in Nat
  BY <1>0, CollectorAssumption DEF Gens
<1> USE DEF env, zone, mem, passes, budgets
<1>2. CASE UNCHANGED file
  BY <1>1, <1>2
<1>3. ASSUME NEW t \in Sources, Grow(t) \/ Prune(t)
      PROVE  file'[s].gen = file[s].gen /\ (file'[s] = file[s] \/ Grow(s) \/ Prune(s))
  <2>1. CASE t # s
    BY <1>0, <1>3, <2>1 DEF Grow, Prune, TypeOK, Files
  <2>2. CASE t = s
    BY <1>0, <1>3, <2>2 DEF Grow, Prune
  <2> QED BY <2>1, <2>2
<1>4. ASSUME NEW t \in Sources, Replace(t) \/ Rewrite(t)
      PROVE  file'[s] = file[s] \/ file'[s].gen = file[s].gen + 1
  <2>1. CASE t # s
    BY <1>0, <1>4, <2>1 DEF Replace, Rewrite, TypeOK, Files
  <2>2. CASE t = s /\ Replace(s)
    BY <1>0, <2>2 DEF Replace
  <2>3. CASE t = s /\ Rewrite(s)
    <3>1. PICK n : file' = [file EXCEPT ![s].gen = file[s].gen + 1, ![s].len = n]
      BY <2>3 DEF Rewrite
    <3> QED BY <1>0, <3>1
  <2> QED BY <1>4, <2>1, <2>2, <2>3
<1>5. ASSUME NEW p \in Procs, Step(p) PROVE UNCHANGED file
  BY <1>5 DEF Step, Begin, LoadState, LoadIndex, Refuse, Claim, SkipConflicted, MarkGone, FlagConflict,
     ReadNothing, Read, Land, Commit, WriteIndex, SaveMark, Finish
<1>6. ASSUME NEW p \in Procs, Fault(p) PROVE UNCHANGED file
  BY <1>6 DEF Fault, Busy, TailFails, LandFails, CommitFails, Stop
<1>7. CASE UNCHANGED vars \/ DropIndex
  BY <1>2, <1>7 DEF vars, DropIndex
<1>8. QED
  <2>1. [Next]_vars => \/ UNCHANGED file
                       \/ \E t \in Sources : Grow(t) \/ Prune(t) \/ Replace(t) \/ Rewrite(t)
    BY <1>5, <1>6, <1>7 DEF Next, Environment, DropIndex, vars
  <2> QED BY <1>1, <1>2, <1>3, <1>4, <2>1

\* The window a pass reads.
LEMMA ReadIs ==
    ASSUME TypeInv, NEW p \in Procs, Read(p)
    PROVE  LET k == chunk'[p].part
               f == file[src[p]] IN
           /\ pc[p] = "tail" /\ pc'[p] = "land" /\ src[p] \in Sources /\ Readable(p)
           /\ k.src = src[p] /\ k.gen = f.gen
           /\ k.first = (IF Appends(src[p]) THEN Cur(p).off + 1 ELSE 1)
           /\ k.first <= k.last /\ (~chunk'[p].more => k.last = f.len)
           /\ chunk'[p].ino = f.ino
           /\ \A q \in Procs \ {p} : chunk'[q] = chunk[q] /\ pc'[q] = pc[q]
<1> DEFINE s == src[p]
           f == file[s]
           from == IF Appends(s) THEN Cur(p).off + 1 ELSE 1
           to   == IF Appends(s) /\ f.len >= from + Window THEN from + Window - 1 ELSE f.len
           k == [seq |-> next[p], src |-> s, gen |-> f.gen, first |-> from, last |-> to]
<1>0. TypeOK /\ pc[p] = "tail" /\ s \in Sources /\ Readable(p)
  BY DEF TypeInv, Phase, Read, Readable
<1>1. /\ chunk' = [chunk EXCEPT ![p] = [part |-> k, ino |-> f.ino, more |-> to < f.len]]
      /\ pc' = [pc EXCEPT ![p] = "land"]
  BY Zenon DEF Read
<1>2. /\ chunk'[p].part = k /\ chunk'[p].ino = f.ino /\ chunk'[p].more = (to < f.len)
      /\ pc'[p] = "land" /\ \A q \in Procs \ {p} : chunk'[q] = chunk[q] /\ pc'[q] = pc[q]
  <2> HIDE DEF k, f, to
  <2> QED BY <1>0, <1>1 DEF TypeOK
<1>3. k.src = s /\ k.gen = f.gen /\ k.first = from /\ k.last = to
  OBVIOUS
<1>4. Cur(p) \in Cursors /\ f \in [ino: Ids \cup {None}, gen: Gens, len: 0 .. MaxLines]
  BY <1>0, CollectorAssumption DEF TypeOK, Files, Cur
<1>5. Cur(p).off \in Nat /\ f.len \in Nat
  <2> HIDE DEF f
  <2> QED BY <1>4, CollectorAssumption DEF Cursors
<1>6. IF Appends(s) THEN f.len > Cur(p).off ELSE f.len > 0
  BY DEF Read, Unread
<1>7. from <= to /\ (~(to < f.len) => to = f.len)
  <2>1. CASE Appends(s)
    <3>1. from = Cur(p).off + 1 /\ to = IF f.len >= from + Window THEN from + Window - 1 ELSE f.len
      BY <2>1
    <3> HIDE DEF f, from, to
    <3> QED BY <1>5, <1>6, <2>1, <3>1, CollectorAssumption
  <2>2. CASE ~Appends(s)
    <3>1. from = 1 /\ to = f.len
      BY <2>2
    <3> HIDE DEF f, from, to
    <3> QED BY <1>5, <1>6, <2>2, <3>1
  <2> QED BY <2>1, <2>2
<1> HIDE DEF k, from, to
<1>8. k.first = (IF Appends(src[p]) THEN Cur(p).off + 1 ELSE 1)
  BY <1>3 DEF from
<1> QED BY <1>0, <1>2, <1>3, <1>7, <1>8

\* A window stays in hand until it is committed, given up or lost; giving it up and losing it
\* are counted.
LEMMA WindowsStay ==
    ASSUME TypeInv, [Next]_vars, NEW p \in Procs, ~Read(p)
    PROVE  /\ pc'[p] \in {"land", "commit"} =>
                 /\ pc[p] \in {"land", "commit"} /\ chunk'[p] = chunk[p] /\ src'[p] = src[p]
                 /\ pc'[p] = "land" => pc[p] = "land"
           /\ pc[p] = "commit" /\ ~Commit(p) =>
                 (pc'[p] = "commit" /\ chunk'[p] = chunk[p]) \/ stops' + faults' >= stops + faults + 1
           /\ stops' + faults' >= stops + faults
<1> USE DEF env, zone, mem, passes, budgets
<1>0. TypeOK /\ stops \in Nat /\ faults \in Nat
  BY CollectorAssumption DEF TypeInv, TypeOK
<1> DEFINE Kept == pc'[p] = pc[p] /\ chunk'[p] = chunk[p] /\ src'[p] = src[p]
           Spent == stops' + faults' >= stops + faults + 1
<1>1. CASE UNCHANGED vars
  BY <1>0, <1>1 DEF vars
<1>2. CASE Environment
  <2>1. UNCHANGED <<pc, chunk, src, stops, faults>>
    BY <1>2 DEF Environment, Grow, Replace, Rewrite, Prune, DropIndex
  <2> QED BY <1>0, <2>1
<1>3. ASSUME NEW q \in Procs,
             \/ Begin(q) \/ LoadState(q) \/ LoadIndex(q) \/ Land(q) \/ WriteIndex(q) \/ SaveMark(q)
             \/ Busy(q) \/ (\E s \in Sources : Refuse(q, s) \/ Claim(q, s))
      PROVE  /\ UNCHANGED <<stops, faults>> /\ (q # p => Kept)
             /\ q = p => /\ pc'[p] \notin {"land", "commit"} \/ Kept \/ Land(p)
                         /\ pc[p] # "commit"
  BY SMTT(30), <1>0, <1>3 DEF Begin, LoadState, LoadIndex, Land, WriteIndex, SaveMark, Busy, Refuse, Claim, TypeOK
<1>4. ASSUME NEW q \in Procs,
             SkipConflicted(q) \/ MarkGone(q) \/ FlagConflict(q) \/ ReadNothing(q) \/ Commit(q)
      PROVE  /\ UNCHANGED <<stops, faults>> /\ (q # p => Kept)
             /\ q = p => pc'[p] \notin {"land", "commit"} /\ (pc[p] = "commit" => Commit(p))
  <2>1. UNCHANGED <<stops, faults>> /\ (pc[q] = "tail" \/ Commit(q))
    BY <1>4 DEF SkipConflicted, MarkGone, FlagConflict, ReadNothing, Readable, Commit
  <2>2. \/ \E ok : SourceDone(q, ok)
        \/ chunk' = [chunk EXCEPT ![q] = NoChunk] /\ pc' = [pc EXCEPT ![q] = "tail"] /\ UNCHANGED src
    BY <1>4, Zenon DEF SkipConflicted, MarkGone, FlagConflict, ReadNothing, Commit
  <2>3. \/ pc' = [pc EXCEPT ![q] = "sources"] /\ chunk' = [chunk EXCEPT ![q] = NoChunk] /\ src' = [src EXCEPT ![q] = None]
        \/ chunk' = [chunk EXCEPT ![q] = NoChunk] /\ pc' = [pc EXCEPT ![q] = "tail"] /\ UNCHANGED src
    BY <2>2 DEF SourceDone
  <2> QED BY <1>0, <2>1, <2>3 DEF TypeOK
<1>5. ASSUME NEW q \in Procs, TailFails(q) \/ LandFails(q) \/ CommitFails(q) \/ Finish(q) \/ Stop(q)
      PROVE  /\ stops' + faults' >= stops + faults /\ (q # p => Kept)
             /\ q = p => pc'[p] \notin {"land", "commit"} /\ (pc[p] = "commit" => Spent)
  <2>1. \/ pc' = [pc EXCEPT ![q] = "sources"] \/ pc' = [pc EXCEPT ![q] = "idle"]
    BY <1>5 DEF TailFails, LandFails, CommitFails, SourceDone, Finish, Stop, Forget
  <2>2. chunk' = [chunk EXCEPT ![q] = NoChunk] /\ src' = [src EXCEPT ![q] = None]
    BY <1>5 DEF TailFails, LandFails, CommitFails, SourceDone, Finish, Stop, Forget
  <2>3. \/ pc[q] # "commit" /\ UNCHANGED <<stops, faults>>
        \/ stops' = stops + 1 /\ faults' = faults
        \/ stops' = stops /\ faults' = faults + 1
    BY <1>5 DEF TailFails, LandFails, CommitFails, Finish, Stop
  <2> QED BY <1>0, <2>1, <2>2, <2>3 DEF TypeOK
<1>6. ASSUME NEW q \in Procs, Read(q)
      PROVE  UNCHANGED <<stops, faults>> /\ (q # p => Kept)
  BY <1>0, <1>6 DEF Read, TypeOK
<1>7. ASSUME Land(p)
      PROVE  pc[p] = "land" /\ pc'[p] = "commit" /\ chunk'[p] = chunk[p] /\ src'[p] = src[p]
  BY <1>0, <1>7 DEF Land, TypeOK
<1>8. QED
  <2>1. ASSUME NEW q \in Procs, q # p, Step(q) \/ Fault(q)
        PROVE  Kept /\ stops' + faults' >= stops + faults
    BY <1>0, <1>3, <1>4, <1>5, <1>6, <2>1 DEF Step, Fault
  <2>2. ASSUME Step(p) \/ Fault(p)
        PROVE  /\ stops' + faults' >= stops + faults
               /\ pc'[p] \notin {"land", "commit"} \/ Kept \/ Land(p)
               /\ pc[p] = "commit" /\ ~Commit(p) => Spent
    BY <1>0, <1>3, <1>4, <1>5, <2>2 DEF Step, Fault
  <2> QED BY <1>1, <1>2, <1>7, <2>1, <2>2 DEF Next


(***************************************************************************)
(* No seam in the evidence of an append source, with any crash or failed   *)
(* write, while the runtime replaces its files and never rewrites one in   *)
(* place.  (The inode then identifies the content; the digest is not       *)
(* needed.)                                                                *)
(***************************************************************************)
Inodes == \A s \in Sources : file[s].ino \in {None, <<s, file[s].gen>>}

\* A cursor that consumed something identifies the file it was consumed from.
Rooted ==
    \A c \in Paths : cursor[c].off > 0 =>
        \E f \in landed : cursor[c].ino = <<f.src, f.gen>> /\ Holds(f, cursor[c].off)

\* The window in hand continues one that landed before it.
Joined(k) ==
    k.first > 1 => \E g \in landed : g.src = k.src /\ g.gen = k.gen /\ Holds(g, k.first - 1)

WindowJoins ==
    \A p \in Procs : pc[p] \in {"land", "commit"} =>
        /\ Joined(chunk[p].part)
        /\ Appends(src[p]) =>
              /\ chunk[p].ino = <<chunk[p].part.src, chunk[p].part.gen>>
              /\ chunk[p].part.first <= chunk[p].part.last

SeamInv == CursorInv /\ Inodes /\ Rooted /\ WindowJoins /\ Seamless

LEMMA InodesStep ==
    ASSUME InPlace = FALSE, TypeOK, Inodes, [Next]_vars
    PROVE  Inodes'
<1> USE DEF env, zone, mem, passes, budgets
<1>1. CASE UNCHANGED file
  BY <1>1 DEF Inodes
<1>2. ASSUME NEW s \in Sources, Grow(s) \/ Replace(s) \/ Rewrite(s) \/ Prune(s) PROVE Inodes'
  <2>1. \A t \in Sources \ {s} : file'[t] = file[t]
    BY <1>2, Zenon DEF Grow, Replace, Rewrite, Prune, TypeOK, Files
  <2>2. file[s] \in [ino: Ids \cup {None}, gen: Gens, len: 0 .. MaxLines] /\ s \in DOMAIN file
    BY DEF TypeOK, Files
  <2>3. file'[s].ino \in {None, <<s, file'[s].gen>>}
    <3>1. CASE Grow(s)
      <4>1. file'[s].ino = file[s].ino /\ file'[s].gen = file[s].gen
        BY <2>2, <3>1 DEF Grow
      <4> QED BY <4>1 DEF Inodes
    <3>2. CASE Replace(s)
      BY <2>2, <3>2 DEF Replace
    <3>3. CASE Prune(s)
      BY <2>2, <3>3 DEF Prune
    <3> QED BY <1>2, <3>1, <3>2, <3>3 DEF Rewrite
  <2> QED BY <2>1, <2>3 DEF Inodes
<1>3. ASSUME NEW p \in Procs, Step(p) PROVE UNCHANGED file
  BY <1>3 DEF Step, Begin, LoadState, LoadIndex, Refuse, Claim, SkipConflicted, MarkGone, FlagConflict,
     ReadNothing, Read, Land, Commit, WriteIndex, SaveMark, Finish
<1>4. ASSUME NEW p \in Procs, Fault(p) PROVE UNCHANGED file
  BY <1>4 DEF Fault, Busy, TailFails, LandFails, CommitFails, Stop
<1>5. QED
  BY <1>1, <1>2, <1>3, <1>4 DEF Next, Environment, DropIndex, vars

\* A window read behind a cursor that is not in conflict continues what it consumed.
LEMMA ReadJoins ==
    ASSUME None \notin Ids, SeamInv, NEW p \in Procs, Read(p)
    PROVE  /\ Joined(chunk'[p].part)
           /\ Appends(src[p]) =>
                 /\ chunk'[p].ino = <<chunk'[p].part.src, chunk'[p].part.gen>>
                 /\ chunk'[p].part.first <= chunk'[p].part.last
<1> DEFINE s == src[p]
           f == file[s]
           k == chunk'[p].part
<1>0. TypeInv /\ TypeOK /\ s \in Sources
  BY DEF SeamInv, CursorInv, SeqInv, TypeInv, Phase, Read, Readable
<1>1. /\ k.src = s /\ k.gen = f.gen /\ k.first = (IF Appends(s) THEN Cur(p).off + 1 ELSE 1)
      /\ k.first <= k.last /\ chunk'[p].ino = f.ino /\ Readable(p)
  BY <1>0, ReadIs
<1>2. Cur(p).off \in Nat /\ f.len \in Nat
  <2>1. Cur(p) \in Cursors /\ f \in [ino: Ids \cup {None}, gen: Gens, len: 0 .. MaxLines]
    BY <1>0, CollectorAssumption DEF TypeOK, Files, Cur
  <2> HIDE DEF f
  <2> QED BY <2>1, CollectorAssumption DEF Cursors
<1>3. CASE ~Appends(s)
  <2>1. k.first = 1
    BY <1>1, <1>3
  <2> HIDE DEF k, f
  <2> QED BY <1>1, <1>3, <2>1 DEF Joined, k
<1>4. CASE Appends(s)
  <2>1. /\ f.ino # None /\ f.len > Cur(p).off /\ ~ConflictOn(s, Cur(p))
    BY <1>4 DEF Read, Readable, Present, Unread
  <2>2. f.ino = <<s, f.gen>>
    BY <1>0, <2>1 DEF SeamInv, Inodes
  <2>3. ASSUME k.first > 1
        PROVE  \E g \in landed : g.src = s /\ g.gen = f.gen /\ Holds(g, k.first - 1)
    <3>1. Cur(p).off > 0 /\ Cur(p).off = k.first - 1
      <4> HIDE DEF f, k
      <4> QED BY <1>1, <1>2, <1>4, <2>3
    <3>2. PICK g \in landed : Cur(p).ino = <<g.src, g.gen>> /\ Holds(g, Cur(p).off)
      BY <1>0, <3>1, CollectorAssumption DEF SeamInv, Rooted, Cur
    <3>3. Cur(p).ino # None
      <4>1. g.src \in Sources /\ g.gen \in Gens
        BY <1>0 DEF TypeOK, Parts
      <4>2. <<g.src, g.gen>> \in Ids
        BY <4>1, CollectorAssumption DEF Ids, Gens
      <4> QED BY <3>2, <4>2
    <3>4. Cur(p).ino = f.ino
      BY <1>2, <2>1, <3>1, <3>3 DEF Fresh, ConflictOn, Replaced
    <3>5. <<g.src, g.gen>> = <<s, f.gen>>
      BY <2>2, <3>2, <3>4
    <3> QED BY <3>1, <3>2, <3>5
  <2>4. landed' = landed
    BY DEF Read, zone
  <2> HIDE DEF f, k
  <2> QED BY <1>1, <1>4, <2>2, <2>3 DEF Joined, k
<1> QED BY <1>3, <1>4

LEMMA JoinsStep ==
    ASSUME None \notin Ids, SeamInv, [Next]_vars
    PROVE  WindowJoins'
<1>0. TypeInv /\ TypeOK /\ Alone
  BY DEF SeamInv, CursorInv, SeqInv, TypeInv
<1>k. landed \subseteq landed'
  BY LandedGrows
<1> USE DEF env, zone, mem, passes, budgets
<1>a. ASSUME NEW p \in Procs, pc[p] # "idle", pc'[p] \notin {"land", "commit"},
             \A q \in Procs \ {p} : pc'[q] = pc[q]
      PROVE  WindowJoins'
  BY <1>0, <1>a, CollectorAssumption DEF Alone, WindowJoins
<1>b. ASSUME UNCHANGED <<chunk, src>>, \A p \in Procs : pc'[p] \in {"land", "commit"} => pc[p] \in {"land", "commit"}
      PROVE  WindowJoins'
  <2> SUFFICES ASSUME NEW p \in Procs, pc'[p] \in {"land", "commit"}
               PROVE  /\ Joined(chunk[p].part)'
                      /\ Appends(src[p]) =>
                            /\ chunk[p].ino = <<chunk[p].part.src, chunk[p].part.gen>>
                            /\ chunk[p].part.first <= chunk[p].part.last
    BY <1>b DEF WindowJoins, Appends
  <2>1. Joined(chunk[p].part)
    BY <1>b DEF SeamInv, WindowJoins
  <2>2. Joined(chunk[p].part)'
    BY <1>b, <1>k, <2>1 DEF Joined
  <2> QED BY <1>b, <2>2 DEF SeamInv, WindowJoins
<1>1. CASE UNCHANGED vars
  BY <1>b, <1>1 DEF vars
<1>2. CASE Environment
  BY <1>b, <1>2 DEF Environment, Grow, Replace, Rewrite, Prune, DropIndex
<1>3. ASSUME NEW p \in Procs,
             Begin(p) \/ LoadState(p) \/ LoadIndex(p) \/ Busy(p) \/ Land(p) \/ WriteIndex(p) \/ SaveMark(p)
             \/ (\E s \in Sources : Refuse(p, s))
      PROVE  WindowJoins'
  BY <1>0, <1>b, <1>3 DEF Begin, LoadState, LoadIndex, Busy, Land, WriteIndex, SaveMark, Refuse, TypeOK
<1>4. ASSUME NEW p \in Procs, Read(p) PROVE WindowJoins'
  <2>1. /\ pc[p] = "tail" /\ UNCHANGED <<landed, src>> /\ \A q \in Procs \ {p} : pc'[q] = pc[q]
    BY <1>0, <1>4 DEF Read, Readable, TypeOK
  <2>2. \A q \in Procs \ {p} : pc'[q] \notin {"land", "commit"}
    BY <1>0, <2>1, CollectorAssumption DEF Alone
  <2>3. /\ Joined(chunk[p].part)'
        /\ Appends(src[p]) =>
              /\ chunk'[p].ino = <<chunk'[p].part.src, chunk'[p].part.gen>>
              /\ chunk'[p].part.first <= chunk'[p].part.last
    BY <1>4, <2>1, ReadJoins DEF Joined
  <2> QED BY <2>1, <2>2, <2>3 DEF WindowJoins, Appends
<1>5. ASSUME NEW p \in Procs,
             SkipConflicted(p) \/ MarkGone(p) \/ FlagConflict(p) \/ ReadNothing(p) \/ Commit(p)
             \/ TailFails(p) \/ LandFails(p) \/ CommitFails(p)
      PROVE  WindowJoins'
  <2>1. pc[p] # "idle" /\ (pc' = [pc EXCEPT ![p] = "sources"] \/ pc' = [pc EXCEPT ![p] = "tail"])
    BY <1>5 DEF SkipConflicted, MarkGone, FlagConflict, ReadNothing, Readable, Commit,
       TailFails, LandFails, CommitFails, SourceDone
  <2> QED BY <1>0, <1>a, <2>1 DEF TypeOK
<1>6. ASSUME NEW p \in Procs, Finish(p) \/ Stop(p) \/ (\E s \in Sources : Claim(p, s)) PROVE WindowJoins'
  <2>1. pc[p] # "idle" /\ (pc' = [pc EXCEPT ![p] = "idle"] \/ pc' = [pc EXCEPT ![p] = "tail"])
    BY <1>6 DEF Finish, Stop, Forget, Claim
  <2> QED BY <1>0, <1>a, <2>1 DEF TypeOK
<1>7. QED
  BY <1>1, <1>2, <1>3, <1>4, <1>5, <1>6 DEF Next, Step, Fault

\* A commit roots the cursor in the window that has just landed; nothing else moves it.
LEMMA RootedStep ==
    ASSUME SeamInv, [Next]_vars
    PROVE  Rooted'
<1>0. TypeInv /\ TypeOK
  BY DEF SeamInv, CursorInv, SeqInv, TypeInv
<1>k. landed \subseteq landed'
  BY LandedGrows
<1> SUFFICES ASSUME NEW c \in Paths, cursor'[c].off > 0
             PROVE  \E f \in landed' : cursor'[c].ino = <<f.src, f.gen>> /\ Holds(f, cursor'[c].off)
  BY DEF Rooted, Holds
<1>s. ASSUME cursor'[c].off = cursor[c].off, cursor'[c].ino = cursor[c].ino
      PROVE  \E f \in landed' : cursor'[c].ino = <<f.src, f.gen>> /\ Holds(f, cursor'[c].off)
  BY <1>k, <1>s DEF SeamInv, Rooted
<1>1. CASE cursor' = cursor
  BY <1>s, <1>1
<1>2. ASSUME NEW p \in Procs, MarkGone(p) \/ FlagConflict(p)
      PROVE  \E f \in landed' : cursor'[c].ino = <<f.src, f.gen>> /\ Holds(f, cursor'[c].off)
  <2>1. PICK st : cursor' = [cursor EXCEPT ![CursorOf[src[p]]] = [Cur(p) EXCEPT !.state = st]]
    BY <1>2, Zenon DEF MarkGone, FlagConflict, SetCursor
  <2>2. /\ [Cur(p) EXCEPT !.state = st].off = Cur(p).off
        /\ [Cur(p) EXCEPT !.state = st].ino = Cur(p).ino
    BY <1>0, <1>2, CollectorAssumption DEF MarkGone, FlagConflict, TypeInv, TypeOK, Phase, Cur, Cursors
  <2>3. cursor'[c].off = cursor[c].off /\ cursor'[c].ino = cursor[c].ino
    BY <1>0, <2>1, <2>2 DEF TypeOK, Cur
  <2> QED BY <1>s, <2>3
<1>3. ASSUME NEW p \in Procs, Commit(p)
      PROVE  \E f \in landed' : cursor'[c].ino = <<f.src, f.gen>> /\ Holds(f, cursor'[c].off)
  <2> DEFINE k == chunk[p].part
  <2>1. /\ pc[p] = "commit" /\ src[p] \in Sources
        /\ chunk[p] \in [part: Parts, ino: Ids, more: BOOLEAN]
        /\ landed' = landed
    BY <1>0, <1>3 DEF Commit, TypeInv, Phase
  <2>2. k \in landed /\ (Appends(src[p]) => chunk[p].ino = <<k.src, k.gen>> /\ k.first <= k.last)
    BY <2>1 DEF SeamInv, WindowJoins, CursorInv, ChunkContinues
  <2>3. cursor' = [cursor EXCEPT ![CursorOf[src[p]]] = Committed(p)]
    BY <1>3 DEF Commit, SetCursor
  <2>4. CASE c # CursorOf[src[p]]
    <3>1. cursor'[c] = cursor[c]
      BY <1>0, <2>3, <2>4 DEF TypeOK
    <3> QED BY <1>s, <3>1
  <2>5. CASE c = CursorOf[src[p]] /\ ~Appends(src[p])
    <3>1. cursor'[c] = [Cur(p) EXCEPT !.dig = <<k.src, k.gen>>, !.state = "active"]
      BY <1>0, <2>3, <2>5 DEF Committed, TypeOK
    <3>2. Cur(p) \in Cursors
      BY <1>0, <2>1, CollectorAssumption DEF TypeOK, Cur
    <3>3. cursor'[c].off = cursor[c].off /\ cursor'[c].ino = cursor[c].ino
      BY <2>5, <3>1, <3>2 DEF Cursors, Cur
    <3> QED BY <1>s, <3>3
  <2>6. CASE c = CursorOf[src[p]] /\ Appends(src[p])
    <3>1. cursor'[c] = Committed(p)
      BY <1>0, <2>3, <2>6 DEF TypeOK
    <3>2. cursor'[c].off = k.last /\ cursor'[c].ino = <<k.src, k.gen>>
      BY <2>2, <2>6, <3>1 DEF Committed
    <3>3. k.last \in k.first .. k.last
      BY <2>1, <2>2, <2>6, CollectorAssumption DEF Parts
    <3> QED BY <2>1, <2>2, <3>2, <3>3 DEF Holds
  <2> QED BY <2>4, <2>5, <2>6
<1>4. QED
  BY <1>1, <1>2, <1>3, OnlyMoves

LEMMA SeamlessStep ==
    ASSUME SeamInv, [Next]_vars
    PROVE  Seamless'
<1>k. landed \subseteq landed'
  BY LandedGrows
<1> SUFFICES ASSUME NEW f \in landed', f.first > 1
             PROVE  \E g \in landed' : g.seq < f.seq /\ g.src = f.src /\ g.gen = f.gen /\ Holds(g, f.first - 1)
  BY DEF Seamless, Holds
<1>1. CASE f \in landed
  BY <1>k, <1>1 DEF SeamInv, Seamless
<1>2. CASE f \notin landed
  <2>1. PICK p \in Procs : Land(p)
    BY <1>2, OnlyLands
  <2>2. pc[p] = "land" /\ f = chunk[p].part
    BY <1>2, <2>1 DEF Land
  <2>3. PICK g \in landed : g.src = f.src /\ g.gen = f.gen /\ Holds(g, f.first - 1)
    BY <2>2 DEF SeamInv, WindowJoins, Joined
  <2>4. g.seq < f.seq
    BY <2>2 DEF SeamInv, CursorInv, SeqInv, ChunkAbove
  <2> QED BY <1>k, <2>3, <2>4
<1> QED BY <1>1, <1>2

\* A landed window that does not start its file continues one of the same file and the
\* same content that landed before it, whatever is interrupted, repeated or replaced in
\* between (tail.go, TailAppend; verify.go reads anything else as a fault).
THEOREM NoSeam ==
    ASSUME InPlace = FALSE, None \notin Ids
    PROVE  Spec => []Seamless
<1>1. Init => SeamInv
  BY SeqInit, CollectorAssumption
  DEF Init, SeamInv, CursorInv, ChunkContinues, CursorBacked, FreshCursor, NoFiles,
      Inodes, Rooted, WindowJoins, Seamless
<1>2. SeamInv /\ [Next]_vars => SeamInv'
  <2> SUFFICES ASSUME SeamInv, [Next]_vars PROVE SeamInv'
    OBVIOUS
  <2>1. CursorInv'
    BY SeqStep, StepType, ContinuesStep, BackedStep DEF SeamInv, CursorInv, SeqInv
  <2>2. Inodes'
    BY InodesStep DEF SeamInv, CursorInv, SeqInv, TypeInv
  <2> QED BY <2>1, <2>2, JoinsStep, RootedStep, SeamlessStep DEF SeamInv
<1>3. SeamInv => Seamless
  BY DEF SeamInv
<1> QED BY <1>1, <1>2, <1>3, PTL DEF Spec
=============================================================================
