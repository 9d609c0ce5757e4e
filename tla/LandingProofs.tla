---------------------------- MODULE LandingProofs ----------------------------
(***************************************************************************)
(* The collector implements the landing zone the parser is verified        *)
(* against: proof of CollectorLands, for every number of collectors,       *)
(* sources and cursor paths, while no write of the collector fails.        *)
(***************************************************************************)
EXTENDS CollectorLands, CollectorProofs

\* A counter or a watermark on disk does not run ahead of what has landed.
Reached(n) == n <= 0 \/ \E f \in landed : f.seq >= n

\* The highest landed sequence, 0 before the first.
IsTop(n) ==
    /\ n \in Nat /\ \A f \in landed : f.seq <= n
    /\ \/ n = 0 /\ landed = {}
       \/ \E f \in landed : f.seq = n

\* The lock is held by a pass, and no sequence is ever spent: a pass has taken the number of
\* the window it is about to land, and no other.
Tops ==
    /\ lock # None => pc[lock] # "idle"
    /\ Reached(nextFile - 1) /\ Reached(ixMark)
    /\ \A p \in Procs :
          /\ pc[p] \in {"loaded", "mark"} => Reached(mark[p])
          /\ pc[p] \in {"loaded", "sources", "tail", "commit", "mark", "finish"} => IsTop(next[p] - 1)
          /\ pc[p] = "land" => IsTop(next[p] - 2) /\ chunk[p].part.seq = next[p] - 1

TopsInv == SeqInv /\ Tops

LEMMA TopsInit == Init => TopsInv
BY SeqInit DEF Init, TopsInv, Tops, Reached, NoMark

\* The counter a pass recovers is one above the top.
LEMMA TopRecovered ==
    ASSUME \A f \in landed : f.seq \in Nat \ {0}, nextFile \in Nat \ {0}, Reached(nextFile - 1),
           NEW n \in RecoverNextSeq(nextFile)
    PROVE  IsTop(n - 1)
<1>1. n \in Nat \ {0} /\ \A f \in landed : f.seq < n
  BY DEF RecoverNextSeq
<1>2. \A f \in landed : f.seq <= n - 1
  BY <1>1
<1>3. CASE n = 1
  <2>1. landed = {}
    BY <1>1, <1>3
  <2> QED BY <1>3, <2>1 DEF IsTop
<1>4. CASE n = nextFile /\ n # 1
  <2>1. PICK f \in landed : f.seq >= n - 1
    BY <1>1, <1>4 DEF Reached
  <2>2. f.seq = n - 1
    BY <1>1, <2>1
  <2> QED BY <1>1, <1>2, <2>2 DEF IsTop
<1>5. CASE n # nextFile
  <2>1. PICK f \in landed : n = f.seq + 1
    BY <1>5 DEF RecoverNextSeq
  <2>2. f.seq = n - 1
    BY <2>1
  <2> QED BY <1>1, <1>2, <2>2 DEF IsTop
<1> QED BY <1>3, <1>4, <1>5

LEMMA TopsStep ==
    ASSUME MaxFaults = 0, TopsInv, [Next]_vars
    PROVE  Tops'
<1> USE CollectorAssumption
    DEF TopsInv, SeqInv, Alone, Tops, Reached, IsTop, TypeInv, TypeOK, env, zone, mem, passes, budgets
<1>1. ASSUME NEW s \in Sources, Grow(s) \/ Replace(s) \/ Rewrite(s) \/ Prune(s) PROVE Tops'
  <2>1. UNCHANGED <<landed, nextFile, ixMark, mark, next, pc, lock, chunk>>
    BY <1>1 DEF Grow, Replace, Rewrite, Prune
  <2> QED BY <2>1
<1>2. CASE DropIndex
  BY <1>2 DEF DropIndex, NoMark
<1>3. ASSUME NEW p \in Procs, Begin(p) PROVE Tops'
  BY <1>3 DEF Begin, LockFree
<1>4. ASSUME NEW p \in Procs, Busy(p) PROVE Tops'
  BY <1>4 DEF Busy
<1>5. ASSUME NEW p \in Procs, LoadState(p) PROVE Tops'
  <2>1. PICK n \in RecoverNextSeq(nextFile) : next' = [next EXCEPT ![p] = n]
    BY <1>5 DEF LoadState
  <2>2. \A f \in landed : f.seq \in Nat \ {0}
    BY DEF Parts
  <2>3. IsTop(n - 1)
    BY <2>2, TopRecovered
  <2> QED BY <1>5, <2>1, <2>3 DEF LoadState
<1>6. ASSUME NEW p \in Procs, LoadIndex(p) PROVE Tops'
  BY <1>6 DEF LoadIndex
<1>7. ASSUME NEW p \in Procs, NEW s \in Sources, Refuse(p, s) PROVE Tops'
  BY <1>7 DEF Refuse
<1>8. ASSUME NEW p \in Procs, NEW s \in Sources, Claim(p, s) PROVE Tops'
  BY <1>8 DEF Claim
<1>9. ASSUME NEW p \in Procs, SkipConflicted(p) PROVE Tops'
  BY <1>9 DEF SkipConflicted, SourceDone
<1>10. ASSUME NEW p \in Procs, MarkGone(p) PROVE Tops'
  BY <1>10 DEF MarkGone, SourceDone
<1>11. ASSUME NEW p \in Procs, FlagConflict(p) PROVE Tops'
  BY <1>11 DEF FlagConflict, SourceDone
<1>12. ASSUME NEW p \in Procs, ReadNothing(p) PROVE Tops'
  BY <1>12 DEF ReadNothing, Readable, SourceDone
<1>13. ASSUME NEW p \in Procs, Read(p) PROVE Tops'
  <2>1. pc[p] = "tail" /\ IsTop(next[p] - 1)
    BY <1>13 DEF Read, Readable
  <2>2. chunk'[p].part.seq = next[p]
    BY <1>13, Zenon DEF Read
  <2>3. /\ \A q \in Procs \ {p} : chunk'[q] = chunk[q]
        /\ next' = [next EXCEPT ![p] = next[p] + 1]
        /\ pc' = [pc EXCEPT ![p] = "land"]
        /\ UNCHANGED <<lock, landed, nextFile, ixMark, mark>>
    BY <1>13 DEF Read
  <2>4. /\ next[p] \in Nat /\ next'[p] = next[p] + 1 /\ pc'[p] = "land"
        /\ \A q \in Procs \ {p} : next'[q] = next[q] /\ pc'[q] = pc[q]
    BY <2>3
  <2> QED BY SMTT(30), <2>1, <2>2, <2>3, <2>4
<1>14. ASSUME NEW p \in Procs, Land(p) PROVE Tops'
  <2> DEFINE n == next[p] - 1
  <2>1. pc[p] = "land" /\ IsTop(n - 1) /\ chunk[p].part.seq = n /\ n \in Nat
    BY <1>14 DEF Land
  <2>2. /\ landed' = landed \cup {chunk[p].part} /\ pc' = [pc EXCEPT ![p] = "commit"]
        /\ UNCHANGED <<nextFile, ixMark, mark, next, lock, chunk>>
    BY <1>14 DEF Land
  <2>3. \A f \in landed : f.seq \in Nat
    BY DEF Parts
  <2>4. IsTop(n)'
    BY <2>1, <2>2, <2>3
  <2>5. \A q \in Procs \ {p} : pc'[q] = "idle"
    BY <2>1, <2>2
  <2> QED BY SMTT(30), <2>1, <2>2, <2>4, <2>5
<1>15. ASSUME NEW p \in Procs, LandFails(p) PROVE Tops'
  BY <1>15 DEF LandFails
<1>16. ASSUME NEW p \in Procs, Commit(p) PROVE Tops'
  BY SMTT(30), <1>16 DEF Commit, SourceDone
<1>17. ASSUME NEW p \in Procs, CommitFails(p) \/ TailFails(p) PROVE Tops'
  BY <1>17 DEF CommitFails, TailFails
<1>18. ASSUME NEW p \in Procs, WriteIndex(p) PROVE Tops'
  BY SMTT(30), <1>18 DEF WriteIndex, CoveredTo
<1>19. ASSUME NEW p \in Procs, SaveMark(p) PROVE Tops'
  BY <1>19 DEF SaveMark
<1>20. ASSUME NEW p \in Procs, Finish(p) PROVE Tops'
  <2>1. pc[p] \in {"finish", "sources"} /\ IsTop(next[p] - 1)
    BY <1>20 DEF Finish
  <2>2. nextFile' = next[p] /\ lock' = None /\ pc' = [pc EXCEPT ![p] = "idle"]
        /\ UNCHANGED <<landed, ixMark>>
    BY <1>20 DEF Finish, Forget
  <2>3. \A q \in Procs : pc'[q] = "idle"
    BY <2>1, <2>2
  <2> QED BY <2>1, <2>2, <2>3
<1>21. ASSUME NEW p \in Procs, Stop(p) PROVE Tops'
  BY <1>21 DEF Stop, Forget
<1>22. CASE UNCHANGED vars
  BY <1>22 DEF vars
<1>23. QED
  BY <1>1, <1>2, <1>3, <1>4, <1>5, <1>6, <1>7, <1>8, <1>9, <1>10, <1>11, <1>12, <1>13, <1>14,
     <1>15, <1>16, <1>17, <1>18, <1>19, <1>20, <1>21, <1>22
  DEF Next, Environment, Step, Fault

LEMMA TopsInductive ==
    ASSUME MaxFaults = 0
    PROVE  Spec => []TopsInv
<1>1. TopsInv /\ [Next]_vars => TopsInv'
  BY TopsStep, SeqStep, StepType DEF TopsInv, SeqInv
<1> QED BY <1>1, TopsInit, PTL DEF Spec
-----------------------------------------------------------------------------
(***************************************************************************)
(* The mapped state.                                                       *)
(***************************************************************************)
LEMMA LastIs ==
    ASSUME NEW T \in SUBSET Nat, NEW n \in Nat, n \in T, \A m \in T : m <= n
    PROVE  Zone!Last(T) = n
<1>1. PICK k : k = Zone!Last(T)
  OBVIOUS
<1>2. k \in T /\ \A m \in T : m <= k
  BY <1>1 DEF Zone!Last
<1>3. k \in Nat /\ n <= k /\ k <= n
  BY <1>2
<1>4. k = n
  BY <1>3
<1> QED BY <1>1, <1>4

\* The highest landed sequence, with a watermark that is no higher.
LEMMA TopIsLast ==
    ASSUME TypeInv, NEW n, IsTop(n)
    PROVE  /\ Zone!Last(Numbers) = n
           /\ \A k \in 0 .. n : Zone!Last(Numbers \cup {k}) = n
<1>1. n \in Nat /\ Numbers \in SUBSET Nat /\ \A m \in Numbers : m <= n
  BY DEF IsTop, Numbers, TypeInv, TypeOK, Parts
<1>2. CASE n \in Numbers
  <2>1. Zone!Last(Numbers) = n
    BY <1>1, <1>2, LastIs
  <2>2. ASSUME NEW k \in 0 .. n PROVE Zone!Last(Numbers \cup {k}) = n
    <3>1. /\ Numbers \cup {k} \in SUBSET Nat /\ n \in Numbers \cup {k}
          /\ \A m \in Numbers \cup {k} : m <= n
      BY <1>1, <1>2
    <3> QED BY <1>1, <3>1, LastIs
  <2> QED BY <2>1, <2>2
<1>3. CASE n \notin Numbers
  <2>1. n = 0 /\ Numbers = {}
    BY <1>3 DEF IsTop, Numbers
  <2>2. Zone!Last(Numbers) = 0
    BY <2>1 DEF Zone!Last
  <2>3. ASSUME NEW k \in 0 .. n PROVE Zone!Last(Numbers \cup {k}) = n
    <3>1. k = 0 /\ Numbers \cup {k} = {0}
      BY <2>1, <2>3
    <3> QED BY <2>1, <3>1, LastIs
  <2> QED BY <2>1, <2>2, <2>3
<1> QED BY <1>2, <1>3

LEMMA SeqsOfConcat ==
    ASSUME NEW q \in Seq(Parts), NEW r \in Seq(Parts)
    PROVE  SeqsOf(q \o r) = SeqsOf(q) \cup SeqsOf(r)
<1>1. /\ Len(q \o r) = Len(q) + Len(r) /\ DOMAIN (q \o r) = 1 .. Len(q) + Len(r)
      /\ \A i \in 1 .. Len(q) + Len(r) : (q \o r)[i] = IF i <= Len(q) THEN q[i] ELSE r[i - Len(q)]
  BY ConcatProperties
<1>2. Len(q) \in Nat /\ Len(r) \in Nat /\ DOMAIN q = 1 .. Len(q) /\ DOMAIN r = 1 .. Len(r)
  OBVIOUS
<1> DEFINE c == q \o r
<1>3. SeqsOf(c) \subseteq SeqsOf(q) \cup SeqsOf(r)
  BY <1>1, <1>2 DEF SeqsOf
<1>4. SeqsOf(q) \subseteq SeqsOf(c)
  BY <1>1, <1>2 DEF SeqsOf
<1>5. SeqsOf(r) \subseteq SeqsOf(c)
  <2> SUFFICES ASSUME NEW i \in 1 .. Len(r) PROVE r[i].seq \in SeqsOf(c)
    BY <1>2 DEF SeqsOf
  <2>1. Len(q) + i \in 1 .. Len(q) + Len(r) /\ c[Len(q) + i] = r[i]
    BY <1>1, <1>2
  <2> HIDE DEF c
  <2>2. DOMAIN c = 1 .. Len(q) + Len(r)
    BY <1>1 DEF c
  <2> QED BY <2>1, <2>2 DEF SeqsOf
<1> QED BY <1>3, <1>4, <1>5

LEMMA SeqsOfAppend ==
    ASSUME NEW q \in Seq(Parts), NEW f \in Parts
    PROVE  SeqsOf(Append(q, f)) = SeqsOf(q) \cup {f.seq}
<1> DEFINE a == Append(q, f)
<1>1. /\ DOMAIN a = 1 .. Len(q) + 1 /\ DOMAIN q = 1 .. Len(q) /\ Len(q) \in Nat
      /\ \A i \in 1 .. Len(q) : a[i] = q[i]
      /\ a[Len(q) + 1] = f
  BY AppendProperties
<1> HIDE DEF a
<1>2. SeqsOf(a) = SeqsOf(q) \cup {f.seq}
  BY <1>1 DEF SeqsOf
<1> QED BY <1>2 DEF a

LEMMA SeqsOfEmpty == SeqsOf(<<>>) = {}
BY DEF SeqsOf

\* Rebuilding from disk finds every landed file above the watermark, and nothing else.
LEMMA FoundAll ==
    ASSUME TypeInv, NEW n, NEW q \in LandedAbove(n)
    PROVE  /\ \A i \in DOMAIN q : q[i] \in landed /\ q[i].seq > n
           /\ \A f \in landed : f.seq > n => \E i \in DOMAIN q : q[i] = f
<1> DEFINE S == {f \in landed : f.seq > n}
           c == Cardinality(S)
<1>1. IsFiniteSet(S) /\ c \in Nat
  BY FS_Subset, FS_CardinalityType DEF TypeInv
<1>2. q \in [1 .. c -> S] /\ \A i, j \in 1 .. c : i < j => q[i] # q[j]
  BY DEF LandedAbove, InSeqOrder
<1> HIDE DEF S, c
<1>3. \A i, j \in 1 .. c : q[i] = q[j] => i = j
  <2> SUFFICES ASSUME NEW i \in 1 .. c, NEW j \in 1 .. c, q[i] = q[j] PROVE i = j
    OBVIOUS
  <2>1. ~(i < j) /\ ~(j < i)
    BY <1>2
  <2> QED BY <1>1, <2>1
<1>4. q \in Injection(1 .. c, S)
  BY <1>2, <1>3 DEF Injection, IsInjective
<1>5. Cardinality(1 .. c) = c
  BY <1>1, FS_Interval
<1>6. q \in Surjection(1 .. c, S)
  BY <1>1, <1>4, <1>5, FS_Injection DEF c
<1>7. \A f \in S : \E i \in 1 .. c : q[i] = f
  BY <1>6 DEF Surjection
<1>8. DOMAIN q = 1 .. c /\ \A i \in 1 .. c : q[i] \in S
  BY <1>2
<1> QED BY <1>7, <1>8 DEF S

LEMMA SeqsOfFound ==
    ASSUME TypeInv, NEW n, NEW q \in LandedAbove(n)
    PROVE  SeqsOf(q) = Zone!Above(n)
<1>1. SeqsOf(q) = {f.seq : f \in {g \in landed : g.seq > n}}
  BY FoundAll DEF SeqsOf
<1>2. {f.seq : f \in {g \in landed : g.seq > n}} = {m \in Numbers : m > n}
  BY DEF Numbers
<1> QED BY <1>1, <1>2 DEF Zone!Above

LEMMA SeqsOfType ==
    ASSUME NEW q \in Seq(Parts)
    PROVE  SeqsOf(q) \in SUBSET Nat
<1>1. \A i \in DOMAIN q : q[i] \in Parts
  OBVIOUS
<1>2. \A f \in Parts : f.seq \in Nat
  BY DEF Parts
<1> QED BY <1>1, <1>2 DEF SeqsOf

Resting == Stage = "idle" /\ Loaded = NoMark /\ Held = {}

\* What the zone's pass is, by where the collector holding the lock is.
Mapped ==
    /\ lock = None => Resting
    /\ \A p \in Procs : pc[p] # "idle" =>
          /\ lock = p
          /\ pc[p] = "load" => Resting
          /\ pc[p] # "load" => Loaded = mark[p]
          /\ pc[p] = "loaded" => Stage = "begun" /\ Held = {}
          /\ pc[p] \notin {"load", "loaded"} => Held = SeqsOf(ix[p])
          /\ pc[p] \in {"sources", "tail", "land"} => Stage = IF dirty[p] THEN "dirty" ELSE "clean"
          /\ pc[p] = "commit" => Stage = "dirty"
          /\ pc[p] = "mark" => Stage = "written"
          /\ pc[p] = "finish" => Stage = "saved"

LEMMA MappedIs == TopsInv => Mapped
<1> SUFFICES ASSUME TopsInv PROVE Mapped
  OBVIOUS
<1>1. lock = None => Resting
  BY DEF Resting, Stage, Loaded, Held
<1>2. ASSUME NEW p \in Procs, pc[p] # "idle"
      PROVE  /\ lock = p /\ lock # None
             /\ Stage = CASE pc[p] = "load"   -> "idle"
                          [] pc[p] = "loaded" -> "begun"
                          [] pc[p] = "commit" -> "dirty"
                          [] pc[p] = "mark"   -> "written"
                          [] pc[p] = "finish" -> "saved"
                          [] OTHER -> IF dirty[p] THEN "dirty" ELSE "clean"
  <2>1. lock = p /\ lock # None
    BY <1>2, CollectorAssumption DEF TopsInv, SeqInv, Alone
  <2> QED BY <2>1 DEF Stage
<1>3. ASSUME NEW p \in Procs, pc[p] # "idle"
      PROVE  /\ pc[p] = "load" => Stage = "idle"
             /\ pc[p] = "loaded" => Stage = "begun"
             /\ pc[p] \in {"sources", "tail", "land"} => Stage = IF dirty[p] THEN "dirty" ELSE "clean"
             /\ pc[p] = "commit" => Stage = "dirty"
             /\ pc[p] = "mark" => Stage = "written"
             /\ pc[p] = "finish" => Stage = "saved"
  BY <1>2, <1>3
<1>4. ASSUME NEW p \in Procs, pc[p] # "idle"
      PROVE  /\ pc[p] # "load" => Stage # "idle"
             /\ pc[p] \notin {"load", "loaded"} => Stage \notin {"idle", "begun"}
  BY <1>3, <1>4 DEF TopsInv, SeqInv, TypeInv, TypeOK, PCs
<1> QED BY <1>1, <1>2, <1>3, <1>4 DEF Mapped, Resting, Loaded, Held

LEMMA MappedNext == TopsInv' => Mapped'
BY MappedIs, PTL

\* The steps of a pass that the parser does not see.
LEMMA Unseen ==
    ASSUME UNCHANGED <<landed, ixFile, ixMark, drops>>,
           Stage' = Stage, Loaded' = Loaded, Held' = Held
    PROVE  UNCHANGED Zone!landingVars
BY DEF Zone!landingVars, Numbers, Entries

LEMMA LandingStep ==
    ASSUME MaxFaults = 0, None \notin Seq(Parts), None \notin SUBSET Nat,
           TopsInv, TopsInv', [Next]_vars
    PROVE  [Zone!LandingNext]_Zone!landingVars
<1> DEFINE Goal == Zone!LandingNext \/ UNCHANGED Zone!landingVars
<1>0. Mapped /\ Mapped'
  BY MappedIs, MappedNext
<1>a. TypeInv /\ TypeInv' /\ TypeOK /\ Alone /\ Alone' /\ None \notin Procs
  BY CollectorAssumption DEF TopsInv, SeqInv, TypeInv
<1>b. \A q \in Seq(Parts) : SeqsOf(q) \in SUBSET Nat
  BY SeqsOfType
<1> USE DEF env, zone, mem, passes, budgets
<1>1. CASE UNCHANGED vars
  BY <1>1, Unseen DEF vars, Stage, Loaded, Held
<1>2. ASSUME NEW s \in Sources, Grow(s) \/ Replace(s) \/ Rewrite(s) \/ Prune(s) PROVE Goal
  <2>1. UNCHANGED <<zone, mem, passes, budgets>>
    BY <1>2 DEF Grow, Replace, Rewrite, Prune
  <2> QED BY <2>1, Unseen DEF Stage, Loaded, Held
<1>3. CASE DropIndex
  <2>1. UNCHANGED <<landed, mem, passes>> /\ ixFile # NoIndex /\ ixFile' = NoIndex /\ ixMark' = NoMark
        /\ drops < MaxDrops /\ drops' = drops + 1
    BY <1>3 DEF DropIndex
  <2>2. Stage' = Stage /\ Loaded' = Loaded /\ Held' = Held /\ Numbers' = Numbers
    BY <2>1 DEF Stage, Loaded, Held, Numbers
  <2>3. Entries # None /\ Entries' = None
    BY <1>a, <1>b, <2>1 DEF Entries, TypeOK
  <2>4. Zone!DropEntries
    BY <2>1, <2>2, <2>3 DEF Zone!DropEntries, Zone!passVars, Zone!NoMark, NoMark
  <2> QED BY <2>4 DEF Zone!LandingNext
<1>4. ASSUME NEW p \in Procs, Begin(p) PROVE Goal
  <2>1. lock = None /\ pc'[p] = "load" /\ UNCHANGED <<landed, ixFile, ixMark, drops>>
    BY <1>4, <1>a DEF Begin, LockFree, TypeOK
  <2>2. Resting /\ Resting'
    BY <1>0, <2>1 DEF Mapped
  <2>3. Stage' = Stage /\ Loaded' = Loaded /\ Held' = Held
    BY <2>2 DEF Resting
  <2> QED BY <2>1, <2>3, Unseen
<1>5. ASSUME NEW p \in Procs, Busy(p) PROVE Goal
  BY <1>5, Unseen DEF Busy, Stage, Loaded, Held
<1>6. ASSUME NEW p \in Procs, LoadState(p) PROVE Goal
  <2>1. /\ pc[p] = "load" /\ pc'[p] = "loaded" /\ mark'[p] = ixMark
        /\ UNCHANGED <<landed, ixFile, ixMark, drops>>
    BY <1>6, <1>a DEF LoadState, TypeOK
  <2>2. Stage = "idle" /\ Stage' = "begun" /\ Loaded' = ixMark /\ Held' = Held
    BY <1>0, <2>1 DEF Mapped, Resting
  <2>3. Zone!BeginPass
    BY <2>1, <2>2 DEF Zone!BeginPass, Zone!zoneFiles, Numbers, Entries
  <2> QED BY <2>3 DEF Zone!LandingNext, Zone!Collecting
<1>7. ASSUME NEW p \in Procs, LoadIndex(p) PROVE Goal
  <2> DEFINE usable == mark[p] # NoMark /\ ixFile # NoIndex
             from   == IF usable THEN mark[p] ELSE 0
             top    == next[p] - 1
             old    == IF usable THEN ixFile ELSE <<>>
  <2>1. /\ pc[p] = "loaded" /\ pc'[p] = "sources" /\ UNCHANGED <<landed, ixFile, ixMark, drops>>
        /\ mark'[p] = (IF from < top THEN top ELSE from) /\ dirty'[p] = (from < top)
    BY <1>7, <1>a DEF LoadIndex, Usable, Gap, TypeOK
  <2>2. PICK found \in (IF from < top THEN LandedAbove(from) ELSE {<<>>}) : ix'[p] = old \o found
    BY <1>7, <1>a DEF LoadIndex, Usable, Gap, TypeOK
  <2>3. IsTop(top) /\ top \in Nat
    BY <2>1 DEF TopsInv, Tops, IsTop
  <2>4. from \in 0 .. top
    <3>1. mark[p] \in Nat \cup {NoMark} /\ Reached(mark[p])
      BY <1>a, <2>1 DEF TopsInv, Tops, TypeOK
    <3>2. \A f \in landed : f.seq \in Nat /\ f.seq <= top
      BY <1>a, <2>3 DEF IsTop, TypeOK, Parts
    <3> QED BY <2>3, <3>1, <3>2 DEF Reached
  <2>5. Zone!Last(Numbers \cup {from}) = top
    BY <1>a, <2>3, <2>4, TopIsLast
  <2>6. Zone!Above(from) # {} <=> from < top
    <3>1. CASE from < top
      <4>1. top \in Numbers
        BY <2>3, <2>4, <3>1 DEF IsTop, Numbers
      <4> QED BY <3>1, <4>1 DEF Zone!Above
    <3>2. CASE ~(from < top)
      <4>1. \A m \in Numbers : m \in Nat /\ m <= top
        BY <1>a, <2>3 DEF IsTop, Numbers, TypeOK, Parts
      <4> QED BY <2>3, <2>4, <3>2, <4>1 DEF Zone!Above
    <3> QED BY <3>1, <3>2
  <2>7. SeqsOf(found) = Zone!Above(from) /\ found \in Seq(Parts)
    <3>1. CASE from < top
      <4>1. found \in LandedAbove(from)
        BY <2>2, <3>1
      <4> HIDE DEF from
      <4> QED BY <1>a, <4>1, SeqsOfFound, LandedAboveType
    <3>2. CASE ~(from < top)
      <4>1. found = <<>>
        BY <2>2, <3>2
      <4>2. Zone!Above(from) = {}
        BY <2>6, <3>2
      <4> QED BY <4>1, <4>2, SeqsOfEmpty
    <3> QED BY <3>1, <3>2
  <2>8. SeqsOf(ix'[p]) = (IF usable THEN SeqsOf(ixFile) ELSE {}) \cup Zone!Above(from)
    <3>1. old \in Seq(Parts) /\ SeqsOf(old) = IF usable THEN SeqsOf(ixFile) ELSE {}
      <4>1. usable => ixFile \in Seq(Parts)
        BY <1>a DEF TypeOK
      <4>2. CASE usable
        BY <4>1, <4>2
      <4>3. CASE ~usable
        <5>1. old = <<>>
          BY <4>3
        <5>2. <<>> \in Seq(Parts) /\ SeqsOf(<<>>) = {}
          BY SeqsOfEmpty
        <5> HIDE DEF old, usable
        <5> QED BY <4>3, <5>1, <5>2
      <4> QED BY <4>2, <4>3
    <3>2. SeqsOf(old \o found) = SeqsOf(old) \cup SeqsOf(found)
      <4> HIDE DEF old
      <4> QED BY <2>7, <3>1, SeqsOfConcat
    <3> QED
      <4> HIDE DEF old, from, usable
      <4> QED BY <2>2, <2>7, <3>1, <3>2
  <2>9. usable <=> Loaded # Zone!NoMark /\ Entries # None
    <3>1. Loaded = mark[p]
      BY <1>0, <2>1 DEF Mapped
    <3>2. ixFile # NoIndex <=> Entries # None
      BY <1>a, <1>b DEF Entries, TypeOK
    <3> QED BY <3>1, <3>2 DEF NoMark, Zone!NoMark
  <2>10. usable => Loaded = from /\ Entries = SeqsOf(ixFile)
    BY <1>0, <2>1 DEF Mapped, Entries
  <2>11. /\ Stage = "begun" /\ Stage' = (IF from < top THEN "dirty" ELSE "clean")
         /\ Loaded' = top /\ Held' = SeqsOf(ix'[p])
    <3>1. mark'[p] = top
      BY <2>1, <2>3, <2>4
    <3> QED BY <1>0, <2>1, <3>1 DEF Mapped
  <2> DEFINE use == Loaded # Zone!NoMark /\ Entries # None
             low == IF use THEN Loaded ELSE 0
  <2>12. low = from
    BY <2>9, <2>10
  <2>13. /\ Held' = (IF use THEN Entries ELSE {}) \cup Zone!Above(low)
         /\ Loaded' = Zone!Last(Numbers \cup {low})
         /\ Stage' = IF Zone!Above(low) # {} THEN "dirty" ELSE "clean"
    <3>1. Held' = (IF use THEN Entries ELSE {}) \cup Zone!Above(low)
      <4> HIDE DEF from, low
      <4> QED BY <2>8, <2>9, <2>10, <2>11, <2>12
    <3>2. Loaded' = Zone!Last(Numbers \cup {low})
      <4> HIDE DEF from, low
      <4> QED BY <2>5, <2>11, <2>12
    <3>3. Stage' = IF Zone!Above(low) # {} THEN "dirty" ELSE "clean"
      <4> HIDE DEF from, low
      <4> QED BY <2>6, <2>11, <2>12
    <3> QED BY <3>1, <3>2, <3>3
  <2>14. UNCHANGED <<Numbers, Entries, ixMark, drops>>
    BY <2>1 DEF Numbers, Entries
  <2>15. Zone!LoadEntries
    BY <2>11, <2>13, <2>14 DEF Zone!LoadEntries, Zone!zoneFiles
  <2> QED BY <2>15 DEF Zone!LandingNext, Zone!Collecting
<1>8. ASSUME NEW p \in Procs, pc[p] \in {"sources", "tail", "land"}, pc'[p] \in {"sources", "tail", "land"},
             UNCHANGED <<landed, ixFile, ixMark, drops>>,
             mark'[p] = mark[p], ix'[p] = ix[p], dirty'[p] = dirty[p]
      PROVE  Goal
  <2>1. Stage' = Stage /\ Loaded' = Loaded /\ Held' = Held
    BY <1>0, <1>8 DEF Mapped
  <2> QED BY <1>8, <2>1, Unseen
<1>9. ASSUME NEW p \in Procs, NEW s \in Sources, Refuse(p, s) \/ Claim(p, s) PROVE Goal
  BY <1>8, <1>9, <1>a DEF Refuse, Claim, TypeOK
<1>10. ASSUME NEW p \in Procs,
              SkipConflicted(p) \/ MarkGone(p) \/ FlagConflict(p) \/ ReadNothing(p) PROVE Goal
  BY <1>8, <1>10, <1>a
  DEF SkipConflicted, MarkGone, FlagConflict, ReadNothing, Readable, SourceDone, TypeOK
<1>11. ASSUME NEW p \in Procs, Read(p) PROVE Goal
  BY <1>8, <1>11, <1>a DEF Read, Readable, TypeOK
<1>12. ASSUME NEW p \in Procs, Land(p) PROVE Goal
  <2> DEFINE f == chunk[p].part
             n == next[p] - 1
  <2>1. /\ pc[p] = "land" /\ pc'[p] = "commit" /\ landed' = landed \cup {f}
        /\ ix'[p] = Append(ix[p], f)
        /\ UNCHANGED <<ixFile, ixMark, drops, mark>>
    <3>1. pc \in [Procs -> PCs] /\ ix \in [Procs -> Seq(Parts)]
      BY <1>a DEF TypeOK
    <3>2. pc' = [pc EXCEPT ![p] = "commit"] /\ ix' = [ix EXCEPT ![p] = Append(ix[p], f)]
      BY <1>12 DEF Land, IndexedPart
    <3>3. pc[p] = "land" /\ landed' = landed \cup {f} /\ UNCHANGED <<ixFile, ixMark, drops, mark>>
      BY <1>12 DEF Land
    <3> HIDE DEF f
    <3> QED BY <3>1, <3>2, <3>3
  <2>2. IsTop(n - 1) /\ f.seq = n
    <3>1. next[p] - 2 = n - 1
      BY <1>a DEF TypeOK
    <3>2. IsTop(next[p] - 2) /\ f.seq = n
      BY <2>1 DEF TopsInv, Tops
    <3> QED BY <3>1, <3>2
  <2>3. Zone!Last(Numbers) = n - 1
    BY <1>a, <2>2, TopIsLast
  <2>4. f \in Parts /\ ix[p] \in Seq(Parts) /\ n \in Nat \ {0}
    <3>1. chunk[p] \in [part: Parts, ino: Ids, more: BOOLEAN]
      BY <1>a, <2>1 DEF TypeInv, Phase
    <3> QED BY <1>a, <2>2, <3>1 DEF TypeOK, Parts
  <2>5. Numbers' = Numbers \cup {n} /\ Entries' = Entries
    <3> HIDE DEF f, n
    <3> QED BY <2>1, <2>2 DEF Numbers, Entries
  <2>6. Held = SeqsOf(ix[p]) /\ Held' = SeqsOf(ix'[p]) /\ Loaded' = Loaded
        /\ Stage \in {"clean", "dirty"} /\ Stage' = "dirty"
    BY <1>0, <2>1 DEF Mapped
  <2>7. SeqsOf(ix'[p]) = SeqsOf(ix[p]) \cup {n}
    <3> HIDE DEF f, n
    <3> QED BY <2>1, <2>2, <2>4, SeqsOfAppend
  <2>8. Zone!LandNext
    <3>1. Zone!Last(Numbers) + 1 = n /\ n \in Nat \ {0}
      BY <2>3, <2>4
    <3> HIDE DEF f, n
    <3> QED BY <2>1, <2>5, <2>6, <2>7, <3>1 DEF Zone!LandNext
  <2> QED BY <2>8 DEF Zone!LandingNext, Zone!Collecting
<1>13. ASSUME NEW p \in Procs, Commit(p) PROVE Goal
  <2>1. /\ pc[p] = "commit" /\ pc'[p] \in {"sources", "tail"} /\ dirty'[p] = TRUE
        /\ UNCHANGED <<landed, ixFile, ixMark, drops, mark, ix>>
    BY <1>13, <1>a DEF Commit, SourceDone, TypeOK
  <2>2. Stage' = Stage /\ Loaded' = Loaded /\ Held' = Held
    BY <1>0, <2>1 DEF Mapped
  <2> QED BY <2>1, <2>2, Unseen
<1>14. ASSUME NEW p \in Procs, TailFails(p) \/ LandFails(p) \/ CommitFails(p) PROVE Goal
  BY <1>14, <1>a DEF TailFails, LandFails, CommitFails, TypeOK
<1>15. ASSUME NEW p \in Procs, WriteIndex(p) PROVE Goal
  <2>1. /\ pc[p] = "sources" /\ pc'[p] = "mark" /\ dirty[p] /\ ixFile' = ix[p]
        /\ mark'[p] = next[p] - 1
        /\ UNCHANGED <<landed, ixMark, drops, ix>>
    BY <1>15, <1>a DEF WriteIndex, CoveredTo, TypeOK
  <2>2. Zone!Last(Numbers) = next[p] - 1
    BY <1>a, <2>1, TopIsLast DEF TopsInv, Tops
  <2>3. Stage = "dirty" /\ Stage' = "written" /\ Held = SeqsOf(ix[p]) /\ Held' = Held
        /\ Loaded' = mark'[p]
    BY <1>0, <2>1 DEF Mapped
  <2>4. ixFile' # NoIndex
    BY <1>a, <2>1 DEF TypeOK, NoIndex
  <2>5. Entries' = Held /\ Numbers' = Numbers
    BY <2>1, <2>3, <2>4 DEF Entries, Numbers
  <2>6. Zone!WriteEntries
    BY <2>1, <2>2, <2>3, <2>5 DEF Zone!WriteEntries
  <2> QED BY <2>6 DEF Zone!LandingNext, Zone!Collecting
<1>16. ASSUME NEW p \in Procs, SaveMark(p) PROVE Goal
  <2>1. /\ pc[p] = "mark" /\ pc'[p] = "finish" /\ ixMark' = mark[p]
        /\ UNCHANGED <<landed, ixFile, drops, mark, ix>>
    BY <1>16, <1>a DEF SaveMark, TypeOK
  <2>2. Stage = "written" /\ Stage' = "saved" /\ Loaded = mark[p] /\ Loaded' = Loaded /\ Held' = Held
    BY <1>0, <2>1 DEF Mapped
  <2>3. Zone!SaveIndexed
    BY <2>1, <2>2 DEF Zone!SaveIndexed, Numbers, Entries
  <2> QED BY <2>3 DEF Zone!LandingNext, Zone!Collecting
<1>17. ASSUME NEW p \in Procs, Finish(p) PROVE Goal
  <2>1. /\ pc[p] = "finish" \/ (pc[p] = "sources" /\ ~dirty[p])
        /\ lock' = None /\ UNCHANGED <<landed, ixFile, ixMark, drops>>
    BY <1>17 DEF Finish, Forget
  <2>2. Stage \in {"clean", "saved"} /\ Resting'
    BY <1>0, <2>1 DEF Mapped
  <2>3. Zone!EndPass
    BY <2>1, <2>2 DEF Zone!EndPass, Zone!NoPassNext, Zone!zoneFiles, Zone!NoMark, NoMark, Resting, Numbers, Entries
  <2> QED BY <2>3 DEF Zone!LandingNext, Zone!Collecting
<1>18. ASSUME NEW p \in Procs, Stop(p) PROVE Goal
  <2>1. pc[p] # "idle" /\ lock' = None /\ UNCHANGED <<landed, ixFile, ixMark, drops>>
    BY <1>18 DEF Stop, Forget
  <2>2. Resting' /\ UNCHANGED <<Numbers, Entries>>
    BY <1>0, <2>1 DEF Mapped, Numbers, Entries
  <2>3. CASE Stage = "idle"
    <3>1. Resting
      BY <1>0, <1>a, <2>1, <2>3 DEF Mapped, TypeOK, PCs
    <3> QED BY <2>1, <2>2, <3>1, Unseen DEF Resting
  <2>4. CASE Stage \in {"clean", "saved"}
    BY <2>1, <2>2, <2>4 DEF Zone!EndPass, Zone!NoPassNext, Zone!zoneFiles, Zone!NoMark, NoMark, Resting,
       Zone!LandingNext, Zone!Collecting
  <2>5. CASE Stage \notin {"idle", "clean", "saved"}
    BY <2>1, <2>2, <2>5 DEF Zone!BreakOff, Zone!NoPassNext, Zone!zoneFiles, Zone!NoMark, NoMark, Resting,
       Zone!LandingNext
  <2> QED BY <2>3, <2>4, <2>5
<1>19. QED
  BY <1>1, <1>2, <1>3, <1>4, <1>5, <1>6, <1>7, <1>9, <1>10, <1>11, <1>12, <1>13, <1>14, <1>15,
     <1>16, <1>17, <1>18
  DEF Next, Environment, Step, Fault

\* The collector implements the landing zone, as long as each of its writes succeeds or is
\* interrupted: whatever its sources, its crashes and other collectors do, the parser
\* sees evidence land in sequence and the index follow (CollectAll, RebuildIndex).
\* No index and no value of the collector is both a set of numbers and None.
THEOREM LandingImplemented ==
    ASSUME MaxFaults = 0, None \notin Seq(Parts), None \notin SUBSET Nat
    PROVE  Spec => LandsInOrder
<1>1. Init => Zone!LandingInit
  BY DEF Init, Zone!LandingInit, Zone!NoPass, Zone!NoMark, NoMark, Numbers, Entries, Loaded, Held, Stage
<1>2. TopsInv /\ TopsInv' /\ [Next]_vars => [Zone!LandingNext]_Zone!landingVars
  BY LandingStep
<1> QED BY <1>1, <1>2, TopsInductive, PTL DEF Spec, LandsInOrder, Zone!LandingSpec
-----------------------------------------------------------------------------
(***************************************************************************)
(* The derived index of the collector never misses what has landed, while  *)
(* no write of the collector fails.  (With writes that fail it does miss   *)
(* files: see the run on spent sequences.)                                 *)
(***************************************************************************)
Has(q, f) == \E i \in DOMAIN q : q[i] = f
AllIndexed == ixFile # NoIndex => \A f \in landed : Indexed(f)

\* The phases of a pass in which it holds the index in memory.
Holding == {"sources", "tail", "land", "commit", "mark", "finish"}

\* What the index means to a pass: before it is loaded, the watermark that was read is
\* honest; then the index in memory holds all that has landed and nothing else, and until
\* something lands, and after it is written, so does the one on disk.
Kept(p) ==
    /\ pc[p] = "loaded" /\ mark[p] # NoMark /\ ixFile # NoIndex =>
          \A f \in landed : f.seq <= mark[p] => Indexed(f)
    /\ pc[p] \in Holding =>
          /\ \A f \in landed : Has(ix[p], f)
          /\ \A i \in DOMAIN ix[p] : ix[p][i] \in landed
    /\ pc[p] \in {"sources", "tail", "land"} /\ ~dirty[p] => AllIndexed
    /\ pc[p] \in {"mark", "finish"} => AllIndexed

IndexInv == IndexCovers /\ IndexDerived /\ \A p \in Procs : Kept(p)

LEMMA HasConcat ==
    ASSUME NEW q \in Seq(Parts), NEW r \in Seq(Parts)
    PROVE  /\ \A f : Has(q, f) \/ Has(r, f) => Has(q \o r, f)
           /\ \A i \in DOMAIN (q \o r) : Has(q, (q \o r)[i]) \/ Has(r, (q \o r)[i])
<1>1. /\ Len(q \o r) = Len(q) + Len(r) /\ DOMAIN (q \o r) = 1 .. Len(q) + Len(r)
      /\ \A i \in 1 .. Len(q) + Len(r) : (q \o r)[i] = IF i <= Len(q) THEN q[i] ELSE r[i - Len(q)]
  BY ConcatProperties
<1>2. Len(q) \in Nat /\ Len(r) \in Nat /\ DOMAIN q = 1 .. Len(q) /\ DOMAIN r = 1 .. Len(r)
  OBVIOUS
<1> DEFINE c == q \o r
<1> HIDE DEF c
<1>3. \A i \in 1 .. Len(q) : c[i] = q[i] /\ i \in DOMAIN c
  BY <1>1, <1>2 DEF c
<1>4. \A i \in 1 .. Len(r) : c[Len(q) + i] = r[i] /\ Len(q) + i \in DOMAIN c
  BY <1>1, <1>2 DEF c
<1>5. \A f : Has(q, f) \/ Has(r, f) => Has(c, f)
  BY <1>2, <1>3, <1>4 DEF Has
<1>6. ASSUME NEW i \in DOMAIN c PROVE Has(q, c[i]) \/ Has(r, c[i])
  <2>1. CASE i <= Len(q)
    BY <1>1, <1>2, <2>1 DEF c, Has
  <2>2. CASE ~(i <= Len(q))
    <3>1. i - Len(q) \in DOMAIN r /\ c[i] = r[i - Len(q)]
      BY <1>1, <1>2, <2>2 DEF c
    <3> QED BY <3>1 DEF Has
  <2> QED BY <2>1, <2>2
<1> QED BY <1>5, <1>6 DEF c

LEMMA HasAppend ==
    ASSUME NEW q \in Seq(Parts), NEW g \in Parts
    PROVE  /\ Has(Append(q, g), g) /\ \A f : Has(q, f) => Has(Append(q, g), f)
           /\ \A i \in DOMAIN Append(q, g) : Has(q, Append(q, g)[i]) \/ Append(q, g)[i] = g
<1> DEFINE a == Append(q, g)
<1>1. /\ DOMAIN a = 1 .. Len(q) + 1 /\ DOMAIN q = 1 .. Len(q) /\ Len(q) \in Nat
      /\ \A i \in 1 .. Len(q) : a[i] = q[i]
      /\ a[Len(q) + 1] = g
  BY AppendProperties
<1> HIDE DEF a
<1>2. Has(a, g)
  BY <1>1 DEF Has
<1>3. \A f : Has(q, f) => Has(a, f)
  BY <1>1 DEF Has
<1>4. ASSUME NEW i \in DOMAIN a PROVE Has(q, a[i]) \/ a[i] = g
  <2>1. i \in 1 .. Len(q) \/ i = Len(q) + 1
    BY <1>1
  <2> QED BY <1>1, <2>1 DEF Has
<1> QED BY <1>2, <1>3, <1>4 DEF a

LEMMA IndexInit == Init => IndexInv
BY DEF Init, IndexInv, IndexCovers, IndexDerived, Kept, Holding

\* Loading the index leaves out nothing: what the file covers, then what is above it.
LEMMA LoadIndexKeeps ==
    ASSUME MaxFaults = 0, TopsInv, IndexInv, NEW p \in Procs, LoadIndex(p)
    PROVE  Kept(p)'
<1> DEFINE usable == mark[p] # NoMark /\ ixFile # NoIndex
           from   == IF usable THEN mark[p] ELSE 0
           old    == IF usable THEN ixFile ELSE <<>>
<1>1. TypeInv /\ TypeOK /\ CounterAbove
  BY DEF TopsInv, SeqInv, TypeInv
<1>2. /\ pc[p] = "loaded" /\ pc'[p] = "sources" /\ UNCHANGED <<landed, ixFile, ixMark>>
      /\ dirty'[p] = (from < next[p] - 1)
  BY <1>1, LoadIndex(p) DEF LoadIndex, Usable, Gap, TypeOK, env, zone, budgets
<1>3. PICK found \in (IF from < next[p] - 1 THEN LandedAbove(from) ELSE {<<>>}) : ix'[p] = old \o found
  BY <1>1 DEF LoadIndex, Usable, Gap, TypeOK
<1>4. /\ found \in Seq(Parts)
      /\ \A i \in DOMAIN found : found[i] \in landed
      /\ \A f \in landed : f.seq > from => Has(found, f)
  <2>1. CASE from < next[p] - 1
    <3>1. found \in LandedAbove(from)
      BY <1>3, <2>1
    <3> HIDE DEF from
    <3> QED BY <1>1, <3>1, FoundAll, LandedAboveType DEF Has
  <2>2. CASE ~(from < next[p] - 1)
    <3>1. found = <<>>
      BY <1>3, <2>2
    <3>2. from \in Int /\ next[p] \in Nat /\ \A f \in landed : f.seq \in Nat
      BY <1>1 DEF TypeOK, Parts, NoMark
    <3>3. \A f \in landed : f.seq < next[p]
      BY <1>1, <1>2 DEF CounterAbove
    <3>4. ~\E f \in landed : f.seq > from
      <4> HIDE DEF from
      <4> QED BY <2>2, <3>2, <3>3
    <3> QED BY <3>1, <3>4
  <2> QED BY <2>1, <2>2
<1>5. /\ old \in Seq(Parts)
      /\ \A i \in DOMAIN old : old[i] \in landed
      /\ usable => \A f \in landed : f.seq <= from => Has(old, f)
  <2>1. CASE usable
    <3>1. old = ixFile /\ from = mark[p]
      BY <2>1
    <3>2. ixFile \in Seq(Parts)
      BY <1>1, <2>1 DEF TypeOK
    <3>3. \A i \in DOMAIN ixFile : ixFile[i] \in landed
      BY <2>1 DEF IndexInv, IndexDerived
    <3>4. \A f \in landed : f.seq <= mark[p] => Has(ixFile, f)
      BY <1>2, <2>1 DEF IndexInv, Kept, Indexed, Has
    <3> HIDE DEF old, from, usable
    <3> QED BY <3>1, <3>2, <3>3, <3>4
  <2>2. CASE ~usable
    <3>1. old = <<>>
      BY <2>2
    <3>2. old \in Seq(Parts) /\ DOMAIN old = {}
      <4> HIDE DEF old
      <4> QED BY <3>1
    <3> HIDE DEF old, usable
    <3> QED BY <2>2, <3>2
  <2> QED BY <2>1, <2>2
<1>6. \A f \in landed : f.seq \in Nat \ {0} /\ (f.seq > from \/ f.seq <= from) /\ (~usable => f.seq > from)
  BY SMTT(30), <1>1 DEF TypeOK, Parts, NoMark
<1>7. /\ \A f \in landed : Has(ix'[p], f)
      /\ \A i \in DOMAIN ix'[p] : ix'[p][i] \in landed
  <2>1. \A f \in landed : Has(old, f) \/ Has(found, f)
    <3> HIDE DEF old, from, usable
    <3> QED BY <1>4, <1>5, <1>6
  <2>2. /\ \A f : Has(old, f) \/ Has(found, f) => Has(old \o found, f)
        /\ \A i \in DOMAIN (old \o found) : Has(old, (old \o found)[i]) \/ Has(found, (old \o found)[i])
    <3> HIDE DEF old
    <3> QED BY <1>4, <1>5, HasConcat
  <2>3. \A f : Has(old, f) \/ Has(found, f) => f \in landed
    <3> HIDE DEF old
    <3> QED BY <1>4, <1>5 DEF Has
  <2> HIDE DEF old
  <2> QED BY <1>3, <2>1, <2>2, <2>3
<1>8. ~dirty'[p] => AllIndexed
  <2> SUFFICES ASSUME ~dirty'[p], ixFile # NoIndex, NEW f \in landed PROVE Indexed(f)
    BY DEF AllIndexed
  <2>1. from \in Int /\ next[p] \in Nat /\ f.seq \in Nat \ {0} /\ ~(from < next[p] - 1)
    <3>1. from \in Int /\ next[p] \in Nat /\ f.seq \in Nat \ {0}
      BY <1>1 DEF TypeOK, Parts, NoMark
    <3>2. ~(from < next[p] - 1)
      <4> HIDE DEF from
      <4> QED BY <1>2
    <3> QED BY <3>1, <3>2
  <2>2. f.seq < next[p]
    BY <1>1, <1>2 DEF CounterAbove
  <2>3. f.seq <= from
    <3> HIDE DEF from
    <3> QED BY <2>1, <2>2
  <2>4. usable
    <3> HIDE DEF from, usable
    <3> QED BY <1>6, <2>1, <2>3
  <2> QED BY <1>2, <2>3, <2>4 DEF IndexInv, Kept
<1>9. AllIndexed' = AllIndexed
  BY <1>2 DEF AllIndexed, Indexed
<1> QED BY <1>2, <1>7, <1>8, <1>9 DEF Kept, Holding, Has

LEMMA IndexStep ==
    ASSUME MaxFaults = 0, TopsInv, TopsInv', IndexInv, [Next]_vars
    PROVE  IndexInv'
<1>0. TypeInv /\ TypeInv' /\ TypeOK /\ TypeOK' /\ Alone /\ Alone' /\ Tops /\ None \notin Procs
  BY CollectorAssumption DEF TopsInv, SeqInv, TypeInv
<1> USE DEF env, zone, mem, passes, budgets
\* Where neither the landed files nor the index change, only the pass itself matters.
<1>k. ASSUME UNCHANGED <<landed, ixFile, ixMark>>, NEW p \in Procs, Kept(p)',
             \A q \in Procs \ {p} : pc'[q] = pc[q], pc[p] # "idle"
      PROVE  IndexInv'
  <2>1. \A q \in Procs \ {p} : pc'[q] = "idle"
    BY <1>0, <1>k DEF Alone
  <2>2. \A q \in Procs \ {p} : Kept(q)'
    BY <2>1 DEF Kept, Holding
  <2>3. (IndexCovers /\ IndexDerived)'
    BY <1>k DEF IndexInv, IndexCovers, IndexDerived, Indexed
  <2> QED BY <1>k, <2>2, <2>3 DEF IndexInv
\* Between windows, a pass that reads and skips changes nothing here.
<1>s. ASSUME UNCHANGED <<landed, ixFile, ixMark, ix, mark, dirty>>, NEW p \in Procs,
             pc[p] \in {"sources", "tail", "land"}, pc'[p] \in {"sources", "tail", "land"},
             \A q \in Procs \ {p} : pc'[q] = pc[q]
      PROVE  IndexInv'
  <2>1. Kept(p)'
    BY <1>s DEF IndexInv, Kept, Holding, AllIndexed, Indexed, Has
  <2> QED BY <1>k, <1>s, <2>1
<1>1. CASE UNCHANGED <<landed, ixFile, ixMark, pc, ix, mark, dirty>>
  BY <1>1 DEF IndexInv, IndexCovers, IndexDerived, Kept, Holding, AllIndexed, Indexed, Has
<1>2. CASE UNCHANGED vars
  BY <1>1, <1>2 DEF vars
<1>3. ASSUME NEW s \in Sources, Grow(s) \/ Replace(s) \/ Rewrite(s) \/ Prune(s) PROVE IndexInv'
  BY <1>1, <1>3 DEF Grow, Replace, Rewrite, Prune
<1>4. CASE DropIndex
  <2>1. ixFile' = NoIndex /\ UNCHANGED <<landed, pc, ix, mark, dirty>>
    BY <1>4 DEF DropIndex
  <2> QED BY <2>1 DEF IndexInv, IndexCovers, IndexDerived, Kept, Holding, AllIndexed, Has
<1>5. ASSUME NEW p \in Procs, Begin(p) PROVE IndexInv'
  <2>1. lock = None /\ pc' = [pc EXCEPT ![p] = "load"] /\ UNCHANGED <<landed, ixFile, ixMark>>
    BY <1>5 DEF Begin, LockFree
  <2>2. \A q \in Procs : pc'[q] \in {"idle", "load"}
    BY <1>0, <2>1 DEF Alone, TypeOK
  <2> QED BY <2>1, <2>2 DEF IndexInv, IndexCovers, IndexDerived, Kept, Holding, Indexed
<1>6. ASSUME NEW p \in Procs, Busy(p) PROVE IndexInv'
  BY <1>1, <1>6 DEF Busy
<1>7. ASSUME NEW p \in Procs, LoadState(p) PROVE IndexInv'
  <2>1. /\ pc[p] = "load" /\ pc' = [pc EXCEPT ![p] = "loaded"] /\ mark' = [mark EXCEPT ![p] = ixMark]
        /\ UNCHANGED <<landed, ixFile, ixMark>>
    BY <1>7 DEF LoadState
  <2>2. pc'[p] = "loaded" /\ mark'[p] = ixMark
    BY <1>0, <2>1 DEF TypeOK
  <2>3. Kept(p)'
    BY <2>1, <2>2 DEF IndexInv, IndexCovers, Kept, Holding, Indexed
  <2> QED BY <1>k, <2>1, <2>3
<1>8. ASSUME NEW p \in Procs, LoadIndex(p) PROVE IndexInv'
  <2>1. Kept(p)'
    BY <1>8, LoadIndexKeeps
  <2> QED BY <1>8, <1>k, <2>1 DEF LoadIndex
<1>9. ASSUME NEW p \in Procs, NEW s \in Sources, Refuse(p, s) \/ Claim(p, s) PROVE IndexInv'
  BY <1>0, <1>9, <1>s DEF Refuse, Claim, TypeOK
<1>10. ASSUME NEW p \in Procs,
              SkipConflicted(p) \/ MarkGone(p) \/ FlagConflict(p) \/ ReadNothing(p) PROVE IndexInv'
  BY <1>0, <1>10, <1>s
  DEF SkipConflicted, MarkGone, FlagConflict, ReadNothing, Readable, SourceDone, TypeOK
<1>11. ASSUME NEW p \in Procs, Read(p) PROVE IndexInv'
  BY <1>0, <1>11, <1>s DEF Read, Readable, TypeOK
<1>12. ASSUME NEW p \in Procs, Land(p) PROVE IndexInv'
  <2> DEFINE g == chunk[p].part
  <2>1. /\ pc[p] = "land" /\ pc'[p] = "commit" /\ landed' = landed \cup {g}
        /\ ix'[p] = Append(ix[p], g)
        /\ UNCHANGED <<ixFile, ixMark>>
    <3>1. pc \in [Procs -> PCs] /\ ix \in [Procs -> Seq(Parts)]
      BY <1>0 DEF TypeOK
    <3>2. pc' = [pc EXCEPT ![p] = "commit"] /\ ix' = [ix EXCEPT ![p] = Append(ix[p], g)]
      BY <1>12 DEF Land, IndexedPart
    <3>3. pc[p] = "land" /\ landed' = landed \cup {g} /\ UNCHANGED <<ixFile, ixMark>>
      BY <1>12 DEF Land
    <3> HIDE DEF g
    <3> QED BY <3>1, <3>2, <3>3
  <2>2. \A q \in Procs \ {p} : pc'[q] = "idle"
    BY <1>0, <1>12 DEF Land, Alone, TypeOK
  <2>3. g.seq = next[p] - 1 /\ IsTop(next[p] - 2) /\ Reached(ixMark)
    BY <1>0, <2>1 DEF Tops
  <2>4. g \in Parts /\ ix[p] \in Seq(Parts) /\ next[p] \in Nat /\ ixMark \in Int
        /\ \A f \in landed : f.seq \in Nat
    <3>1. chunk[p] \in [part: Parts, ino: Ids, more: BOOLEAN]
      BY <1>0, <2>1 DEF TypeInv, Phase
    <3>2. g \in Parts
      BY <3>1
    <3>3. ix[p] \in Seq(Parts) /\ next[p] \in Nat /\ ixMark \in Int
      BY <1>0 DEF TypeOK, NoMark
    <3>4. \A f \in landed : f.seq \in Nat
      BY <1>0 DEF TypeOK, Parts
    <3> HIDE DEF g
    <3> QED BY <3>2, <3>3, <3>4
  <2>5. g.seq > ixMark
    <3>1. next[p] - 2 \in Nat /\ \A f \in landed : f.seq <= next[p] - 2
      BY <2>3 DEF IsTop
    <3>2. ixMark <= next[p] - 2
      BY <2>3, <2>4, <3>1 DEF Reached
    <3> QED BY <2>3, <2>4, <3>2
  <2>6. IndexCovers'
    <3>1. g.seq \in Nat
      BY <2>4 DEF Parts
    <3> HIDE DEF g
    <3> QED BY <2>1, <2>4, <2>5, <3>1 DEF IndexInv, IndexCovers, Indexed
  <2>7. IndexDerived'
    <3> HIDE DEF g
    <3> QED BY <2>1 DEF IndexInv, IndexDerived
  <2>8. Kept(p)'
    <3>1. /\ \A f \in landed : Has(ix[p], f)
          /\ \A f : Has(ix[p], f) => f \in landed
      BY <2>1 DEF IndexInv, Kept, Holding, Has
    <3>2. /\ \A f \in landed' : Has(ix'[p], f)
          /\ \A i \in DOMAIN ix'[p] : ix'[p][i] \in landed'
      <4> HIDE DEF g
      <4> QED BY <2>1, <2>4, <3>1, HasAppend
    <3> QED BY <2>1, <3>2 DEF Kept, Has
  <2>9. \A q \in Procs \ {p} : Kept(q)'
    BY <2>2 DEF Kept, Holding
  <2> QED BY <2>6, <2>7, <2>8, <2>9 DEF IndexInv
<1>13. ASSUME NEW p \in Procs, Commit(p) PROVE IndexInv'
  <2>1. /\ pc[p] = "commit" /\ pc'[p] \in {"sources", "tail"} /\ dirty'[p] = TRUE
        /\ \A q \in Procs \ {p} : pc'[q] = pc[q]
        /\ UNCHANGED <<landed, ixFile, ixMark, mark, ix>>
    BY <1>0, <1>13 DEF Commit, SourceDone, TypeOK
  <2>2. Kept(p)'
    BY <2>1 DEF IndexInv, Kept, Holding, Has
  <2> QED BY <1>k, <2>1, <2>2
<1>14. ASSUME NEW p \in Procs, TailFails(p) \/ LandFails(p) \/ CommitFails(p) PROVE IndexInv'
  BY <1>0, <1>14 DEF TailFails, LandFails, CommitFails, TypeOK
<1>15. ASSUME NEW p \in Procs, WriteIndex(p) PROVE IndexInv'
  <2>1. /\ pc[p] = "sources" /\ pc' = [pc EXCEPT ![p] = "mark"] /\ ixFile' = ix[p]
        /\ UNCHANGED <<landed, ixMark, ix>>
    BY <1>15 DEF WriteIndex
  <2>2. /\ \A f \in landed : Has(ix[p], f)
        /\ \A i \in DOMAIN ix[p] : ix[p][i] \in landed
    BY <2>1 DEF IndexInv, Kept, Holding
  <2>3. pc'[p] = "mark" /\ \A q \in Procs \ {p} : pc'[q] = "idle"
    BY <1>0, <2>1 DEF Alone, TypeOK
  <2>4. (\A f \in landed : ixFile # NoIndex => Indexed(f))' /\ IndexDerived'
    BY <2>1, <2>2 DEF Indexed, IndexDerived, Has
  <2>5. \A q \in Procs : Kept(q)'
    BY <2>1, <2>2, <2>3, <2>4 DEF Kept, Holding, AllIndexed, Has
  <2>6. IndexCovers'
    BY <2>4 DEF IndexCovers
  <2> QED BY <2>4, <2>5, <2>6 DEF IndexInv
<1>16. ASSUME NEW p \in Procs, SaveMark(p) PROVE IndexInv'
  <2>1. /\ pc[p] = "mark" /\ pc' = [pc EXCEPT ![p] = "finish"]
        /\ UNCHANGED <<landed, ixFile, ix, mark, dirty>>
    BY <1>16 DEF SaveMark
  <2>2. AllIndexed /\ AllIndexed'
    BY <2>1 DEF IndexInv, Kept, AllIndexed, Indexed
  <2>3. pc'[p] = "finish" /\ \A q \in Procs \ {p} : pc'[q] = "idle"
    BY <1>0, <2>1 DEF Alone, TypeOK
  <2>4. \A q \in Procs : Kept(q)'
    BY <2>1, <2>2, <2>3 DEF IndexInv, Kept, Holding, Has
  <2>5. IndexCovers' /\ IndexDerived'
    BY <2>1, <2>2 DEF IndexInv, IndexCovers, IndexDerived, AllIndexed
  <2> QED BY <2>4, <2>5 DEF IndexInv
<1>17. ASSUME NEW p \in Procs, Finish(p) \/ Stop(p) PROVE IndexInv'
  <2>1. /\ pc[p] # "idle" /\ pc' = [pc EXCEPT ![p] = "idle"] /\ UNCHANGED <<landed, ixFile, ixMark>>
    BY <1>17 DEF Finish, Stop, Forget
  <2>2. \A q \in Procs : pc'[q] = "idle"
    BY <1>0, <2>1 DEF Alone, TypeOK
  <2> QED BY <2>1, <2>2 DEF IndexInv, IndexCovers, IndexDerived, Indexed, Kept, Holding
<1>18. QED
  BY <1>2, <1>3, <1>4, <1>5, <1>6, <1>7, <1>8, <1>9, <1>10, <1>11, <1>12, <1>13, <1>14, <1>15,
     <1>16, <1>17
  DEF Next, Environment, Step, Fault

LEMMA IndexInductive ==
    ASSUME MaxFaults = 0
    PROVE  Spec => [](TopsInv /\ IndexInv)
<1>1. TopsInv /\ TopsInv' /\ IndexInv /\ [Next]_vars => IndexInv'
  BY IndexStep
<1> QED BY <1>1, IndexInit, TopsInductive, PTL DEF Spec

\* However passes are interrupted, between the cursors, the index and its state, the
\* watermark never claims a landed file the index does not hold (collect.go, "Close any
\* gap"), as long as no write fails.
THEOREM WatermarkHonest ==
    ASSUME MaxFaults = 0
    PROVE  Spec => []IndexCovers
<1>1. IndexInv => IndexCovers
  BY DEF IndexInv
<1> QED BY <1>1, IndexInductive, PTL

\* The index on disk refers to landed files only (lookup.go: "derived, rebuildable").
THEOREM IndexOfLanded ==
    ASSUME MaxFaults = 0
    PROVE  Spec => []IndexDerived
<1>1. IndexInv => IndexDerived
  BY DEF IndexInv
<1> QED BY <1>1, IndexInductive, PTL

\* A pass that reports itself complete leaves no landed file out of the index: such a gap
\* would never close, because nothing lands again (collect.go, "Close any gap").
THEOREM CompletePassIndexes ==
    ASSUME MaxFaults = 0
    PROVE  Spec => CompleteMeansIndexed
<1>1. ASSUME TopsInv, IndexInv, [Next]_vars
      PROVE  [\A p \in Procs : (PassCompletes(p) /\ ixFile # NoIndex) => \A f \in landed : Indexed(f)]_vars
  <2> SUFFICES ASSUME NEW p \in Procs, PassCompletes(p), ixFile # NoIndex, NEW f \in landed
               PROVE  Indexed(f)
    BY DEF PassCompletes
  <2>1. Finish(p)
    BY <1>1, OnlyFinishes DEF TopsInv, SeqInv, TypeInv
  <2>2. pc[p] = "finish" \/ (pc[p] = "sources" /\ ~dirty[p])
    BY <2>1 DEF Finish
  <2>3. AllIndexed
    BY <1>1, <2>2 DEF IndexInv, Kept
  <2> QED BY <2>3 DEF AllIndexed
<1>2. TopsInv /\ IndexInv /\ [Next]_vars
      => [\A p \in Procs : (PassCompletes(p) /\ ixFile # NoIndex) => \A f \in landed : Indexed(f)]_vars
  BY <1>1
<1> QED BY <1>2, IndexInductive, PTL DEF Spec, CompleteMeansIndexed
-----------------------------------------------------------------------------
(***************************************************************************)
(* The order of the index, and its watermark against the counter, while no *)
(* pass is interrupted.  Writes may fail: a sequence that was spent is     *)
(* never used again, because the pass saves the counter it ends with.      *)
(***************************************************************************)
Ascends(q) == \A i, j \in DOMAIN q : i < j => q[i].seq < q[j].seq
UpTo(q, n) == \A i \in DOMAIN q : q[i].seq <= n

Distinct == \A f, g \in landed : f.seq = g.seq => f = g

\* The index and its watermark while no pass is between writing the one and the other, and
\* the counter while none has raised it.
Rests ==
    /\ (\A p \in Procs : pc[p] # "mark") /\ ixFile # NoIndex /\ ixMark # NoMark => UpTo(ixFile, ixMark)
    /\ (\A p \in Procs : pc[p] \in {"idle", "load"}) => ixMark <= nextFile - 1

\* The index a pass holds ascends to the last sequence it took; its watermark and the one on
\* disk are at most that, and cover the file they go with.
InOrder(p) ==
    /\ pc[p] \in {"loaded", "mark"} /\ mark[p] # NoMark /\ ixFile # NoIndex => UpTo(ixFile, mark[p])
    /\ pc[p] \in Holding => Ascends(ix[p])
    /\ pc[p] \in Holding \ {"land"} => UpTo(ix[p], next[p] - 1)
    /\ pc[p] = "land" => UpTo(ix[p], next[p] - 2) /\ chunk[p].part.seq = next[p] - 1
    /\ pc[p] \notin {"idle", "load"} => mark[p] <= next[p] - 1 /\ ixMark <= next[p] - 1

OrderInv == SeqInv /\ Distinct /\ Rests /\ (\A p \in Procs : InOrder(p)) /\ IndexInLandedOrder

LEMMA SeqIsNat == ASSUME NEW f \in Parts PROVE f.seq \in Nat \ {0}
BY DEF Parts

LEMMA AppendAscends ==
    ASSUME NEW q \in Seq(Parts), NEW g \in Parts, Ascends(q), UpTo(q, g.seq - 1)
    PROVE  Ascends(Append(q, g)) /\ UpTo(Append(q, g), g.seq)
<1> DEFINE a == Append(q, g)
<1>1. /\ DOMAIN a = 1 .. Len(q) + 1 /\ DOMAIN q = 1 .. Len(q) /\ Len(q) \in Nat
      /\ \A i \in 1 .. Len(q) : a[i] = q[i]
      /\ a[Len(q) + 1] = g
  BY AppendProperties
<1>2. g.seq \in Nat /\ \A i \in 1 .. Len(q) : q[i].seq \in Nat
  <2>1. \A i \in 1 .. Len(q) : q[i] \in Parts
    BY <1>1
  <2> QED BY <2>1, SeqIsNat
<1> HIDE DEF a
<1>3. \A i \in 1 .. Len(q) : a[i].seq <= g.seq - 1 /\ a[i].seq \in Nat
  BY <1>1, <1>2 DEF UpTo
<1>4. UpTo(a, g.seq)
  BY <1>1, <1>2, <1>3 DEF UpTo
<1>5. ASSUME NEW i \in DOMAIN a, NEW j \in DOMAIN a, i < j PROVE a[i].seq < a[j].seq
  <2>1. i \in 1 .. Len(q)
    BY <1>1, <1>5
  <2>2. CASE j = Len(q) + 1
    BY <1>1, <1>2, <1>3, <2>1, <2>2
  <2>3. CASE j # Len(q) + 1
    <3>1. j \in 1 .. Len(q)
      BY <1>1, <2>3
    <3> QED BY <1>1, <1>5, <2>1, <3>1 DEF Ascends
  <2> QED BY <2>2, <2>3
<1> QED BY <1>4, <1>5 DEF Ascends, a

LEMMA ConcatAscends ==
    ASSUME NEW q \in Seq(Parts), NEW r \in Seq(Parts), NEW m \in Int, NEW n \in Int,
           Ascends(q), Ascends(r), UpTo(q, m), \A i \in DOMAIN r : r[i].seq > m,
           UpTo(q, n), UpTo(r, n)
    PROVE  Ascends(q \o r) /\ UpTo(q \o r, n)
<1> DEFINE c == q \o r
<1>1. /\ DOMAIN c = 1 .. Len(q) + Len(r)
      /\ \A i \in 1 .. Len(q) + Len(r) : c[i] = IF i <= Len(q) THEN q[i] ELSE r[i - Len(q)]
  BY ConcatProperties
<1>2. Len(q) \in Nat /\ Len(r) \in Nat /\ DOMAIN q = 1 .. Len(q) /\ DOMAIN r = 1 .. Len(r)
  OBVIOUS
<1> HIDE DEF c
<1>3. ASSUME NEW i \in DOMAIN c
      PROVE  \/ i \in DOMAIN q /\ c[i] = q[i]
             \/ i > Len(q) /\ i - Len(q) \in DOMAIN r /\ c[i] = r[i - Len(q)]
  BY <1>1, <1>2
<1>4. UpTo(c, n)
  BY <1>3 DEF UpTo
<1>5. \A i \in DOMAIN q : q[i].seq \in Nat
  <2>1. \A i \in DOMAIN q : q[i] \in Parts
    OBVIOUS
  <2> QED BY <2>1, SeqIsNat
<1>6. \A i \in DOMAIN r : r[i].seq \in Nat
  <2>1. \A i \in DOMAIN r : r[i] \in Parts
    OBVIOUS
  <2> QED BY <2>1, SeqIsNat
<1>7. ASSUME NEW i \in DOMAIN c, NEW j \in DOMAIN c, i < j PROVE c[i].seq < c[j].seq
  <2>1. i \in Nat /\ j \in Nat
    BY <1>1, <1>2
  <2>2. CASE j \in DOMAIN q /\ c[j] = q[j]
    <3>1. i \in DOMAIN q /\ c[i] = q[i]
      BY <1>2, <1>3, <1>7, <2>1, <2>2
    <3> QED BY <1>7, <2>2, <3>1 DEF Ascends
  <2>3. CASE j - Len(q) \in DOMAIN r /\ c[j] = r[j - Len(q)]
    <3>1. CASE i \in DOMAIN q /\ c[i] = q[i]
      <4>1. c[i].seq <= m /\ c[j].seq > m /\ c[i].seq \in Nat /\ c[j].seq \in Nat
        BY <1>5, <1>6, <2>3, <3>1 DEF UpTo
      <4> QED BY <4>1
    <3>2. CASE i - Len(q) \in DOMAIN r /\ c[i] = r[i - Len(q)]
      <4>1. i - Len(q) < j - Len(q)
        BY <1>2, <1>7, <2>1
      <4> QED BY <2>3, <3>2, <4>1 DEF Ascends
    <3> QED BY <1>3, <3>1, <3>2
  <2> QED BY <1>3, <2>2, <2>3
<1> QED BY <1>4, <1>7 DEF Ascends, c

\* What LandedFiles lists above a sequence ascends.
LEMMA FoundAscends ==
    ASSUME TypeInv, Distinct, NEW n \in Int, NEW q \in LandedAbove(n)
    PROVE  q \in Seq(Parts) /\ Ascends(q) /\ \A i \in DOMAIN q : q[i] \in landed /\ q[i].seq > n
<1>1. q \in Seq(Parts) /\ \A i \in DOMAIN q : q[i] \in landed /\ q[i].seq > n
  BY FoundAll, LandedAboveType
<1>2. \A i, j \in DOMAIN q : i < j => q[i] # q[j] /\ q[i].seq <= q[j].seq
  BY DEF LandedAbove, InSeqOrder
<1>3. \A i \in DOMAIN q : q[i].seq \in Nat
  BY <1>1, SeqIsNat DEF TypeInv, TypeOK
<1>4. \A i, j \in DOMAIN q : i < j => q[i].seq # q[j].seq
  BY <1>1, <1>2 DEF Distinct
<1> QED BY <1>1, <1>2, <1>3, <1>4 DEF Ascends

LEMMA UpToMore ==
    ASSUME NEW q \in Seq(Parts), NEW m \in Int, NEW n \in Int, m <= n, UpTo(q, m)
    PROVE  UpTo(q, n)
<1>1. \A i \in DOMAIN q : q[i].seq \in Nat
  <2>1. \A i \in DOMAIN q : q[i] \in Parts
    OBVIOUS
  <2> QED BY <2>1, SeqIsNat
<1> QED BY <1>1 DEF UpTo

LEMMA LoadIndexOrders ==
    ASSUME OrderInv, NEW p \in Procs, LoadIndex(p)
    PROVE  InOrder(p)'
<1> DEFINE usable == mark[p] # NoMark /\ ixFile # NoIndex
           from   == IF usable THEN mark[p] ELSE 0
           gap    == from < next[p] - 1
           old    == IF usable THEN ixFile ELSE <<>>
<1>1. TypeInv /\ TypeOK /\ CounterAbove
  BY DEF OrderInv, SeqInv, TypeInv
<1>2. /\ pc[p] = "loaded" /\ pc'[p] = "sources" /\ UNCHANGED <<landed, ixFile, ixMark, next>>
      /\ mark'[p] = IF gap THEN next[p] - 1 ELSE from
  BY <1>1, LoadIndex(p) DEF LoadIndex, Usable, Gap, TypeOK, env, zone, budgets
<1>3. PICK found \in (IF gap THEN LandedAbove(from) ELSE {<<>>}) : ix'[p] = old \o found
  BY <1>1 DEF LoadIndex, Usable, Gap, TypeOK
<1>4. next[p] \in Nat \ {0} /\ mark[p] \in Int /\ from \in Int
  BY <1>1 DEF TypeOK, NoMark
<1>5. mark[p] <= next[p] - 1 /\ ixMark <= next[p] - 1
  BY <1>2 DEF OrderInv, InOrder
<1>6. from <= next[p] - 1 /\ mark'[p] <= next[p] - 1
  <2>1. from <= next[p] - 1
    BY <1>4, <1>5
  <2> HIDE DEF from
  <2> QED BY <1>2, <1>4, <2>1
<1>7. old \in Seq(Parts) /\ Ascends(old) /\ UpTo(old, from)
  <2>1. CASE usable
    <3>1. old = ixFile /\ from = mark[p]
      BY <2>1
    <3>2. ixFile \in Seq(Parts) /\ Ascends(ixFile) /\ UpTo(ixFile, mark[p])
      BY <1>1, <1>2, <2>1 DEF OrderInv, InOrder, IndexInLandedOrder, Ascends, TypeOK
    <3> HIDE DEF old, from, usable
    <3> QED BY <3>1, <3>2
  <2>2. CASE ~usable
    <3>1. old = <<>>
      BY <2>2
    <3> HIDE DEF old, from, usable
    <3>2. old \in Seq(Parts) /\ DOMAIN old = {}
      BY <3>1
    <3> QED BY <3>2 DEF Ascends, UpTo
  <2> QED BY <2>1, <2>2
<1> HIDE DEF old, from
<1>8. /\ found \in Seq(Parts) /\ Ascends(found) /\ \A i \in DOMAIN found : found[i].seq > from
      /\ UpTo(found, next[p] - 1)
  <2>1. CASE gap
    <3>1. found \in LandedAbove(from)
      BY <1>3, <2>1
    <3>2. /\ found \in Seq(Parts) /\ Ascends(found)
          /\ \A i \in DOMAIN found : found[i] \in landed /\ found[i].seq > from
      BY <1>1, <1>4, <3>1, FoundAscends DEF OrderInv
    <3>3. \A f \in landed : f.seq < next[p] /\ f.seq \in Nat
      BY <1>1, <1>2, SeqIsNat DEF CounterAbove, TypeOK
    <3>4. \A i \in DOMAIN found : found[i].seq <= next[p] - 1
      BY <1>4, <3>2, <3>3
    <3> QED BY <3>2, <3>4 DEF UpTo
  <2>2. CASE ~gap
    <3>1. found = <<>>
      BY <1>3, <2>2
    <3>2. found \in Seq(Parts) /\ DOMAIN found = {}
      BY <3>1
    <3> QED BY <3>2 DEF Ascends, UpTo
  <2> QED BY <2>1, <2>2
<1>9. UpTo(old, next[p] - 1)
  BY <1>4, <1>6, <1>7, UpToMore
<1>10. Ascends(old \o found) /\ UpTo(old \o found, next[p] - 1)
  BY <1>4, <1>7, <1>8, <1>9, ConcatAscends
<1>11. Ascends(ix'[p]) /\ UpTo(ix'[p], next'[p] - 1)
  BY <1>2, <1>3, <1>10
<1> QED BY <1>2, <1>5, <1>6, <1>11 DEF InOrder, Holding, Ascends, UpTo

LEMMA DistinctStep ==
    ASSUME SeqInv, Distinct, [Next]_vars
    PROVE  Distinct'
<1>0. \A f \in landed : f.seq \in Nat
  BY SeqIsNat DEF SeqInv, TypeInv, TypeOK
<1>1. CASE \E p \in Procs : Land(p)
  <2>1. PICK p \in Procs : Land(p)
    BY <1>1
  <2> DEFINE g == chunk[p].part
  <2>2. landed' = landed \cup {g} /\ \A f \in landed : f.seq < g.seq
    BY <2>1 DEF Land, SeqInv, ChunkAbove
  <2>3. g.seq \in Nat
    <3>1. chunk[p] \in [part: Parts, ino: Ids, more: BOOLEAN]
      BY <2>1 DEF Land, SeqInv, TypeInv, Phase
    <3> QED BY <3>1, SeqIsNat
  <2> HIDE DEF g
  <2> QED BY <1>0, <2>2, <2>3 DEF Distinct
<1>2. CASE \A p \in Procs : ~Land(p)
  <2>1. landed' = landed
    BY <1>2, OnlyLands, LandedGrows
  <2> QED BY <2>1 DEF Distinct
<1> QED BY <1>1, <1>2

LEMMA OrderStep ==
    ASSUME MaxStops = 0, OrderInv, SeqInv', [Next]_vars
    PROVE  (Rests /\ (\A p \in Procs : InOrder(p)) /\ IndexInLandedOrder)'
<1>0. TypeInv /\ TypeOK /\ TypeOK' /\ Alone /\ Alone' /\ None \notin Procs
  BY CollectorAssumption DEF OrderInv, SeqInv, TypeInv
<1> USE DEF env, zone, mem, passes, budgets
<1> DEFINE Goal == (Rests /\ (\A p \in Procs : InOrder(p)) /\ IndexInLandedOrder)'
<1>t. ixMark \in Int /\ nextFile \in Nat /\ \A p \in Procs : mark[p] \in Int /\ next[p] \in Nat
  BY <1>0 DEF TypeOK, NoMark
\* A pass that is under way is the only one, and what it leaves on disk is in order.
<1>k. ASSUME NEW p \in Procs, pc[p] # "idle", pc'[p] \notin {"idle", "load"},
             \A q \in Procs \ {p} : pc'[q] = pc[q], InOrder(p)',
             ixFile' = ixFile, ixMark' = ixMark, pc[p] # "mark", pc'[p] # "mark"
      PROVE  Goal
  <2>1. \A q \in Procs \ {p} : pc[q] = "idle" /\ pc'[q] = "idle"
    BY <1>0, <1>k DEF Alone
  <2>2. \A q \in Procs \ {p} : InOrder(q)'
    BY <2>1 DEF InOrder, Holding
  <2>3. Rests'
    BY <1>k, <2>1 DEF OrderInv, Rests, UpTo
  <2> QED BY <1>k, <2>2, <2>3 DEF OrderInv, IndexInLandedOrder
\* Between windows, a pass that reads and skips changes nothing here.
<1>s. ASSUME UNCHANGED <<ixFile, ixMark, ix, mark, next>>, NEW p \in Procs,
             pc[p] \in {"sources", "tail", "commit"}, pc'[p] \in {"sources", "tail"},
             \A q \in Procs \ {p} : pc'[q] = pc[q]
      PROVE  Goal
  <2>1. InOrder(p)'
    BY <1>s DEF OrderInv, InOrder, Holding, Ascends, UpTo
  <2> QED BY <1>k, <1>s, <2>1
<1>1. ASSUME UNCHANGED <<ixFile, ixMark, nextFile, pc, ix, mark, next, chunk>> PROVE Goal
  BY <1>1 DEF OrderInv, Rests, InOrder, IndexInLandedOrder, Ascends, UpTo
<1>2. ASSUME UNCHANGED vars PROVE Goal
  BY <1>1, <1>2 DEF vars
<1>3. ASSUME NEW s \in Sources, Grow(s) \/ Replace(s) \/ Rewrite(s) \/ Prune(s) PROVE Goal
  BY <1>1, <1>3 DEF Grow, Replace, Rewrite, Prune
<1>4. ASSUME DropIndex PROVE Goal
  <2>1. ixFile' = NoIndex /\ ixMark' = -1 /\ UNCHANGED <<landed, nextFile, pc, ix, mark, next, chunk>>
    BY <1>4 DEF DropIndex, NoMark
  <2>2. nextFile - 1 >= -1 /\ \A p \in Procs : next[p] - 1 >= -1
    BY <1>t
  <2>3. Rests'
    BY <2>1, <2>2 DEF Rests
  <2>4. \A p \in Procs : InOrder(p)'
    BY <2>1, <2>2 DEF OrderInv, InOrder, Ascends, UpTo
  <2> QED BY <2>1, <2>3, <2>4 DEF IndexInLandedOrder
<1>5. ASSUME NEW p \in Procs, Begin(p) PROVE Goal
  <2>1. lock = None /\ pc' = [pc EXCEPT ![p] = "load"] /\ UNCHANGED <<nextFile, ixFile, ixMark>>
    BY <1>5 DEF Begin, LockFree
  <2>2. \A q \in Procs : pc[q] = "idle" /\ pc'[q] \in {"idle", "load"}
    BY <1>0, <2>1 DEF Alone, TypeOK
  <2>3. Rests'
    BY <2>1, <2>2 DEF OrderInv, Rests, UpTo
  <2> QED BY <2>1, <2>2, <2>3 DEF OrderInv, InOrder, Holding, IndexInLandedOrder
<1>6. ASSUME NEW p \in Procs, Busy(p) PROVE Goal
  BY <1>1, <1>6 DEF Busy
<1>7. ASSUME NEW p \in Procs, LoadState(p) PROVE Goal
  <2>1. PICK n \in RecoverNextSeq(nextFile) : next' = [next EXCEPT ![p] = n]
    BY <1>7 DEF LoadState
  <2>2. /\ pc[p] = "load" /\ pc' = [pc EXCEPT ![p] = "loaded"] /\ mark' = [mark EXCEPT ![p] = ixMark]
        /\ UNCHANGED <<ixFile, ixMark>>
    BY <1>7 DEF LoadState
  <2>3. pc'[p] = "loaded" /\ mark'[p] = ixMark /\ next'[p] = n
    BY <1>0, <2>1, <2>2 DEF TypeOK
  <2>4. \A q \in Procs \ {p} : pc[q] = "idle" /\ pc'[q] = pc[q]
    BY <1>0, <2>2 DEF Alone, TypeOK
  <2>5. n \in Nat /\ n >= nextFile
    <3>1. next'[p] \in Nat
      BY <1>0 DEF TypeOK
    <3> QED BY <2>3, <3>1 DEF RecoverNextSeq
  <2>6. ixMark <= nextFile - 1 /\ (ixFile # NoIndex /\ ixMark # NoMark => UpTo(ixFile, ixMark))
    BY <2>2, <2>4 DEF OrderInv, Rests
  <2>7. ixMark <= n - 1
    BY <1>t, <2>5, <2>6
  <2>8. InOrder(p)'
    BY <2>2, <2>3, <2>6, <2>7 DEF InOrder, Holding, UpTo
  <2> QED BY <1>k, <2>2, <2>3, <2>4, <2>8
<1>8. ASSUME NEW p \in Procs, LoadIndex(p) PROVE Goal
  <2>1. /\ pc[p] = "loaded" /\ pc'[p] = "sources" /\ UNCHANGED <<ixFile, ixMark>>
        /\ \A q \in Procs \ {p} : pc'[q] = pc[q]
    BY <1>0, <1>8 DEF LoadIndex, TypeOK
  <2> QED BY <1>8, <1>k, <2>1, LoadIndexOrders
<1>9. ASSUME NEW p \in Procs, NEW s \in Sources, Refuse(p, s) \/ Claim(p, s) PROVE Goal
  BY <1>0, <1>9, <1>s DEF Refuse, Claim, TypeOK
<1>10. ASSUME NEW p \in Procs,
              SkipConflicted(p) \/ MarkGone(p) \/ FlagConflict(p) \/ ReadNothing(p)
              \/ TailFails(p) \/ CommitFails(p) PROVE Goal
  BY <1>0, <1>10, <1>s
  DEF SkipConflicted, MarkGone, FlagConflict, ReadNothing, Readable, TailFails, CommitFails, SourceDone, TypeOK
<1>11. ASSUME NEW p \in Procs, Read(p) PROVE Goal
  <2>1. /\ pc[p] = "tail" /\ pc'[p] = "land" /\ chunk'[p].part.seq = next[p]
    BY <1>0, <1>11, Zenon DEF Read, Readable, TypeOK
  <2>2. /\ next'[p] = next[p] + 1 /\ \A q \in Procs \ {p} : pc'[q] = pc[q]
        /\ UNCHANGED <<ixFile, ixMark, ix, mark>>
    BY <1>0, <1>11 DEF Read, TypeOK
  <2>3. Ascends(ix[p]) /\ UpTo(ix[p], next[p] - 1) /\ mark[p] <= next[p] - 1 /\ ixMark <= next[p] - 1
    BY <2>1 DEF OrderInv, InOrder, Holding
  <2>4. next'[p] - 2 = next[p] - 1 /\ next'[p] - 1 = next[p] /\ mark[p] <= next[p] /\ ixMark <= next[p]
    BY <1>t, <2>2, <2>3
  <2>5. UpTo(ix[p], next'[p] - 2)
    BY <2>3, <2>4
  <2>6. InOrder(p)'
    BY <2>1, <2>2, <2>3, <2>4, <2>5 DEF InOrder, Holding, Ascends, UpTo
  <2> QED BY <1>k, <2>1, <2>2, <2>6
<1>12. ASSUME NEW p \in Procs, Land(p) PROVE Goal
  <2> DEFINE g == chunk[p].part
  <2>1. /\ pc[p] = "land" /\ pc'[p] = "commit" /\ \A q \in Procs \ {p} : pc'[q] = pc[q]
        /\ UNCHANGED <<ixFile, ixMark, mark, next>>
    BY <1>0, <1>12 DEF Land, TypeOK
  <2>2. ix'[p] = Append(ix[p], g)
    <3>1. ix \in [Procs -> Seq(Parts)] /\ ix' = [ix EXCEPT ![p] = Append(ix[p], g)]
      BY <1>0, <1>12 DEF Land, IndexedPart, TypeOK
    <3> HIDE DEF g
    <3> QED BY <3>1
  <2>3. g \in Parts /\ ix[p] \in Seq(Parts)
    <3>1. chunk[p] \in [part: Parts, ino: Ids, more: BOOLEAN]
      BY <1>0, <2>1 DEF TypeInv, Phase
    <3>2. g \in Parts
      BY <3>1
    <3> HIDE DEF g
    <3> QED BY <1>0, <3>2 DEF TypeOK
  <2>4. Ascends(ix[p]) /\ UpTo(ix[p], next[p] - 2) /\ g.seq = next[p] - 1
        /\ mark[p] <= next[p] - 1 /\ ixMark <= next[p] - 1
    BY <2>1 DEF OrderInv, InOrder, Holding
  <2> HIDE DEF g
  <2>5. next[p] - 2 = g.seq - 1
    BY <1>t, <2>4
  <2>6. Ascends(ix'[p]) /\ UpTo(ix'[p], next[p] - 1)
    BY <2>2, <2>3, <2>4, <2>5, AppendAscends
  <2>7. InOrder(p)'
    BY <2>1, <2>4, <2>6 DEF InOrder, Holding, Ascends, UpTo
  <2> QED BY <1>k, <2>1, <2>7
<1>13. ASSUME NEW p \in Procs, LandFails(p) PROVE Goal
  <2> DEFINE g == chunk[p].part
  <2>1. /\ pc[p] = "land" /\ pc'[p] = "sources" /\ \A q \in Procs \ {p} : pc'[q] = pc[q]
        /\ UNCHANGED <<ixFile, ixMark, mark, next>>
    BY <1>0, <1>13 DEF LandFails, SourceDone, TypeOK
  <2>3. g \in Parts /\ ix[p] \in Seq(Parts)
    <3>1. chunk[p] \in [part: Parts, ino: Ids, more: BOOLEAN]
      BY <1>0, <2>1 DEF TypeInv, Phase
    <3>2. g \in Parts
      BY <3>1
    <3> HIDE DEF g
    <3> QED BY <1>0, <3>2 DEF TypeOK
  <2>4. Ascends(ix[p]) /\ UpTo(ix[p], next[p] - 2) /\ g.seq = next[p] - 1
        /\ mark[p] <= next[p] - 1 /\ ixMark <= next[p] - 1
    BY <2>1 DEF OrderInv, InOrder, Holding
  <2>5. PICK n \in g.first - 1 .. g.last :
            ix' = [ix EXCEPT ![p] = IF n < g.first THEN ix[p] ELSE Append(ix[p], [g EXCEPT !.last = n])]
    BY <1>13 DEF LandFails
  <2> HIDE DEF g
  <2>6. g.seq - 1 = next[p] - 2 /\ next[p] - 2 <= next[p] - 1
    BY <1>t, <2>4
  <2>7. CASE ix'[p] = ix[p]
    <3>1. UpTo(ix[p], next[p] - 1)
      BY <1>t, <2>3, <2>4, <2>6, UpToMore
    <3> QED BY <1>k, <2>1, <2>4, <2>7, <3>1 DEF InOrder, Holding, Ascends, UpTo
  <2>8. CASE ~(n < g.first) /\ ix'[p] = Append(ix[p], [g EXCEPT !.last = n])
    <3> DEFINE h == [g EXCEPT !.last = n]
    <3>1. h \in Parts /\ h.seq = g.seq
      <4>1. g.first \in Nat /\ g.last \in Nat
        BY <2>3, CollectorAssumption DEF Parts
      <4>2. n \in g.first .. g.last
        BY <2>5, <2>8, <4>1
      <4>3. h \in Parts
        BY <2>3, <4>2, PartPrefix
      <4>4. h.seq = g.seq
        BY <2>3 DEF Parts
      <4> QED BY <4>3, <4>4
    <3> HIDE DEF h
    <3>2. UpTo(ix[p], h.seq - 1)
      BY <2>4, <2>6, <3>1
    <3>3. Ascends(Append(ix[p], h)) /\ UpTo(Append(ix[p], h), h.seq)
      BY <2>3, <2>4, <3>1, <3>2, AppendAscends
    <3>4. Ascends(ix'[p]) /\ UpTo(ix'[p], next[p] - 1)
      BY <2>4, <2>8, <3>1, <3>3 DEF h
    <3>5. InOrder(p)'
      BY <2>1, <2>4, <3>4 DEF InOrder, Holding, Ascends, UpTo
    <3> QED BY <1>k, <2>1, <3>5
  <2>9. ix'[p] = IF n < g.first THEN ix[p] ELSE Append(ix[p], [g EXCEPT !.last = n])
    BY <1>0, <2>5 DEF TypeOK
  <2> QED BY <2>7, <2>8, <2>9
<1>14. ASSUME NEW p \in Procs, Commit(p) PROVE Goal
  <2>1. /\ pc[p] = "commit" /\ pc'[p] \in {"sources", "tail"}
        /\ \A q \in Procs \ {p} : pc'[q] = pc[q]
        /\ UNCHANGED <<ixFile, ixMark, mark, ix, next>>
    BY <1>0, <1>14 DEF Commit, SourceDone, TypeOK
  <2> QED BY <1>s, <2>1
<1>15. ASSUME NEW p \in Procs, WriteIndex(p) PROVE Goal
  <2>1. /\ pc[p] = "sources" /\ pc'[p] = "mark" /\ ixFile' = ix[p] /\ mark'[p] = next[p] - 1
        /\ \A q \in Procs \ {p} : pc'[q] = pc[q]
        /\ UNCHANGED <<ixMark, ix, next>>
    BY <1>0, <1>15 DEF WriteIndex, CoveredTo, TypeOK
  <2>2. Ascends(ix[p]) /\ UpTo(ix[p], next[p] - 1) /\ ixMark <= next[p] - 1
    BY <2>1 DEF OrderInv, InOrder, Holding
  <2>3. \A q \in Procs \ {p} : pc'[q] = "idle"
    BY <1>0, <2>1 DEF Alone
  <2>4. InOrder(p)'
    BY <1>t, <2>1, <2>2 DEF InOrder, Holding, Ascends, UpTo
  <2>5. \A q \in Procs \ {p} : InOrder(q)'
    BY <2>3 DEF InOrder, Holding
  <2>6. Rests' /\ IndexInLandedOrder'
    BY <2>1, <2>2 DEF Rests, IndexInLandedOrder, Ascends
  <2> QED BY <2>4, <2>5, <2>6
<1>16. ASSUME NEW p \in Procs, SaveMark(p) PROVE Goal
  <2>1. /\ pc[p] = "mark" /\ pc'[p] = "finish" /\ ixMark' = mark[p]
        /\ \A q \in Procs \ {p} : pc'[q] = pc[q]
        /\ UNCHANGED <<ixFile, mark, ix, next>>
    BY <1>0, <1>16 DEF SaveMark, TypeOK
  <2>2. /\ Ascends(ix[p]) /\ UpTo(ix[p], next[p] - 1) /\ mark[p] <= next[p] - 1
        /\ mark[p] # NoMark /\ ixFile # NoIndex => UpTo(ixFile, mark[p])
    BY <2>1 DEF OrderInv, InOrder, Holding
  <2>3. \A q \in Procs \ {p} : pc'[q] = "idle"
    BY <1>0, <2>1 DEF Alone
  <2>4. InOrder(p)'
    BY <2>1, <2>2 DEF InOrder, Holding, Ascends, UpTo
  <2>5. \A q \in Procs \ {p} : InOrder(q)'
    BY <2>3 DEF InOrder, Holding
  <2>6. Rests' /\ IndexInLandedOrder'
    BY <2>1, <2>2 DEF OrderInv, Rests, IndexInLandedOrder, UpTo
  <2> QED BY <2>4, <2>5, <2>6
<1>17. ASSUME NEW p \in Procs, Finish(p) PROVE Goal
  <2>1. /\ pc[p] \in {"finish", "sources"} /\ pc' = [pc EXCEPT ![p] = "idle"] /\ nextFile' = next[p]
        /\ UNCHANGED <<ixFile, ixMark>>
    BY <1>17 DEF Finish, Forget
  <2>2. \A q \in Procs : pc'[q] = "idle" /\ pc[q] # "mark"
    BY <1>0, <2>1 DEF Alone, TypeOK
  <2>3. ixMark <= next[p] - 1
    BY <2>1 DEF OrderInv, InOrder
  <2>4. Rests'
    BY <2>1, <2>2, <2>3 DEF OrderInv, Rests, UpTo
  <2>5. \A q \in Procs : InOrder(q)'
    BY <2>2 DEF InOrder, Holding
  <2> QED BY <2>1, <2>4, <2>5 DEF OrderInv, IndexInLandedOrder
<1>18. ASSUME NEW p \in Procs, Stop(p) PROVE Goal
  BY <1>0, <1>18 DEF Stop, TypeOK
<1> HIDE DEF Goal
<1>19. Goal
  <2>1. ASSUME NEW p \in Procs, Step(p) PROVE Goal
    BY <1>5, <1>7, <1>8, <1>9, <1>10, <1>11, <1>12, <1>14, <1>15, <1>16, <1>17, <2>1 DEF Step
  <2>2. ASSUME NEW p \in Procs, Fault(p) PROVE Goal
    BY <1>6, <1>10, <1>13, <1>18, <2>2 DEF Fault
  <2> QED BY <1>2, <1>3, <1>4, <2>1, <2>2 DEF Next, Environment
<1> QED BY <1>19 DEF Goal

LEMMA OrderInductive ==
    ASSUME MaxStops = 0
    PROVE  Spec => []OrderInv
<1>1. Init => OrderInv
  BY SeqInit DEF Init, OrderInv, Distinct, Rests, InOrder, Holding, IndexInLandedOrder, NoMark
<1>2. OrderInv /\ [Next]_vars => OrderInv'
  <2> SUFFICES ASSUME OrderInv, [Next]_vars PROVE OrderInv'
    OBVIOUS
  <2>1. SeqInv'
    BY SeqStep, StepType DEF OrderInv, SeqInv
  <2> QED BY <2>1, DistinctStep, OrderStep DEF OrderInv
<1> QED BY <1>1, <1>2, PTL DEF Spec

\* The index on disk holds each landed file once, in the order they landed, while no pass is
\* interrupted - whatever writes fail and whenever the index is deleted (lookup.go, Index).
THEOREM IndexOrdered ==
    ASSUME MaxStops = 0
    PROVE  Spec => []IndexInLandedOrder
<1>1. OrderInv => IndexInLandedOrder
  BY DEF OrderInv
<1> QED BY <1>1, OrderInductive, PTL

\* With no write that fails, the highest landed file bounds the watermark.
LEMMA TrailStep ==
    ASSUME TopsInv, WatermarkTrails, [Next]_vars
    PROVE  WatermarkTrails'
<1> DEFINE Working == {"sources", "tail", "land", "commit"}
<1>0. TypeOK /\ TypeOK' /\ Tops
  BY StepType DEF TopsInv, SeqInv, TypeInv
<1>t. \A p \in Procs : mark[p] \in Int /\ next[p] \in Nat
  BY SMTT(30), <1>0 DEF TypeOK, NoMark
<1> USE DEF env, zone, mem, passes, budgets
<1>k. ASSUME UNCHANGED <<mark, next>>, \A p \in Procs : pc'[p] \in Working => pc[p] \in Working
      PROVE  WatermarkTrails'
  BY <1>k DEF WatermarkTrails
<1>1. ASSUME UNCHANGED vars PROVE WatermarkTrails'
  BY <1>1, <1>k DEF vars
<1>2. ASSUME Environment PROVE WatermarkTrails'
  BY <1>2, <1>k DEF Environment, Grow, Replace, Rewrite, Prune, DropIndex
<1>3. ASSUME NEW p \in Procs,
             \/ Begin(p) \/ Busy(p) \/ Land(p) \/ SaveMark(p) \/ (\E s \in Sources : Refuse(p, s) \/ Claim(p, s))
             \/ SkipConflicted(p) \/ MarkGone(p) \/ FlagConflict(p) \/ ReadNothing(p)
             \/ TailFails(p) \/ LandFails(p) \/ CommitFails(p)
      PROVE  WatermarkTrails'
  BY ZenonT(60), <1>0, <1>3, <1>k
  DEF Begin, Busy, Land, SaveMark, Refuse, Claim, SkipConflicted, MarkGone, FlagConflict, ReadNothing, Readable,
      TailFails, LandFails, CommitFails, SourceDone, TypeOK
<1>4. ASSUME NEW p \in Procs, Commit(p) PROVE WatermarkTrails'
  <2>1. /\ pc[p] = "commit" /\ pc'[p] \in {"sources", "tail"} /\ \A q \in Procs \ {p} : pc'[q] = pc[q]
        /\ UNCHANGED <<mark, next>>
    BY <1>0, <1>4 DEF Commit, SourceDone, TypeOK
  <2> QED BY <1>k, <2>1
<1>5. ASSUME NEW p \in Procs, LoadState(p) \/ WriteIndex(p) \/ Finish(p) \/ Stop(p) PROVE WatermarkTrails'
  <2>1. pc' = [pc EXCEPT ![p] = "loaded"] \/ pc' = [pc EXCEPT ![p] = "mark"] \/ pc' = [pc EXCEPT ![p] = "idle"]
    BY <1>5 DEF LoadState, WriteIndex, Finish, Stop, Forget
  <2>2. /\ \E m : mark' = [mark EXCEPT ![p] = m]
        /\ next' = next \/ \E n : next' = [next EXCEPT ![p] = n]
    BY <1>5 DEF LoadState, WriteIndex, Finish, Stop, Forget
  <2>3. pc'[p] \notin Working /\ \A q \in Procs \ {p} : pc'[q] = pc[q]
    <3>1. pc'[p] \in {"loaded", "mark", "idle"} /\ \A q \in Procs \ {p} : pc'[q] = pc[q]
      BY <1>0, <2>1 DEF TypeOK
    <3> QED BY <3>1 DEF Working
  <2>4. \A q \in Procs \ {p} : mark'[q] = mark[q] /\ next'[q] = next[q]
    BY <1>0, <2>2 DEF TypeOK
  <2> QED BY <2>3, <2>4 DEF WatermarkTrails
<1>6. ASSUME NEW p \in Procs, Read(p) PROVE WatermarkTrails'
  <2>1. /\ pc[p] = "tail" /\ mark' = mark /\ next' = [next EXCEPT ![p] = next[p] + 1]
        /\ \A q \in Procs \ {p} : pc'[q] = pc[q]
    BY <1>0, <1>6 DEF Read, Readable, TypeOK
  <2>2. next'[p] = next[p] + 1 /\ \A q \in Procs \ {p} : next'[q] = next[q]
    BY <1>0, <2>1 DEF TypeOK
  <2>3. mark[p] <= next'[p] - 1
    BY <1>t, <2>1, <2>2 DEF WatermarkTrails
  <2> QED BY <2>1, <2>2, <2>3 DEF WatermarkTrails
<1>7. ASSUME NEW p \in Procs, LoadIndex(p) PROVE WatermarkTrails'
  <2>1. /\ pc[p] = "loaded" /\ next' = next
        /\ mark'[p] \in {next[p] - 1, mark[p], 0}
        /\ \A q \in Procs \ {p} : pc'[q] = pc[q] /\ mark'[q] = mark[q]
    BY <1>0, <1>7 DEF LoadIndex, TypeOK
  <2>2. IsTop(next[p] - 1) /\ Reached(mark[p])
    BY <1>0, <2>1 DEF Tops
  <2>3. mark[p] <= next[p] - 1 /\ 0 <= next[p] - 1
    <3>1. \A f \in landed : f.seq \in Nat
      BY <1>0, SeqIsNat DEF TypeOK
    <3> QED BY <1>t, <2>2, <3>1 DEF IsTop, Reached
  <2>4. mark'[p] <= next'[p] - 1
    BY <1>t, <2>1, <2>3
  <2> QED BY <2>1, <2>4 DEF WatermarkTrails
<1> QED
  BY <1>1, <1>2, <1>3, <1>4, <1>5, <1>6, <1>7 DEF Next, Step, Fault

\* A pass never works with a watermark ahead of its counter, as long as either no write fails
\* or no pass is interrupted (indexstate.go, "indexed_seq <= next_seq - 1").  With both it
\* may: a sequence that was spent is in the saved watermark and lost from the counter.
THEOREM WatermarkBehind ==
    ASSUME MaxFaults = 0 \/ MaxStops = 0
    PROVE  Spec => []WatermarkTrails
<1>1. ASSUME MaxStops = 0 PROVE Spec => []WatermarkTrails
  <2>1. Spec => []OrderInv
    BY <1>1, OrderInductive
  <2>2. OrderInv => WatermarkTrails
    BY DEF OrderInv, InOrder, WatermarkTrails
  <2> QED BY <2>1, <2>2, PTL
<1>2. ASSUME MaxFaults = 0 PROVE Spec => []WatermarkTrails
  <2>1. Spec => []TopsInv
    BY <1>2, TopsInductive
  <2>2. Init => WatermarkTrails
    BY DEF Init, WatermarkTrails
  <2>3. TopsInv /\ WatermarkTrails /\ [Next]_vars => WatermarkTrails'
    BY TrailStep
  <2> QED BY <2>1, <2>2, <2>3, PTL DEF Spec
<1> QED BY <1>1, <1>2
=============================================================================
