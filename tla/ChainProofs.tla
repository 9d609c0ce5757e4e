----------------------------- MODULE ChainProofs -----------------------------
(***************************************************************************)
(* What the rounds on disk say: proofs about Parser that take the content  *)
(* of the rounds into account, where ParserProofs takes their order.       *)
(***************************************************************************)
EXTENDS Viewer, ParserProofs

(***************************************************************************)
(* One round: folding and diffing, for any ids, gaps and contents.         *)
(***************************************************************************)
\* A gap's state is recovered from its open form: what a view holds for a reported gap is
\* determined by what OpenUnresolved shows of it (fold.go, OpenUnresolved).
LEMMA OpenForm ==
    ASSUME NEW g \in States \cup {Absent}, NEW c \in Contents
    PROVE  (IsOpen(g) /\ g.what = c) <=> g = Open(c)
BY FoldAssumption DEF States, IsOpen, Open

\* What diff writes is a well-formed round body.
THEOREM DiffType ==
    ASSUME NEW view \in Views, NEW res \in Assemblies
    PROVE  Diff(view, res) \in Deltas
<1>1. [i \in ChangedItems(view, res) |-> res.items[i]]
          \in UNION {[D -> Said] : D \in SUBSET Ids}
    <2>1. ChangedItems(view, res) \in SUBSET Ids
        BY DEF ChangedItems
    <2>2. [i \in ChangedItems(view, res) |-> res.items[i]] \in [ChangedItems(view, res) -> Said]
        BY <2>1 DEF Assemblies
    <2> QED BY <2>1, <2>2
<1>2. [g \in Reported(view, res) \cup Closed(view, res) |->
          IF res.gaps[g] = Absent THEN Resolved(view.gaps[g]) ELSE Open(res.gaps[g])]
          \in UNION {[D -> States] : D \in SUBSET Gaps}
    <2> DEFINE D == Reported(view, res) \cup Closed(view, res)
               new(g) == IF res.gaps[g] = Absent THEN Resolved(view.gaps[g]) ELSE Open(res.gaps[g])
    <2>1. D \in SUBSET Gaps
        BY DEF Reported, Closed
    <2>2. ASSUME NEW g \in D
          PROVE  new(g) \in States
        <3>1. CASE res.gaps[g] = Absent
            <4>1. IsOpen(view.gaps[g])
                BY <3>1 DEF Reported, Closed
            <4>2. view.gaps[g] \in States
                BY <4>1, <2>1 DEF Views, IsOpen
            <4>3. Resolved(view.gaps[g]) \in States
                BY <4>2 DEF States, Resolved
            <4> QED BY <3>1, <4>3
        <3>2. CASE res.gaps[g] # Absent
            <4>1. res.gaps[g] \in Contents
                BY <3>2, <2>1 DEF Assemblies, Said
            <4> QED BY <3>2, <4>1 DEF States, Open
        <3> QED BY <3>1, <3>2
    <2>3. [g \in D |-> new(g)] \in [D -> States]
        BY <2>2
    <2> QED BY <2>1, <2>3
<1> QED BY <1>1, <1>2 DEF Diff, Deltas

\* Applying a round to a view gives a view.
THEOREM ApplyType ==
    ASSUME NEW view \in Views, NEW delta \in Deltas
    PROVE  Apply(view, delta) \in Views
<1>1. Supersede(view.items, delta.items) \in [Ids -> Said]
    BY DEF Supersede, Views, Deltas
<1>2. Supersede(view.gaps, delta.gaps) \in [Gaps -> States \cup {Absent}]
    BY DEF Supersede, Views, Deltas
<1> QED BY <1>1, <1>2 DEF Apply, Views

\* A round makes the view say what the assembly says, however far behind the view was:
\* "fold(rounds 1..N) == full parse" rests on this step (parse.go, diff; fold.go, Apply).
THEOREM FoldIsAssembly ==
    ASSUME NEW view \in Views, NEW res \in Assemblies
    PROVE  Says(Apply(view, Diff(view, res)), res)
<1> DEFINE d == Diff(view, res)
           after == Apply(view, d)
<1>1. after.items = res.items
    <2>1. after.items = [i \in Ids |-> IF i \in ChangedItems(view, res)
                                       THEN res.items[i] ELSE view.items[i]]
        BY DEF Apply, Supersede, Diff, Views
    <2>2. \A i \in Ids : (IF i \in ChangedItems(view, res) THEN res.items[i] ELSE view.items[i])
                            = res.items[i]
        BY DEF ChangedItems
    <2>3. res.items = [i \in Ids |-> res.items[i]]
        BY DEF Assemblies
    <2> QED BY <2>1, <2>2, <2>3
<1>2. ASSUME NEW g \in Gaps
      PROVE  OpenUnresolved(after)[g] = res.gaps[g]
    <2> DEFINE written == Reported(view, res) \cup Closed(view, res)
    <2>1. after.gaps[g] = IF g \in written
                          THEN IF res.gaps[g] = Absent THEN Resolved(view.gaps[g])
                                                       ELSE Open(res.gaps[g])
                          ELSE view.gaps[g]
        BY DEF Apply, Supersede, Diff, Views
    <2>2. view.gaps[g] \in States \cup {Absent} /\ res.gaps[g] \in Said
        BY DEF Views, Assemblies
    <2>3. OpenUnresolved(after)[g] = IF IsOpen(after.gaps[g]) THEN after.gaps[g].what ELSE Absent
        BY DEF OpenUnresolved
    <2>4. CASE res.gaps[g] = Absent
        <3>1. CASE IsOpen(view.gaps[g])
            <4>1. after.gaps[g] = Resolved(view.gaps[g])
                BY <2>1, <2>4, <3>1 DEF Closed
            <4>2. ~IsOpen(after.gaps[g])
                BY <4>1, <2>2, <3>1 DEF IsOpen, Resolved, States
            <4> QED BY <4>2, <2>3, <2>4
        <3>2. CASE ~IsOpen(view.gaps[g])
            <4>1. g \notin written
                BY <2>4, <3>2 DEF Reported, Closed
            <4> QED BY <4>1, <2>1, <2>3, <2>4, <3>2
        <3> QED BY <3>1, <3>2
    <2>5. CASE res.gaps[g] # Absent
        <3>1. res.gaps[g] \in Contents
            BY <2>2, <2>5 DEF Said
        <3>2. after.gaps[g] = Open(res.gaps[g])
            BY <2>1, <2>5 DEF Reported, Closed
        <3>3. IsOpen(after.gaps[g]) /\ after.gaps[g].what = res.gaps[g]
            BY <3>1, <3>2, FoldAssumption DEF IsOpen, Open, States
        <3> QED BY <3>3, <2>3
    <2> QED BY <2>4, <2>5
<1>3. OpenUnresolved(after) = res.gaps
    <2>1. res.gaps = [g \in Gaps |-> res.gaps[g]]
        BY DEF Assemblies
    <2>2. OpenUnresolved(after) = [g \in Gaps |-> OpenUnresolved(after)[g]]
        BY DEF OpenUnresolved
    <2> QED BY <1>2, <2>1, <2>2
<1> QED BY <1>1, <1>3 DEF Says

\* A round is left out exactly when the view already says what the assembly says: parsing
\* an unchanged session writes no round, and a changed one always does (parse.go, Session).
THEOREM EmptyMeansSaid ==
    ASSUME NEW view \in Views, NEW res \in Assemblies
    PROVE  IsEmpty(Diff(view, res)) <=> Says(view, res)
<1>1. IsEmpty(Diff(view, res)) <=>
          ChangedItems(view, res) = {} /\ Reported(view, res) = {} /\ Closed(view, res) = {}
    BY DEF IsEmpty, Diff
<1>2. ChangedItems(view, res) = {} <=> view.items = res.items
    <2>1. view.items = [i \in Ids |-> view.items[i]] /\ res.items = [i \in Ids |-> res.items[i]]
        BY DEF Views, Assemblies
    <2>2. ChangedItems(view, res) = {} <=> \A i \in Ids : view.items[i] = res.items[i]
        BY DEF ChangedItems
    <2> QED BY <2>1, <2>2
<1>3. ASSUME NEW g \in Gaps
      PROVE  (g \notin Reported(view, res) /\ g \notin Closed(view, res))
                <=> OpenUnresolved(view)[g] = res.gaps[g]
    <2>1. view.gaps[g] \in States \cup {Absent} /\ res.gaps[g] \in Said
        BY DEF Views, Assemblies
    <2>2. OpenUnresolved(view)[g] = IF IsOpen(view.gaps[g]) THEN view.gaps[g].what ELSE Absent
        BY DEF OpenUnresolved
    <2>3. CASE res.gaps[g] = Absent
        <3>1. IsOpen(view.gaps[g]) => view.gaps[g].what # Absent
            BY <2>1, FoldAssumption DEF IsOpen, States
        <3> QED BY <2>2, <2>3, <3>1 DEF Reported, Closed
    <2>4. CASE res.gaps[g] # Absent
        <3>1. res.gaps[g] \in Contents
            BY <2>1, <2>4 DEF Said
        <3>2. (IsOpen(view.gaps[g]) /\ view.gaps[g].what = res.gaps[g])
                  <=> view.gaps[g] = Open(res.gaps[g])
            BY <2>1, <3>1, OpenForm, FoldAssumption
        <3> QED BY <2>2, <2>4, <3>2 DEF Reported, Closed
    <2> QED BY <2>3, <2>4
<1>4. (Reported(view, res) = {} /\ Closed(view, res) = {}) <=> OpenUnresolved(view) = res.gaps
    <2>1. res.gaps = [g \in Gaps |-> res.gaps[g]]
        BY DEF Assemblies
    <2>2. OpenUnresolved(view) = [g \in Gaps |-> OpenUnresolved(view)[g]]
        BY DEF OpenUnresolved
    <2>3. OpenUnresolved(view) = res.gaps <=> \A g \in Gaps : OpenUnresolved(view)[g] = res.gaps[g]
        BY <2>1, <2>2
    <2>4. (Reported(view, res) = {} /\ Closed(view, res) = {})
              <=> \A g \in Gaps : g \notin Reported(view, res) /\ g \notin Closed(view, res)
        BY DEF Reported, Closed
    <2> QED BY <1>3, <2>3, <2>4
<1> QED BY <1>1, <1>2, <1>4 DEF Says

\* Parsing again what was just parsed writes nothing: a watch loop does not grow the chain
\* with empty rounds (parse.go, Session).
COROLLARY ParsingIsIdempotent ==
    ASSUME NEW view \in Views, NEW res \in Assemblies
    PROVE  IsEmpty(Diff(Apply(view, Diff(view, res)), res))
<1>1. Apply(view, Diff(view, res)) \in Views
    BY DiffType, ApplyType
<1> QED BY <1>1, FoldIsAssembly, EmptyMeansSaid

\* A gap that was ever recorded stays in the view, open or resolved: a reader can see that
\* it existed and how it closed (parse.go, diff: "superseded with that state rather than
\* removed").
THEOREM GapsAreKept ==
    ASSUME NEW view \in Views, NEW res \in Assemblies, NEW g \in Gaps, view.gaps[g] # Absent
    PROVE  Apply(view, Diff(view, res)).gaps[g] # Absent
<1>1. Diff(view, res) \in Deltas
    BY DiffType
<1>2. Apply(view, Diff(view, res)).gaps[g]
          = IF g \in DOMAIN Diff(view, res).gaps THEN Diff(view, res).gaps[g] ELSE view.gaps[g]
    BY DEF Apply, Supersede, Views
<1>3. ASSUME g \in DOMAIN Diff(view, res).gaps
      PROVE  Diff(view, res).gaps[g] \in States
    BY <1>1, <1>3 DEF Deltas
<1> QED BY <1>2, <1>3, FoldAssumption DEF States
-----------------------------------------------------------------------------
(***************************************************************************)
(* The fold of the first n rounds.  It is a recursive function: what it is *)
(* at n follows from functions that satisfy its equation up to n, one for  *)
(* each n, and any two of which agree where both are defined.              *)
(***************************************************************************)
LEMMA NatInduct ==
    ASSUME NEW T \in SUBSET Nat, 0 \in T, \A n \in T : n + 1 \in T
    PROVE  T = Nat
<1> SUFFICES ASSUME Nat \ T # {} PROVE FALSE
  OBVIOUS
<1> DEFINE B == Nat \ T
<1>1. PICK x \in B : \A y \in B : ~ (<<y, x>> \in OpToRel(<, Nat))
  <2>1. B \subseteq Nat /\ B # {}
    OBVIOUS
  <2> HIDE DEF B
  <2> QED BY <2>1, NatLessThanWellFounded, WFMin
<1>2. x - 1 \in Nat /\ x - 1 < x
  <2>1. x \in Nat /\ x # 0
    OBVIOUS
  <2> QED BY <2>1
<1>3. x - 1 \in T
  BY <1>1, <1>2 DEF OpToRel
<1> QED BY <1>2, <1>3

Unfolds(f, rounds, n) ==
    f = [k \in 0 .. n |-> IF k = 0 THEN EmptyView ELSE Apply(f[k - 1], RoundAt(rounds, k).delta)]

LEMMA UnfoldsAt ==
    ASSUME NEW f, NEW rounds, NEW n \in Nat, Unfolds(f, rounds, n), NEW k \in 0 .. n
    PROVE  f[k] = IF k = 0 THEN EmptyView ELSE Apply(f[k - 1], RoundAt(rounds, k).delta)
<1> DEFINE F == [i \in 0 .. n |-> IF i = 0 THEN EmptyView ELSE Apply(f[i - 1], RoundAt(rounds, i).delta)]
<1>1. f = F
  BY DEF Unfolds
<1>2. f[k] = F[k]
  BY <1>1
<1> QED BY <1>2

LEMMA UnfoldsExists ==
    ASSUME NEW rounds, NEW n \in Nat
    PROVE  \E f : Unfolds(f, rounds, n)
<1> DEFINE T == {m \in Nat : \E f : Unfolds(f, rounds, m)}
<1>1. 0 \in T
  <2> DEFINE f == [k \in 0 .. 0 |-> EmptyView]
  <2>1. f = [k \in 0 .. 0 |-> IF k = 0 THEN EmptyView ELSE Apply(f[k - 1], RoundAt(rounds, k).delta)]
    BY SMT
  <2>2. Unfolds(f, rounds, 0)
    BY <2>1 DEF Unfolds
  <2> QED BY <2>2
<1>2. ASSUME NEW m \in T
      PROVE  m + 1 \in T
  <2>1. PICK f : Unfolds(f, rounds, m)
    OBVIOUS
  <2> DEFINE next == Apply(f[m], RoundAt(rounds, m + 1).delta)
             g == [k \in 0 .. (m + 1) |-> IF k <= m THEN f[k] ELSE next]
  <2>2. m \in Nat
    OBVIOUS
  <2>3. ASSUME NEW k \in 0 .. (m + 1)
        PROVE  g[k] = IF k = 0 THEN EmptyView ELSE Apply(g[k - 1], RoundAt(rounds, k).delta)
    <3>1. CASE k = 0
      <4>1. f[0] = EmptyView
        BY <2>1, <2>2, UnfoldsAt
      <4> QED BY <2>2, <3>1, <4>1
    <3>2. CASE k # 0 /\ k <= m
      <4>1. k \in 0 .. m /\ k - 1 \in 0 .. m
        BY <2>2, <3>2
      <4>2. f[k] = Apply(f[k - 1], RoundAt(rounds, k).delta)
        BY <2>1, <2>2, <3>2, <4>1, UnfoldsAt
      <4>3. g[k] = f[k] /\ g[k - 1] = f[k - 1]
        BY <2>2, <3>2, <4>1
      <4> HIDE DEF g
      <4> QED BY <3>2, <4>2, <4>3
    <3>3. CASE k = m + 1
      <4>1. g[k] = next /\ g[k - 1] = f[m]
        BY <2>2, <3>3
      <4> HIDE DEF g
      <4> QED BY <2>2, <3>3, <4>1
    <3> QED BY <2>2, <3>1, <3>2, <3>3
  <2>4. Unfolds(g, rounds, m + 1)
    <3>1. g = [k \in 0 .. (m + 1) |-> g[k]]
      OBVIOUS
    <3> HIDE DEF g
    <3> QED BY <2>3, <3>1 DEF Unfolds
  <2> QED BY <2>2, <2>4
<1>3. T = Nat
  <2>1. T \in SUBSET Nat
    OBVIOUS
  <2> HIDE DEF T
  <2> QED BY <1>1, <1>2, <2>1, NatInduct
<1> QED BY <1>3

\* Functions that satisfy the equation over the same first rounds agree on them.
LEMMA UnfoldsAgree ==
    ASSUME NEW R, NEW S, NEW m \in Nat, NEW n \in Nat, NEW f, NEW g,
           Unfolds(f, R, m), Unfolds(g, S, n),
           NEW c \in Nat, c <= m, c <= n,
           \A k \in 1 .. c : RoundAt(R, k) = RoundAt(S, k)
    PROVE  f[c] = g[c]
<1> DEFINE T == {k \in Nat : k <= c => f[k] = g[k]}
<1>1. 0 \in T
  BY UnfoldsAt
<1>2. ASSUME NEW k \in T
      PROVE  k + 1 \in T
  <2> SUFFICES ASSUME k + 1 <= c PROVE f[k + 1] = g[k + 1]
    OBVIOUS
  <2>1. k \in Nat /\ k + 1 \in 0 .. m /\ k + 1 \in 0 .. n /\ k + 1 \in 1 .. c /\ k + 1 # 0
        /\ (k + 1) - 1 = k
    OBVIOUS
  <2>2. f[k + 1] = Apply(f[(k + 1) - 1], RoundAt(R, k + 1).delta)
    BY <2>1, UnfoldsAt
  <2>3. g[k + 1] = Apply(g[(k + 1) - 1], RoundAt(S, k + 1).delta)
    BY <2>1, UnfoldsAt
  <2>4. f[k] = g[k]
    BY <2>1
  <2>5. RoundAt(R, k + 1) = RoundAt(S, k + 1)
    BY <2>1
  <2> QED BY <2>1, <2>2, <2>3, <2>4, <2>5
<1>3. T = Nat
  <2>1. T \in SUBSET Nat
    OBVIOUS
  <2> HIDE DEF T
  <2> QED BY <1>1, <1>2, <2>1, NatInduct
<1> QED BY <1>3

LEMMA FoldOfIs ==
    ASSUME NEW rounds, NEW n \in Nat
    PROVE  \E f : Unfolds(f, rounds, n) /\ FoldOf(rounds, n) = f[n]
<1> DEFINE f == CHOOSE u : Unfolds(u, rounds, n)
<1>1. Unfolds(f, rounds, n)
  BY UnfoldsExists
<1>2. FoldOf(rounds, n) = f[n]
  BY DEF FoldOf, Unfolds
<1> QED BY <1>1, <1>2

LEMMA FoldOfNone ==
    ASSUME NEW rounds
    PROVE  FoldOf(rounds, 0) = EmptyView
BY FoldOfIs, UnfoldsAt

\* One more round is applied to the fold of those before it.
LEMMA FoldOfNext ==
    ASSUME NEW rounds, NEW n \in Nat
    PROVE  FoldOf(rounds, n + 1) = Apply(FoldOf(rounds, n), RoundAt(rounds, n + 1).delta)
<1>1. PICK f : Unfolds(f, rounds, n + 1) /\ FoldOf(rounds, n + 1) = f[n + 1]
  BY FoldOfIs
<1>2. PICK g : Unfolds(g, rounds, n) /\ FoldOf(rounds, n) = g[n]
  BY FoldOfIs
<1>3. f[n] = g[n]
  <2>1. n <= n + 1 /\ n <= n /\ n + 1 \in Nat /\ \A k \in 1 .. n : RoundAt(rounds, k) = RoundAt(rounds, k)
    OBVIOUS
  <2> QED BY <1>1, <1>2, <2>1, UnfoldsAgree
<1>4. f[n + 1] = Apply(f[(n + 1) - 1], RoundAt(rounds, n + 1).delta)
  <2>1. n + 1 \in 0 .. (n + 1) /\ n + 1 # 0 /\ n + 1 \in Nat
    OBVIOUS
  <2> QED BY <1>1, <2>1, UnfoldsAt
<1>5. (n + 1) - 1 = n
  OBVIOUS
<1> QED BY <1>1, <1>2, <1>3, <1>4, <1>5

\* The fold depends on the rounds it folds and no other.
LEMMA FoldOfSame ==
    ASSUME NEW R, NEW S, NEW n \in Nat, \A k \in 1 .. n : RoundAt(R, k) = RoundAt(S, k)
    PROVE  FoldOf(R, n) = FoldOf(S, n)
<1>1. PICK f : Unfolds(f, R, n) /\ FoldOf(R, n) = f[n]
  BY FoldOfIs
<1>2. PICK g : Unfolds(g, S, n) /\ FoldOf(S, n) = g[n]
  BY FoldOfIs
<1>3. f[n] = g[n]
  <2>1. n <= n
    OBVIOUS
  <2> QED BY <1>1, <1>2, <2>1, UnfoldsAgree
<1> QED BY <1>1, <1>2, <1>3

\* Folding well-formed rounds gives a view.
LEMMA FoldOfType ==
    ASSUME NEW rounds, NEW n \in Nat, \A k \in 1 .. n : RoundAt(rounds, k).delta \in Deltas
    PROVE  FoldOf(rounds, n) \in Views
<1> DEFINE T == {k \in Nat : k <= n => FoldOf(rounds, k) \in Views}
<1>1. 0 \in T
  <2>1. EmptyView \in Views
    BY DEF EmptyView, Views, Said
  <2> QED BY <2>1, FoldOfNone
<1>2. ASSUME NEW k \in T
      PROVE  k + 1 \in T
  <2> SUFFICES ASSUME k + 1 <= n PROVE FoldOf(rounds, k + 1) \in Views
    OBVIOUS
  <2>1. k \in Nat /\ k + 1 \in 1 .. n /\ FoldOf(rounds, k) \in Views
    OBVIOUS
  <2>2. FoldOf(rounds, k + 1) = Apply(FoldOf(rounds, k), RoundAt(rounds, k + 1).delta)
    BY <2>1, FoldOfNext
  <2>3. RoundAt(rounds, k + 1).delta \in Deltas
    BY <2>1
  <2> QED BY <2>1, <2>2, <2>3, ApplyType
<1>3. T = Nat
  <2>1. T \in SUBSET Nat
    OBVIOUS
  <2> HIDE DEF T
  <2> QED BY <1>1, <1>2, <2>1, NatInduct
<1> QED BY <1>3
-----------------------------------------------------------------------------
(***************************************************************************)
(* The rounds listed are numbered from 1 without a gap, at any time; a     *)
(* chain that cannot be folded has a file that is cut short.               *)
(***************************************************************************)

\* What a step does to the chain's files.
LEMMA FilesStep ==
    ASSUME Inv, [Next]_vars
    PROVE  \/ files' = files /\ cut' \subseteq cut
           \/ \E r : Extends(r, files) /\ cut = {} /\ files' = files \cup {r} /\ cut' = {r}
           \/ faults < MaxFaults
              /\ \E r \in files : /\ Extends(r, files \ {r})
                                  /\ files' = files \ {r} /\ cut' = cut \ {r}
<1>1. CASE UNCHANGED chain
  BY <1>1 DEF chain
<1>2. ASSUME NEW b \in Builders, Step(b) \/ WriteFails(b) \/ Stop(b), ~UNCHANGED <<files, cut>>
      PROVE  \/ files' = files /\ cut' \subseteq cut
             \/ Extends(draft[b], files) /\ cut = {} /\ files' = files \cup {draft[b]} /\ cut' = {draft[b]}
             \/ /\ faults < MaxFaults /\ draft[b] \in files /\ Extends(draft[b], files \ {draft[b]})
                /\ files' = files \ {draft[b]} /\ cut' = cut \ {draft[b]}
  <2>1. CASE Write(b)
    BY <2>1 DEF Write
  <2>2. CASE Create(b)
    <3>1. Extends(draft[b], files) /\ cut = {}
      BY <2>2 DEF Create, Inv, Publishing
    <3> QED BY <1>2, <2>2, <3>1 DEF Create
  <2>3. CASE WriteFails(b)
    BY <2>3 DEF WriteFails, Inv, Publishing
  <2>4. CASE Load(b) \/ Rebuild(b) \/ WriteRebuilt(b) \/ SaveRebuilt(b) \/ ReadWatermark(b)
             \/ Lock(b) \/ Build(b) \/ Seal(b)
    BY <1>2, <2>4 DEF Load, Rebuild, WriteRebuilt, SaveRebuilt, ReadWatermark, Lock, Build, Seal, chain
  <2>5. CASE ChainBusy(b) \/ GiveUp(b) \/ CheckHead(b) \/ SaveState(b) \/ Stop(b)
    BY <1>2, <2>5 DEF ChainBusy, GiveUp, CheckHead, SaveState, Stop
  <2> QED BY <1>2, <2>1, <2>2, <2>3, <2>4, <2>5 DEF Step
<1> QED BY <1>1, <1>2 DEF Next, vars, chain, Collects, Interrupted, Drops

InLine ==
    /\ {f.round : f \in files} = 1 .. Cardinality(files)
    /\ \A f, g \in files : f.round = g.round => f = g
    /\ \A f, g \in files : g.round = f.round + 1 => g.previous = f /\ g.policy = f.policy

LEMMA InLineInit == Init => InLine
BY FS_EmptySet DEF Init, InLine

LEMMA InLineStep ==
    ASSUME Inv, InLine, [Next]_vars
    PROVE  InLine'
<1> DEFINE n == Cardinality(files)
<1>0. IsFiniteSet(files) /\ n \in Nat
  BY FS_CardinalityType DEF Inv, Publishing
<1>1. CASE files' = files
  BY <1>1 DEF InLine
<1>2. ASSUME NEW r, Extends(r, files), files' = files \cup {r}
      PROVE  InLine'
  <2>1. r.round = n + 1 /\ r \notin files /\ \A f \in files : f.round \in 1 .. n
    BY <1>2, NewRound DEF Extends
  <2>2. Cardinality(files') = n + 1
    BY <1>0, <1>2, <2>1, FS_AddElement
  <2>3. {f.round : f \in files'} = 1 .. (n + 1)
    <3>1. {f.round : f \in files'} = {f.round : f \in files} \cup {n + 1}
      BY <1>2, <2>1
    <3> QED BY <1>0, <3>1 DEF InLine
  <2>4. ASSUME NEW f \in files', NEW g \in files', f.round = g.round
        PROVE  f = g
    BY <1>0, <1>2, <2>1, <2>4 DEF InLine
  <2>5. ASSUME NEW f \in files', NEW g \in files', g.round = f.round + 1
        PROVE  g.previous = f /\ g.policy = f.policy
    <3>1. f \in files
      BY <1>0, <1>2, <2>1, <2>5
    <3>2. CASE g = r
      <4>1. f.round = n
        BY <1>0, <2>1, <2>5, <3>1, <3>2
      <4>2. PICK q \in files : q.round = n /\ r.previous = q /\ r.policy = q.policy
        BY <1>2, <3>1 DEF Extends
      <4> QED BY <3>1, <3>2, <4>1, <4>2 DEF InLine
    <3>3. CASE g \in files
      BY <2>5, <3>1, <3>3 DEF InLine
    <3> QED BY <1>2, <3>2, <3>3
  <2> QED BY <2>2, <2>3, <2>4, <2>5 DEF InLine
<1>3. ASSUME NEW r \in files, Extends(r, files \ {r}), files' = files \ {r}
      PROVE  InLine'
  <2>1. Cardinality(files') = n - 1 /\ n - 1 \in Nat
    <3>1. IsFiniteSet(files') /\ Cardinality(files') = n - 1
      BY <1>0, <1>3, FS_RemoveElement
    <3>2. Cardinality(files') \in Nat
      BY <3>1, FS_CardinalityType
    <3> QED BY <3>1, <3>2
  <2>2. r.round = n /\ \A f \in files' : f.round \in 1 .. (n - 1)
    BY <1>0, <1>3, <2>1 DEF Extends
  <2>3. ASSUME NEW k \in 1 .. (n - 1)
        PROVE  \E f \in files' : f.round = k
    <3>1. k \in {f.round : f \in files}
      BY <1>0, <2>3 DEF InLine
    <3>2. PICK f \in files : f.round = k
      BY <3>1
    <3>3. f # r
      BY <1>0, <2>2, <3>2
    <3> QED BY <1>3, <3>2, <3>3
  <2>4. {f.round : f \in files'} = 1 .. (n - 1)
    BY <2>2, <2>3
  <2>5. \A f \in files' : f \in files
    BY <1>3
  <2> QED BY <2>1, <2>4, <2>5 DEF InLine
<1> QED BY <1>1, <1>2, <1>3, FilesStep

\* The round of a number is the one file that has it.
LEMMA RoundAtIs ==
    ASSUME InLine, NEW f \in files
    PROVE  RoundAt(files, f.round) = f
BY DEF InLine, RoundAt

LEMMA RoundAtListed ==
    ASSUME InLine, NEW k \in 1 .. Cardinality(files)
    PROVE  RoundAt(files, k) \in files
<1>1. k \in {f.round : f \in files}
  BY DEF InLine
<1>2. \E f \in files : f.round = k
  BY <1>1
<1> QED BY <1>2 DEF RoundAt

\* A further round leaves the fold of those before it as it was.
LEMMA FoldKept ==
    ASSUME InLine, NEW r, Extends(r, files)
    PROVE  FoldOf(files \cup {r}, r.round - 1) = FoldOf(files, r.round - 1)
<1> DEFINE n == Cardinality(files)
<1>1. n \in Nat /\ r.round = n + 1 /\ r.round - 1 = n
  BY FS_CardinalityType DEF Extends
<1>2. ASSUME NEW k \in 1 .. n
      PROVE  RoundAt(files \cup {r}, k) = RoundAt(files, k)
  <2>1. PICK f \in files : f.round = k
    <3>1. k \in {f.round : f \in files}
      BY DEF InLine
    <3> QED BY <3>1
  <2>2. \A g \in files \cup {r} : g.round = k <=> g = f
    BY <1>1, <2>1 DEF InLine
  <2>3. \A g \in files : g.round = k <=> g = f
    BY <2>1 DEF InLine
  <2> QED BY <2>1, <2>2, <2>3 DEF RoundAt
<1> HIDE DEF n
<1> QED BY <1>1, <1>2, FoldOfSame
-----------------------------------------------------------------------------
(***************************************************************************)
(* The types of what is on disk and in a builder's memory.                 *)
(***************************************************************************)
LEMMA SaysType ==
    ASSUME TypeOK, NEW b \in Builders, NEW k
    PROVE  Assembled({n \in read[b] : n <= k}) \in Assemblies
<1>1. {n \in read[b] : n <= k} \in SUBSET Seqs
  BY DEF TypeOK
<1> QED BY <1>1, ParserAssumption

LEMMA FoldedType ==
    ASSUME Inv, InLine, TypeOK, NEW k \in 0 .. Cardinality(files)
    PROVE  FoldOf(files, k) \in Views
<1>1. Cardinality(files) \in Nat
  BY FS_CardinalityType DEF Inv, Publishing
<1>2. \A i \in 1 .. k : RoundAt(files, i).delta \in Deltas
  BY <1>1, RoundAtListed DEF TypeOK, IsRound
<1> QED BY <1>1, <1>2, FoldOfType

\* The round a builder drafts is a round.
LEMMA NextRoundType ==
    ASSUME Inv, InLine, TypeOK, NEW b \in Builders, at[b] = "build", ~Refused(b), policy[b] \in Policies
    PROVE  IsRound(NextRound(b))
<1>1. Folds /\ Extends(NextRound(b), files) /\ Binds(NextRound(b))
  <2>1. Folds
    BY DEF Refused
  <2> QED BY <2>1, DraftedRight DEF Inv, Publishing
<1>2. Cardinality(files) \in Nat
  BY FS_CardinalityType DEF Inv, Publishing
<1>3. HeadRound = Cardinality(files)
  <2>1. CASE files = {}
    <3>1. {f.round : f \in files} = {}
      BY <2>1
    <3> QED BY <2>1, <3>1, FS_EmptySet DEF HeadRound, Last
  <2>2. CASE files # {}
    BY <1>1, <2>2, NewestOf DEF Inv, Publishing
  <2> QED BY <2>1, <2>2
<1>4. Folded \in Views
  BY <1>2, <1>3, FoldedType DEF Folded
<1>5. Difference(b) \in Deltas
  <2>1. Assembled(Evidence(b)) \in Assemblies
    BY SaysType DEF Evidence
  <2> QED BY <1>4, <2>1, DiffType DEF Difference
<1>6. Tip.input \in Seq(SUBSET Seqs) /\ Tip.through \in Nat /\ Tip.round \in Nat
  <2>1. CASE files = {}
    BY <2>1 DEF Tip, Genesis
  <2>2. CASE files # {}
    <3>1. Newest \in files
      BY <1>1, <2>2, NewestOf DEF Inv, Publishing
    <3> QED BY <2>2, <3>1 DEF Tip, TypeOK, IsRound
  <2> QED BY <2>1, <2>2
<1> DEFINE C == Consumed(Tip.through, through[b])
<1>7. Append(Tip.input, C) \in Seq(SUBSET Seqs)
  <2>1. C \in SUBSET Seqs
    BY DEF TypeOK, Consumed
  <2> HIDE DEF C
  <2> QED BY <1>6, <2>1, AppendProperties
<1>8. /\ NextRound(b).round = Tip.round + 1 /\ NextRound(b).from = Tip.through + 1
      /\ NextRound(b).through = through[b] /\ NextRound(b).input = Append(Tip.input, C)
      /\ NextRound(b).policy = policy[b] /\ NextRound(b).delta = Difference(b)
  BY DEF NextRound
<1>9. through[b] \in Nat
  BY DEF TypeOK
<1> HIDE DEF C
<1> QED BY <1>5, <1>6, <1>7, <1>8, <1>9 DEF IsRound

\* A builder that is under way has settings, and a round once it has drafted one.
UnderWay ==
    \A b \in Builders : /\ at[b] # "idle" => policy[b] \in Policies
                        /\ at[b] \in Drafted => IsRound(draft[b])

LEMMA TypeInit == Init => TypeOK /\ UnderWay
BY DEF Init, LandingInit, NoPass, NoMark, TypeOK, UnderWay, Places, Drafted

LEMMA TypeZone ==
    ASSUME Inv, TypeOK, UnderWay, LandingNext, UNCHANGED <<chain, building>>
    PROVE  TypeOK' /\ UnderWay'
<1>1. /\ landed' \subseteq Seqs
      /\ entries' = None \/ entries' \subseteq Seqs
      /\ indexed' \in Nat \cup {NoMark}
      /\ stage' \in {"idle", "begun", "clean", "dirty", "written", "saved"}
  <2> USE DEF TypeOK, Inv, Bounded, ZoneBounded, zoneFiles, passVars, NoPassNext
  <2>1. CASE BeginPass
    BY <2>1 DEF BeginPass
  <2>2. CASE LoadEntries
    BY <2>2 DEF LoadEntries
  <2>3. CASE LandNext
    BY <2>3 DEF LandNext
  <2>4. CASE WriteEntries
    BY <2>4 DEF WriteEntries
  <2>5. CASE SaveIndexed
    BY <2>5 DEF SaveIndexed
  <2>6. CASE EndPass \/ BreakOff
    BY <2>6 DEF EndPass, BreakOff
  <2>7. CASE DropEntries
    BY <2>7 DEF DropEntries
  <2> QED BY <2>1, <2>2, <2>3, <2>4, <2>5, <2>6, <2>7 DEF LandingNext, Collecting
<1> QED BY <1>1 DEF TypeOK, UnderWay, chain, building, IsRound

LEMMA ReturnsType ==
    ASSUME Inv, TypeOK, UnderWay, NEW b \in Builders, Returns(b),
           files' \subseteq files, cut' \subseteq files', head' \in {head, draft[b]},
           head' # head => IsRound(draft[b])
    PROVE  TypeOK' /\ UnderWay'
<1> USE DEF TypeOK, UnderWay, Returns, Goes, landingVars
<1>1. /\ landed' \subseteq Seqs
      /\ entries' = None \/ entries' \subseteq Seqs
      /\ indexed' \in Nat \cup {NoMark}
      /\ stage' \in {"idle", "begun", "clean", "dirty", "written", "saved"}
  OBVIOUS
<1>2. /\ holder' \in Builders \cup {None} /\ at' \in [Builders -> Places]
      /\ policy' \in [Builders -> Policies \cup {None}]
      /\ read' \in [Builders -> SUBSET Seqs] /\ through' \in [Builders -> Nat]
  BY DEF Places
<1>3. \A c \in Builders : draft'[c] = NoRound \/ IsRound(draft'[c])
  BY DEF Inv, Bounded, BuildersBounded
<1>4. (\A f \in files' : IsRound(f)) /\ (head' = NoRound \/ IsRound(head'))
  OBVIOUS
<1>5. UnderWay'
  BY DEF Inv, Bounded, BuildersBounded, IsRound, Drafted
<1> QED BY <1>1, <1>2, <1>3, <1>4, <1>5 DEF IsRound

LEMMA TypeBuilder ==
    ASSUME Inv, InLine, TypeOK, UnderWay, NEW b \in Builders, Step(b) \/ WriteFails(b) \/ Stop(b)
    PROVE  TypeOK' /\ UnderWay'
<1> USE DEF Goes, landingVars, passVars, chain
<1>1. ASSUME UNCHANGED <<landed, stage, files, cut, head>>,
             entries' = None \/ entries' \subseteq Seqs, indexed' \in Nat \cup {NoMark},
             holder' \in Builders \cup {None}, at' \in [Builders -> Places],
             policy' \in [Builders -> Policies \cup {None}],
             \A c \in Builders : at'[c] # "idle" => policy'[c] \in Policies,
             \A c \in Builders : at'[c] \in Drafted => IsRound(draft'[c]),
             read' \in [Builders -> SUBSET Seqs], through' \in [Builders -> Nat],
             \A c \in Builders : draft'[c] = NoRound \/ IsRound(draft'[c])
      PROVE  TypeOK' /\ UnderWay'
  BY <1>1 DEF TypeOK, UnderWay, IsRound, Drafted
<1>2. \A S \in SUBSET landed : Last(S) \in Nat
  BY TopOfPart DEF Inv, Bounded, ZoneBounded
<1>3. CASE Load(b) \/ Rebuild(b)
  BY <1>1, <1>3 DEF Load, Rebuild, TypeOK, UnderWay, Places, Drafted
<1>4. CASE WriteRebuilt(b)
  BY <1>1, <1>4 DEF WriteRebuilt, TypeOK, UnderWay, Places, Drafted
<1>5. CASE SaveRebuilt(b)
  <2>1. Last(read[b]) \in Nat
    BY <1>2 DEF Inv, Bounded, BuildersBounded
  <2> QED BY <1>1, <1>5, <2>1 DEF SaveRebuilt, TypeOK, UnderWay, Places, Drafted
<1>6. CASE ReadWatermark(b)
  <2>1. Watermark(b) \in Nat
    BY <1>2 DEF Watermark, Inv, Bounded, BuildersBounded, TypeOK
  <2> QED BY <1>1, <1>6, <2>1 DEF ReadWatermark, TypeOK, UnderWay, Places, Drafted
<1>7. CASE Lock(b)
  BY <1>1, <1>7 DEF Lock, TypeOK, UnderWay, Places, Drafted
<1>8. CASE Build(b)
  <2>1. IsRound(NextRound(b))
    <3>1. at[b] = "build" /\ ~Refused(b) /\ policy[b] \in Policies
      BY <1>8 DEF Build, UnderWay
    <3> QED BY <3>1, NextRoundType
  <2>2. \A c \in Builders : draft'[c] = NoRound \/ IsRound(draft'[c])
    BY <1>8, <2>1 DEF Build, TypeOK, Inv, Bounded, BuildersBounded
  <2>3. \A c \in Builders : at'[c] \in Drafted => IsRound(draft'[c])
    BY <1>8, <2>1 DEF Build, TypeOK, UnderWay, Drafted, Inv, Bounded, BuildersBounded
  <2> QED BY <1>1, <1>8, <2>2, <2>3 DEF Build, TypeOK, UnderWay, Places, Drafted
<1>9. CASE Seal(b)
  BY <1>1, <1>9 DEF Seal, TypeOK, UnderWay, Places, Drafted
<1>10. CASE Write(b)
  <2>1. cut' \subseteq files'
    BY <1>10 DEF Write, TypeOK
  <2>2. /\ at' \in [Builders -> Places]
        /\ \A c \in Builders : /\ at'[c] # "idle" => policy'[c] \in Policies
                               /\ at'[c] \in Drafted => IsRound(draft'[c])
    BY <1>10 DEF Write, TypeOK, UnderWay, Places, Drafted
  <2> QED BY <1>10, <2>1, <2>2 DEF Write, TypeOK, UnderWay, IsRound
<1>11. CASE CheckHead(b)
  <2>1. CASE Returns(b)
    BY <1>11, <2>1, ReturnsType DEF CheckHead, TypeOK
  <2>2. CASE ~Returns(b)
    BY <1>1, <1>11, <2>2 DEF CheckHead, TypeOK, UnderWay, Places, Drafted
  <2> QED BY <2>1, <2>2
<1>12. CASE Create(b)
  <2>1. CASE draft[b] \in files
    BY <1>12, <2>1, ReturnsType DEF Create, TypeOK
  <2>2. CASE draft[b] \notin files
    <3>1. /\ at[b] = "create" /\ at' = [at EXCEPT ![b] = "write"]
          /\ files' = files \cup {draft[b]} /\ cut' = cut \cup {draft[b]}
          /\ UNCHANGED <<landingVars, holder, policy, read, through, draft, head>>
      BY <1>12, <2>2 DEF Create
    <3>2. IsRound(draft[b])
      BY <3>1 DEF UnderWay, Drafted
    <3>3. (\A f \in files' : IsRound(f)) /\ cut' \subseteq files'
      BY <3>1, <3>2 DEF TypeOK
    <3>4. at' \in [Builders -> Places]
      BY <3>1 DEF TypeOK, Places
    <3>5. UnderWay'
      BY <3>1 DEF UnderWay, TypeOK, Drafted, IsRound
    <3> QED BY <3>1, <3>3, <3>4, <3>5 DEF TypeOK, IsRound
  <2> QED BY <2>1, <2>2
<1>13. CASE ChainBusy(b) \/ GiveUp(b) \/ Stop(b)
  BY <1>13, ReturnsType DEF ChainBusy, GiveUp, Stop, TypeOK
<1>14. CASE SaveState(b)
  <2>1. IsRound(draft[b])
    BY <1>14 DEF SaveState, Placed, Inv, Publishing, TypeOK
  <2> QED BY <1>14, <2>1, ReturnsType DEF SaveState, TypeOK
<1>15. CASE WriteFails(b)
  <2>1. cut' \subseteq files' /\ files' \subseteq files
    BY <1>15 DEF WriteFails, TypeOK
  <2> QED BY <1>15, <2>1, ReturnsType DEF WriteFails
<1> QED BY <1>3, <1>4, <1>5, <1>6, <1>7, <1>8, <1>9, <1>10, <1>11, <1>12, <1>13, <1>14, <1>15 DEF Step

LEMMA TypeStep ==
    ASSUME Inv, InLine, TypeOK, UnderWay, [Next]_vars
    PROVE  TypeOK' /\ UnderWay'
<1>1. CASE UNCHANGED vars
  BY <1>1 DEF vars, TypeOK, UnderWay, IsRound
<1>2. ASSUME LandingNext, UNCHANGED <<chain, building>>
      PROVE  TypeOK' /\ UnderWay'
  BY <1>2, TypeZone
<1>3. ASSUME NEW b \in Builders, Step(b) \/ WriteFails(b) \/ Stop(b)
      PROVE  TypeOK' /\ UnderWay'
  BY <1>3, TypeBuilder
<1> QED BY <1>1, <1>2, <1>3 DEF Next, Collects, Interrupted, Drops, LandingNext
-----------------------------------------------------------------------------
(***************************************************************************)
(* A drafted round carries the difference between the fold of the rounds   *)
(* before it and what its builder assembled, until its file is written.    *)
(***************************************************************************)
Differing == {"publish", "create", "write", "seal"}

Told(b) == Assembled({n \in read[b] : n <= draft[b].through})

DeltaTells ==
    \A b \in Builders :
        at[b] \in Differing => draft[b].delta = Diff(FoldOf(files, draft[b].round - 1), Told(b))

\* A builder drafts against the fold of every round there is.
LEMMA BuildTells ==
    ASSUME Inv, InLine, TypeOK, NEW b \in Builders, Build(b)
    PROVE  DeltaTells'
<1>1. /\ at[b] = "build" /\ ~Refused(b) /\ UNCHANGED <<files, read>>
      /\ draft' = [draft EXCEPT ![b] = NextRound(b)] /\ at' = [at EXCEPT ![b] = "publish"]
  BY DEF Build, Goes, chain
<1>2. draft'[b] = NextRound(b) /\ \A c \in Builders \ {b} : at'[c] = at[c]
  BY <1>1 DEF Inv, Bounded, BuildersBounded
<1>3. Folds /\ Extends(NextRound(b), files)
  <2>1. Folds
    BY <1>1 DEF Refused
  <2> QED BY <1>1, <2>1, DraftedRight DEF Inv, Publishing
<1>4. NextRound(b).round - 1 = HeadRound
  <2>1. Cardinality(files) \in Nat /\ NextRound(b).round = Cardinality(files) + 1
    BY <1>3, FS_CardinalityType DEF Extends
  <2>2. HeadRound = Cardinality(files)
    BY <1>3, <2>1, LastOfInterval DEF Folds, HeadRound
  <2> QED BY <2>1, <2>2
<1>5. NextRound(b).delta = Diff(Folded, Assembled(Evidence(b))) /\ NextRound(b).through = through[b]
  BY DEF NextRound, Difference
<1>6. draft'[b].delta = Diff(FoldOf(files, draft'[b].round - 1), Assembled({n \in read[b] : n <= draft'[b].through}))
  BY <1>2, <1>4, <1>5 DEF Folded, Evidence
<1>7. ASSUME NEW c \in Builders, at'[c] \in Differing
      PROVE  c = b
  BY <1>1, <1>2, <1>7, Alone DEF Inv, Under, Differing
<1> QED BY <1>1, <1>6, <1>7 DEF DeltaTells, Told

LEMMA DeltaStep ==
    ASSUME Inv, InLine, TypeOK, DeltaTells, [Next]_vars
    PROVE  DeltaTells'
<1>1. ASSUME files' = files,
             \A c \in Builders : at'[c] \in Differing =>
                 at[c] \in Differing /\ draft'[c] = draft[c] /\ read'[c] = read[c]
      PROVE  DeltaTells'
  BY <1>1 DEF DeltaTells, Told
<1>2. CASE UNCHANGED <<chain, building>>
  BY <1>1, <1>2 DEF chain, building
<1>3. ASSUME NEW b \in Builders, Step(b) \/ WriteFails(b) \/ Stop(b)
      PROVE  DeltaTells'
  <2> USE DEF Goes, chain, Differing
  <2>0. /\ DOMAIN at = Builders /\ DOMAIN draft = Builders /\ DOMAIN read = Builders
        /\ \A c \in Builders \ {b} : at[b] \in Under => at[c] \notin Under
    BY Alone DEF Inv, Bounded, BuildersBounded
  <2>1. CASE Load(b) \/ Rebuild(b) \/ WriteRebuilt(b) \/ SaveRebuilt(b) \/ ReadWatermark(b) \/ Lock(b)
    BY <1>1, <2>0, <2>1 DEF Load, Rebuild, WriteRebuilt, SaveRebuilt, ReadWatermark, Lock
  <2>2. CASE Write(b) \/ Seal(b)
    BY <1>1, <2>0, <2>2 DEF Write, Seal
  <2>3. CASE Build(b)
    BY <2>3, BuildTells
  <2>4. ASSUME Returns(b), files' = files PROVE DeltaTells'
    BY <1>1, <2>0, <2>4 DEF Returns
  <2>5. CASE ChainBusy(b) \/ GiveUp(b) \/ SaveState(b) \/ Stop(b)
    BY <2>4, <2>5 DEF ChainBusy, GiveUp, SaveState, Stop
  <2>6. CASE CheckHead(b)
    <3>1. CASE Returns(b)
      BY <2>4, <2>6, <3>1 DEF CheckHead
    <3>2. CASE ~Returns(b)
      BY <1>1, <2>0, <2>6, <3>2 DEF CheckHead
    <3> QED BY <3>1, <3>2
  <2>7. CASE Create(b)
    <3>1. at[b] = "create" /\ Extends(draft[b], files) /\ draft[b] \notin files
      BY <2>7, NewRound DEF Create, Inv, Publishing
    <3>2. /\ files' = files \cup {draft[b]} /\ UNCHANGED <<read, draft>>
          /\ at' = [at EXCEPT ![b] = "write"]
      BY <2>7, <3>1 DEF Create
    <3>3. FoldOf(files', draft[b].round - 1) = FoldOf(files, draft[b].round - 1)
      BY <3>1, <3>2, FoldKept
    <3>4. draft[b].delta = Diff(FoldOf(files, draft[b].round - 1), Told(b))
      BY <3>1 DEF DeltaTells
    <3>5. \A c \in Builders : at'[c] \in Differing => c = b
      BY <2>0, <3>1, <3>2 DEF Under
    <3> QED BY <3>2, <3>3, <3>4, <3>5 DEF DeltaTells, Told
  <2>8. CASE WriteFails(b)
    <3>1. at[b] \in Under /\ at' = [at EXCEPT ![b] = "idle"]
      BY <2>8 DEF WriteFails, Returns, Under
    <3>2. \A c \in Builders : at'[c] \notin Differing
      BY <2>0, <3>1 DEF Under
    <3> QED BY <3>2 DEF DeltaTells
  <2> QED BY <1>3, <2>1, <2>2, <2>3, <2>5, <2>6, <2>7, <2>8 DEF Step
<1> QED BY <1>2, <1>3 DEF Next, vars, chain, building, Collects, Interrupted, Drops

TellsInv == Inv /\ InLine /\ TypeOK /\ UnderWay /\ DeltaTells

LEMMA TellsInductive == Spec => []TellsInv
<1>1. Init => TellsInv
  BY InvInit, InLineInit, TypeInit DEF TellsInv, DeltaTells, Init, Differing
<1>2. TellsInv /\ [Next]_vars => TellsInv'
  BY InvStep, InLineStep, TypeStep, DeltaStep DEF TellsInv
<1> QED BY <1>1, <1>2, PTL DEF Spec

\* What is on disk and what builders hold is always well formed: sequences of landed files,
\* rounds that are rounds, deltas that a fold can apply (parse.go, Session; chain.go).
THEOREM RoundsAreTyped == Spec => []TypeOK
<1>1. TellsInv => TypeOK
  BY DEF TellsInv
<1> QED BY <1>1, TellsInductive, PTL
-----------------------------------------------------------------------------
(***************************************************************************)
(* Writing a round makes the fold say what its builder assembled.          *)
(***************************************************************************)

\* The chain folds once the round is written, and the round is its last.
LEMMA WrittenFolds ==
    ASSUME TellsInv, TellsInv', NEW b \in Builders, at[b] = "write", at'[b] = "seal",
           UNCHANGED <<files, draft>>
    PROVE  Folds' /\ HeadRound' = draft[b].round /\ draft[b] \in files
           /\ draft[b].round = Cardinality(files) /\ Cardinality(files) \in Nat \ {0}
<1>1. draft[b] \in files /\ Extends(draft[b], files \ {draft[b]}) /\ IsFiniteSet(files)
  BY DEF TellsInv, Inv, Publishing
<1>2. draft[b].round = Cardinality(files) /\ Cardinality(files) \in Nat \ {0}
  <2>1. Cardinality(files \ {draft[b]}) = Cardinality(files) - 1 /\ Cardinality(files) \in Nat
    BY <1>1, FS_RemoveElement, FS_CardinalityType
  <2>2. Cardinality(files) # 0
    BY <1>1, FS_EmptySet
  <2> QED BY <1>1, <2>1, <2>2 DEF Extends
<1>3. cut' = {}
  BY DEF TellsInv, Inv, Publishing
<1>4. Folds'
  BY <1>3 DEF TellsInv, InLine, Folds
<1>5. HeadRound = Cardinality(files)
  BY <1>2, LastOfInterval DEF HeadRound, TellsInv, InLine
<1>6. HeadRound' = HeadRound
  BY DEF HeadRound
<1> QED BY <1>1, <1>2, <1>4, <1>5, <1>6

LEMMA PublishStep ==
    ASSUME TellsInv, TellsInv', [Next]_vars, NEW b \in Builders, at[b] = "write", at'[b] = "seal"
    PROVE  Folds' /\ Says(Folded', Told(b))
<1>1. UNCHANGED <<files, read, draft>>
  <2>1. ASSUME NEW c \in Builders, Step(c) \/ WriteFails(c) \/ Stop(c) PROVE Write(c)
    <3>1. at'[b] # at[b] /\ at[b] \in Under
      BY DEF Under
    <3> USE DEF Goes, chain, Returns, TellsInv, Inv, Bounded, BuildersBounded
    <3>2. CASE Load(c) \/ Rebuild(c) \/ WriteRebuilt(c) \/ SaveRebuilt(c) \/ ReadWatermark(c)
               \/ Lock(c) \/ ChainBusy(c) \/ GiveUp(c)
      BY <3>1, <3>2 DEF Load, Rebuild, WriteRebuilt, SaveRebuilt, ReadWatermark, Lock, ChainBusy, GiveUp
    <3>3. CASE Build(c) \/ CheckHead(c) \/ Create(c) \/ Seal(c)
      BY <3>1, <3>3 DEF Build, CheckHead, Create, Seal
    <3>4. CASE SaveState(c) \/ WriteFails(c) \/ Stop(c)
      BY <3>1, <3>4 DEF SaveState, WriteFails, Stop
    <3> QED BY <2>1, <3>2, <3>3, <3>4 DEF Step
  <2> QED BY <2>1 DEF Next, vars, building, Collects, Interrupted, Drops, Write
<1>2. /\ Folds' /\ HeadRound' = draft[b].round /\ draft[b] \in files
      /\ draft[b].round = Cardinality(files) /\ Cardinality(files) \in Nat \ {0}
  BY <1>1, WrittenFolds
<1> DEFINE n == Cardinality(files)
           v == FoldOf(files, n - 1)
<1>3. draft[b].delta = Diff(v, Told(b))
  BY <1>2 DEF TellsInv, DeltaTells, Differing
<1>4. v \in Views /\ Told(b) \in Assemblies
  <2>1. n - 1 \in 0 .. n
    BY <1>2
  <2> QED BY <2>1, FoldedType, SaysType DEF Told, TellsInv
<1>5. Folded' = FoldOf(files, n)
  BY <1>1, <1>2 DEF Folded
<1>6. FoldOf(files, n) = Apply(v, draft[b].delta)
  <2>1. n - 1 \in Nat /\ (n - 1) + 1 = n
    BY <1>2
  <2>2. RoundAt(files, n) = draft[b]
    BY <1>2, RoundAtIs DEF TellsInv
  <2>3. FoldOf(files, (n - 1) + 1) = Apply(FoldOf(files, n - 1), RoundAt(files, (n - 1) + 1).delta)
    BY <2>1, FoldOfNext
  <2> HIDE DEF n
  <2> QED BY <2>1, <2>2, <2>3
<1>7. Says(Apply(v, Diff(v, Told(b))), Told(b))
  BY <1>4, FoldIsAssembly
<1> HIDE DEF v, n
<1> QED BY <1>2, <1>3, <1>5, <1>6, <1>7

\* A round that is written makes the fold of the whole chain say what its builder assembled,
\* however many rounds of however many builders came before, and whoever was killed or failed
\* between them (parse.go, diff; fold.go, "the whole definition").
THEOREM RoundsCompose == Spec => PublishesTheAssembly
<1>1. TellsInv /\ TellsInv' /\ [Next]_vars =>
          [\A b \in Builders :
              at[b] = "write" /\ at'[b] = "seal" =>
                  Folds' /\ Says(Folded', Assembled({n \in read[b] : n <= draft[b].through}))]_vars
  BY PublishStep DEF Told
<1> QED BY <1>1, TellsInductive, PTL DEF Spec, PublishesTheAssembly
-----------------------------------------------------------------------------
(***************************************************************************)
(* The viewer: what the server keeps stays part of the chain and has its   *)
(* evidence, for every set of builders and policies and every bound,       *)
(* without failed writes of rounds or rebuilt indexes respectively.        *)
(***************************************************************************)
\* The server only reads: the rest of the system does not notice it.
LEMMA ViewSteps == [ViewNext]_viewVars => [Next]_vars
BY DEF ViewNext, View, ListRounds, FoldListed, LoadTimes, RestartView, viewVars, vars

LEMMA ParserHolds == ViewSpec => []TellsInv
<1>1. ViewInit => TellsInv
  BY InvInit, InLineInit, TypeInit DEF ViewInit, TellsInv, DeltaTells, Init, Differing
<1>2. TellsInv /\ [ViewNext]_viewVars => TellsInv'
  BY ViewSteps, InvStep, InLineStep, TypeStep, DeltaStep DEF TellsInv
<1> QED BY <1>1, <1>2, PTL DEF ViewSpec
-----------------------------------------------------------------------------
(***************************************************************************)
(* Without failed writes a round that was written whole stays, and later   *)
(* ones are numbered above it.                                             *)
(***************************************************************************)
ShownInv ==
    /\ faults = 0
    /\ shown \in [stage : {"none", "folded", "kept"}, rounds : SUBSET (files \ cut)]
    /\ {f.round : f \in shown.rounds} = 1 .. Cardinality(shown.rounds)

LEMMA RoundsStay ==
    ASSUME MaxFaults = 0, TellsInv, faults = 0, [Next]_vars
    PROVE  faults' = 0 /\ files \ cut \subseteq files' \ cut'
<1>1. faults' = 0
  <2>1. \A b \in Builders : ~WriteFails(b)
    BY DEF WriteFails
  <2>2. ASSUME NEW b \in Builders, Step(b) \/ Stop(b) PROVE faults' = faults
    BY <2>2 DEF Step, Load, Rebuild, WriteRebuilt, SaveRebuilt, ReadWatermark, Lock, ChainBusy, GiveUp,
                Build, CheckHead, Create, Write, Seal, SaveState, Stop
  <2> QED BY <2>1, <2>2 DEF Next, vars, Collects, Interrupted, Drops
<1>2. files \ cut \subseteq files' \ cut'
  <2>1. CASE files' = files /\ cut' \subseteq cut
    BY <2>1
  <2>2. ASSUME NEW r, Extends(r, files), cut = {}, files' = files \cup {r}, cut' = {r}
        PROVE  files \ cut \subseteq files' \ cut'
    BY <2>2, NewRound
  <2> QED BY <2>1, <2>2, FilesStep DEF TellsInv
<1> QED BY <1>1, <1>2

LEMMA ShownInit == ViewInit => ShownInv
BY FS_EmptySet DEF ViewInit, Init, ShownInv, NotShown

LEMMA ShownStep ==
    ASSUME MaxFaults = 0, TellsInv, ShownInv, [ViewNext]_viewVars
    PROVE  ShownInv'
<1>1. faults' = 0 /\ files \ cut \subseteq files' \ cut'
  BY ViewSteps, RoundsStay DEF ShownInv
<1>2. CASE UNCHANGED shown
  BY <1>1, <1>2 DEF ShownInv
<1>3. CASE FoldListed
  <2>1. CASE AllFold(opening)
    <3>1. shown' = [stage |-> "folded", rounds |-> opening] /\ UNCHANGED vars
      BY <1>3, <2>1 DEF FoldListed
    <3>2. shown'.rounds = opening
      BY <3>1
    <3> QED BY <1>1, <2>1, <3>1, <3>2 DEF ShownInv, AllFold, vars
  <2>2. CASE ~AllFold(opening)
    <3>1. shown' = NotShown
      BY <1>3, <2>2 DEF FoldListed
    <3> QED BY <1>1, <3>1, FS_EmptySet DEF ShownInv, NotShown
  <2> QED BY <2>1, <2>2
<1>4. CASE LoadTimes
  <2>1. shown' = [shown EXCEPT !.stage = "kept"] /\ UNCHANGED vars
    BY <1>4 DEF LoadTimes
  <2>2. shown'.rounds = shown.rounds /\ shown'.stage = "kept"
        /\ shown' \in [stage : {"none", "folded", "kept"}, rounds : SUBSET (files \ cut)]
    BY <2>1 DEF ShownInv
  <2> QED BY <1>1, <2>1, <2>2 DEF ShownInv, vars
<1>5. CASE RestartView
  <2>1. shown' = NotShown
    BY <1>5 DEF RestartView
  <2> QED BY <1>1, <2>1, FS_EmptySet DEF ShownInv, NotShown
<1>6. CASE ListRounds
  BY <1>2, <1>6 DEF ListRounds
<1> QED BY <1>2, <1>3, <1>4, <1>5, <1>6 DEF ViewNext, View, viewing, viewVars

\* Whatever the server shows is the beginning of the chain, on disk and whole, and stays it:
\* builders publish, die and start over while it lists and reads without their lock
\* (cmd/asz/view.go, "without taking the lock").
THEOREM ShowsABeginning ==
    ASSUME MaxFaults = 0
    PROVE  ViewSpec => []ShowsTheChain
<1>1. ShownInv /\ TellsInv => ShowsTheChain
  <2> SUFFICES ASSUME ShownInv, TellsInv, NEW f \in files, f.round <= Cardinality(shown.rounds)
               PROVE  f \in shown.rounds
    BY DEF ShowsTheChain, ShownInv
  <2>1. f.round \in Nat \ {0}
    BY DEF TellsInv, TypeOK, IsRound
  <2>2. shown.rounds \subseteq files /\ Cardinality(shown.rounds) \in Nat
    <3>1. shown.rounds \subseteq files /\ IsFiniteSet(files)
      BY DEF ShownInv, TellsInv, Inv, Publishing
    <3> QED BY <3>1, FS_Subset, FS_CardinalityType
  <2>3. f.round \in {g.round : g \in shown.rounds}
    BY <2>1, <2>2 DEF ShownInv
  <2>4. PICK g \in shown.rounds : g.round = f.round
    BY <2>3
  <2> QED BY <2>2, <2>4 DEF TellsInv, InLine
<1>2. TellsInv /\ ShownInv /\ [ViewNext]_viewVars => ShownInv'
  BY ShownStep
<1> QED BY <1>1, <1>2, ShownInit, ParserHolds, PTL DEF ViewSpec
-----------------------------------------------------------------------------
(***************************************************************************)
(* An index that is not rebuilt from outside holds everything up to any    *)
(* watermark anyone ever read from it, or it is gone; and when it comes    *)
(* back it holds everything.                                               *)
(***************************************************************************)
UpTo(k) == {n \in landed : n <= k}

Covered(k) == entries # None => UpTo(k) \subseteq entries

\* The index of the pass under way, and the watermarks on disk.
ZoneCovered ==
    /\ stage \in {"clean", "dirty"} => ix = landed
    /\ stage \in {"begun", "written"} => Covered(loaded)
    /\ entries # None => Covered(Last(entries))
    /\ Covered(indexed)

\* What the collector does leaves covered what was.
LEMMA StaysCovered ==
    ASSUME ZoneBounded, ZoneCovered, LandingNext, NEW k \in Int, k <= Top, Covered(k)
    PROVE  Covered(k)'
<1> USE DEF Covered, UpTo, zoneFiles, passVars
<1>1. CASE UNCHANGED <<landed, entries>>
  BY <1>1
<1>2. CASE LandNext
  <2>1. landed' = landed \cup {Top + 1} /\ Top \in Nat /\ entries' = entries
    BY <1>2, LandsOnTop DEF LandNext, ZoneBounded
  <2> QED BY <2>1
<1>3. CASE WriteEntries
  <2>1. entries' = landed /\ landed' = landed
    BY <1>3 DEF WriteEntries, ZoneCovered
  <2> QED BY <2>1
<1>4. CASE DropEntries
  BY <1>4 DEF DropEntries
<1> QED BY <1>1, <1>2, <1>3, <1>4 DEF LandingNext, Collecting, BeginPass, LoadEntries, SaveIndexed,
                                     EndPass, BreakOff

LEMMA ZoneCoveredStep ==
    ASSUME ZoneBounded, ZoneCovered, LandingNext
    PROVE  ZoneCovered'
<1> USE DEF zoneFiles, passVars, NoPassNext
<1>1. Top \in Nat /\ indexed \in Int /\ loaded \in Int /\ indexed <= Top /\ loaded <= Top
  BY DEF ZoneBounded, NoMark
<1>2. Covered(indexed) => Covered(indexed)'
  <2>1. CASE indexed' = indexed
    BY <1>1, <2>1, StaysCovered DEF Covered, UpTo
  <2>2. CASE SaveIndexed
    BY <2>2 DEF SaveIndexed, ZoneCovered, Covered, UpTo
  <2>3. CASE DropEntries
    BY <2>3 DEF DropEntries, Covered
  <2> QED BY <2>1, <2>2, <2>3 DEF LandingNext, Collecting, BeginPass, LoadEntries, LandNext, WriteEntries,
                                  EndPass, BreakOff
<1>3. entries' # None => Covered(Last(entries))'
  <2>1. CASE entries' = entries /\ entries # None
    <3>1. Last(entries) \in 0 .. Top
      BY <2>1, TopOfPart DEF ZoneBounded
    <3>2. Covered(Last(entries)) => UpTo(Last(entries))' \subseteq entries
      BY <1>1, <2>1, <3>1, StaysCovered DEF Covered, UpTo
    <3> QED BY <2>1, <3>2 DEF ZoneCovered, Covered, UpTo
  <2>2. CASE WriteEntries
    BY <2>2 DEF WriteEntries, ZoneCovered, Covered, UpTo
  <2>3. CASE entries' = None
    BY <2>3
  <2> QED BY <2>1, <2>2, <2>3 DEF LandingNext, Collecting, BeginPass, LoadEntries, LandNext, SaveIndexed,
                                  EndPass, BreakOff, DropEntries
<1>4. stage' \in {"clean", "dirty"} => ix' = landed'
  <2>1. CASE LoadEntries
    <3> DEFINE usable == loaded # NoMark /\ entries # None
    <3>1. landed' = landed /\ stage = "begun"
      BY <2>1 DEF LoadEntries
    <3>2. CASE usable
      <4>1. ix' = entries \cup Above(loaded)
        BY <2>1, <3>2 DEF LoadEntries
      <4>2. UpTo(loaded) \subseteq entries /\ entries \subseteq landed
        BY <3>1, <3>2 DEF ZoneCovered, Covered, ZoneBounded
      <4>3. UpTo(loaded) \cup Above(loaded) = landed
        <5>1. \A n \in landed : n \in UpTo(loaded) \/ n \in Above(loaded)
          BY <1>1 DEF UpTo, Above, ZoneBounded
        <5> QED BY <5>1 DEF UpTo, Above
      <4> QED BY <3>1, <4>1, <4>2, <4>3 DEF Above
    <3>3. CASE ~usable
      <4>1. ix' = {} \cup Above(0)
        BY <2>1, <3>3 DEF LoadEntries
      <4>2. Above(0) = landed
        <5>1. \A n \in landed : n > 0
          BY DEF ZoneBounded
        <5> QED BY <5>1 DEF Above
      <4> QED BY <3>1, <4>1, <4>2
    <3> QED BY <3>2, <3>3
  <2>2. CASE LandNext
    BY <2>2 DEF LandNext, ZoneCovered
  <2>3. CASE BeginPass \/ WriteEntries \/ SaveIndexed \/ EndPass \/ BreakOff \/ DropEntries
    BY <2>3 DEF BeginPass, WriteEntries, SaveIndexed, EndPass, BreakOff, DropEntries, ZoneCovered
  <2> QED BY <2>1, <2>2, <2>3 DEF LandingNext, Collecting
<1>5. stage' \in {"begun", "written"} => Covered(loaded)'
  <2>1. CASE BeginPass
    BY <2>1 DEF BeginPass, ZoneCovered, Covered, UpTo
  <2>2. CASE WriteEntries
    BY <2>2 DEF WriteEntries, ZoneCovered, Covered, UpTo
  <2>3. CASE DropEntries
    BY <2>3 DEF DropEntries, Covered
  <2>4. CASE LoadEntries \/ LandNext \/ SaveIndexed \/ EndPass \/ BreakOff
    BY <2>4 DEF LoadEntries, LandNext, SaveIndexed, EndPass, BreakOff
  <2> QED BY <2>1, <2>2, <2>3, <2>4 DEF LandingNext, Collecting
<1> QED BY <1>2, <1>3, <1>4, <1>5 DEF ZoneCovered
-----------------------------------------------------------------------------
(***************************************************************************)
(* So does every watermark a builder holds or a round carries, also when   *)
(* the builder read its index and its watermark at different times.        *)
(***************************************************************************)
BuildersCovered ==
    \A b \in Builders :
        /\ at[b] \notin {"rebuilt", "rewritten"}
        /\ Covered(Last(read[b])) /\ Covered(through[b])
        /\ at[b] \in Drafted => Covered(draft[b].through)

RoundsCovered == \A f \in files : Covered(f.through)

LEMMA CoveredInit == Init => ZoneCovered /\ BuildersCovered /\ RoundsCovered
BY DEF Init, LandingInit, NoPass, NoMark, ZoneCovered, BuildersCovered, RoundsCovered, Covered, UpTo, Drafted

\* Builders do not touch the zone when no index is rebuilt.
LEMMA ZoneStill ==
    ASSUME Reindexes = FALSE, BuildersCovered, NEW b \in Builders, Step(b) \/ WriteFails(b) \/ Stop(b)
    PROVE  UNCHANGED landingVars
BY DEF BuildersCovered, Step, Load, Rebuild, WriteRebuilt, SaveRebuilt, ReadWatermark, Lock, ChainBusy, GiveUp,
       Build, CheckHead, Create, Write, Seal, SaveState, WriteFails, Stop, Returns

LEMMA BuilderCoveredStep ==
    ASSUME Reindexes = FALSE, TellsInv, ZoneCovered, BuildersCovered, RoundsCovered,
           NEW b \in Builders, Step(b) \/ WriteFails(b) \/ Stop(b)
    PROVE  BuildersCovered' /\ RoundsCovered'
<1>0. /\ UNCHANGED <<landed, entries, indexed>>
      /\ DOMAIN at = Builders /\ DOMAIN draft = Builders /\ DOMAIN read = Builders /\ DOMAIN through = Builders
  BY ZoneStill DEF landingVars, TellsInv, Inv, Bounded, BuildersBounded
<1> USE DEF Goes, chain, Drafted
<1>1. ASSUME files' \subseteq files,
             \A c \in Builders :
                 /\ at'[c] \notin {"rebuilt", "rewritten"}
                 /\ Covered(Last(read'[c])) /\ Covered(through'[c])
                 /\ at'[c] \in Drafted => Covered(draft'[c].through)
      PROVE  BuildersCovered' /\ RoundsCovered'
  BY <1>0, <1>1 DEF BuildersCovered, RoundsCovered, Covered, UpTo
<1>2. Covered(Last({})) /\ Covered(0)
  <2>1. Last({}) = 0 /\ UpTo(0) = {}
    <3>1. \A n \in landed : ~(n <= 0)
      BY DEF TellsInv, Inv, Bounded, ZoneBounded
    <3> QED BY <3>1 DEF Last, UpTo
  <2> QED BY <2>1 DEF Covered
<1>3. CASE Load(b)
  <2>1. Covered(Last(entries)) /\ read' = [read EXCEPT ![b] = entries]
    BY <1>3 DEF Load, ZoneCovered
  <2> QED BY <1>0, <1>1, <1>3, <2>1 DEF Load, BuildersCovered
<1>4. CASE Rebuild(b) \/ WriteRebuilt(b) \/ SaveRebuilt(b)
  BY <1>4 DEF Rebuild, WriteRebuilt, SaveRebuilt, BuildersCovered
<1>5. CASE ReadWatermark(b)
  <2>1. Covered(Watermark(b))
    BY DEF Watermark, ZoneCovered, BuildersCovered
  <2> QED BY <1>0, <1>1, <1>5, <2>1 DEF ReadWatermark, BuildersCovered
<1>6. CASE Lock(b) \/ Write(b) \/ Seal(b)
  BY <1>0, <1>1, <1>6 DEF Lock, Write, Seal, BuildersCovered
<1>7. CASE Build(b)
  <2>1. draft'[b].through = through[b]
    BY <1>0, <1>7 DEF Build, NextRound
  <2> QED BY <1>0, <1>1, <1>7, <2>1 DEF Build, BuildersCovered
<1>8. ASSUME Returns(b), files' \subseteq files PROVE BuildersCovered' /\ RoundsCovered'
  BY <1>0, <1>1, <1>2, <1>8 DEF Returns, BuildersCovered
<1>9. CASE ChainBusy(b) \/ GiveUp(b) \/ SaveState(b) \/ WriteFails(b) \/ Stop(b)
  BY <1>8, <1>9 DEF ChainBusy, GiveUp, SaveState, WriteFails, Stop
<1>10. CASE CheckHead(b)
  <2>1. CASE Returns(b)
    BY <1>8, <1>10, <2>1 DEF CheckHead
  <2>2. CASE ~Returns(b)
    BY <1>0, <1>1, <1>10, <2>2 DEF CheckHead, BuildersCovered
  <2> QED BY <2>1, <2>2
<1>11. CASE Create(b)
  <2>1. CASE draft[b] \in files
    BY <1>8, <1>11, <2>1 DEF Create
  <2>2. CASE draft[b] \notin files
    <3>1. /\ at[b] = "create" /\ at' = [at EXCEPT ![b] = "write"]
          /\ files' = files \cup {draft[b]} /\ UNCHANGED <<read, through, draft>>
      BY <1>11, <2>2 DEF Create
    <3>2. Covered(draft[b].through)
      BY <3>1 DEF BuildersCovered
    <3>3. \A k : Covered(k) => Covered(k)'
      BY <1>0 DEF Covered, UpTo
    <3>4. RoundsCovered'
      <4>1. \A f \in files' : Covered(f.through)
        BY <3>1, <3>2 DEF RoundsCovered
      <4> QED BY <1>0, <4>1 DEF RoundsCovered, Covered, UpTo
    <3>5. BuildersCovered'
      <4>1. \A c \in Builders : at'[c] \in Drafted => at[c] \in Drafted
        BY <1>0, <3>1
      <4> QED BY <1>0, <3>1, <4>1 DEF BuildersCovered, Covered, UpTo
    <3> QED BY <3>4, <3>5
  <2> QED BY <2>1, <2>2
<1> QED BY <1>3, <1>4, <1>5, <1>6, <1>7, <1>9, <1>10, <1>11 DEF Step

\* Watermarks are no higher than what has landed, so collection leaves them covered.
LEMMA CollectorCoveredStep ==
    ASSUME TellsInv, ZoneCovered, BuildersCovered, RoundsCovered,
           LandingNext, UNCHANGED <<chain, building>>
    PROVE  BuildersCovered' /\ RoundsCovered'
<1>1. ZoneBounded /\ Top \in Nat
  BY DEF TellsInv, Inv, Bounded, ZoneBounded
<1>2. \A k \in 0 .. Top : Covered(k) => Covered(k)'
  <2> SUFFICES ASSUME NEW k \in 0 .. Top, Covered(k) PROVE Covered(k)'
    BY DEF Covered, UpTo
  <2>1. k \in Int /\ k <= Top
    BY <1>1
  <2> QED BY <1>1, <2>1, StaysCovered
<1>3. RoundsCovered'
  <2>1. \A f \in files : f.through \in 0 .. Top
    BY DEF TellsInv, Inv, AllBind, Binds
  <2> QED BY <1>2, <2>1 DEF RoundsCovered, Covered, UpTo, chain
<1>4. ASSUME NEW b \in Builders
      PROVE  /\ at'[b] \notin {"rebuilt", "rewritten"}
             /\ Covered(Last(read[b]))' /\ Covered(through[b])'
             /\ at'[b] \in Drafted => Covered(draft[b].through)'
  <2>1. at'[b] = at[b] /\ read'[b] = read[b] /\ through'[b] = through[b] /\ draft'[b] = draft[b]
    BY DEF building
  <2>2. Last(read[b]) \in 0 .. Top /\ through[b] \in 0 .. Top
    BY <1>1, TopOfPart DEF TellsInv, Inv, Bounded, BuildersBounded
  <2>3. at[b] \in Drafted => draft[b].through \in 0 .. Top
    BY DEF TellsInv, Inv, AllBind, Binds
  <2> QED BY <1>2, <2>1, <2>2, <2>3 DEF BuildersCovered, Covered, UpTo
<1> QED BY <1>3, <1>4 DEF BuildersCovered

CoveredInv == ZoneCovered /\ BuildersCovered /\ RoundsCovered

LEMMA CoveredStep ==
    ASSUME Reindexes = FALSE, TellsInv, CoveredInv, [Next]_vars
    PROVE  CoveredInv'
<1>1. CASE UNCHANGED vars
  BY <1>1 DEF vars, CoveredInv, ZoneCovered, BuildersCovered, RoundsCovered, Covered, UpTo, Drafted
<1>2. ASSUME LandingNext, UNCHANGED <<chain, building>>
      PROVE  CoveredInv'
  BY <1>2, ZoneCoveredStep, CollectorCoveredStep DEF CoveredInv, TellsInv, Inv, Bounded
<1>3. ASSUME NEW b \in Builders, Step(b) \/ WriteFails(b) \/ Stop(b)
      PROVE  CoveredInv'
  <2>1. ZoneCovered'
    BY <1>3, ZoneStill DEF landingVars, CoveredInv, ZoneCovered, Covered, UpTo
  <2> QED BY <1>3, <2>1, BuilderCoveredStep DEF CoveredInv
<1> QED BY <1>1, <1>2, <1>3 DEF Next, Collects, Interrupted, Drops, LandingNext
-----------------------------------------------------------------------------
(***************************************************************************)
(* What the server shows is covered by the index on disk until it has read *)
(* the index, and by its times from then on.                               *)
(***************************************************************************)
KeptInv ==
    /\ \E s, r : shown = [stage |-> s, rounds |-> r]
    /\ \A f \in shown.rounds :
          /\ f.through \in 0 .. Top /\ Covered(f.through)
          /\ shown.stage = "kept" /\ times # None => UpTo(f.through) \subseteq times

LEMMA KeptStep ==
    ASSUME Reindexes = FALSE, TellsInv, CoveredInv, KeptInv, [ViewNext]_viewVars
    PROVE  KeptInv'
<1>1. CASE FoldListed
  <2>1. UNCHANGED vars /\ shown' \in {[stage |-> "folded", rounds |-> opening], NotShown}
        /\ (shown' # NotShown => opening \subseteq files)
    BY <1>1 DEF FoldListed, AllFold
  <2>2. CASE shown' = NotShown
    BY <2>2 DEF KeptInv, NotShown
  <2>3. CASE shown' # NotShown
    <3>1. shown'.rounds \subseteq files /\ shown'.stage = "folded"
      BY <2>1, <2>3
    <3>2. \A f \in files : f.through \in 0 .. Top /\ Covered(f.through)
      BY DEF TellsInv, Inv, AllBind, Binds, CoveredInv, RoundsCovered
    <3> QED BY <2>1, <2>3, <3>1, <3>2 DEF KeptInv, vars, Covered, UpTo, Top
  <2> QED BY <2>2, <2>3
<1>2. CASE LoadTimes
  <2>1. UNCHANGED vars /\ times' = entries /\ shown' = [shown EXCEPT !.stage = "kept"]
    BY <1>2 DEF LoadTimes
  <2>2. shown' = [stage |-> "kept", rounds |-> shown.rounds]
    BY <2>1 DEF KeptInv
  <2>3. shown'.rounds = shown.rounds
    BY <2>2
  <2> QED BY <2>1, <2>2, <2>3 DEF KeptInv, vars, Covered, UpTo, Top
<1>3. CASE RestartView
  BY <1>3 DEF RestartView, KeptInv, NotShown
<1>4. CASE ListRounds
  BY <1>4 DEF ListRounds, KeptInv, vars, Covered, UpTo, Top
<1>5. CASE Next /\ UNCHANGED viewing
  <2>1. CASE LandingNext
    <3>1. ZoneBounded /\ Top \in Nat /\ Top' \in Nat /\ Top <= Top'
      BY <2>1, ZoneStep DEF TellsInv, Inv, Bounded, ZoneBounded
    <3>2. \A k \in 0 .. Top : Covered(k) => Covered(k)'
      <4> SUFFICES ASSUME NEW k \in 0 .. Top, Covered(k) PROVE Covered(k)'
        BY DEF Covered, UpTo
      <4>1. k \in Int /\ k <= Top
        BY <3>1
      <4> QED BY <2>1, <3>1, <4>1, StaysCovered DEF CoveredInv
    <3>3. \A k \in 0 .. Top : UpTo(k)' = UpTo(k)
      <4>1. landed' = landed \/ landed' = landed \cup {Top + 1}
        BY <2>1, <3>1, LandsOnTop DEF LandingNext, Collecting, BeginPass, LoadEntries, WriteEntries,
             SaveIndexed, EndPass, BreakOff, DropEntries, zoneFiles
      <4> QED BY <3>1, <4>1 DEF UpTo
    <3>4. shown' = shown /\ times' = times
      BY <1>5 DEF viewing
    <3>5. ASSUME NEW f \in shown.rounds
          PROVE  /\ f.through \in 0 .. Top' /\ Covered(f.through)'
                 /\ shown.stage = "kept" /\ times # None => UpTo(f.through)' \subseteq times
      <4>1. f.through \in 0 .. Top /\ Covered(f.through)
            /\ (shown.stage = "kept" /\ times # None => UpTo(f.through) \subseteq times)
        BY DEF KeptInv
      <4>2. UpTo(f.through)' = UpTo(f.through) /\ Covered(f.through)'
        BY <3>2, <3>3, <4>1 DEF Covered, UpTo
      <4>3. f.through \in 0 .. Top'
        BY <3>1, <4>1
      <4> QED BY <4>1, <4>2, <4>3
    <3> QED BY <3>4, <3>5 DEF KeptInv, Covered, UpTo
  <2>2. CASE UNCHANGED landingVars
    BY <1>5, <2>2 DEF KeptInv, viewing, Covered, UpTo, Top, landingVars
  <2> QED BY <1>5, <2>1, <2>2, ZoneStill DEF Next, Collects, Interrupted, Drops, LandingNext, CoveredInv
<1>6. CASE UNCHANGED viewVars
  BY <1>6 DEF viewVars, KeptInv, Covered, UpTo, Top
<1> QED BY <1>1, <1>2, <1>3, <1>4, <1>5, <1>6 DEF ViewNext, View

\* A conversation the server keeps has the times of all it shows, if the index was there: rounds
\* are listed before the index is read, and whatever a round claims was in the index by then,
\* also when its builder read an old index and a new watermark, or the index was deleted and made
\* again meanwhile (view.go, "from the index").
THEOREM ShowsCovered ==
    ASSUME Reindexes = FALSE
    PROVE  ViewSpec => []ShowsItsEvidence
<1>1. ViewInit => CoveredInv /\ KeptInv
  <2>1. ViewInit => CoveredInv
    BY CoveredInit DEF ViewInit, CoveredInv
  <2>2. ViewInit => KeptInv
    BY DEF ViewInit, KeptInv, NotShown
  <2> QED BY <2>1, <2>2
<1>2. TellsInv /\ CoveredInv /\ KeptInv /\ [ViewNext]_viewVars => CoveredInv' /\ KeptInv'
  BY ViewSteps, CoveredStep, KeptStep
<1>3. TellsInv /\ KeptInv => ShowsItsEvidence
  <2> SUFFICES ASSUME TellsInv, KeptInv, shown.stage = "kept", times # None
               PROVE  {n \in landed : n <= Last({f.through : f \in shown.rounds})} \subseteq times
    BY DEF ShowsItsEvidence
  <2> DEFINE K == {f.through : f \in shown.rounds}
  <2>1. K \in SUBSET Nat /\ Top \in Nat /\ \A k \in K : k <= Top
    BY DEF KeptInv, TellsInv, Inv, Bounded, ZoneBounded
  <2>2. K # {} => Last(K) \in K
    <3> HIDE DEF K
    <3> QED BY <2>1, LastIsMax
  <2>3. CASE K = {}
    <3>1. Last(K) = 0
      <4> HIDE DEF K
      <4> QED BY <2>3 DEF Last
    <3>2. \A n \in landed : ~(n <= 0)
      BY DEF TellsInv, Inv, Bounded, ZoneBounded
    <3> QED BY <3>1, <3>2
  <2>4. CASE K # {}
    <3>1. PICK f \in shown.rounds : f.through = Last(K)
      BY <2>2, <2>4
    <3> QED BY <3>1 DEF KeptInv, UpTo
  <2> QED BY <2>3, <2>4
<1> QED BY <1>1, <1>2, <1>3, ParserHolds, PTL DEF ViewSpec
=============================================================================
