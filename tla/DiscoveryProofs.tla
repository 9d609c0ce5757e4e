--------------------------- MODULE DiscoveryProofs ---------------------------
(***************************************************************************)
(* Discovery overlooks nothing that stays: proof for any project           *)
(* directories, any files in them, and any number of changes and of        *)
(* directories that cannot be read.                                        *)
(***************************************************************************)
EXTENDS Discovery, FiniteSetTheorems, SequenceTheorems, TLAPS

Places == {"project", "subagents", "run", "workflows", "scripts", "runs"}
AllDirs == [project: ProjectSet, place: Places, run: {f.run : f \in Files} \cup {None}]

In(d, q) == \E i \in DOMAIN q : q[i] = d

DirsOK ==
    /\ agenda = None \/ agenda \in Seq(AllDirs)
    /\ stable \subseteq tree /\ tree \subseteq Files

\* Of a file that stays: it is found, or its way is cut, or a directory on its way is still
\* to be read.
OnTheWay(f) ==
    f \in sources \/ Way(f) \cap failed # {} \/ \E d \in Way(f) : In(d, agenda)

Pending == agenda # None => \A f \in Files : Stays(f) => OnTheWay(f)

Inv == DirsOK /\ Pending /\ StableSourcesFound

LEMMA InConcat ==
    ASSUME NEW S, NEW q \in Seq(S), NEW r \in Seq(S), NEW d, In(d, q) \/ In(d, r)
    PROVE  In(d, q \o r)
<1> DEFINE c == q \o r
<1>1. /\ DOMAIN q = 1 .. Len(q) /\ DOMAIN r = 1 .. Len(r) /\ DOMAIN c = 1 .. Len(q) + Len(r)
      /\ Len(q) \in Nat /\ Len(r) \in Nat
      /\ \A i \in 1 .. Len(q) + Len(r) : c[i] = IF i <= Len(q) THEN q[i] ELSE r[i - Len(q)]
  BY ConcatProperties
<1> HIDE DEF c
<1>2. CASE In(d, q)
  BY <1>1, <1>2 DEF In
<1>3. CASE In(d, r)
  <2>1. PICK i \in 1 .. Len(r) : r[i] = d
    BY <1>1, <1>3 DEF In
  <2> DEFINE k == Len(q) + i
  <2>2. k \in 1 .. Len(q) + Len(r) /\ ~(k <= Len(q)) /\ k - Len(q) = i
    BY <1>1
  <2> HIDE DEF k
  <2>3. k \in DOMAIN c /\ c[k] = d
    <3>1. k \in DOMAIN c /\ c[k] = r[k - Len(q)]
      BY <1>1, <2>2
    <3> QED BY <2>1, <2>2, <3>1
  <2> QED BY <2>3 DEF In, c
<1> QED BY <1>2, <1>3 DEF c

LEMMA FilesOK ==
    ASSUME NEW f \in Files
    PROVE  /\ f.project \in ProjectSet
           /\ f.place \in {"project", "subagents", "run", "workflows", "scripts"}
           /\ f.place # "run" => f.run = None
BY DiscoveryAssumption, Zenon

LEMMA InTail ==
    ASSUME NEW S, NEW q \in Seq(S), q # <<>>, NEW d, In(d, q)
    PROVE  d = Head(q) \/ In(d, Tail(q))
<1>1. PICK i \in 1 .. Len(q) : q[i] = d
  BY DEF In
<1>2. CASE i = 1
  BY <1>1, <1>2
<1>3. CASE i # 1
  <2> DEFINE t == Tail(q)
  <2>1. Len(t) = Len(q) - 1 /\ Len(q) \in Nat /\ \A k \in 1 .. Len(t) : t[k] = q[k + 1]
    BY HeadTailProperties
  <2>2. DOMAIN t = 1 .. Len(t)
    BY HeadTailProperties
  <2> HIDE DEF t
  <2>3. i - 1 \in DOMAIN t /\ t[i - 1] = d
    BY <1>1, <1>3, <2>1, <2>2
  <2> QED BY <2>3 DEF In, t
<1> QED BY <1>2, <1>3

\* Reading the directory of the runs leads to every run.
LEMMA RunsListed ==
    ASSUME DirsOK, NEW d \in AllDirs
    PROVE  LET q == InSomeOrder(RunsOf(d)) IN
           /\ q \in Seq(RunsOf(d))
           /\ \A r \in RunsOf(d) : In(r, q)
<1> DEFINE R == RunsOf(d)
           B == Below(d, {"run"})
           c == Cardinality(R)
           q == InSomeOrder(R)
<1>1. IsFiniteSet(B)
  BY DiscoveryAssumption, FS_Subset DEF DirsOK, Below
<1>2. IsFiniteSet(R)
  <2> DEFINE h == [f \in B |-> f.run]
  <2>1. h \in Surjection(B, R)
    BY DEF Surjection, RunsOf
  <2> HIDE DEF B, R, h
  <2> QED BY <1>1, <2>1, FS_Surjection
<1> HIDE DEF R
<1>3. c \in Nat /\ ExistsBijection(1 .. c, R)
  BY <1>2, FS_CardinalityType
<1>4. \E p \in [1 .. c -> R] : \A i, j \in DOMAIN p : p[i] = p[j] => i = j
  BY <1>3 DEF ExistsBijection, Bijection, Injection, IsInjective
<1> HIDE DEF c
<1>5. q \in [1 .. c -> R] /\ \A i, j \in DOMAIN q : q[i] = q[j] => i = j
  BY <1>4, Zenon DEF InSomeOrder, c
<1> HIDE DEF q
<1>6. q \in Injection(1 .. c, R)
  BY <1>5 DEF Injection, IsInjective
<1>7. Cardinality(1 .. c) = c
  BY <1>3, FS_Interval
<1>8. q \in Surjection(1 .. c, R)
  BY <1>2, <1>6, <1>7, FS_Injection DEF c
<1>9. \A r \in R : In(r, q)
  BY <1>5, <1>8 DEF Surjection, In
<1>10. q \in Seq(R)
  BY <1>3, <1>5
<1> QED BY <1>9, <1>10 DEF R, q

LEMMA UnderType ==
    ASSUME DirsOK, NEW d \in AllDirs
    PROVE  Under(d) \in Seq(AllDirs)
<1>0. d.project \in ProjectSet /\ d.place \in Places
  BY DEF AllDirs
<1>1. \A place \in Places : Dir(d.project, place, None) \in AllDirs
  BY <1>0 DEF AllDirs, Dir
<1>2. CASE d.place = "project"
  BY <1>1, <1>2 DEF Under, Places
<1>3. CASE d.place = "subagents"
  BY <1>1, <1>3 DEF Under, Places
<1>4. CASE d.place = "runs"
  <2> DEFINE q == InSomeOrder(RunsOf(d))
  <2>1. q \in Seq(RunsOf(d))
    BY RunsListed
  <2>2. Under(d) = [i \in DOMAIN q |-> Dir(d.project, "run", q[i])]
    BY <1>4 DEF Under
  <2> HIDE DEF q
  <2>3. \A r \in RunsOf(d) : Dir(d.project, "run", r) \in AllDirs
    BY <1>0 DEF RunsOf, Below, DirsOK, AllDirs, Dir, Places
  <2>4. Len(q) \in Nat /\ DOMAIN q = 1 .. Len(q) /\ \A i \in 1 .. Len(q) : q[i] \in RunsOf(d)
    BY <2>1
  <2>5. Under(d) \in [1 .. Len(q) -> AllDirs]
    BY <2>2, <2>3, <2>4
  <2> QED BY <2>4, <2>5
<1>5. CASE d.place = "workflows"
  BY <1>1, <1>5 DEF Under, Places
<1>6. CASE d.place \in {"run", "scripts"}
  BY <1>6 DEF Under
<1> QED BY <1>0, <1>2, <1>3, <1>4, <1>5, <1>6 DEF Places

\* Every directory on the way to a file leads to it, or to the next one.
LEMMA WayLeads ==
    ASSUME DirsOK, NEW f \in Files, f \in tree, f.kind \in Collected(f.place), NEW d \in Way(f), d \in AllDirs
    PROVE  f \in Named(d) \/ \E e \in Way(f) : In(e, Under(d))
<1> DEFINE own == Dir(f.project, f.place, f.run)
<1>0. /\ f.place \in {"project", "subagents", "run", "workflows", "scripts"}
      /\ f.place # "run" => f.run = None
      /\ own \in Way(f)
  <2>1. own \in Way(f)
    BY DEF Way
  <2>2. /\ f.place \in {"project", "subagents", "run", "workflows", "scripts"}
        /\ f.place # "run" => f.run = None
    BY FilesOK
  <2> QED BY <2>1, <2>2
<1>1. CASE d = own
  BY <1>1 DEF Named, Holding, Dir
<1>2. CASE d = Dir(f.project, "project", None) /\ f.place # "project"
  <2>1. Entered(d) /\ d.place = "project" /\ d.project = f.project
    BY <1>0, <1>2 DEF Entered, Below, Dir
  <2>2. Under(d) = <<Dir(f.project, "subagents", None), Dir(f.project, "workflows", None)>>
    BY <2>1 DEF Under
  <2>3. In(Dir(f.project, "subagents", None), Under(d)) /\ In(Dir(f.project, "workflows", None), Under(d))
    BY <2>2 DEF In
  <2>4. Dir(f.project, "subagents", None) \in Way(f) \/ Dir(f.project, "workflows", None) \in Way(f)
    BY <1>0, <1>2 DEF Way
  <2> QED BY <2>3, <2>4
<1>3. CASE d = Dir(f.project, "subagents", None) /\ f.place = "run"
  <2>1. d.place = "subagents" /\ d.project = f.project /\ RunsOf(d) # {}
    BY <1>3 DEF RunsOf, Below, Dir
  <2>2. Under(d) = <<Dir(f.project, "runs", None)>>
    BY <2>1 DEF Under
  <2>3. In(Dir(f.project, "runs", None), Under(d))
    BY <2>2 DEF In
  <2> QED BY <1>3, <2>3 DEF Way
<1>4. CASE d = Dir(f.project, "runs", None) /\ f.place = "run"
  <2> DEFINE q == InSomeOrder(RunsOf(d))
  <2>1. d.place = "runs" /\ d.project = f.project /\ f.run \in RunsOf(d)
    BY <1>4 DEF RunsOf, Below, Dir
  <2>2. In(f.run, q)
    BY <2>1, RunsListed
  <2>3. Under(d) = [i \in DOMAIN q |-> Dir(f.project, "run", q[i])]
    BY <2>1 DEF Under
  <2> HIDE DEF q
  <2>4. In(own, Under(d))
    BY <1>4, <2>2, <2>3 DEF In
  <2> QED BY <1>0, <2>4
<1>5. CASE d = Dir(f.project, "workflows", None) /\ f.place = "scripts"
  <2>1. d.place = "workflows" /\ d.project = f.project /\ Below(d, {"scripts"}) # {}
    BY <1>5 DEF Below, Dir
  <2>2. Under(d) = <<Dir(f.project, "scripts", None)>>
    BY <2>1 DEF Under
  <2>3. In(own, Under(d))
    BY <1>0, <1>5, <2>2 DEF In
  <2> QED BY <1>0, <2>3
<1> QED BY <1>0, <1>1, <1>2, <1>3, <1>4, <1>5 DEF Way

LEMMA InvInit == Init => Inv
BY DEF Init, Inv, DirsOK, Pending, StableSourcesFound, Scanned, Stays

LEMMA InvStep ==
    ASSUME None \notin Seq(AllDirs), Inv, [Next]_vars
    PROVE  Inv'
<1>0. DirsOK /\ Pending /\ StableSourcesFound
  BY DEF Inv
\* While a scan runs, and after a step that only takes files away, nothing is promised anew.
<1>a. ASSUME UNCHANGED <<agenda, sources, failed, chosen>>, stable' \subseteq stable, DirsOK'
      PROVE  Inv'
  <2>1. Pending'
    BY <1>0, <1>a DEF Pending, Stays, OnTheWay
  <2>2. StableSourcesFound'
    BY <1>0, <1>a DEF StableSourcesFound, Scanned, Stays
  <2> QED BY <1>a, <2>1, <2>2 DEF Inv
<1>1. CASE UNCHANGED vars
  BY <1>0, <1>a, <1>1 DEF vars, DirsOK
<1>2. ASSUME NEW f \in Files, Create(f) PROVE Inv'
  BY <1>0, <1>a, <1>2 DEF Create, DirsOK
<1>3. ASSUME NEW f \in Files, Prune(f) PROVE Inv'
  BY <1>0, <1>a, <1>3 DEF Prune, DirsOK
<1>4. CASE Start
  <2>1. /\ agenda' = [i \in DOMAIN Projects |-> Dir(Projects[i], "project", None)]
        /\ sources' = {} /\ failed' = {} /\ stable' = tree /\ tree' = tree /\ chosen' = None
    BY <1>4 DEF Start
  <2>2. Len(Projects) \in Nat /\ DOMAIN Projects = 1 .. Len(Projects)
    BY DiscoveryAssumption
  <2>3. \A i \in DOMAIN Projects : Dir(Projects[i], "project", None) \in AllDirs
    BY DEF AllDirs, Dir, ProjectSet, Places
  <2>4. agenda' \in Seq(AllDirs)
    <3>1. agenda' \in [1 .. Len(Projects) -> AllDirs]
      BY <2>1, <2>2, <2>3
    <3> QED BY <2>2, <3>1
  <2>5. ASSUME NEW f \in Files PROVE \E d \in Way(f) : In(d, agenda')
    <3>1. PICK i \in DOMAIN Projects : Projects[i] = f.project
      <4>1. f.project \in ProjectSet
        BY FilesOK
      <4> QED BY <4>1 DEF ProjectSet
    <3>2. In(Dir(f.project, "project", None), agenda')
      BY <2>1, <3>1 DEF In
    <3> QED BY <3>2 DEF Way
  <2>6. DirsOK'
    BY <1>0, <2>1, <2>4 DEF DirsOK
  <2>7. Pending'
    BY <2>5 DEF Pending, OnTheWay
  <2>8. StableSourcesFound'
    BY <2>1 DEF StableSourcesFound, Scanned
  <2> QED BY <2>6, <2>7, <2>8 DEF Inv
<1>5. CASE ReadDir \/ ReadFails
  <2> DEFINE d == Head(agenda)
             rest == Tail(agenda)
  <2>1. agenda \in Seq(AllDirs) /\ agenda # <<>> /\ agenda # None
    BY <1>0, <1>5 DEF ReadDir, ReadFails, DirsOK
  <2>2. d \in AllDirs /\ rest \in Seq(AllDirs)
    BY <2>1, HeadTailProperties
  <2>3. UNCHANGED <<tree, stable, chosen>> /\ sources \subseteq sources' /\ failed \subseteq failed'
    BY <1>5 DEF ReadDir, ReadFails
  <2>4. agenda' \in Seq(AllDirs) /\ \A e : In(e, rest) => In(e, agenda')
    <3>1. CASE ReadFails
      BY <2>2, <3>1 DEF ReadFails
    <3>2. CASE ReadDir
      <4>1. Under(d) \in Seq(AllDirs) /\ agenda' = Under(d) \o rest
        BY <1>0, <2>2, <3>2, UnderType DEF ReadDir
      <4> HIDE DEF d, rest
      <4>2. agenda' \in Seq(AllDirs)
        BY <2>2, <4>1, ConcatProperties
      <4> QED BY <2>2, <4>1, <4>2, InConcat
    <3> QED BY <1>5, <3>1, <3>2
  <2>5. ASSUME NEW f \in Files, Stays(f), d \in Way(f)
        PROVE  f \in sources' \/ Way(f) \cap failed' # {} \/ \E e \in Way(f) : In(e, agenda')
    <3>1. CASE ReadFails
      <4>1. d \in failed'
        BY <3>1 DEF ReadFails
      <4> QED BY <2>5, <4>1
    <3>2. CASE ReadDir
      <4>1. f \in Named(d) \/ \E e \in Way(f) : In(e, Under(d))
        <5> HIDE DEF d
        <5> QED BY <1>0, <2>2, <2>5, WayLeads DEF Stays, DirsOK
      <4>2. sources' = sources \cup Named(d) /\ agenda' = Under(d) \o rest /\ Under(d) \in Seq(AllDirs)
        BY <1>0, <2>2, <3>2, UnderType DEF ReadDir
      <4> HIDE DEF d, rest
      <4>3. \A e : In(e, Under(d)) => In(e, agenda')
        BY <2>2, <4>2, InConcat
      <4> QED BY <4>1, <4>2, <4>3
    <3> QED BY <1>5, <3>1, <3>2
  <2>6. ASSUME NEW f \in Files, Stays(f)
        PROVE  f \in sources' \/ Way(f) \cap failed' # {} \/ \E e \in Way(f) : In(e, agenda')
    <3>1. f \in sources \/ Way(f) \cap failed # {} \/ \E e \in Way(f) : In(e, agenda)
      BY <1>0, <2>1, <2>6 DEF Pending, OnTheWay
    <3>2. ASSUME NEW e \in Way(f), In(e, agenda)
          PROVE  e = d \/ In(e, agenda')
      BY <2>1, <2>4, <3>2, InTail
    <3> HIDE DEF d
    <3> QED BY <2>3, <2>5, <2>6, <3>1, <3>2
  <2>7. DirsOK'
    BY <1>0, <2>3, <2>4 DEF DirsOK
  <2>8. Pending'
    BY <2>3, <2>6 DEF Pending, OnTheWay, Stays
  <2>9. StableSourcesFound'
    <3>1. agenda' # None
      BY <2>4
    <3> QED BY <3>1 DEF StableSourcesFound, Scanned
  <2> QED BY <2>7, <2>8, <2>9 DEF Inv
<1>6. CASE End
  <2>1. agenda = <<>> /\ agenda' = None /\ UNCHANGED <<tree, sources, failed, stable>>
    BY <1>6 DEF End
  <2>2. \A e : ~In(e, agenda)
    BY <2>1 DEF In
  <2>3. StableSourcesFound'
    BY <1>0, <2>1, <2>2, DiscoveryAssumption DEF Pending, OnTheWay, StableSourcesFound, Stays
  <2> QED BY <1>0, <2>1, <2>3 DEF Inv, DirsOK, Pending
<1>7. QED
  BY <1>1, <1>2, <1>3, <1>4, <1>5, <1>6 DEF Next

\* A scan of any tree that changes under it finds every source that is there from its
\* beginning to its end, unless a directory on the way cannot be read (discover.go).
THEOREM NoneOverlooked ==
    ASSUME None \notin Seq(AllDirs)
    PROVE  Spec => []StableSourcesFound
<1>1. Inv /\ [Next]_vars => Inv'
  BY InvStep
<1>2. Inv => StableSourcesFound
  BY DEF Inv
<1> QED BY <1>1, <1>2, InvInit, PTL DEF Spec

\* The decision stands until the next scan, with what it was made from.
Decided ==
    /\ agenda # None => chosen = None
    /\ Scanned => (chosen <=> sources # {} /\ Passes(Judged))

LEMMA DecidedStep ==
    ASSUME None # <<>>, Decided, [Next]_vars
    PROVE  Decided'
<1> USE DEF Decided, Scanned, Judged, Primary, MainIn, Dirs
<1>1. CASE UNCHANGED <<agenda, sources, chosen>>
  BY <1>1
<1>2. CASE Start
  BY <1>2 DEF Start
<1>3. CASE End
  BY <1>3 DEF End
<1>4. CASE ReadDir \/ ReadFails
  <2>1. chosen' = chosen /\ chosen = None
    BY <1>4 DEF ReadDir, ReadFails
  <2> QED BY <1>4, <2>1
<1>5. QED
  BY <1>1, <1>2, <1>3, <1>4 DEF Next, Create, Prune, vars

\* Where the main transcript stays, and none is found in a directory before it, its directory
\* alone decides whether the session is collected (matcher.go, Match; discover.go, Primary).
THEOREM MainDecides ==
    ASSUME None \notin Seq(AllDirs)
    PROVE  Spec => []PrimaryDecides
<1>1. Init => Decided
  BY DEF Init, Decided, Scanned
<1>2. Decided /\ [Next]_vars => Decided'
  BY DecidedStep, DiscoveryAssumption
<1>3. StableSourcesFound /\ Decided => PrimaryDecides
  <2> SUFFICES ASSUME StableSourcesFound, Decided, Scanned, NEW i \in DOMAIN Projects, NEW f \in Files,
                      Stays(f), Way(f) \cap failed = {}, f.kind = "main", f.project = Projects[i],
                      \A g \in sources : g.kind = "main" => \A j \in 1 .. i - 1 : g.project # Projects[j]
               PROVE  chosen <=> Passes({f.project})
    BY DEF PrimaryDecides
  <2>0. f \in sources
    BY DEF StableSourcesFound
  <2>1. Len(Projects) \in Nat /\ DOMAIN Projects = 1 .. Len(Projects)
    BY DiscoveryAssumption
  <2>2. i \in MainIn /\ MainIn \subseteq 1 .. Len(Projects)
    BY <2>0, <2>1 DEF MainIn
  <2>3. \A j \in MainIn : i <= j
    <3> SUFFICES ASSUME NEW j \in MainIn, j < i PROVE FALSE
      BY <2>1, <2>2
    <3>1. PICK g \in sources : g.kind = "main" /\ g.project = Projects[j]
      BY DEF MainIn
    <3>2. j \in 1 .. i - 1
      BY <2>1, <2>2
    <3> QED BY <3>1, <3>2
  <2>4. Primary = {Projects[i]}
    BY <2>1, <2>2, <2>3 DEF Primary
  <2>5. Judged = {f.project}
    BY <2>4 DEF Judged
  <2> QED BY <2>0, <2>5 DEF Decided
<1> QED BY <1>1, <1>2, <1>3, NoneOverlooked, PTL DEF Spec
=============================================================================
