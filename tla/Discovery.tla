------------------------------ MODULE Discovery ------------------------------
(***************************************************************************)
(* Discovery of one session in a live source tree, and the filter that     *)
(* decides whether it is collected: discover.go and matcher.go.            *)
(*                                                                         *)
(* A session's files are not confined to one project directory, and a scan *)
(* reads one directory at a time while the runtime creates and prunes      *)
(* files.  A file is [project, place, run, kind]: place is the directory   *)
(* of the layout it is in, run the workflow run where that is one.  An     *)
(* empty directory is as good as none.                                     *)
(***************************************************************************)
EXTENDS Integers, FiniteSets, Sequences

CONSTANTS
    Projects,       \* project directories, in the order of their names
    Files,          \* the files there may ever be under them
    Include,        \* the projects the include patterns match; {} without patterns
    Exclude,        \* the projects the exclude patterns match
    None,
    MaxChanges,     \* bound: files created and pruned
    MaxErrors       \* bound: directories that cannot be read

ProjectSet == {Projects[i] : i \in DOMAIN Projects}

ASSUME DiscoveryAssumption ==
    /\ \A i, j \in DOMAIN Projects : Projects[i] = Projects[j] => i = j
    /\ Projects \in Seq(ProjectSet)
    /\ IsFiniteSet(Files)
    /\ \A f \in Files :
          /\ f.project \in ProjectSet
          /\ f.place \in {"project", "subagents", "run", "workflows", "scripts"}
          /\ f.place # "run" => f.run = None
    /\ None # <<>>
    /\ Include \subseteq ProjectSet /\ Exclude \subseteq ProjectSet
    /\ MaxChanges \in Nat /\ MaxErrors \in Nat

VARIABLES
    tree,       \* the files there are
    agenda,     \* directories still to be read, the next one first; None without a scan
    sources,    \* Session.Sources so far
    warned,     \* there are warnings
    failed,     \* directories that could not be read
    stable,     \* history: the files that have been there since the scan began
    chosen,     \* whether Match let the session through, or None before the end
    changes

vars == <<tree, agenda, sources, warned, failed, stable, chosen, changes>>

Dir(project, place, run) == [project |-> project, place |-> place, run |-> run]
Holding(d) == {f \in tree : f.project = d.project /\ f.place = d.place /\ f.run = d.run}
Below(d, places) == {f \in tree : f.project = d.project /\ f.place \in places}

\* What each directory of the layout may hold of a session; any other name is passed over.
Collected(place) ==
    CASE place = "project"   -> {"main"}
      [] place = "subagents" -> {"agent", "meta"}
      [] place = "run"       -> {"journal", "agent", "meta"}
      [] place = "workflows" -> {"manifest"}
      [] place = "scripts"   -> {"script"}
      [] place = "runs"      -> {}

Named(d) == {f \in Holding(d) : f.kind \in Collected(d.place)}

Init ==
    /\ tree \in SUBSET Files
    /\ agenda = None /\ sources = {} /\ warned = FALSE /\ failed = {}
    /\ stable = {} /\ chosen = None /\ changes = 0
-----------------------------------------------------------------------------
\* The runtime.
Create(f) ==
    /\ f \notin tree /\ changes < MaxChanges /\ changes' = changes + 1
    /\ tree' = tree \cup {f}
    /\ UNCHANGED <<agenda, sources, warned, failed, stable, chosen>>

Prune(f) ==
    /\ f \in tree /\ changes < MaxChanges /\ changes' = changes + 1
    /\ tree' = tree \ {f} /\ stable' = stable \ {f}
    /\ UNCHANGED <<agenda, sources, warned, failed, chosen>>

\* A pass reads the root: the project directories, by name.
Start ==
    /\ agenda = None
    /\ agenda' = [i \in DOMAIN Projects |-> Dir(Projects[i], "project", None)]
    /\ sources' = {} /\ warned' = FALSE /\ failed' = {} /\ chosen' = None
    /\ stable' = tree
    /\ UNCHANGED <<tree, changes>>

\* Mutant: the session's directory is entered only where its main transcript is.
EnteredWithMain(d) == Named(d) # {} /\ Below(d, {"subagents", "run", "workflows", "scripts"}) # {}

\* The session has a directory of its own in the project directory.
Entered(d) == Below(d, {"subagents", "run", "workflows", "scripts"}) # {}

RunsOf(d) == {f.run : f \in Below(d, {"run"})}
InSomeOrder(S) == CHOOSE q \in [1 .. Cardinality(S) -> S] : \A i, j \in DOMAIN q : q[i] = q[j] => i = j

\* The directories that reading one leads to.
Under(d) ==
    CASE d.place = "project" /\ Entered(d) ->
            <<Dir(d.project, "subagents", None), Dir(d.project, "workflows", None)>>
      [] d.place = "subagents" /\ RunsOf(d) # {}         -> <<Dir(d.project, "runs", None)>>
      [] d.place = "runs" ->
            LET runs == InSomeOrder(RunsOf(d))
            IN  [i \in DOMAIN runs |-> Dir(d.project, "run", runs[i])]
      [] d.place = "workflows" /\ Below(d, {"scripts"}) # {} -> <<Dir(d.project, "scripts", None)>>
      [] OTHER                                               -> <<>>

\* ReadDir: the names there are now, and the directories they lead to.
ReadDir ==
    /\ agenda \notin {None, <<>>}
    /\ sources' = sources \cup Named(Head(agenda))
    /\ agenda' = Under(Head(agenda)) \o Tail(agenda)
    /\ UNCHANGED <<tree, warned, failed, stable, chosen, changes>>

\* ReadDir fails, the directory being there: only a project directory is warned of.
ReadFails ==
    /\ agenda \notin {None, <<>>} /\ Cardinality(failed) < MaxErrors
    /\ failed' = failed \cup {Head(agenda)}
    /\ warned' = (warned \/ Head(agenda).place = "project")
    /\ agenda' = Tail(agenda)
    /\ UNCHANGED <<tree, sources, stable, chosen, changes>>

\* Session.Dirs and Session.Primary of what was found: the first directory, by name, of those
\* that hold a main transcript.
Dirs == {f.project : f \in sources}
MainIn == {i \in DOMAIN Projects : \E f \in sources : f.kind = "main" /\ f.project = Projects[i]}
Primary == {Projects[i] : i \in {j \in MainIn : \A k \in MainIn : j <= k}}

\* Mutant: any directory the session touches counts.
JudgedByAll == Dirs

\* The directories a session is judged by: where its main transcript is, or all of them.
Judged == IF Primary = {} THEN Dirs ELSE Primary

Passes(S) ==
    /\ ~ (S # {} /\ S \subseteq Exclude)
    /\ Include = {} \/ S \cap Include # {}

\* The scan ends: a session of which nothing was found is none, and Match judges the others.
End ==
    /\ agenda = <<>>
    /\ agenda' = None
    /\ chosen' = (sources # {} /\ Passes(Judged))
    /\ UNCHANGED <<tree, sources, warned, failed, stable, changes>>

Next == Start \/ ReadDir \/ ReadFails \/ End \/ \E f \in Files : Create(f) \/ Prune(f)

Spec == Init /\ [][Next]_vars
-----------------------------------------------------------------------------
Scanned == agenda = None /\ chosen # None
Stays(f) == f \in stable /\ f.kind \in Collected(f.place)

\* The directories that have to be read to come to a file.
Way(f) ==
    {Dir(f.project, "project", None), Dir(f.project, f.place, f.run)}
    \cup {d \in {Dir(f.project, "subagents", None), Dir(f.project, "runs", None)} : f.place = "run"}
    \cup {d \in {Dir(f.project, "workflows", None)} : f.place = "scripts"}

\* A source that is there from the beginning of a scan to its end is found by it, in whatever
\* project directory it is and whatever comes and goes around it, unless a directory on the
\* way could not be read (discover.go, "a directory-first walk misses most child streams").
StableSourcesFound ==
    Scanned => \A f \in Files : Stays(f) => f \in sources \/ Way(f) \cap failed # {}

\* Where a session's main transcript stays decides whether the session is collected: neither
\* its children's directories nor what comes and goes meanwhile ("a single scratchpad or
\* subdirectory must not exclude the whole conversation", matcher.go), unless its directory
\* could not be read or another one is found in a directory before it.
PrimaryDecides ==
    Scanned => \A i \in DOMAIN Projects : \A f \in Files :
        /\ Stays(f) /\ f.kind = "main" /\ f.project = Projects[i] /\ Way(f) \cap failed = {}
        /\ \A g \in sources : g.kind = "main" => \A j \in 1 .. i - 1 : g.project # Projects[j]
        => (chosen <=> Passes({f.project}))
=============================================================================
