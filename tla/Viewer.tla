-------------------------------- MODULE Viewer --------------------------------
(***************************************************************************)
(* `asz view` beside collectors and builders: internal/view (view.go,      *)
(* step.go).  The server takes no lock.  The first request for a           *)
(* conversation lists its rounds, folds them, loads the index for the      *)
(* times, scans the landed files for their paths, and keeps all of it; a   *)
(* request that fails keeps nothing.  One mutex makes loads one at a time. *)
(***************************************************************************)
EXTENDS Parser

VARIABLES
    opening,    \* the rounds Chain.List named to the load under way, or None
    shown,      \* the conversation kept: its rounds, and how far its load has come
    times       \* the landed files whose rows it has times for, None without an index

viewing  == <<opening, shown, times>>
viewVars == <<landed, entries, indexed, stage, loaded, ix, drops, files, cut, head, holder,
              at, policy, read, through, draft, stops, faults, opening, shown, times>>

NotShown == [stage |-> "none", rounds |-> {}]

ViewInit ==
    /\ Init
    /\ opening = None /\ shown = NotShown /\ times = None

\* Load: the conversation is not kept, and its rounds are listed ...
ListRounds ==
    /\ shown.stage = "none" /\ opening = None /\ files # {}
    /\ opening' = files
    /\ UNCHANGED <<vars, shown, times>>

\* Mutant: a round that is still being written folds as far as it goes.
PartFolds(rounds) == rounds \subseteq files

\* Every listed round is read, whole, and continues the one before it.
AllFold(rounds) ==
    /\ rounds \subseteq files \ cut
    /\ {f.round : f \in rounds} = 1 .. Cardinality(rounds)
    /\ \A f, g \in rounds : g.round = f.round + 1 => g.previous = f /\ g.policy = f.policy

\* ... and folded ...
FoldListed ==
    /\ opening # None /\ shown.stage = "none"
    /\ opening' = None
    /\ shown' = IF AllFold(opening) THEN [stage |-> "folded", rounds |-> opening] ELSE NotShown
    /\ UNCHANGED <<vars, times>>

\* ... and the index, if it is there, gives the times.  The paths of the landed files are
\* scanned after it, and again whenever one is missing: no step of theirs is told apart.
LoadTimes ==
    /\ shown.stage = "folded"
    /\ times' = entries
    /\ shown' = [shown EXCEPT !.stage = "kept"]
    /\ UNCHANGED <<vars, opening>>

\* The server is stopped, and one is started.
RestartView ==
    /\ shown # NotShown
    /\ opening' = None /\ shown' = NotShown /\ times' = None
    /\ UNCHANGED vars

View == ListRounds \/ FoldListed \/ LoadTimes

ViewNext == (Next /\ UNCHANGED viewing) \/ View \/ RestartView
ViewSpec == ViewInit /\ [][ViewNext]_viewVars

Live ==
    /\ WF_viewVars(Collects /\ UNCHANGED viewing)
    /\ \A b \in Builders : WF_viewVars(Step(b) /\ UNCHANGED viewing)
ViewLiveSpec == ViewSpec /\ Live
-----------------------------------------------------------------------------
\* What is shown was a conversation and stays part of it: its rounds are the first of the
\* chain, on disk and whole, whichever builder is killed while the server lists and reads
\* ("a viewer can run beside a collector without taking the lock", cmd/asz/view.go).
ShowsTheChain ==
    /\ shown.rounds \subseteq files \ cut
    /\ \A f \in files : f.round <= Cardinality(shown.rounds) => f \in shown.rounds

\* A conversation that is kept has, if the index was there, the times of every landed file
\* its last round covers: it never draws a round it read before the evidence
\* (view.go, "The time of every landed position, from the index").
ShowsItsEvidence ==
    shown.stage = "kept" =>
        LET covered == {n \in landed : n <= Last({f.through : f \in shown.rounds})}
        IN  times # None => covered \subseteq times
=============================================================================
