-------------------------------- MODULE Fold --------------------------------
(***************************************************************************)
(* What one round does to a conversation.  diff (internal/parse) writes    *)
(* the difference between a view and a fresh assembly; View.Apply          *)
(* (pkg/sessionflow) folds it back in.                                     *)
(*                                                                         *)
(* Nodes and relations follow the same rules and are both "items": each id *)
(* has a content, or is Absent.  A frame whose content is Absent is a      *)
(* tombstone.  An unresolved reference - a gap - is in addition open or    *)
(* resolved, and is never removed.                                         *)
(***************************************************************************)
CONSTANTS
    Ids,        \* nodes and relations
    Gaps,       \* unresolved references
    Contents,   \* what a frame says, its revision and frame tag left out
    Absent

ASSUME FoldAssumption == Absent \notin Contents \cup [state: {"open", "resolved"}, what: Contents]

Said   == Contents \cup {Absent}
States == [state: {"open", "resolved"}, what: Contents]

\* What an assembly returns: the items, and the gaps, all of them open.
Assemblies == [items: [Ids -> Said], gaps: [Gaps -> Said]]

\* What a view holds, and what a round carries: frames for some of the ids.
Views  == [items: [Ids -> Said], gaps: [Gaps -> States \cup {Absent}]]
Deltas == [items: UNION {[D -> Said] : D \in SUBSET Ids},
           gaps: UNION {[D -> States] : D \in SUBSET Gaps}]

EmptyView  == [items |-> [i \in Ids |-> Absent], gaps |-> [g \in Gaps |-> Absent]]

Open(c) == [state |-> "open", what |-> c]
Resolved(g) == [g EXCEPT !.state = "resolved"]
IsOpen(g) == g # Absent /\ g.state = "open"
-----------------------------------------------------------------------------
\* The items a round must carry: new, changed, or no longer produced.
ChangedItems(view, res) == {i \in Ids : view.items[i] # res.items[i]}

\* A gap is written when the assembly reports one the view does not hold as it is ...
Reported(view, res) ==
    {g \in Gaps : res.gaps[g] # Absent /\ view.gaps[g] # Open(res.gaps[g])}

\* ... and superseded as resolved when an open one is no longer reported.
Closed(view, res) == {g \in Gaps : res.gaps[g] = Absent /\ IsOpen(view.gaps[g])}

\* diff: only what changed is written.
Diff(view, res) ==
    [items |-> [i \in ChangedItems(view, res) |-> res.items[i]],
     gaps  |-> [g \in Reported(view, res) \cup Closed(view, res) |->
                   IF res.gaps[g] = Absent THEN Resolved(view.gaps[g]) ELSE Open(res.gaps[g])]]

\* delta.empty
IsEmpty(delta) == DOMAIN delta.items = {} /\ DOMAIN delta.gaps = {}

\* View.Apply: the last writer wins, and absence means unchanged.
Supersede(old, new) == [k \in DOMAIN old |-> IF k \in DOMAIN new THEN new[k] ELSE old[k]]

Apply(view, delta) ==
    [items |-> Supersede(view.items, delta.items), gaps |-> Supersede(view.gaps, delta.gaps)]

\* View.OpenUnresolved: the gaps still outstanding, with what they say.
OpenUnresolved(view) ==
    [g \in Gaps |-> IF IsOpen(view.gaps[g]) THEN view.gaps[g].what ELSE Absent]

\* A view says what an assembly says: the same items, the same gaps still open.
Says(view, res) == view.items = res.items /\ OpenUnresolved(view) = res.gaps
=============================================================================
