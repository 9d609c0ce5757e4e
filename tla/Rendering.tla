------------------------------ MODULE Rendering -------------------------------
(***************************************************************************)
(* What the view server shows of a folded conversation: internal/view      *)
(* (view.go, api.go, step.go) as functions of the nodes and relations of   *)
(* the last assembly.                                                      *)
(*                                                                         *)
(* A page lists the talks with their segments, fetches one talk's tree at  *)
(* a time, and leads from a child stream back to the step that started it. *)
(* Times, labels, texts, attributes and sizes are left out.                *)
(***************************************************************************)
EXTENDS Assembler

CONSTANTS
    TreeDepth,    \* how deep apiTalk renders
    UpHops        \* how far talkOf walks up

KindOfNode(id) == id[1]
Containers == {"session", "segment", "stream", "epoch", "talk", "run"}
IsStep(id) == KindOfNode(id) \notin Containers

ById(id) == {n \in said.nodes : n.id = id}
ChildrenOf(id) == {n.id : n \in {m \in said.nodes : m.parent = id}}

\* Everything at most depth levels under a node.
Tree(id, depth) ==
    LET under[d \in 0 .. depth] ==
            IF d = 0 THEN {id} ELSE under[d - 1] \cup UNION {ChildrenOf(i) : i \in under[d - 1]}
    IN  under[depth]

Talks == {n.id : n \in {m \in said.nodes : KindOfNode(m.id) = "talk"}}

\* apiTalk: the steps a page has once it has fetched a talk.
Fetched(talk) == {id \in Tree(talk, TreeDepth) : IsStep(id)}

\* Mutant: the walk gives up after one hop.
TalkOfParent(id) ==
    LET up == {n.parent : n \in ById(id)} \cap Talks IN IF up = {} THEN None ELSE CHOOSE t \in up : TRUE

\* talkOf: the talk a node is in, walking up.
TalkOf(id) ==
    LET up[i \in 0 .. UpHops] ==
            IF i = 0 THEN {id}
            ELSE LET at == up[i - 1] IN
                 IF at \subseteq Talks THEN at ELSE {n.parent : n \in UNION {ById(j) : j \in at}}
    IN  IF up[UpHops] # {} /\ up[UpHops] \subseteq Talks
        THEN CHOOSE t \in up[UpHops] : TRUE ELSE None

\* streamRows: the steps that could have started a stream; none is chosen among several.
OpenedBy(stream) ==
    {[step |-> r[2], talk |-> TalkOf(r[2])] :
        r \in {q \in said.relations :
                  q[1] = "starts" /\ q[3] = stream /\ \E n \in ById(q[2]) : n.stream # None}}

\* apiOverview: the segments the relations put a talk in; a row holds one.
SegmentsOf(talk) == {r[3] : r \in {q \in said.relations : q[1] = "in_segment" /\ q[2] = talk}}
-----------------------------------------------------------------------------
\* A reader sent from a child stream to the step that opened it lands on a talk, and finds
\* the step in what that talk's page fetched: otherwise "the page shows nothing at all"
\* (api.go, talkOf), whatever has landed of parent and child.
OriginShown ==
    \A s \in ChildrenOf(Session) : \A o \in OpenedBy(s) : o.talk \in Talks /\ o.step \in Fetched(o.talk)

\* Whatever the runtime says about a session, and whatever it injects, is shown: a record of
\* these types is in some step, though nobody has seen its subtype before (index.go, "dropping
\* it loses that silently"; "defaulting to injection cannot lose a record").
RuntimeRecordsShown ==
    \A i \in Canonical(ix, through) :
        LET record == script.files[ix[i].at[1]].records[ix[i].at[2]]
        IN  record.type \in {"system", "attachment"} =>
                \E n \in said.nodes : IsStep(n.id) /\ ix[i].at \in n.refs

\* A child's talk is in the segment of the talk that started it, and in no other, once all has
\* landed: "the work a talk delegated belongs to the same window as the talk that asked for it"
\* (segment.go); the row of a talk holds one segment (api.go, "Which segment a talk sits in").
DelegatedTogether ==
    Complete => \A s \in ChildrenOf(Session) : \A o \in OpenedBy(s) : \A c \in Talks :
        c[2] = s[2] => SegmentsOf(c) = SegmentsOf(o.talk)
=============================================================================
