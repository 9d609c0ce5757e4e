----------------------------- MODULE Assembler ------------------------------
(***************************************************************************)
(* A session's index as it grows, and the rounds assembled from it: rows   *)
(* land in any order across sources, a resumed session replays records it  *)
(* already wrote, and each round is assembled up to the watermark it read, *)
(* from an index that may already hold more (parse.go).                    *)
(***************************************************************************)
EXTENDS Assembly, SequencesExt

CONSTANTS
    Sources,        \* the files of the session
    Scenarios       \* what they come to hold: [files : [Sources -> [src, records]], replays : Nat]

Transcripts == {"main", "agent"}

\* What discovery says of a file, and what the runtime writes only to transcripts: records with
\* an id, what it says of the session, what it injects, and the summaries of resets.  Garbage
\* has no id, being no record.
Shaped(c) ==
    /\ DOMAIN c = {"files", "replays"}
    /\ \A s \in Sources : LET f == c.files[s] IN
          /\ Len(f.records) \in Nat /\ DOMAIN f.records = 1 .. Len(f.records)
          /\ f.src.kind \in Transcripts => f.src.stream # None
          /\ f.src.kind = "journal" => f.src.stream = None
          /\ \A k \in DOMAIN f.records : LET d == f.records[k] IN
                /\ d.uuid # None => f.src.kind \in Transcripts /\ d.type # "garbage"
                /\ d.summary \/ d.type \in {"system", "attachment"} => f.src.kind \in Transcripts

\* A record follows, in its own file, the records it names, those that are anywhere.
LinksBack(c) ==
    \A s, q \in Sources : \A k \in DOMAIN c.files[s].records, l \in DOMAIN c.files[q].records :
        LET d == c.files[s].records[k]
            e == c.files[q].records[l]
        IN  e.uuid # None /\ e.uuid \in {d.parentUuid, d.logicalParent} =>
                \E p \in 1 .. k - 1 : c.files[s].records[p].uuid = e.uuid

\* A provider call is of one stream.
MessagesOwn(c) ==
    \A s, q \in Sources : \A k \in DOMAIN c.files[s].records, l \in DOMAIN c.files[q].records :
        LET m == c.files[s].records[k].message
        IN  /\ m # None /\ m = c.files[q].records[l].message
            /\ c.files[s].src.stream # None /\ c.files[q].src.stream # None
            => c.files[s].src.stream = c.files[q].src.stream

ASSUME SessionsAssumption == \A c \in Scenarios : Shaped(c) /\ LinksBack(c) /\ MessagesOwn(c)

VARIABLES
    script,         \* what the sources hold in the end, and how many replays are left
    ix,             \* the index: the rows landed so far, in landed order
    taken,          \* how much of each source that is
    through,        \* Options.ThroughSeq of the last assembly
    said            \* its result

vars == <<script, ix, taken, through, said>>

\* The row the k-th record of a source becomes, wherever it lands.
RowOf(c, s, k, at) == Row(c.files[s].src, c.files[s].records[k], at)
Length(c, s) == Len(c.files[s].records)

Init ==
    /\ script \in Scenarios
    /\ ix = <<>>
    /\ taken = [s \in Sources |-> 0]
    /\ through = 0
    /\ said = Assembled(<<>>, 0)

\* The collector lands the next row of a source and indexes it.
Land(s) ==
    /\ taken[s] < Length(script, s)
    /\ taken' = [taken EXCEPT ![s] = @ + 1]
    /\ ix' = Append(ix, RowOf(script, s, taken[s] + 1, <<s, taken[s] + 1>>))
    /\ UNCHANGED <<script, through, said>>

\* The runtime, resuming, writes a record of a transcript again, and it lands.
Replay(s) ==
    /\ script.replays > 0 /\ script' = [script EXCEPT !.replays = @ - 1]
    /\ \E k \in 1 .. taken[s] :
          /\ script.files[s].records[k].uuid # None
          /\ ix' = Append(ix, RowOf(script, s, k, <<s, Len(ix) + 1, "again">>))
    /\ UNCHANGED <<taken, through, said>>

\* A round is assembled, or again at its watermark after more has landed.
Assemble ==
    \E w \in {through, Len(ix)} \ {0} :
        /\ through' = w
        /\ said' = Assembled(ix, w)
        /\ UNCHANGED <<script, ix, taken>>

Next == Assemble \/ \E s \in Sources : Land(s) \/ Replay(s)

Spec == Init /\ [][Next]_vars
-----------------------------------------------------------------------------
Ids(S) == {n.id : n \in S}
Under(nodes, S) == S \cup {n.id : n \in {m \in nodes : m.parent \in S}}
Over(nodes, S)  == S \cup {n.parent : n \in {m \in nodes : m.id \in S}}
Within(nodes, S) == Under(nodes, Under(nodes, Under(nodes, Under(nodes, Under(nodes, S)))))
Above(nodes, id) == Over(nodes, Over(nodes, Over(nodes, Over(nodes, {id}))))

\* Containment is a tree under the session and nothing dangles: every node is one node, is
\* reached from the session, and both ends of a relation are nodes of the same assembly,
\* whatever has landed (talk.go, place; emit.go, "none of those are known until stage 7").
Connected ==
    /\ Ids(said.nodes) = Within(said.nodes, Within(said.nodes, {Session}))
    /\ \A m, n \in said.nodes : m.id = n.id => m = n
    /\ \A r \in said.relations : {r[2], r[3]} \subseteq Ids(said.nodes)

\* "Cross-stream flow is a relation and never containment" (spawn.go): what contains a node is
\* of its own stream, although a run id is shared between a child and its parent.
OwnStream ==
    \A m, n \in said.nodes : m.id = n.parent => m.stream \in {n.stream, None}

\* A child that landed is reached from the call that started it, or the gap is on record
\* (spawn.go, "the gap is recorded rather than the edge quietly dropped").
About(s) ==
    {Gap("spawn_of_child", s)} \cup
    UNION {{Gap("spawn_call", d.tool), Gap("spawn_call", d.batch), Gap("tool_use", d.tool)} :
              d \in {f \in said.edges : f.child = s}}

ChildrenAccounted ==
    \A n \in said.nodes : n.id[1] = "stream" /\ n.stream # Main =>
        (\E r \in said.relations : r[1] = "starts" /\ r[3] = n.id) \/ About(n.stream) \cap said.gaps # {}

\* The acknowledgement, the child, the notification and what follows it stay in the talk of the
\* call, unless someone outside spoke in between: "lives INSIDE one Talk" (talk.go).
SpokenBetween(m, n) ==
    \E i \in said.nodes : i.id[1] = "external_input" /\ i.stream = Main
                              /\ \E p \in m.refs, q \in n.refs, o \in i.refs : p[2] < o[2] /\ o[2] < q[2]

DelegationInOneTalk ==
    \A r, q \in said.relations : r[1] = "starts" /\ q[1] = "reports" /\ r[3] = q[3] =>
        \A m, n \in said.nodes : m.id = r[2] /\ n.id = q[2] /\ m.stream = Main =>
            \/ SpokenBetween(m, n)
            \/ \E t \in Above(said.nodes, m.id) \cap Above(said.nodes, n.id) : t[1] = "talk"

\* Once everything has landed, neither the order the sources landed in nor what was replayed
\* on the way shows in the conversation, but in where a child's stream and talk begin
\* (streams.go, "discovery order depends on directory iteration, which is not stable").
Told(result) ==
    [nodes     |-> {[n EXCEPT !.refs = IF n.id[1] \in {"stream", "talk"} THEN {} ELSE @] : n \in result.nodes},
     relations |-> result.relations,
     gaps      |-> result.gaps]

InOrder ==
    [c \in Scenarios |->
        LET rows == FlattenSeq(SetToSeq({[k \in 1 .. Length(c, s) |-> RowOf(c, s, k, <<s, k>>)] : s \in Sources}))
        IN  Told(Assembled(rows, Len(rows)))]

Complete == (\A s \in Sources : taken[s] = Length(script, s)) /\ through = Len(ix)

OrderIndependent ==
    Complete => \E c \in Scenarios : c.files = script.files /\ Told(said) = InOrder[c]

\* A round says the same however much has landed beyond its watermark (assemble.go,
\* Options.ThroughSeq: "evidence its own header, and its own input digest, do not cover").
ReadsItsEvidenceOnly == [][through' = through => said' = said]_vars

\* What was once written keeps its id as evidence arrives, segments excepted: a later round
\* revises it and never withdraws it (id.go, "evidence that does not move").
IdentityKept ==
    [][\A n \in said.nodes : n.id[1] # "segment" => n.id \in Ids(said'.nodes)]_vars

\* "A committed segment is never rewritten" (segment.go).  What a segment holds: its talks and
\* all they contain.
Content(result, g) ==
    LET talks == {r[2] : r \in {q \in result.relations : q[1] = "in_segment" /\ q[3] = g}}
        inside == Within(result.nodes, talks)
    IN  {n \in result.nodes : n.id \in inside}

Committable == {n.id : n \in {m \in said.nodes : m.id[1] = "segment" /\ m.what = {}}}

\* A tool request of a committable segment has its result there: it does not arrive later
\* (segment.go, noOpenOperation, "would freeze the request").
RequestsSettled ==
    [][\A g \in Committable : \A n \in Content(said, g) : n.id[1] = "tool" =>
          \E m \in Content(said', g) : m.id = n.id /\ m.refs = n.refs]_vars

CommittedIsFinal ==
    [][\A g \in Committable : Content(said', g) = Content(said, g)]_vars
=============================================================================
