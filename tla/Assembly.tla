------------------------------ MODULE Assembly ------------------------------
(***************************************************************************)
(* internal/assemble: what one assembly of a session says, as a function   *)
(* of the index it is given and of the watermark that bounds it.           *)
(*                                                                         *)
(* The index is a sequence of rows, as Conversion makes them.  b is the    *)
(* builder the stages share: the rows with what the stages found out about *)
(* each, and the spawn edges resolved.  Names, labels, counts and the      *)
(* wording of qualifications are left out.                                 *)
(***************************************************************************)
EXTENDS Conversion, Integers, FiniteSetsExt

CONSTANTS
    IdleGap,        \* Options.IdleGap
    AncestorHops    \* how far the backward walk goes

ASSUME HopsAssumption == AncestorHops \in Nat

First(S) == CHOOSE e \in S : \A f \in S : e.n <= f.n
Final(S) == CHOOSE e \in S : \A f \in S : f.n <= e.n

\* Index.EntryByRecord: the first row with that id, or 0, in the whole index.
ByRecord(ix, r) ==
    LET found == {j \in DOMAIN ix : r # None /\ ix[j].rec = r}
    IN  IF found = {} THEN 0 ELSE Min(found)

\* Index.RunOf: the run of the nearest ancestor that carries one.
RunFor(ix, i) ==
    LET walk[h \in 0 .. AncestorHops] ==
            [j \in DOMAIN ix |->
                LET up == ByRecord(ix, ix[j].parent)
                IN  IF ix[j].run # None THEN ix[j].run
                    ELSE IF h = 0 \/ up \in {0, j} THEN None
                    ELSE walk[h - 1][up]]
    IN  walk[AncestorHops][i]

\* Mutant: the watermark is lowered in the header only.
CanonicalUnbounded(ix, w) ==
    {i \in DOMAIN ix : ix[i].rec = None \/ ByRecord(ix, ix[i].rec) = i}

\* Stage 1: the first copy of each record, up to the watermark.
Canonical(ix, w) ==
    {i \in DOMAIN ix : i <= w /\ (ix[i].rec = None \/ ByRecord(ix, ix[i].rec) = i)}

\* A row, with what is looked up by record id in the whole index: its run, whether the record
\* it continues from exists, and the reset its parent is.
Noted(ix, i) ==
    LET row == ix[i]
        up  == ByRecord(ix, row.parent)
    IN  [n |-> i, loop |-> RunFor(ix, i), resumes |-> ByRecord(ix, row.continues) # 0,
         reset |-> IF up # 0 /\ "context_reset" \in ix[up].flags THEN ix[up].at ELSE None,
         epoch |-> None, talk |-> None,
         at |-> row.at, stream |-> row.stream, kind |-> row.kind, call |-> row.call, run |-> row.run,
         rec |-> row.rec, continues |-> row.continues, tool |-> row.tool, child |-> row.child,
         startedBy |-> row.startedBy, batch |-> row.batch, trigger |-> row.trigger, flags |-> row.flags,
         ts |-> row.ts, uses |-> row.uses, results |-> row.results, parts |-> row.parts]

Read(ix, w) == [joined |-> {}, rows |-> {Noted(ix, i) : i \in Canonical(ix, w)}]

\* Stage 2: a stream is every row of one transcript, and of its sidecar.
In(b, s)    == {e \in b.rows : e.stream = s}
Streams(b)  == {e.stream : e \in b.rows} \ {None}
Children(b) == Streams(b) \ {Main}
Streamed(b) == {e \in b.rows : e.stream # None}

\* Stage 3: provider calls are grouped by message id.
Fragments(b, c) == {e \in Streamed(b) : e.kind = "assistant" /\ e.call = c}
Calls(b) == {e.call : e \in {f \in Streamed(b) : f.kind = "assistant"}} \ {None}

\* Stage 4: a request is joined to its results by the tool-use id.
Answered(e)   == {e.results[k] : k \in DOMAIN e.results}
Uses(b, t)    == {e \in Streamed(b) : t \in e.uses}
Results(b, t) == {e \in Streamed(b) : t \in Answered(e)}
Tools(b)      == UNION {e.uses \cup Answered(e) : e \in Streamed(b)}

Gap(kind, ref) == [kind |-> kind, ref |-> ref]

ToolGaps(b) ==
    {Gap("tool_use", t) : t \in {u \in Tools(b) : Uses(b, u) = {}}} \cup
    {Gap("tool_result", t) :
        t \in {u \in Tools(b) : Uses(b, u) # {} /\ Cardinality(Results(b, u)) # 1}}
-----------------------------------------------------------------------------
(***************************************************************************)
(* Stage 5: children are joined to the calls that started them.            *)
(***************************************************************************)

\* Mutant: a launch that landed after the journal record is not looked for.
BatchToolBefore(b, e) ==
    LET launches == {f \in b.rows : f.kind # "journal" /\ f.batch = e.batch /\ f.results # <<>> /\ f.n < e.n}
    IN  IF e.batch = None \/ launches = {} THEN None ELSE Head(First(launches).results)

\* A run's journal names no call: the first result filed under the batch does.
BatchTool(b, e) ==
    LET launches == {f \in b.rows : f.kind # "journal" /\ f.batch = e.batch /\ f.results # <<>>}
    IN  IF e.batch = None \/ launches = {} THEN None ELSE Head(First(launches).results)

\* The call a row names, outside its blocks or by the result it carries.
Anchor(e) == IF e.tool = None /\ e.results # <<>> THEN Head(e.results) ELSE e.tool

Edge(b, e) ==
    [child  |-> e.child,
     tool   |-> IF e.kind = "journal" THEN BatchTool(b, e) ELSE Anchor(e),
     batch  |-> IF e.kind = "journal" THEN e.batch ELSE None,
     parent |-> IF e.kind = "meta" THEN e.startedBy ELSE None]

\* A sidecar that says only what type of agent it is stands for no edge.
Usable(d) == d.child # None /\ (d.tool # None \/ d.batch # None \/ d.parent # None)

Edges(b) == {d \in {Edge(b, e) : e \in b.rows} : Usable(d)}

\* Mutant: the stream that started the child is not looked up.
NestedUnchecked(b, d) == d.tool = None

\* A child of a child, named by the agent that started it and by no call.
NestedChild(b, d) == d.tool = None /\ d.parent \in Streams(b)

\* The edges that count as resolved; stage 5 takes their children as accounted for.
Joined(b) == {d \in Edges(b) : d.child \in Streams(b) /\ (NestedChild(b, d) \/ d.tool \in Tools(b))}

Join(b) == [b EXCEPT !.joined = Joined(b)]

SpawnGaps(b) ==
    {Gap("child_stream", d.child) : d \in {f \in Edges(b) : f.child \notin Streams(b)}} \cup
    {Gap("spawn_call", IF d.tool = None THEN d.batch ELSE d.tool) :
        d \in {f \in Edges(b) \ b.joined : f.child \in Streams(b)}} \cup
    {Gap("spawn_of_child", s) : s \in Children(b) \ {d.child : d \in b.joined}}
-----------------------------------------------------------------------------
(***************************************************************************)
(* Stage 6: a stream's epochs are cut at its explicit context resets.      *)
(***************************************************************************)
Resets(b, s) == {e \in In(b, s) : "context_reset" \in e.flags}

\* The epoch of a row is that of the last reset, or the stream's first.
EpochOf(b, e) ==
    LET cuts == {c \in Resets(b, e.stream) : c.n <= e.n}
    IN  <<"epoch", e.stream, IF cuts = {} THEN None ELSE Final(cuts).rec>>

Cut(b) == [b EXCEPT !.rows = {[e EXCEPT !.epoch = EpochOf(b, e)] : e \in @}]

\* Mutant: an epoch is written only where a reset ends it.
EpochsClosed(b, s) == {e.epoch : e \in {f \in In(b, s) : \E c \in Resets(b, s) : f.n < c.n}}

Epochs(b, s) == {e.epoch : e \in In(b, s)}

\* A reset's epoch follows that of the row before the reset.
EpochFollows(b, s) ==
    {LET before == {e \in In(b, s) : e.n < c.n}
     IN  <<"follows", c.epoch, IF before = {} THEN c.epoch ELSE Final(before).epoch>> :
     c \in Resets(b, s)}

\* The record a reset says it continues from may exist nowhere on disk.
EpochGaps(b) ==
    {Gap("epoch_continuation", c.continues) :
        c \in {e \in Streamed(b) : "context_reset" \in e.flags /\ e.continues # None /\ ~e.resumes}}
-----------------------------------------------------------------------------
(***************************************************************************)
(* Stage 7: talks and runs.                                                *)
(***************************************************************************)
Runs(b, s) == {e.loop : e \in In(b, s)} \ {None}

\* The row a run begins with in a stream.
Opening(b, s, r) == First({e \in In(b, s) : e.loop = r})

\* Mutant: every run starts a talk.
StartsOnAny(b, r) == TRUE

\* Input from outside starts a talk, and so does a run that states no trigger.
StartsTalk(b, r) ==
    LET stated == {e.trigger : e \in {f \in In(b, Main) : f.run = r}} \ {None}
    IN  "external" \in stated \/ stated = {}

\* The rows of the main stream that begin a talk: its first run, whatever triggered it,
\* and each run that starts one.
Beginnings(b) ==
    LET opens == {Opening(b, Main, r) : r \in Runs(b, Main)}
    IN  {e \in opens : e = First(opens) \/ StartsTalk(b, e.loop)}

\* A child stream is one talk.  A row of a run is in the run's talk; another is in the
\* talk under way.
TalkWith(b, begin, e) ==
    LET from  == IF e.loop = None THEN e ELSE Opening(b, Main, e.loop)
        begun == {f \in begin : f.n <= from.n}
    IN  IF e.stream = None THEN None
        ELSE IF e.stream # Main THEN <<"talk", e.stream>>
        ELSE IF begun = {} THEN None ELSE <<"talk", Main, Final(begun).loop>>

Placed(b) ==
    LET begin == Beginnings(b)
    IN  [b EXCEPT !.rows = {[e EXCEPT !.talk = TalkWith(b, begin, e)] : e \in @}]

Session == <<"session">>
Stream(s) == <<"stream", s>>

\* Mutant: runs are kept under their id alone, the main stream's first.
HomeByRunAlone(b, e) ==
    IF e.stream = None THEN Session
    ELSE IF e.loop \in Runs(b, Main) THEN <<"run", Opening(b, Main, e.loop).talk, e.loop>>
    ELSE IF e.loop # None THEN <<"run", e.talk, e.loop>>
    ELSE IF e.talk # None THEN e.talk ELSE e.epoch

\* The innermost of run, talk, epoch and session that holds a row.
Home(b, e) ==
    IF e.stream = None THEN Session
    ELSE IF e.loop # None THEN <<"run", e.talk, e.loop>>
    ELSE IF e.talk # None THEN e.talk ELSE e.epoch
-----------------------------------------------------------------------------
(***************************************************************************)
(* Stage 8: segments of the main stream's talks, in the order of their     *)
(* first timestamps.  Every row of a run has one.                          *)
(***************************************************************************)
Of(b, t) == {e \in Streamed(b) : e.loop # None /\ e.talk = t}

MainTalks(b) ==
    {[id |-> t, opens |-> First(Of(b, t)),
      first |-> Min({e.ts : e \in Of(b, t)}), last |-> Max({e.ts : e \in Of(b, t)})] :
     t \in {e.talk : e \in In(b, Main)} \ {None}}

Sooner(s, t) == s.first < t.first \/ (s.first = t.first /\ s.opens.n < t.opens.n)

\* A talk opens a segment when it is the first, or a long time after the one before it.
Segments(b) ==
    LET T == MainTalks(b)
        before(t)  == {s \in T : Sooner(s, t)}
        openers    == {t \in T : \A p \in before(t) :
                          (\A o \in before(t) : ~Sooner(p, o)) => t.first - p.last > IdleGap}
        members(o) == {t \in T : ~Sooner(t, o) /\ \A p \in openers : Sooner(o, p) => Sooner(t, p)}
    IN  {[id |-> <<"segment", o.opens.at>>, at |-> o.opens.at, talks |-> {t.id : t \in members(o)},
          from |-> o.first, to |-> Max({t.last : t \in members(o)}),
          last |-> \A p \in openers : ~Sooner(o, p)] : o \in openers}

InWindow(ts, g) == g.from <= ts /\ ts <= g.to

\* Mutant: a request still without a result is taken as finished.
CrossesAnswered(b, t, g) ==
    /\ Uses(b, t) # {} /\ InWindow(First(Uses(b, t)).ts, g)
    /\ Results(b, t) # {} /\ ~InWindow(First(Results(b, t)).ts, g)

\* A request of the window whose one result is not in it.
Crosses(b, t, g) ==
    /\ Uses(b, t) # {} /\ InWindow(First(Uses(b, t)).ts, g)
    /\ Cardinality(Results(b, t)) # 1 \/ ~InWindow(First(Results(b, t)).ts, g)

\* Of the gaps only those of stage 5 are open when this is asked: what a notification
\* leaves unresolved is written later.
OpenOperation(b, g) ==
    (\E t \in Tools(b) : Crosses(b, t, g)) \/ (\E u \in SpawnGaps(b) : u.kind = "child_stream")

UnmetGates(b, g) ==
    (IF g.last THEN {"activity_boundary"} ELSE {}) \cup
    (IF OpenOperation(b, g) THEN {"no_crossing_open_operation"} ELSE {}) \cup
    (IF g.last \/ Max({e.ts : e \in In(b, Main)}) - g.to <= IdleGap THEN {"lateness_watermark"} ELSE {})

\* A child's talk is in the window it began in.
ChildTalks(b, g) ==
    {<<"talk", s>> : s \in {c \in Children(b) :
        Of(b, <<"talk", c>>) # {} /\ InWindow(Min({e.ts : e \in Of(b, <<"talk", c>>)}), g)}}
-----------------------------------------------------------------------------
(***************************************************************************)
(* Emission: nodes, relations and gaps.                                    *)
(***************************************************************************)
Node(id, parent, stream, refs, what) ==
    [id |-> id, parent |-> parent, stream |-> stream, refs |-> refs, what |-> what]

At(S) == {e.at : e \in S}

StreamNodes(b) == {Node(Stream(s), Session, s, At({First(In(b, s))}), {}) : s \in Streams(b)}
EpochNodes(b)  == UNION {{Node(p, Stream(s), s, {}, {}) : p \in Epochs(b, s)} : s \in Streams(b)}

\* A child's talk begins with its stream.
TalkNodes(b) ==
    {Node(t.id, t.opens.epoch, Main, {t.opens.at}, {}) : t \in MainTalks(b)} \cup
    {LET first == First(In(b, s)) IN Node(<<"talk", s>>, first.epoch, s, {first.at}, {}) : s \in Children(b)}

RunNodes(b) ==
    UNION {{LET first == Opening(b, s, r)
            IN  Node(<<"run", first.talk, r>>, first.talk, s, {first.at}, {}) : r \in Runs(b, s)} :
           s \in Streams(b)}

SegmentNodes(b) == {Node(g.id, Session, None, {g.at}, UnmetGates(b, g)) : g \in Segments(b)}

\* A call's fragments in line order; its usage is the last one's, if the call finished.
CallNodes(b) ==
    {LET parts == Fragments(b, c)
     IN  Node(<<"call", c>>, Home(b, First(parts)), First(parts).stream, At(parts),
              IF \E e \in parts : "finished" \in e.flags THEN {<<"usage", Final(parts).at>>} ELSE {}) :
     c \in Calls(b)}

MessageNodes(b) ==
    UNION {UNION {{Node(<<p, e.at>>, <<"call", c>>, e.stream, {e.at},
                        {f \in {"synthetic"} : \E d \in Fragments(b, c) : f \in d.flags}) :
                   p \in e.parts} : e \in Fragments(b, c)} : c \in Calls(b)}

\* A workflow's manifest belongs to the call whose result names its batch.
Manifest(b, t) ==
    LET answer == First(Results(b, t))
        found  == {e \in b.rows : e.kind = "manifest" /\ e.batch = answer.batch}
    IN  IF Results(b, t) = {} \/ answer.batch = None \/ found = {} THEN {} ELSE {First(found)}

\* A tool use is one step: its request, and its result if there is exactly one.
ToolNodes(b) ==
    {LET use == First(Uses(b, t))
         one == Cardinality(Results(b, t)) = 1
     IN  Node(<<"tool", t>>, IF use.call \in Calls(b) THEN <<"call", use.call>> ELSE Home(b, use),
              use.stream, At({use} \cup (IF one THEN Results(b, t) ELSE {}) \cup Manifest(b, t)),
              IF \E d \in b.joined : d.tool = t THEN {"starts_agent"} ELSE {}) :
     t \in {u \in Tools(b) : Uses(b, u) # {}}}

\* The steps a record can be, the first of each list that it is.
StepKinds ==
    { <<"launch_ack", "notification">>, <<"external_input", "injected">>,
      <<"error", "turn_duration", "command", "notice">> }
ResetKinds == <<"context_reset", "reset_summary">>

Is(e, kinds) ==
    LET hits == {k \in DOMAIN kinds : kinds[k] \in e.flags \cup {e.trigger}}
    IN  IF hits = {} THEN {} ELSE {kinds[Min(hits)]}

StepNodes(b) ==
    (UNION {{Node(<<k, e.at>>, Home(b, e), e.stream, {e.at}, {}) : k \in UNION {Is(e, ks) : ks \in StepKinds}} :
               e \in b.rows}) \cup
    (UNION {{Node(<<k, e.at>>, e.epoch, e.stream, {e.at}, {}) : k \in Is(e, ResetKinds)} : e \in Streamed(b)})

\* What a child said last, and what its run's journal says it returned.
Answers(b, s)  == {e \in In(b, s) : e.kind = "assistant" /\ "synthetic" \notin e.flags}
Returned(b, s) == {e \in b.rows : e.kind = "journal" /\ "child_result" \in e.flags /\ e.child = s}
Finished(b)    == {s \in Children(b) : Answers(b, s) \cup Returned(b, s) # {}}

\* Mutant: the output is known by the record that holds it.
OutputByRecord(b, s) ==
    <<"output", IF Answers(b, s) = {} THEN First(Returned(b, s)).at ELSE Final(Answers(b, s)).at>>

OutputId(b, s) == <<"output", s>>

\* One step for both, held by what the child said if it said anything.
OutputNodes(b) ==
    {LET said     == IF Answers(b, s) = {} THEN {} ELSE {Final(Answers(b, s))}
         returned == IF Returned(b, s) = {} THEN {} ELSE {First(Returned(b, s))}
         primary  == IF said # {} THEN First(said) ELSE First(returned)
     IN  Node(OutputId(b, s), Home(b, primary), s, At(said \cup returned), {}) : s \in Finished(b)}

\* Only an edge whose call is a node is written.
Starts(b) ==
    {<<"starts", <<"tool", d.tool>>, Stream(d.child)>> : d \in {f \in b.joined : Uses(b, f.tool) # {}}}

Notifies(e) == "notification" \in Is(e, <<"launch_ack", "notification">>)

\* A notification reports on the child it names, or on those its call started.
Reported(b, e) ==
    IF e.child # None THEN {e.child}
    ELSE {d.child : d \in {f \in b.joined : f.tool = e.tool /\ f.tool # None}}

\* A summary's parent is the reset that produced it.
Summarizes(b) ==
    {<<"summarizes", <<"reset_summary", e.at>>, <<"context_reset", e.reset>>>> :
        e \in {f \in b.rows : "reset_summary" \in Is(f, ResetKinds) /\ f.reset # None}}

Relations(b) ==
    Starts(b)
    \cup (UNION {EpochFollows(b, s) : s \in Streams(b)})
    \cup (UNION {{<<"reports", <<"notification", e.at>>, Stream(s)>> : s \in Reported(b, e) \cap Streams(b)} :
                    e \in {f \in b.rows : Notifies(f)}})
    \cup Summarizes(b)
    \cup {<<"ends_with", Stream(s), OutputId(b, s)>> : s \in Finished(b)}
    \cup (UNION {{<<"in_segment", t, g.id>> : t \in g.talks \cup ChildTalks(b, g)} : g \in Segments(b)})

Gaps(b) ==
    ToolGaps(b) \cup SpawnGaps(b) \cup EpochGaps(b)
    \cup {Gap("notified_child", e.child) :
            e \in {f \in b.rows : Notifies(f) /\ f.child \notin Streams(b) \cup {None}}}

Nodes(b) ==
    {Node(Session, None, None, {}, {})} \cup StreamNodes(b) \cup EpochNodes(b) \cup TalkNodes(b)
    \cup RunNodes(b) \cup SegmentNodes(b) \cup CallNodes(b) \cup MessageNodes(b) \cup ToolNodes(b)
    \cup StepNodes(b) \cup OutputNodes(b)

\* One assembly: the stages in their order, and what is written at the end.
Assembled(ix, w) ==
    LET b == Placed(Cut(Join(Read(ix, w))))
    IN  [nodes |-> Nodes(b), relations |-> Relations(b), gaps |-> Gaps(b), edges |-> Edges(b)]
=============================================================================
