---------------------------- MODULE MCAssembler -----------------------------
(* Sessions for TLC.  A record is written as what it has; the rest is absent. *)
EXTENDS Rendering, TLC

CONSTANTS main, child, aside, extra, kid, grandkid, r1, r2, r3, c1, c2, c3, t1, t2, wf, gone

Blank == [type |-> "user", uuid |-> None, parentUuid |-> None, message |-> None, prompt |-> None,
          logicalParent |-> None, time |-> 0, origin |-> None, subtype |-> None, model |-> "provider",
          stopped |-> FALSE, summary |-> FALSE, meta |-> FALSE, returned |-> FALSE, agent |-> None,
          parentAgent |-> None, batch |-> None, content |-> <<>>, notice |-> None, result |-> None,
          attachment |-> [type |-> None, mode |-> None, origin |-> None, prose |-> FALSE]]

\* A file of the session; the records of a transcript have ids.
File(s, kind, stream, batch, records) ==
    [src     |-> [kind |-> kind, stream |-> stream, batch |-> batch],
     records |-> [k \in DOMAIN records |->
                     records[k] @@ [uuid |-> IF kind \in {"main", "agent"} THEN <<s, k>> ELSE None] @@ Blank]]

Transcript(records) == File(main, "main", Main, None, records)
Child(s, stream, records) == File(s, "agent", stream, None, records)
Sidecar(s, stream, record) == File(s, "meta", stream, None, <<record>>)
Absent(s) == File(s, "journal", None, wf, <<>>)

Files(m, c, a, x, replays) ==
    [files |-> main :> m @@ child :> c @@ aside :> a @@ extra :> x, replays |-> replays]

Text == <<[type |-> "string"]>>
Enrichment(status, agent, batch) == [status |-> status, agent |-> agent, batch |-> batch, tool |-> None]

Ask(run, t) == [prompt |-> run, origin |-> "human", content |-> Text, time |-> t]
Prompt(run, t) == [prompt |-> run, content |-> Text, time |-> t]
Notice(up, run, tool, tasks, t) ==
    [prompt |-> run, parentUuid |-> up, origin |-> "task-notification", content |-> Text,
     notice |-> [tool |-> tool, tasks |-> tasks], time |-> t]
Says(up, c, t) ==
    [type |-> "assistant", parentUuid |-> up, message |-> c, content |-> <<[type |-> "text"]>>, time |-> t]
Requests(up, c, use, t) ==
    [content |-> <<[type |-> "thinking", withheld |-> TRUE], [type |-> "tool_use", id |-> use]>>] @@ Says(up, c, t)
Answer(up, use, run, enriched, t) ==
    [parentUuid |-> up, prompt |-> run, content |-> <<[type |-> "tool_result", id |-> use]>>,
     result |-> enriched, time |-> t]
System(subtype, t) == [type |-> "system", subtype |-> subtype, time |-> t]

\* A background agent is launched, acknowledged, works, reports; then someone speaks, and the
\* harness injects a list.  The agent's
\* sidecar names no call, and its prompt carries the run of its parent.
Delegation == Files(
    Transcript(<<
       Ask(r1, 1),
       Requests(<<main, 1>>, c1, t1, 2),
       Answer(<<main, 2>>, t1, r1, Enrichment("async_launched", kid, None), 3),
       Notice(<<main, 3>>, r2, t1, <<[id |-> wf, agent |-> FALSE]>>, 6),
       Says(<<main, 4>>, c2, 7),
       Ask(r3, 20),
       [type |-> "attachment", parentUuid |-> <<main, 6>>, time |-> 21] >>),
    Child(child, kid, <<
       Prompt(r1, 4),
       [stopped |-> TRUE] @@ Says(<<child, 1>>, c3, 5) >>),
    Sidecar(aside, kid, Blank),
    Absent(extra), 0)

\* A workflow: the result names the batch, the batch's journal names the child and what it
\* returned, and a manifest describes the launch.
Workflow == Files(
    Transcript(<<
       Ask(r1, 1),
       Requests(<<main, 1>>, c1, t1, 2),
       Answer(<<main, 2>>, t1, r1, Enrichment("running", None, wf), 3) >>),
    Child(child, kid, << Prompt(r2, 4), Says(<<child, 1>>, c3, 5) >>),
    File(aside, "manifest", None, wf, << Blank >>),
    File(extra, "journal", None, wf, << [agent |-> kid], [agent |-> kid, returned |-> TRUE] >>), 0)

\* A child of a child: its sidecar names the call, in its parent's file, and its notification
\* goes to the main stream, naming it.
Nesting(call) == Files(
    Transcript(<<
       Ask(r1, 1),
       Notice(<<main, 1>>, r2, None, <<[id |-> wf, agent |-> FALSE], [id |-> grandkid, agent |-> TRUE]>>, 8) >>),
    Child(child, kid, <<
       Prompt(r1, 3),
       Requests(<<child, 1>>, c2, t2, 4),
       Answer(<<child, 2>>, t2, None, None, 5) >>),
    Sidecar(aside, grandkid,
       [parentAgent |-> kid, result |-> [Enrichment(None, None, None) EXCEPT !.tool = call]]),
    Child(extra, grandkid, << Prompt(r1, 6), Says(<<extra, 1>>, c3, 7) >>), 0)

\* The runtime says something nobody has seen before, a request is answered only after a long
\* silence, the context is reset twice, once from a record that is nowhere, and a resume
\* replays a record.
Resumption == Files(
    Transcript(<<
       Ask(r1, 1),
       System("unheard_of", 1),
       Requests(<<main, 1>>, c1, t1, 2),
       Ask(r2, 30),
       Answer(<<main, 3>>, t1, r2, None, 31),
       [logicalParent |-> <<main, 5>>] @@ System("compact_boundary", 32),
       [summary |-> TRUE, parentUuid |-> <<main, 6>>] @@ Prompt(r2, 31),
       [stopped |-> TRUE] @@ Says(<<main, 7>>, c2, 33),
       [logicalParent |-> gone] @@ System("compact_boundary", 34) >>),
    Absent(child), Absent(aside), Absent(extra), 1)

Sessions == {Delegation, Workflow, Nesting(t2), Resumption}

\* That grandchild's sidecar naming no call.
Nested == {Nesting(None)}

\* A background agent still at work when, after a silence, someone speaks.
Working == Files(
    Transcript(<<
       Ask(r1, 1),
       Requests(<<main, 1>>, c1, t1, 2),
       Answer(<<main, 2>>, t1, r1, Enrichment("async_launched", kid, None), 3),
       Ask(r3, 20) >>),
    Child(child, kid, << Prompt(r1, 3), Says(<<child, 1>>, c3, 25) >>),
    Absent(aside), Absent(extra), 0)

Background == {Working}

\* Two things are typed while a turn goes on that starts a child.
Interleaved == Files(
    Transcript(<<
       Ask(r1, 1),
       Requests(<<main, 1>>, c1, t1, 9),
       Answer(<<main, 2>>, t1, r1, Enrichment("async_launched", kid, None), 12),
       Ask(r2, 2),
       Ask(r3, 9),
       Says(<<main, 5>>, c2, 14) >>),
    Child(child, kid, << Prompt(r1, 11), Says(<<child, 1>>, c3, 25) >>),
    Absent(aside), Absent(extra), 0)

Queued == {Interleaved}
=============================================================================
