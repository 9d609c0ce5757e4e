------------------------------ MODULE Conversion ------------------------------
(***************************************************************************)
(* One record of the runtime on its way into the index: Convert, the only  *)
(* function that reads Claude Code's shape (convert.go, index.go), and     *)
(* FromRecord, which has no dialect in it (internal/index/fromrecord.go).  *)
(*                                                                         *)
(* d is a record of a source file, decoded: its identifiers, None where it *)
(* has none; its content, a sequence of blocks, a bare string being one    *)
(* block of type "string"; the completion notification such a string holds *)
(* (notice); the runtime's enrichment of a tool result (result); and what  *)
(* an attachment says of itself.  Text, names, usage and digests are left  *)
(* out; a part keeps its kind and the identifier that joins it.            *)
(***************************************************************************)
EXTENDS Sequences, FiniteSets

CONSTANTS
    Main,    \* the stream of the session's own transcript
    None     \* an identifier that is absent

FirstOf(a, b) == IF a # None THEN a ELSE b

\* What the runtime adds to a tool result, when that is an object.
Enriched(d, field) == IF d.result # None THEN d.result[field] ELSE None

\* What caused the record's prompt cycle: an open set, said on the record or on the
\* attachment inside it.
TriggerOf(d) ==
    LET kind == FirstOf(d.origin, d.attachment.origin)
    IN  IF kind = None THEN None
        ELSE IF kind = "human" THEN "external"
        ELSE IF kind = "task-notification" THEN "notification" ELSE "unknown"

\* Mutant: a subtype that is not on the list says nothing.
ListedSubtype(d) ==
    IF d.type # "system" THEN {}
    ELSE CASE d.subtype = "compact_boundary" -> {"context_reset"}
           [] d.subtype = "api_error"        -> {"error"}
           [] d.subtype = "turn_duration"    -> {"turn_duration"}
           [] d.subtype = "local_command"    -> {"command"}
           [] OTHER                          -> {}

\* A system record always says something: an unrecognised one is a notice.
SystemFlags(d) ==
    IF d.type # "system" THEN {}
    ELSE CASE d.subtype = "compact_boundary" -> {"context_reset"}
           [] d.subtype = "api_error"        -> {"error"}
           [] d.subtype = "turn_duration"    -> {"turn_duration"}
           [] d.subtype = "local_command"    -> {"command"}
           [] OTHER                          -> {"notice"}

\* An attachment is injected by the harness, but for a command that was typed.
Typed(d) ==
    \/ d.type = "attachment" /\ d.attachment.type = "queued_command" /\ d.attachment.mode = "prompt"
    \/ d.type = "user" /\ d.origin = "human"

External(d, src) == Typed(d) /\ ~d.meta /\ src.kind \notin {"meta", "journal"}
Injected(d) == d.meta \/ (d.type = "attachment" /\ ~Typed(d))

FlagsOf(d, src) ==
    SystemFlags(d)
    \cup {f \in {"synthetic"}      : d.type = "assistant" /\ d.model = "synthetic"}
    \cup {f \in {"finished"}       : d.type = "assistant" /\ d.stopped}
    \cup {f \in {"reset_summary"}  : d.summary}
    \cup {f \in {"external_input"} : External(d, src)}
    \cup {f \in {"injected"}       : Injected(d)}
    \cup {f \in {"launch_ack"}     : Enriched(d, "status") = "async_launched"}
    \cup {f \in {"child_result"}   : \/ Enriched(d, "status") = "completed"
                                     \/ src.kind = "journal" /\ d.returned}

\* A notification names the call it completes, and tasks: the first that has the shape of
\* an agent's id is the child.  Only a bare string holds one.
Named(d) ==
    LET tasks  == IF d.notice = None THEN <<>> ELSE d.notice.tasks
        agents == SelectSeq(tasks, LAMBDA t : t.agent)
    IN  [tool |-> IF d.notice = None THEN None ELSE d.notice.tool,
         child |-> IF agents = <<>> THEN None ELSE Head(agents).id]

\* The two links that are not blocks, each read where its mechanism writes it.
LinkedTool(d, src) ==
    FirstOf(IF src.kind = "journal" THEN None ELSE Enriched(d, "tool"), Named(d).tool)

LinkedChild(d, src) ==
    FirstOf(CASE src.kind = "meta"    -> FirstOf(d.agent, src.stream)
              [] src.kind = "journal" -> d.agent
              [] OTHER                -> Enriched(d, "agent"),
            Named(d).child)

\* A record's own type is a poor guide to who wrote it: the file is asked first.
ProducerOf(d, src) ==
    IF src.kind \notin {"main", "agent"} THEN "runtime"
    ELSE IF d.type = "assistant" THEN "agent"
    ELSE IF d.type = "user" THEN "external" ELSE "runtime"

\* Reasoning that is withheld is not called available.
PartOf(block) ==
    CASE block.type \in {"string", "text"} ->
            [kind |-> "text", id |-> None, state |-> "available"]
      [] block.type = "thinking" ->
            [kind |-> "reasoning", id |-> None,
             state |-> IF block.withheld THEN "unavailable" ELSE "available"]
      [] block.type = "redacted_thinking" ->
            [kind |-> "reasoning", id |-> None, state |-> "redacted"]
      [] block.type \in {"tool_use", "server_tool_use"} ->
            [kind |-> "call", id |-> block.id, state |-> "available"]
      [] block.type = "tool_result" ->
            [kind |-> "result", id |-> block.id, state |-> "available"]
      [] block.type = "image" ->
            [kind |-> "media", id |-> None, state |-> "available"]
      [] OTHER ->
            [kind |-> "unknown", id |-> None, state |-> "available"]

Whole(kind) == <<[kind |-> kind, id |-> None, state |-> "available"]>>

\* A record without a message still said something: it travels whole.
PartsOf(d) ==
    IF d.type = "attachment" THEN Whole(IF d.attachment.prose THEN "text" ELSE "data")
    ELSE IF d.content = <<>> THEN Whole("data")
    ELSE [k \in DOMAIN d.content |-> PartOf(d.content[k])]

\* Convert.  What is no JSON, or no record of a stream, keeps its bytes and its place.
Bare(kind) ==
    [id |-> None, parent |-> None, call |-> None, run |-> None, continues |-> None, time |-> 0,
     trigger |-> None, tool |-> None, child |-> None, batch |-> None, startedBy |-> None,
     flags |-> {}, from |-> "runtime", parts |-> Whole(kind)]

Convert(src, d) ==
    IF src.kind = "manifest" THEN [Bare("data") EXCEPT !.batch = FirstOf(d.batch, src.batch)]
    ELSE IF src.kind = "script" \/ d.type = "garbage" THEN Bare("unknown")
    ELSE [id |-> d.uuid, parent |-> d.parentUuid, call |-> d.message, run |-> d.prompt,
          continues |-> d.logicalParent, time |-> d.time, trigger |-> TriggerOf(d),
          tool |-> LinkedTool(d, src), child |-> LinkedChild(d, src),
          batch |-> FirstOf(Enriched(d, "batch"), src.batch), startedBy |-> d.parentAgent,
          flags |-> FlagsOf(d, src), from |-> ProducerOf(d, src), parts |-> PartsOf(d)]

\* Two of the kinds come from the file rather than the record.
KindOf(src, rec) ==
    IF src.kind \in {"meta", "journal", "manifest", "script"} THEN src.kind
    ELSE CASE rec.from = "agent" -> "assistant"
           [] rec.from = "external" -> "user"
           [] OTHER -> "system"

Joins(rec, kind) == SelectSeq(rec.parts, LAMBDA p : p.kind = kind)
Holding(rec, kind) == \E k \in DOMAIN rec.parts : rec.parts[k].kind = kind

\* FromRecord, with the blocks by what the assembler asks of them.
FromRecord(src, rec, at) ==
    [at |-> at, stream |-> src.stream, kind |-> KindOf(src, rec),
     rec |-> rec.id, parent |-> rec.parent, call |-> rec.call, run |-> rec.run,
     continues |-> rec.continues, tool |-> rec.tool, child |-> rec.child,
     startedBy |-> rec.startedBy, batch |-> FirstOf(rec.batch, src.batch),
     trigger |-> rec.trigger, flags |-> rec.flags, ts |-> rec.time,
     uses    |-> {Joins(rec, "call")[k].id : k \in DOMAIN Joins(rec, "call")},
     results |-> [k \in DOMAIN Joins(rec, "result") |-> Joins(rec, "result")[k].id],
     parts   |-> {p \in {"text"} : Holding(rec, "text")}
                     \cup {p \in {"thinking"} : Holding(rec, "reasoning")}]

\* The row of the k-th record of a file, as the collector lands it and reindex.go reads it again.
Row(src, d, at) == FromRecord(src, Convert(src, d), at)
=============================================================================
