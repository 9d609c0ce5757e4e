# A verification development of AgentSessionizer

AgentSessionizer (`asz`) collects the files an agent runtime (Claude Code) leaves on
disk, keeps the records it reads in a landing zone, indexes them, assembles each session
into a conversation, and publishes that conversation as a chain of immutable rounds.
This directory holds TLA+ models of that program, the TLC configurations that check them,
and proofs that TLAPS checks. Paths below are relative to the repository (`src/` here).

To check one run: `tlc -workers 2 -config Collector_crash.cfg MCCollector`. To check the
proofs of a module: `tlapm CollectorProofs.tla`.

## 1. The system

```text
 source files ──> Collector ──> landed record files ──> Index ──> Parser ──> round chain ──> View, asz conversation
 (the runtime)     (tail.go,     (*.sd, write-once,    (entries.bin   (assemble,   (r*.sf,          (fold)
                   collect.go)    one sequence)         index.state)   diff)        append-only)
```

| component | state it keeps | operations | hard behaviour | what makes it correct |
|---|---|---|---|---|
| **Source files** (external) | transcripts, journals, sidecars under the runtime's directory | grow, be created, replaced, rewritten, pruned | change at any moment between two system calls of the collector | - |
| **Tail reader** `internal/adapters/claudecode/tail.go` | none | `TailAppend` stats, opens and reads one window; `TailDigestAt` | the file changes between the checks and the read | a changed source is a conflict, never a silent resume |
| **Collector** `collect.go`, `reindex.go` | the memory of one pass: sources left, next sequence, index, watermark | `CollectAll`, `collectSession`, `landAppend`, `landSnapshot`, `markGone` | interruption between any two writes; failed writes; a second collector | land before commit; at-least-once; one sequence that only grows; "complete" means complete |
| **Storage zone** `internal/storage` | landed files, cursors, `session.state`, `index.state`, lock files | `WriteAtomic`, `WriteExclusive`, `RecoverNextSeq`, `LandedFiles`, `LockSession`, `LockChain` | a crash in the middle; two processes | files appear whole; the counter is never behind the files |
| **Index** `internal/index` | `entries.bin`: the rows of the landed files | `Append`, `Write`, `Load`, `Build`, lookups, `Ancestor` | two files (index, watermark) written one after the other; replayed records | derived: says what the landed files say, and no more |
| **Discovery** `discover.go`, `matcher.go` | none | list sessions and their files; judge a session by its directories | the tree changes while it is scanned; a directory cannot be read | what stays is found; the main transcript's directory decides |
| **Conversion** `convert.go`, `index.go`, `fromrecord.go` | none | one record of the runtime to one landed record and index entry | types nobody has seen; the same fact written in four places | no record is lost |
| **Assembler** `internal/assemble` | none (a pure function of index and bound) | eight stages: duplicates, streams, calls, tools, spawns, epochs, talks, segments | entities that later evidence revises | the same evidence gives the same entities |
| **Parser** `internal/parse` | none of its own | `Session`: load index, lock the chain, fold, assemble, diff, publish, save state; `rebuild` | the collector writes index and watermark while they are read; two builders | a round says what its evidence says |
| **Round chain** `pkg/sessionflow` | round files, `conversation.state` | `Publish`, `List`, `Fold`, `Verify`, `SaveState`, `Lock` | a crash while a round is being written | no fork, no gap, no rewritten round |
| **Fold** `fold.go` | the view | `Apply`, lookups | - | folding the deltas gives the assembly |
| **Verifier** `internal/verify` | none | walks the landed files of each directory | repeats after an interruption look like disorder | reports holes and nothing else |
| **View server** `internal/view` | a cache of folded conversations | `Load`, `Forget`, HTTP handlers | loads without a lock while rounds and index are written; keeps what it loaded | shows a beginning of the chain, whole, with its evidence; every step it names can be found |
| **Command line** `cmd/asz` | none | `collect` (once or `-watch`), `parse`, `conversation`, `verify`, `view` | - | - |

Components talk through files only: the collector and the parser are different processes
that share the landing zone. Sessions are independent of one another (each has its own
directory, lock, counter and index), so one session is modelled; the collector of several
sessions is a loop over them.

## 2. The modules

| module | models | uses |
|---|---|---|
| `Collector` | one session's collection: source files, cursors, landed files, index, `index.state`, `session.state`, the session lock, and the passes of concurrent collectors | - |
| `Verifier` | `asz verify` over what the collector landed | `Collector` |
| `MCCollector` | the model values and the cursor mappings of TLC's instances | `CollectorLands`, `Verifier` |
| `CollectorProofs` | theorems about `Collector`: types, order of landing, cursors, conflicts, seams | `Collector`, `TLAPS` |
| `EvidenceProofs` | what the landed files are evidence of: repeats, complete passes, one source per cursor, and what the verifier says of them | `CollectorProofs`, `Verifier` |
| `Landing` | abstract: what collection promises about one landing zone, sources left out | - |
| `CollectorLands` | the refinement mapping from `Collector` to `Landing` | `Collector`, `Landing` |
| `LandingProofs` | proof of that refinement, and of what the index holds and in what order | `CollectorLands`, `CollectorProofs` |
| `Fold` | what one round does to a conversation: `diff` and `View.Apply` | - |
| `ChainLog` | abstract: an append-only chain of rounds | - |
| `Parser` | builders of one session's round chain, beside a collector | `Landing`, `Fold`, `ChainLog` |
| `ParserProofs` | theorems about the order of the rounds, the refinement of `ChainLog` among them | `Parser`, `TLAPS` |
| `ChainProofs` | theorems about what the rounds say: `Fold` for one round, the chain for all, and `Viewer` | `Viewer`, `ParserProofs` |
| `Viewer` | the view server's load, beside builders and a collector | `Parser` |
| `MCParser`, `MCViewer` | the model values and the assembly of TLC's instances; the same with a viewer | `Parser`; `MCParser`, `Viewer` |
| `Tail` | `TailAppend` at the granularity of its system calls, with the landing and the cursor of one source | - |
| `TailProofs` | theorems about `Tail` | `Tail`, `TLAPS` |
| `MCTail` | the inodes of TLC's instance | `Tail` |
| `Discovery` | the scan of one session in a live tree, and the filter | - |
| `DiscoveryProofs` | theorems about `Discovery` | `Discovery`, `TLAPS` |
| `MCDiscovery` | the layout of TLC's instance | `Discovery` |
| `Conversion` | one record of a source on its way into the index: `Convert` and `FromRecord` | - |
| `Assembly` | `internal/assemble`: the eight stages and the emission, as functions of the index and the watermark | `Conversion` |
| `Assembler` | an index that grows by converted records, and the rounds assembled from it | `Assembly` |
| `Rendering` | what the view server shows of an assembled conversation | `Assembler` |
| `AssemblyProofs` | theorems about `Assembler` and `Rendering` | `Rendering`, `TLAPS` |
| `MCAssembler` | the sessions of TLC's instances | `Rendering` |

```text
 Discovery   Tail                                    Viewer
 (which      (one read of)                             │ runs beside
  sources)      │                                      │
 Collector ──implements──> Landing <──runs beside── Parser ──implements──> ChainLog
    │ walked by                                        │ uses
 Verifier                                             Fold     (its assembly is what Assembly computes)

 Conversion ──rows──> Assembly ──rounds──> Assembler ──shown──> Rendering
```

### 2.1 Collector

Durable state (`cursor`, `landed`, `ixFile`, `ixMark`, `nextFile`) and the memory of a pass
(`todo`, `claimed`, `src`, `rounds`, `chunk`, `next`, `ix`, `mark`, `dirty`) are separate variables:
`Stop` forgets the second and keeps the first, which is what a crash does. One action stands
for the code between two points another process or a crash can tell apart:

| action | code |
|---|---|
| `Begin`, `Busy` | `CollectAll` and the head of `collectSession`: discovery and the non-blocking session lock |
| `LoadState`, `LoadIndex` | `index.state`, `session.state`, `RecoverNextSeq`; `index.Load` and the recovery of the landed files above the watermark |
| `Refuse`, `Claim` | the `claimed` map: one source per cursor within a pass |
| `SkipConflicted`, `MarkGone`, `FlagConflict`, `ReadNothing`, `Read`, `TailFails` | `collectSource`, `landAppend`/`landSnapshot` up to the write, with `TailAppend`'s checks |
| `Land`, `LandFails` | `WriteAtomic` of one landed file, and the index rows appended inside its callback |
| `Commit`, `CommitFails` | the digest read again after landing, `Cursor.Save`, and the drain loop's decision |
| `WriteIndex`, `SaveMark`, `Finish` | the three state files at the end of a pass, in this order, and the unlock |
| `Stop` | a crash, or the error of a state file |
| `Grow`, `Replace`, `Rewrite`, `Prune`, `DropIndex` | the runtime, and an operator who deletes the disposable index |

Abstractions. A line of a source is `<<source, generation, ordinal>>`: what a record says never
changes what the collector does. A generation is one content of a path, so two generations
differ in the bytes before any offset. A digest is the content it identifies (no collisions).
A landed file is its sequence and the lines it holds; the index is the sequence of the rows it holds, one part per landed
file. A pass visits its sources in any order: the code's order is that of the names, which are data.

### 2.2 Landing and CollectorLands

The parser needs little of the collector: which sequences have landed, what `entries.bin` and
`index.state` say, and how far the pass under way has come. `Landing` states that as a specification of its own
(a pass begins, loads and recovers, lands, writes the entries, saves the watermark, ends or breaks
off) and `CollectorLands` maps the collector's state onto it: the pass is that of the holder of the
session lock, a landed file is its sequence, and everything about sources and cursors is invisible.
`LandsInOrder` is the refinement. It does not hold when writes fail and a sequence is spent without a file, so
`Landing` describes passes whose writes succeed (`MaxFaults` 0, in `collector_crash` and for the refinement in `LandingProofs`); what goes wrong otherwise is in `collector_unindexed` and section 5.

### 2.3 Fold

A view holds a content, or nothing, for each node and relation ("items": `diff` and
`Apply` treat both alike) and an open or resolved frame for each unresolved reference ("gaps"). `Diff` is
`diff` of `parse.go`, `Apply` is the superseding part of `View.Apply`, `Says` is what a reader sees: items
and open gaps. A frame's revision and frame tag are left out: `sameNode` and its siblings ignore
both when they compare, and nothing else reads them.

### 2.4 Parser and ChainLog

`files` are the round files listed, `cut` those that were created and not yet written to their end, `head` is
`conversation.state`, `holder` the chain's lock; a builder has its settings (`policy`), the index it
loaded (`read`), its watermark (`through`) and the round it is about to publish (`draft`).

| action | code |
|---|---|
| `Load`; `Rebuild`, `WriteRebuilt`, `SaveRebuilt` | `index.Load`, or `rebuild` with its two writes; neither holds the session lock |
| `ReadWatermark` | `LoadIndexState`, and the fallback to the highest sequence of the entries |
| `Lock`, `ChainBusy` | `Chain.Lock`, which does not wait |
| `GiveUp` | the early returns of `Session`: the fold fails, another policy, an index behind the chain, nothing to write |
| `Build` | assembly, `diff`, `inputDigestFor` and the header |
| `CheckHead`, `Create`, `Write`, `Seal`, `WriteFails` | `Chain.Publish` and `WriteExclusive`: the head read again, `O_EXCL` under the final name, the content, `chmod`, and the removal after an error |
| `SaveState` | `Chain.SaveState`, after the round |
| `Stop` | a crash anywhere, or an error outside the write |
| `Collects`, `Interrupted`, `Drops` | `Landing` |

Abstractions. A round is its own digest, so two rounds have the same file name only when they
are equal. The assembly is a constant function of the landed files it is given: its result decides what a
round says and never what a builder does. The policy stands for `idle_gap`, the one setting that enters the header.
`ChainLog` is the promise: rounds are appended one by one, each naming its predecessor, continuing its range
and keeping its policy, and none changes or disappears. Its `rounds` are the settled ones: not cut short, and
not still removable by their own builder.

### 2.5 Assembly and Assembler

`Assembly` follows `assemble.Session` stage by stage. The builder `b` is the record the stages share:
the canonical rows, each extended by what a stage found out (its run, its epoch, its talk), and the spawn edges
resolved.

| definitions | code |
|---|---|
| `Canonical`, `Read`, `RunFor`, `ByRecord`, `Noted` | stage 1, `Index.Build`, `Ancestor`, `EntryByRecord`; `Noted` is a row with what the stages look up by record id, in the whole index, as in the code |
| `In`, `Streams`, `Fragments`, `Calls`, `Uses`, `Results`, `ToolGaps` | stages 2 to 4 |
| `BatchTool`, `Edge`, `Usable`, `Joined`, `SpawnGaps` | stage 5: sidecar, journal, notification and result, each its own kind of edge |
| `EpochOf`, `Cut`, `EpochFollows`, `EpochGaps` | stage 6 |
| `StartsTalk`, `Beginnings`, `Placed`, `Home` | stage 7: which talk and run hold a row, and `place` |
| `Segments`, `Crosses`, `OpenOperation`, `UnmetGates` | stage 8 and its gates |
| `Nodes`, `Relations`, `Gaps`, `Assembled` | `emitSteps` and `result` |

Abstractions. An id is a tuple of what the code derives it from. A row's identifiers are model values; names, titles,
labels, counts, attributes and the wording and rank of qualifications are left out, and so are block ordinals: a
row has at most one text and one thinking block. A call and a tool use belong to one stream. A row of a run has a
timestamp. Each row is a landed file of its own, so a watermark can fall between any two. Relations without an
evidence list keep what they connect. `Assembled` also returns the spawn edges, for the property that reads them.

`Assembler` adds the environment: the rows of a session's files land in every interleaving of the files, a
resumed session replays a record, and `Assemble` runs at the end of the index or again at the watermark of the
round before, from an index that meanwhile holds more. `SessionsAssumption` is what it knows of the runtime's files. `Shaped`: only transcripts
hold records with ids, system records, attachments and summaries, and they have a stream where a journal has none (`discover.go:82`). `LinksBack`: a
record that names another of the session comes after it in the same file. `MessagesOwn`: a provider call is of one stream
(`docs/en/adapters/claude-code.md:133`). The code relies on the three without checking them; section 5 says what
it would do without the second.

### 2.6 Tail

`Collector` takes a read for one step. `Tail` is what that step consists of: `Stat`, `Open`, `Verify`
(the digest behind the cursor), `Read`, `ReadGrown` (the window read again when a line is larger than the budget)
and `Commit` (the digest of the path after landing, and the cursor), with the runtime's `AppendByte`,
`CreateFile` and `RemoveFile` between any two of them. The runtime writes byte by byte, so a line is there before
its newline is. What was seen by one call and used after another is a variable of its own: `seen` (the size and inode of the
stat, which the cursor will be compared with), `handle` (the file that was opened) and `chunk`. A byte carries the
content it belongs to: two contents of a path differ in every window that holds a byte of a line.

### 2.7 Discovery

A scan is an agenda of directories, the next one first: `ReadDir` takes what is in it and puts the
directories it leads to in front, `ReadFails` loses them, `Create` and `Prune` come between. `End` is `Session.Primary` and
`Matcher.Match`. A name is its project directory, its place in the layout, its workflow run and its kind; a pattern is the set of
project directories it matches. `stable` is what was there when the scan began and has not gone: `Stays` is what a property
may speak of, and `PrimaryDecides` says that a main transcript that stays decides alone, unless its directory could not be read
or the scan found another one in a directory before it. One session is followed: others share nothing with it but the listing.

### 2.8 Conversion

`d` is a decoded record of the runtime: identifiers, the blocks of its content, the notification a bare string holds, the
enrichment of a tool result, and what an attachment says of itself. `Convert` gives the record that lands, `FromRecord`
the row the assembler reads; `Row` is both, as `indexLandedFile` reads back what the collector landed. The sessions
of `MCAssembler` are source records, so every run of the assembler goes through both.

### 2.9 Rendering and Viewer

`Rendering` is what a page shows of `said`: `Fetched` (the tree of one talk, `TreeDepth` deep), `TalkOf` (the walk up,
`UpHops` long), `OpenedBy` (the steps that could have started a stream) and `SegmentsOf`. `Viewer` is the server's
`Load` beside builders and a collector, in its three reads: the list of the rounds, their content, and the index, after
which the conversation is kept until the server is started again; `Forget` has no caller.

### 2.10 Verifier

`Stream` takes `Check` over the landed files of a directory in sequence order, as `verify.Stream` does record by record. Two recursive
functions, over the sequences and over the lines of a file, keep it within what can be proved about.
Off the byte counts only what two contents of a path tell apart is kept: all lines of a content have one length,
those of the next another.

## 3. What is checked

The hazards of the code are listed in `PROJECT.json` with the line each bites at; the properties were
chosen from them.

| run | instance | what it shows |
|---|---|---|
| `collector_crash` | two collectors, one transcript of 2 lines in windows of 1, two replacements, 2 interruptions, 1 deletion of the index | type correctness; `CursorBacked` (no record is lost), `Seamless`, `RepeatsBounded` (repeats only when something went wrong), `IndexCovers`, `IndexDerived`, `SequenceGrows`, `CompleteMeansCollected` (a complete pass missed nothing there was when it began), `CompleteMeansIndexed`, and the refinement `LandsInOrder` |
| `collector_live` | fair passes over a transcript of 3 lines and a sidecar, replaced or pruned, one failed read or write | `IndexInLandedOrder`, `WatermarkTrails`, `EventuallyCollected`; `HolesFound`: whichever landed files are missing, the verifier reports exactly the holes they leave |
| `collector_claims` | three append sources that map to one cursor, replaced or rewritten in place, one interruption | `OneSourcePerPath` across passes (a second source lands only after a landing whose cursor was not saved), `ConflictSticky` |
| `collector_unindexed` (violation) | a spent sequence and two interruptions | a landed file that no later pass ever indexes |
| `tail_reads` | two contents of up to 5 bytes, a budget and a digest of 2 | `LandsAPrefix` (nothing torn, skipped, repeated or spliced), `ConflictIsReal`, `EventuallyRead` (a line above the budget too) |
| `discovery_scan` | three project directories, a session of eight files and one that is none, two changes during or between scans, one unreadable directory | `StableSourcesFound`, `PrimaryDecides` |
| `parser_chain` | two builders of either of two policies, two landed files, a rebuilt index, an interruption and a failed write, or a deletion of the index | `ChainIsLog` (the refinement), `InputBinds`, `StateNamesRound`, `PublishesTheAssembly` |
| `parser_live` | fair passes and a fair builder, three landed files, a deleted index, one interruption, a view server | `EventuallyFullParse`; `ShowsTheChain`, `ShowsItsEvidence` |
| `parser_stale` (violation) | a builder reads old entries and a new watermark | a round claims evidence that was not assembled |
| `assembler_sessions` | four sessions: a background agent, a workflow, a child of a child, and a resumed one with two resets, an answer after a silence and a record of an unknown subtype | `Connected` (one tree, one node per id, no dangling relation), `OwnStream`, `ChildrenAccounted`, `DelegationInOneTalk`, `OrderIndependent`, `ReadsItsEvidenceOnly`, `IdentityKept`, `RequestsSettled`; `RuntimeRecordsShown` and `OriginShown` of what a reader sees |
| `assembler_running` (violation) | a child at work while its parent is silent | a committable segment that changes |
| `assembler_overlap` (violation) | input typed during a turn that starts a child | the child's talk in two segments, its parent's in one |

**Bounds.** `MaxLines`, `MaxGen`, `MaxStops`, `MaxFaults` and `MaxDrops` bound what the environment
does, never what the collector does. Two lines and windows of one line give a source that needs
two windows, so the drain loop runs, gives up (`MaxDrain` 0) and resumes; three give a hole that is not at
an end. Two generations give one
replacement during a pass and a path that vanishes and comes back; two interruptions give the crash during the recovery from a
crash; two collectors are enough for every use of the lock, which one process holds at a time.
Five bytes hold two lines of which one is above a budget of 2, whole or unfinished; a digest of 2 is shorter than what a cursor
has consumed by then. Three directories give a first, a middle and a last one for the main transcript and its children; with
more changes than two a file could come and go within one scan, which `stable` excludes from every property.
`collector_claims` has three contents in all (`FewContents`, a constraint): one of each of three sources, or two of one of two. `Sharers` makes the sources
interchangeable, as every one of them is an append source of the same cursor. Its one interruption allows two of the three to land; failed writes
are left to the theorem `OneOwner`.
Two landed files give a round that adds, revises, withdraws and closes (`Told` in `MCParser`); the liveness and violation runs have a third. Two
builders and two policies give every race for the head and a chain continued under other settings. In
`parser_chain` a deletion of the index comes alone (`FewTroubles`, a constraint; `parser_live` has one beside an interruption). There the sequences, not the number of passes, bound the length of the chain. `parser_live` has one builder: its
races are with the collector and the server, those between builders are in `parser_chain`.
The sessions of `MCAssembler` are chosen so that each stage has something to decide and each kind of spawn edge
occurs: 8 or 9 rows in up to four files give every order of announcement, launch, transcript and notification, and every prefix of them
as evidence. `IdleGap` is 5 and `AncestorHops` 3, above the longest walk of these sessions, as 64 is in the code; `TreeDepth` and
`UpHops` are 5, above the depth of these trees, as 12 and 24 are in the code.

**Fairness.** `LiveSpec` of `Collector` makes each pass weakly fair as a whole: a process that can take its next
step takes it, and passes recur, as in `asz collect -watch` or a scheduled `asz collect`. No
fairness is asked of the runtime, of faults or of interruptions, which are bounded. The watch loop
itself leaves on the first pass that is not complete (`cmd/asz/main.go:578-625`); recurrence then means that
whoever runs it starts it again. `LiveSpec` of `Tail` says the same of the attempts to read one source: one that is under
way goes on, and attempts recur; the runtime need not write. `ViewLiveSpec` is fair to a collector and to each
builder, not to the view server. `EventuallyFullParse` is checked without `-reindex`, whose race with the collector
(section 5) loses rows for good, and excepts a chain that a crash inside `WriteExclusive` stopped
for good (`CutShort`): the code has no repair for either. The stale read of `parser_stale` is in the instance: a later round repairs it.

Each property has a mutant of a mapped definition that breaks it (`PROJECT.json`, `mutants`): an
off-by-one in `Gap`, a cursor committed at the file's size, a lock that is not taken, and so on.

## 4. What is proved

Every theorem holds for any sets of collectors, builders, sources, cursors and files and any bounds, under the named
assumption of its module on the constants (`CollectorAssumption`, `ParserAssumption`, `FoldAssumption`,
`DiscoveryAssumption`, `TailAssumption`, `HopsAssumption` and `SessionsAssumption`) and what the table adds. TLC evaluates those assumptions in every run. That a model value is none of some
sets (`None` is no sequence of parts, say) cannot be derived from it being a value of its own, and is assumed where needed.

| theorem | states | assumes |
|---|---|---|
| `CollectorProofs`: `TypeCorrect` | `Spec => []TypeOK` | - |
| `CollectorProofs`: `LandsAbove` | `Spec => SequenceGrows` | - |
| `CollectorProofs`: `NothingSkipped` | `Spec => []CursorBacked` | - |
| `CollectorProofs`: `ConflictStays` | `Spec => ConflictSticky` | - |
| `CollectorProofs`: `NoSeam` | `Spec => []Seamless` | no rewrite in place |
| `EvidenceProofs`: `RepeatsCounted` | `Spec => []RepeatsBounded` | no two sources share a cursor |
| `EvidenceProofs`: `CompletePassCollects` | `Spec => CompleteMeansCollected` | no rewrite in place |
| `EvidenceProofs`: `OneOwner` | `Spec => []OneSourcePerPath` | `None` is no pair of a source and a number (so no inode) |
| `EvidenceProofs`: `VerifierExact` | `Spec => []HolesFound` of `Verifier` | - |
| `LandingProofs`: `LandingImplemented` | `Spec => LandsInOrder` | no failed write |
| `LandingProofs`: `WatermarkHonest`, `IndexOfLanded` | `Spec => []IndexCovers`, `Spec => []IndexDerived` | no failed write |
| `LandingProofs`: `CompletePassIndexes` | `Spec => CompleteMeansIndexed` | no failed write |
| `LandingProofs`: `IndexOrdered` | `Spec => []IndexInLandedOrder` | no interruption |
| `LandingProofs`: `WatermarkBehind` | `Spec => []WatermarkTrails` | no failed write, or no interruption |
| `TailProofs`: `LandsOneContent` | `Spec => []LandsAPrefix` | - |
| `TailProofs`: `ConflictsAreReal` | `Spec => []ConflictIsReal` | - |
| `DiscoveryProofs`: `NoneOverlooked`, `MainDecides` | `Spec => []StableSourcesFound`, `Spec => []PrimaryDecides` | - |
| `ParserProofs`: `BindsItsEvidence` | `Spec => []InputBinds` | - |
| `ParserProofs`: `StateTrailsTheChain` | `Spec => []StateNamesRound` | - |
| `ParserProofs`: `ChainImplementsLog` | `Spec => ChainIsLog` | - |
| `ChainProofs`: `FoldIsAssembly`, `EmptyMeansSaid`, `ParsingIsIdempotent`, `GapsAreKept` | of `Diff` and `Apply` | - |
| `ChainProofs`: `RoundsAreTyped` | `Spec => []TypeOK` of `Parser` | - |
| `ChainProofs`: `RoundsCompose` | `Spec => PublishesTheAssembly` | - |
| `ChainProofs`: `ShowsABeginning` | `ViewSpec => []ShowsTheChain` | no failed write |
| `ChainProofs`: `ShowsCovered` | `ViewSpec => []ShowsItsEvidence` | no rebuilt index |
| `AssemblyProofs`: `LandedAndSpoken` | `Spec => []IInv` | - |
| `AssemblyProofs`: `OneTree`, `ContainmentInStream` | `Spec => []Connected`, `Spec => []OwnStream` | `None` is no tuple, not `Main` and no word of the code |
| `AssemblyProofs`: `NoChildIsLost` | `Spec => []ChildrenAccounted` | `None` as above; a sidecar that names an agent names its call |
| `AssemblyProofs`: `NothingSilent` | `Spec => []RuntimeRecordsShown` of `Rendering` | - |
| `AssemblyProofs`: `WatermarkBounds` | `Spec => ReadsItsEvidenceOnly` | - |

Each condition is one the property needs, and section 5 says how the code fails without it: `Seamless` and `CompleteMeansCollected` with a rewrite in
place, the index with a failed write, its order with an interruption, the viewer with a round taken back or
an index rebuilt beside a collector, a nested child with a sidecar that names no call. The rest holds through any number of crashes, failed writes, replaced files and deleted indexes.

**The collector.** `TypeOK` is not inductive alone: a pass in the middle of a window must have a source and a chunk, and
the set of landed files must be finite for a highest sequence to exist (`TypeInv`). For `LandsAbove` a pass under way
holds the lock (so there is one), its counter is above everything landed from `LoadState` on, and the window about to land
carries a sequence above everything landed. For `NothingSkipped` one must say what a window read but not yet
committed will claim: everything before it is already claimed by the cursor it continues, and once landed it is itself in
a landed file. `ConflictStays` needs only that a pass that lands or commits does so behind a cursor without a conflict (`Clear`): the lock
keeps everyone else from flagging it meanwhile.

**The evidence.** `NoSeam` is about what `asz verify` looks for. A cursor that consumed something is rooted in a landed file of the content its inode
names (`Rooted`), a window in hand continues one that landed before it (`WindowJoins`), and without rewrites in place an inode stands for one content
(`Inodes`). The digest is not used: it is there for rewrites in place.

`RepeatsCounted` counts. A line lands again only if the cursor did not pass it when it landed, so what has to be shown is that every landing without a
commit is paid for by an interruption or a failed write: the files that hold a line the cursor has not consumed are at most as many as went wrong
(`Counted`), and one more while the window is between landing and commit (`Spared`). For a snapshot, which has no offset, its digest decides: no cursor has the digest of a body that is still to come (`DigestsTrail`), and the
window in hand is of a newer body than the one committed last (`WindowNewer`). This holds
with rewrites in place too. Two sources behind one cursor are excluded: each would count against the other's.

`CompletePassCollects` follows a pass from its beginning (`GoalInv`). What the goal of the pass says of a source is either already landed, or the source
is still to be visited, or it is being drained and the cursor leads there, or it changed since, or the pass has a mark against it and will not report itself
complete (`Pursued`, by phase: `Visited`, `Reaches`, `Promised`, `Settled`). It needs that what a cursor counts has landed under the content its inode stands
for (`Consumed`, `BodiesLanded`), which a rewrite in place undoes.

`OneOwner` counts too. A cursor's owner is the source its inode names, or the one that landed and is about to save it (`Owners`); inodes are not shared (`OwnInodes`), a window
in hand is of the source the cursor already names, if it names one (`Single`), so there is one owner (`OneOwns`). An owner stays the owner unless it is between landing and commit when a pass
stops or a write fails (`OwnersStay`), so the sources that landed and own nothing are at most as many as went wrong (`LostFew`). Nothing is assumed of the sources, the
interruptions or the failed writes; a cursor that a snapshot maps to is exempt in the property, since snapshots have no inode check. `collector_claims` has three sources, so that
one interruption leaves room for a violation: with the bound at 1, TLC finds the second source landing after a stop between landing and commit.

**The verifier.** `VerifierExact` joins two halves. Of any files of one content the walk has a closed form (`Line` within a file, `Knows` across files): it stands at
the greatest line a file so far ended with, and meets a problem exactly at a file that begins past the next line (`Late`). Whether that is a hole depends on what follows: a file
behind it could hold the line that seems missing. The collector lands no such files. `WalkInv` says that sequences number the files apart and that the files of a source, in that order, never begin further
back (`Advance`), because a file begins at most where its cursor leads (`Within`) and offsets never go back. It holds with rewrites in place, failed writes
and interruptions.

**Landing and the index.** The refinement needs the opposite of `LandsAbove`: that no sequence is *skipped*. `Tops` says that the counter
of a pass is one above the highest landed sequence, or two while the window that took the number is landing, and that neither the counter nor the
watermark on disk is ahead of what has landed. A failed write breaks it, and with it the refinement. `IndexInv` adds
what the index means to a pass (`Kept`): once loaded, the index in memory holds all that has landed and nothing else; until the pass lands something, and again
once it has written, so does the file. `CompletePassIndexes` follows because only the end of a pass reports it complete (`OnlyFinishes`).

`IndexOrdered` allows failed writes and forbids interruptions instead. Without one, `entries.bin`, `index.state` and `session.state` are always replaced together, so
the part a failed write left in the index keeps its sequence for itself: every part is below the counter of the pass (`Distinct`, `Rests`), what is appended is above
(`InOrder`). `WatermarkBehind` holds under either condition: with failed writes only, a spent sequence is in `session.state`
when it is in the watermark; with interruptions only, no sequence is spent. With both it is false.

**The tail reader.** `TailInv` says what the five looks at the source have in common. An inode is never used again, so a path that has left one never
leads to it again (`OnDisk`). Hence the case that matters: if the path leads to the cursor's inode, or did when this attempt's `stat` looked, then the cursor's
offset, ordinal and digest are all of that inode's content (`Follows`); otherwise no later attempt gets past its `stat`. An attempt whose path was renamed away between
`stat` and `open` holds another file, and the digest is what stops it (`Reading`): it covers a newline and the byte before it, which names the content
(`DigestTells`). That is why a digest of one byte would not do, and why `TailAssumption` asks for two. What is read from the end of a line on
lands at the positions it has in the file: `WindowCounts` and `WindowStarts` compare counting and searching within a window
with the same in the whole text, `WindowLines` puts them together, `GrownLines` says that growth does not disturb it.
`ConflictsAreReal` is the same invariant read backwards: while there has been one content, there is one inode (`OneInode`), every cursor follows it, and neither check can fail.

**Discovery.** `OnTheWay` says of every file that stays that it is found, or its way was cut by an unreadable directory, or a directory on its way is still on the agenda:
`WayLeads` shows that every directory on the way to a file leads to it or to the next one. `MainDecides` rests on `NoneOverlooked` and on the decision
being made once, from what the scan found (`Decided`).

**The parser.** `Bounded` keeps what the collector wrote and what a builder remembers below the highest landed sequence, so whatever lands later is
above every range already bound. `Locked` gives one builder between the lock and the state file. `Publishing` is the heart: while a builder publishes, the only file that can be
cut short is its own, and the chain without that file is the one its round extends; a builder that dies leaves the file as the last round,
settled or cut. `HeadStays` says that the state names no round still being written, so that a removed one was never named. `ChainImplementsLog` maps each
step: a round joins the log when its file is sealed, or when its builder dies after it was written whole.

**The fold.** `FoldIsAssembly` is by cases on one id or gap: written by the diff or not, reported or not, open or not. `OpenForm` is the one fact the
cases share: an open gap is determined by what it says. The view of a whole chain is a recursive function of its newest round (`FoldOf`). A round names its predecessor,
whose number is one less, so a set of rounds without the property has one of the least number, and that one's predecessor has it: `RoundsAreTyped` shows in
this way that every view of the chain is a view, and that appending a round changes no view before it. `RoundsCompose` puts the two
together: at the write the builder's own fold of the chain is still the fold, because it holds the lock, and its delta is the diff between that and its assembly.

**The viewer.** `ShowsABeginning`: between the list and the reads, rounds are only appended. Without failed writes no round is taken back, so those that were listed and
read whole stay the first ones of the chain. `ShowsCovered` relates three reads: the evidence a round claims was in the index when its builder read it, the index holds since then what it held,
and the server reads the index after the rounds (`Covered`).

**The assembler.** The stages are functions, so the proof has two parts: what one assembly says of any rows, and which rows there can be. The rows of the
finished builder are written down in closed form (`StagesAre`), and three conditions on them are enough for the properties of nodes and relations. `Sound`: rows are numbered, each has an epoch, and
its talk is of its own stream (`HomeIs`: whatever holds a row is of the row's stream). `Linked`: children that were joined have a stream, and
a summary's reset is in a stream. `Tidy`: a call is of one stream. Ids are tuples whose first word says what they name, which separates the
kinds of nodes (`Tagged`), and within a kind an id determines its node (`OneEach`). `Reached` then needs two steps only: from the session to the streams, epochs, talks and
segments, and on to everything else.

The second part is the invariant: what has landed is a sequence of rows of the files, each file in its order, with replays behind the row
they repeat (`Indexed`, `Taken`), and what was said is `Assembled` of a prefix of it that reaches the watermark (`Spoken`). The prefix is what makes the invariant inductive: rows land
between two assemblies. `WatermarkBounds` compares the prefix with the index that has grown: the first copies up to the watermark are the same (`FirstCopies`), and a lookup by record id
leads to an earlier row (`BackLinks`), so it finds the same row in both; for the walk of `RunFor` that is an induction over its hops. Its condition is
`LinksBack`, without which the lookups read beyond the watermark (section 5). `NoChildIsLost` follows one edge: a child that nothing names has a gap, and an edge whose call
is known is written by the step that writes the relations.

**Model-checked only.** Liveness under fairness and `ENABLED` are outside the prover's reach (`EventuallyCollected`, `EventuallyRead`, `EventuallyFullParse`), and so is what
the folds of the community modules compute. Of `Assembler` and `Rendering`, `IdentityKept`, `RequestsSettled` and `DelegationInOneTalk` are checked on
the sessions of `MCAssembler`, because they depend on what a session holds: a later record may change what begins a talk, and with it
what a segment is. `OriginShown` asks of a session that the call that starts a child is in a talk, and `OrderIndependent` compares the assemblies of all
orders of landing, which no invariant of one behaviour speaks of.

## 5. Known limits of the code, met while modelling

Besides what the violation runs show:

- `landAppend` appends index rows inside the `WriteAtomic` callback (`collect.go:361`): a write that fails afterwards leaves rows of
  a file that does not exist in the index the pass saves. `IndexDerived` fails once `MaxFaults` is 1.
- `TailDigestAt` reads the source again after landing (`collect.go:370`): a file rewritten in place between the read and the
  commit has its new content recorded as the one consumed. `Seamless` fails once `InPlace` is `TRUE`.
- `Stats.Complete` does not look at `Busy`: a pass that collected nothing because another
  collector held the lock reports itself complete.
- A file whose size equals the cursor's offset is taken for unchanged without its digest being compared
  (`tail.go:133`); a rewrite to the same length is noticed when the file next grows.
- An in-place rewrite that happens before a snapshot of the same length is digested anew and lands; one that happens
  between read and commit of an append source does not.
- Which of two sources a shared cursor belongs to is known within a pass only: after the first is pruned
  the second is taken for its replacement and conflicts.
- The index loses its landed order (`internal/index/lookup.go`, "Entries are held in landed order") with one interruption, between `entries.bin` and `index.state` at the
  end of a pass (`collect.go:236-246`): the next pass trusts the old watermark and appends the files above it once more, behind their successors
  (`collect.go:173-181`). With a failed write besides, rows of a file that never landed can share their sequence with one that did.
- `rebuild` of the parser writes `entries.bin` and `index.state` without the session's lock (`parse.go:300`). Interleaved with the
  end of a pass it leaves entries of one file under a watermark of two, which later passes trust. No run
  states this: `InputBinds` and `PublishesTheAssembly` are about the rounds, and a builder takes the index as it is.
- A child of a child whose sidecar names its parent agent and no call counts as joined, and the step that writes the relations
  skips it (`spawn.go:157`, `spawn.go:359`): the nesting is in no relation and in no gap. The
  condition of `NoChildIsLost` excludes it, and the session with such a sidecar (`Nested` in `MCAssembler`) is in no run: TLC finds
  `ChildrenAccounted` violated on it once the sidecar and the child it names as parent have landed.
- The digest read after landing has a second side: a source rewritten in place between the landing and that digest is accepted from then on, and its tail
  lands behind the first content. `Tail` therefore has no rewrites in place; `Collector` has them between passes.
- `Chunk.More` is true whenever bytes are left (`tail.go:192`), an unfinished line too, where its comment promises complete lines.
- Two append sources may come to share a directory when the first lands, its cursor is not committed, and it is pruned before the
  second is collected; snapshots have no inode check at all. `OneSourcePerPath` counts such landings
  and says nothing of a cursor that a snapshot maps to.
- `WatermarkTrails` fails with an interruption in addition to a failed write, for the reason `collector_unindexed` shows.
- `asz verify` calls every record that repeats an ordinal "landed more than once by an interrupted pass"; the later versions of a snapshot repeat it
  without any interruption. A missing first or last file leaves no hole. After a landing whose cursor was never committed and a
  replacement of the source, two contents in one directory are reported as missing bytes. `ShaBad` is never filled.
- Only an unreadable project directory is warned of; an error in a directory below it hides its sources without a word, which
  `discover.go:168-170` says does not happen. A scan that sees a main transcript's directory before the transcript exists judges the session by its
  children's directories, for that pass.
- The view server keeps a conversation it loaded, also one loaded while the index was missing: no times until it is started again. The timeline
  (`apiFlow`) lists what is under talks; resets and summaries are under epochs and are not on it.
- A segment holds a child's talk by its time alone: one that begins after the last row of its parent's segment is in none.
- The watch loop exits on the first incomplete pass.
- A builder whose index is older than another's, with a newer watermark, withdraws what the other published
  until the next round.
- A builder killed inside `WriteExclusive` leaves a short round under its final name. Every later fold refuses it and
  nothing removes it: the chain stops until someone does.
- A round that was written whole is removed again when its `chmod` fails, though a reader may have folded it.
- `entries.bin.tmp` is one fixed name: two processes that write the index at once write the same temporary file.
- After the index directory is deleted, `indexed_seq` restarts from the landed files. A sequence that was spent without a
  file then leaves it below the chain's watermark, and every parse is refused until more lands. The
  documented order `assembled_seq <= indexed_seq` does not survive the deletion either.
- The lateness gate never decides: a segment that is not the last is followed by a talk more than the idle gap later, so the activity
  gate implies it.
- A sidecar carries its child's stream, so a sidecar alone closes the `child_stream` gap before any transcript has landed.
- The lookups of the assembler (`EntryByRecord`, the first copy of a record, `Ancestor`) are not bounded by the watermark: an index that is
  newer than the watermark closes an `epoch_continuation` gap with a record the round does not claim (`epoch.go:88`). It takes a
  record that names a later one, or one of another file; `LinksBack` says that the runtime writes none.
- A stream whose first row is a reset gets an epoch that follows itself.
- Where a child's stream and talk begin depends on whether its sidecar or its transcript landed first; a conversation collected
  again from nothing may differ there (`OrderIndependent` leaves it out).
- Readers of a chain (`asz conversation`, the view server) fold it without its lock and see a round being written as a damaged one.

## 6. Order of the development

`Collector` came first, since nothing later can repair what it loses, then the parser over an abstract collector, the assembler,
and around these the tail reader, discovery, conversion, the verifier and the view server. What would add most next: the refinement of `Collector` by
`Tail` (a read of one step by one of five), and sessions with forks,
interrupts that reattach, and several agents of one batch.

## 7. Not modelled

The record file format (a sequential encoding with a closing digest, written whole), argument parsing, printing, HTTP and HTML, the codec
and the interner of the index, labels, texts, usage and durations, and the model's vocabulary: they are data or wording to the properties
here. Of the view server the timeline, the glossary, the labels and the record pages are left out, and of `asz collect` the
watch loop, which is the recurrence the fairness stands for. Durability below `fsync`, disk corruption and an operator who edits landed files are outside the models.
