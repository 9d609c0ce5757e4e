------------------------------ MODULE Collector ------------------------------
(***************************************************************************)
(* Collection of one session: internal/adapters/claudecode (collect.go,    *)
(* tail.go, reindex.go) over internal/storage.                             *)
(*                                                                         *)
(* Collectors - `asz collect` processes that may run concurrently - read   *)
(* the session's source files, land their new records in write-once files  *)
(* numbered by one sequence, advance a cursor per source, and keep the     *)
(* derived index with its own watermark.  Durable state (files of the zone)*)
(* and volatile state (the memory of a pass) are separate variables: an    *)
(* interruption loses exactly the second.                                  *)
(*                                                                         *)
(* A line of an append source is <<source, generation, ordinal>>; the      *)
(* generation stands for the file's content, so two generations of a path  *)
(* differ in the bytes before any offset.  A snapshot source is a file of  *)
(* at most one line.                                                       *)
(***************************************************************************)
EXTENDS Integers, FiniteSets, Sequences

CONSTANTS
    Procs,          \* collector processes
    Sources,        \* source files of the session
    AppendSources,  \* those that only grow (transcripts and journals)
    Paths,          \* cursor files of the session
    CursorOf,       \* the cursor path a source maps to
    None,           \* no process, source, file, digest or index
    Window,         \* lines one window may hold (MaxDelta)
    MaxDrain,       \* maxDrainRounds
    InPlace,        \* the runtime may rewrite a file without replacing it
    MaxLines,       \* bound: lines of one source
    MaxGen,         \* bound: contents one source path ever has
    MaxStops,       \* bound: crashes and passes that return an error
    MaxFaults,      \* bound: failed writes a pass survives
    MaxDrops        \* bound: deletions of the index directory

ASSUME CollectorAssumption ==
    /\ AppendSources \subseteq Sources
    /\ None \notin Procs \cup Sources
    /\ CursorOf \in [Sources -> Paths]
    /\ Window \in Nat \ {0} /\ MaxDrain \in Nat /\ InPlace \in BOOLEAN
    /\ MaxLines \in Nat \ {0} /\ MaxGen \in Nat
    /\ MaxStops \in Nat /\ MaxFaults \in Nat /\ MaxDrops \in Nat

VARIABLES
    \* The runtime's files, and the landing zone.
    file,       \* source -> [ino, gen, len]; ino = None when there is no file
    cursor,     \* cursor path -> [ino, off, dig, state]
    landed,     \* the landed record files
    ixFile,     \* index/entries.bin: the indexed parts in order, or NoIndex
    ixMark,     \* index/index.state: indexed_seq, or NoMark
    nextFile,   \* session.state: next_seq
    lock,       \* the collector holding the session's lock
    \* The memory of each collector.
    pc,
    todo,       \* sources discovered and not yet visited
    claimed,    \* sources whose cursor path this pass has claimed
    src,        \* source being drained
    rounds,     \* windows of src landed so far in this pass
    chunk,      \* what TailAppend read
    next,       \* state.NextSeq
    ix,         \* the index in memory
    mark,       \* ixState.IndexedSeq
    dirty,      \* changed || reindexed
    report,     \* what Stats says of the pass
    goal,       \* history: the sources' contents when the pass began
    \* Budgets.
    stops, faults, drops

env     == <<file>>
zone    == <<cursor, landed, ixFile, ixMark, nextFile>>
mem     == <<todo, claimed, src, rounds, chunk, next, ix, mark, dirty>>
passes  == <<pc, report, goal, lock>>
budgets == <<stops, faults, drops>>
vars    == <<file, cursor, landed, ixFile, ixMark, nextFile, lock, pc, todo, claimed,
             src, rounds, chunk, next, ix, mark, dirty, report, goal, stops, faults, drops>>

Gens  == 0 .. MaxGen
Ids   == Sources \X (0 .. MaxGen + 1)
Content(s) == <<s, file[s].gen>>      \* what a digest of the file identifies
Garbled(s) == <<s, MaxGen + 1>>       \* the digest of a window past the end of the file
NoIndex == None
NoMark  == -1
-----------------------------------------------------------------------------
(***************************************************************************)
(* A part is the rows of one landed file; the index holds a part for every *)
(* file it has indexed, with fewer rows when the write broke off.          *)
(***************************************************************************)
NoChunk == [part |-> None, ino |-> None, more |-> FALSE]

NoFiles == [s \in Sources |-> [ino |-> None, gen |-> 0, len |-> 0]]
Present(s) == file[s].ino # None
Appends(s) == s \in AppendSources

FreshCursor == [ino |-> None, off |-> 0, dig |-> None, state |-> "active"]

\* The files of S in the order LandedFiles lists them: by sequence.
InSeqOrder(S) ==
    {q \in [1 .. Cardinality(S) -> S] :
        \A i, j \in 1 .. Cardinality(S) : i < j => q[i] # q[j] /\ q[i].seq <= q[j].seq}

\* Mutants: the first file of the gap is missed, or the last indexed one is read again.
LandedBeyond(n) == InSeqOrder({f \in landed : f.seq > n + 1})
LandedFrom(n) == InSeqOrder({f \in landed : f.seq >= n})

\* What RebuildIndex reads: the landed files above a sequence, in sequence order.
LandedAbove(n) == InSeqOrder({f \in landed : f.seq > n})

\* Mutant: the counter is what session.state says.
RecoverNothing(n) == {n}

\* RecoverNextSeq: one above the highest landed sequence, and never below n.
RecoverNextSeq(n) ==
    {m \in {n} \cup {f.seq + 1 : f \in landed} : m >= n /\ \A f \in landed : f.seq < m}

Init ==
    /\ file = NoFiles
    /\ cursor = [c \in Paths |-> FreshCursor]
    /\ landed = {}
    /\ ixFile = NoIndex /\ ixMark = NoMark /\ nextFile = 1
    /\ lock = None
    /\ pc = [p \in Procs |-> "idle"]
    /\ todo = [p \in Procs |-> {}]
    /\ claimed = [p \in Procs |-> {}]
    /\ src = [p \in Procs |-> None]
    /\ rounds = [p \in Procs |-> 0]
    /\ chunk = [p \in Procs |-> NoChunk]
    /\ next = [p \in Procs |-> 1]
    /\ ix = [p \in Procs |-> <<>>]
    /\ mark = [p \in Procs |-> 0]
    /\ dirty = [p \in Procs |-> FALSE]
    /\ report = [p \in Procs |-> "none"]
    /\ goal = [p \in Procs |-> NoFiles]
    /\ stops = 0 /\ faults = 0 /\ drops = 0
-----------------------------------------------------------------------------
(***************************************************************************)
(* The runtime that writes the sources.                                    *)
(***************************************************************************)

\* A transcript or journal gains a complete line.
Grow(s) ==
    /\ Appends(s) /\ Present(s) /\ file[s].len < MaxLines
    /\ file' = [file EXCEPT ![s].len = @ + 1]
    /\ UNCHANGED <<zone, mem, passes, budgets>>

\* A file is created at the path, or another one is renamed over it.
Replace(s) ==
    /\ file[s].gen < MaxGen
    /\ \E n \in 0 .. (IF Appends(s) THEN MaxLines ELSE 1) :
          file' = [file EXCEPT ![s] = [ino |-> <<s, @.gen + 1>>, gen |-> @.gen + 1, len |-> n]]
    /\ UNCHANGED <<zone, mem, passes, budgets>>

\* The file is truncated and written again under the same inode.
Rewrite(s) ==
    /\ InPlace /\ Present(s) /\ file[s].gen < MaxGen
    /\ \E n \in 0 .. (IF Appends(s) THEN MaxLines ELSE 1) :
          file' = [file EXCEPT ![s].gen = @ + 1, ![s].len = n]
    /\ UNCHANGED <<zone, mem, passes, budgets>>

\* The runtime prunes the file.
Prune(s) ==
    /\ Present(s)
    /\ file' = [file EXCEPT ![s].ino = None, ![s].len = 0]
    /\ UNCHANGED <<zone, mem, passes, budgets>>

\* The index directory is deleted: the zone calls it disposable.
DropIndex ==
    /\ drops < MaxDrops /\ drops' = drops + 1
    /\ ixFile # NoIndex
    /\ ixFile' = NoIndex /\ ixMark' = NoMark
    /\ UNCHANGED <<env, cursor, landed, nextFile, mem, passes, stops, faults>>
-----------------------------------------------------------------------------
(***************************************************************************)
(* The beginning of a pass: discovery, the lock, and the state files.      *)
(***************************************************************************)

\* Mutant: no lock.
LockIgnored == TRUE

\* LockSession does not wait.
LockFree == lock = None

\* CollectAll reaches the session and takes its lock.  Discovery lists the files
\* there are; the order of their names is data, so any order of visits is allowed.
Begin(p) ==
    /\ pc[p] = "idle" /\ LockFree
    /\ lock' = p
    /\ pc' = [pc EXCEPT ![p] = "load"]
    /\ todo' = [todo EXCEPT ![p] = {s \in Sources : Present(s)}]
    /\ goal' = [goal EXCEPT ![p] = file]
    /\ report' = [report EXCEPT ![p] = "none"]
    /\ UNCHANGED <<env, zone, budgets, claimed, src, rounds, chunk, next, ix, mark, dirty>>

\* The lock is held: the session is skipped, and only Busy counts it.
Busy(p) ==
    /\ pc[p] = "idle" /\ ~LockFree
    /\ report' = [report EXCEPT ![p] = "busy"]
    /\ UNCHANGED <<env, zone, mem, pc, goal, lock, budgets>>

\* index.state and session.state are read, and the counter is raised above
\* everything landed.  A missing index.state reads as schema 0.
LoadState(p) ==
    /\ pc[p] = "load"
    /\ mark' = [mark EXCEPT ![p] = ixMark]
    /\ \E n \in RecoverNextSeq(nextFile) : next' = [next EXCEPT ![p] = n]
    /\ pc' = [pc EXCEPT ![p] = "loaded"]
    /\ UNCHANGED <<env, zone, budgets, lock, report, goal,
                   todo, claimed, src, rounds, chunk, ix, dirty>>

\* Mutant: off by one.
GapLate(from, n) == from < n - 2

\* Something has landed, or a sequence was spent, beyond what the index covers.
Gap(from, n) == from < n - 1

\* Both files of the index are there, of the current schema.
Usable(p) == mark[p] # NoMark /\ ixFile # NoIndex

\* The index is loaded, or started afresh when either of its files is missing;
\* the landed files above its watermark are indexed from disk.
LoadIndex(p) ==
    LET usable == Usable(p)
        from   == IF usable THEN mark[p] ELSE 0
        gap    == Gap(from, next[p])
    IN  /\ pc[p] = "loaded"
        /\ \E found \in (IF gap THEN LandedAbove(from) ELSE {<<>>}) :
              ix' = [ix EXCEPT ![p] = (IF usable THEN ixFile ELSE <<>>) \o found]
        /\ mark' = [mark EXCEPT ![p] = IF gap THEN next[p] - 1 ELSE from]
        /\ dirty' = [dirty EXCEPT ![p] = gap]
        /\ pc' = [pc EXCEPT ![p] = "sources"]
        /\ UNCHANGED <<env, zone, budgets, lock, report, goal,
                       todo, claimed, src, rounds, chunk, next>>
-----------------------------------------------------------------------------
(***************************************************************************)
(* One source: claim its cursor, read a window, land it, commit the cursor.*)
(***************************************************************************)

Cur(p) == cursor[CursorOf[src[p]]]
SetCursor(p, c) == cursor' = [cursor EXCEPT ![CursorOf[src[p]]] = c]

\* Mutant: an error goes unrecorded.
VerdictKept(p, ok) == report[p]

\* Errors, Conflicts and Pending make a pass incomplete.
Verdict(p, ok) == IF ok THEN report[p] ELSE "incomplete"

\* The drain loop of the current source ends; ok says whether without an error.
SourceDone(p, ok) ==
    /\ todo' = [todo EXCEPT ![p] = @ \ {src[p]}]
    /\ src' = [src EXCEPT ![p] = None]
    /\ rounds' = [rounds EXCEPT ![p] = 0]
    /\ chunk' = [chunk EXCEPT ![p] = NoChunk]
    /\ report' = [report EXCEPT ![p] = Verdict(p, ok)]
    /\ pc' = [pc EXCEPT ![p] = "sources"]

\* Two distinct sources never share a cursor within a pass: the second is refused.
Refuse(p, s) ==
    /\ pc[p] = "sources" /\ s \in todo[p]
    /\ \E t \in claimed[p] : CursorOf[t] = CursorOf[s]
    /\ todo' = [todo EXCEPT ![p] = @ \ {s}]
    /\ report' = [report EXCEPT ![p] = "incomplete"]
    /\ UNCHANGED <<env, zone, budgets, pc, lock, goal,
                   claimed, src, rounds, chunk, next, ix, mark, dirty>>

Claim(p, s) ==
    /\ pc[p] = "sources" /\ s \in todo[p]
    /\ \A t \in claimed[p] : CursorOf[t] # CursorOf[s]
    /\ claimed' = [claimed EXCEPT ![p] = @ \cup {s}]
    /\ src' = [src EXCEPT ![p] = s]
    /\ pc' = [pc EXCEPT ![p] = "tail"]
    /\ UNCHANGED <<env, zone, budgets, lock, report, goal,
                   todo, rounds, chunk, next, ix, mark, dirty>>

\* TailAppend's checks of a cursor against the file it is about to read.  The
\* digest is compared only when there is something past the offset.
Fresh(c) == c.ino = None /\ c.off = 0
Replaced(s, c) == c.ino # None /\ c.ino # file[s].ino
Truncated(s, c) == file[s].len < c.off
Rewritten(s, c) == file[s].len # c.off /\ c.dig # None /\ c.dig # Content(s)

\* Mutant: neither the inode nor the digest is compared.
ConflictBySize(s, c) == ~Fresh(c) /\ Truncated(s, c)

ConflictOn(s, c) == ~Fresh(c) /\ (Replaced(s, c) \/ Truncated(s, c) \/ Rewritten(s, c))

\* Mutant: the last line is taken for one still being written.
UnreadButOne(s, c) == file[s].len > c.off + 1

\* Something new: complete lines past the offset, or a body with another digest.
Unread(s, c) == IF Appends(s) THEN file[s].len > c.off
                              ELSE file[s].len > 0 /\ Content(s) # c.dig

\* Mutant: a conflicted cursor is tried again.
ConflictForgotten(p) == FALSE

\* A conflict is sticky: the source is not looked at.
Conflicted(p) == Cur(p).state = "conflict"

SkipConflicted(p) ==
    /\ pc[p] = "tail" /\ Conflicted(p)
    /\ SourceDone(p, FALSE)
    /\ UNCHANGED <<env, zone, budgets, lock, goal, claimed, next, ix, mark, dirty>>

\* The file vanished since discovery (markGone).
MarkGone(p) ==
    /\ pc[p] = "tail" /\ ~Conflicted(p)
    /\ ~Present(src[p])
    /\ SetCursor(p, [Cur(p) EXCEPT !.state = "source_gone"])
    /\ SourceDone(p, TRUE)
    /\ UNCHANGED <<env, landed, ixFile, ixMark, nextFile, budgets, lock, goal,
                   claimed, next, ix, mark, dirty>>

\* The source changed underneath the cursor.
FlagConflict(p) ==
    /\ pc[p] = "tail" /\ ~Conflicted(p)
    /\ Present(src[p]) /\ Appends(src[p]) /\ ConflictOn(src[p], Cur(p))
    /\ SetCursor(p, [Cur(p) EXCEPT !.state = "conflict"])
    /\ SourceDone(p, FALSE)
    /\ UNCHANGED <<env, landed, ixFile, ixMark, nextFile, budgets, lock, goal,
                   claimed, next, ix, mark, dirty>>

\* The cursor or the file cannot be read, or the cursor of a source that is gone or in
\* conflict cannot be saved: the source is given up for this pass, its cursor as it was.
TailFails(p) ==
    /\ pc[p] = "tail" /\ faults < MaxFaults
    /\ faults' = faults + 1
    /\ SourceDone(p, FALSE)
    /\ UNCHANGED <<env, zone, stops, drops, lock, goal, claimed, next, ix, mark, dirty>>

Readable(p) ==
    /\ pc[p] = "tail" /\ ~Conflicted(p)
    /\ Present(src[p])
    /\ Appends(src[p]) => ~ConflictOn(src[p], Cur(p))

\* Nothing complete to read, or an unchanged snapshot.
ReadNothing(p) ==
    /\ Readable(p) /\ ~Unread(src[p], Cur(p))
    /\ SourceDone(p, TRUE)
    /\ UNCHANGED <<env, zone, budgets, lock, goal, claimed, next, ix, mark, dirty>>

\* A window of complete lines is read, and a sequence taken for it.
Read(p) ==
    LET s == src[p]
        f == file[s]
        from == IF Appends(s) THEN Cur(p).off + 1 ELSE 1
        to   == IF Appends(s) /\ f.len >= from + Window THEN from + Window - 1 ELSE f.len
    IN  /\ Readable(p) /\ Unread(s, Cur(p))
        /\ next' = [next EXCEPT ![p] = @ + 1]
        /\ chunk' = [chunk EXCEPT ![p] =
              [part |-> [seq |-> next[p], src |-> s, gen |-> f.gen, first |-> from, last |-> to],
               ino |-> f.ino, more |-> to < f.len]]
        /\ pc' = [pc EXCEPT ![p] = "land"]
        /\ UNCHANGED <<env, zone, budgets, lock, report, goal,
                       todo, claimed, src, rounds, ix, mark, dirty>>

\* Mutant: rows are indexed under the sequence after Take.
IndexedUnderNext(p) == Append(ix[p], [chunk[p].part EXCEPT !.seq = next[p]])

\* The rows of the window, indexed under the sequence of its file.
IndexedPart(p) == Append(ix[p], chunk[p].part)

\* WriteAtomic succeeds: the file is visible under its name, and its rows - appended
\* to the index inside the write's callback - are in memory.
Land(p) ==
    /\ pc[p] = "land"
    /\ landed' = landed \cup {chunk[p].part}
    /\ ix' = [ix EXCEPT ![p] = IndexedPart(p)]
    /\ pc' = [pc EXCEPT ![p] = "commit"]
    /\ UNCHANGED <<env, cursor, ixFile, ixMark, nextFile, budgets, lock, report, goal,
                   todo, claimed, src, rounds, chunk, next, mark, dirty>>

\* WriteAtomic fails: no file, but the sequence is spent and the rows the callback
\* reached stay in the index.
LandFails(p) ==
    /\ pc[p] = "land" /\ faults < MaxFaults
    /\ faults' = faults + 1
    /\ \E n \in chunk[p].part.first - 1 .. chunk[p].part.last :
          ix' = [ix EXCEPT ![p] = IF n < chunk[p].part.first THEN @
                                  ELSE Append(@, [chunk[p].part EXCEPT !.last = n])]
    /\ SourceDone(p, FALSE)
    /\ UNCHANGED <<env, zone, stops, drops, lock, goal, claimed, next, mark, dirty>>

\* TailDigestAt reads the path again, after landing: the digest is of whatever is
\* there now, and empty when nothing is.
DigestNow(s, off) ==
    IF ~Present(s) THEN None ELSE IF file[s].len >= off THEN Content(s) ELSE Garbled(s)

\* Mutant: the offset is taken to be the size of the file.
CommittedSize(p) == [ino |-> chunk[p].ino, off |-> file[src[p]].len,
                     dig |-> Content(src[p]), state |-> "active"]

\* The cursor after a window: the identity that was read, the digest read anew.
Committed(p) ==
    LET k == chunk[p].part IN
    IF Appends(src[p])
    THEN [ino |-> chunk[p].ino, off |-> k.last, dig |-> DigestNow(src[p], k.last), state |-> "active"]
    ELSE [Cur(p) EXCEPT !.dig = <<k.src, k.gen>>, !.state = "active"]

\* Mutant: off by one.
DrainsLate(p) == chunk[p].more /\ rounds[p] <= MaxDrain

Drains(p) == chunk[p].more /\ rounds[p] < MaxDrain

\* The cursor is saved, and the drain loop goes on, ends, or gives up for this pass.
Commit(p) ==
    /\ pc[p] = "commit"
    /\ SetCursor(p, Committed(p))
    /\ dirty' = [dirty EXCEPT ![p] = TRUE]
    /\ IF Drains(p)
       THEN /\ rounds' = [rounds EXCEPT ![p] = @ + 1]
            /\ chunk' = [chunk EXCEPT ![p] = NoChunk]
            /\ pc' = [pc EXCEPT ![p] = "tail"]
            /\ UNCHANGED <<todo, src, report>>
       ELSE SourceDone(p, ~chunk[p].more)
    /\ UNCHANGED <<env, landed, ixFile, ixMark, nextFile, budgets, lock, goal,
                   claimed, next, ix, mark>>

\* The digest cannot be read or the cursor cannot be saved; an error from
\* collectSource hides that the window landed.
CommitFails(p) ==
    /\ pc[p] = "commit" /\ faults < MaxFaults
    /\ faults' = faults + 1
    /\ SourceDone(p, FALSE)
    /\ UNCHANGED <<env, zone, stops, drops, lock, goal, claimed, next, ix, mark, dirty>>
-----------------------------------------------------------------------------
(***************************************************************************)
(* The end of a pass: index, index.state, session.state, unlock.           *)
(***************************************************************************)

\* Mutant: off by one.
CoveredToNext(p) == next[p]

\* ixState.IndexedSeq at the end of a pass.
CoveredTo(p) == next[p] - 1

\* The index is written when something landed or was recovered.
WriteIndex(p) ==
    /\ pc[p] = "sources" /\ todo[p] = {} /\ dirty[p]
    /\ ixFile' = ix[p]
    /\ mark' = [mark EXCEPT ![p] = CoveredTo(p)]
    /\ pc' = [pc EXCEPT ![p] = "mark"]
    /\ UNCHANGED <<env, cursor, landed, ixMark, nextFile, budgets, lock, report, goal,
                   todo, claimed, src, rounds, chunk, next, ix, dirty>>

\* ... and its watermark after it.
SaveMark(p) ==
    /\ pc[p] = "mark"
    /\ ixMark' = mark[p]
    /\ pc' = [pc EXCEPT ![p] = "finish"]
    /\ UNCHANGED <<env, cursor, landed, ixFile, nextFile, budgets, lock, report, goal, mem>>

\* The memory of a pass is gone when it ends.
Forget(p) ==
    /\ lock' = None
    /\ pc' = [pc EXCEPT ![p] = "idle"]
    /\ todo' = [todo EXCEPT ![p] = {}]
    /\ claimed' = [claimed EXCEPT ![p] = {}]
    /\ src' = [src EXCEPT ![p] = None]
    /\ rounds' = [rounds EXCEPT ![p] = 0]
    /\ chunk' = [chunk EXCEPT ![p] = NoChunk]
    /\ next' = [next EXCEPT ![p] = 1]
    /\ ix' = [ix EXCEPT ![p] = <<>>]
    /\ mark' = [mark EXCEPT ![p] = 0]
    /\ dirty' = [dirty EXCEPT ![p] = FALSE]
    /\ goal' = [goal EXCEPT ![p] = NoFiles]

\* session.state is saved and the deferred unlock runs.
Finish(p) ==
    /\ \/ pc[p] = "finish"
       \/ pc[p] = "sources" /\ todo[p] = {} /\ ~dirty[p]
    /\ nextFile' = next[p]
    /\ report' = [report EXCEPT ![p] = IF @ = "none" THEN "complete" ELSE @]
    /\ Forget(p)
    /\ UNCHANGED <<env, cursor, landed, ixFile, ixMark, budgets>>

\* The process is killed, or the pass returns the error of a state file; the
\* kernel or the deferred unlock releases the lock.
Stop(p) ==
    /\ pc[p] # "idle" /\ stops < MaxStops
    /\ stops' = stops + 1
    /\ report' = [report EXCEPT ![p] = "incomplete"]
    /\ Forget(p)
    /\ UNCHANGED <<env, zone, faults, drops>>

Step(p) ==
    \/ Begin(p) \/ LoadState(p) \/ LoadIndex(p)
    \/ \E s \in Sources : Refuse(p, s) \/ Claim(p, s)
    \/ SkipConflicted(p) \/ MarkGone(p) \/ FlagConflict(p) \/ ReadNothing(p) \/ Read(p)
    \/ Land(p) \/ Commit(p)
    \/ WriteIndex(p) \/ SaveMark(p) \/ Finish(p)

Fault(p) == Busy(p) \/ TailFails(p) \/ LandFails(p) \/ CommitFails(p) \/ Stop(p)

Environment == DropIndex \/ \E s \in Sources : Grow(s) \/ Replace(s) \/ Rewrite(s) \/ Prune(s)

Next == Environment \/ \E p \in Procs : Step(p) \/ Fault(p)

Spec == Init /\ [][Next]_vars

\* Passes recur - the watch loop's next tick, or the operator's next `asz collect` -
\* and a pass that is running goes on.
LiveSpec == Spec /\ \A p \in Procs : WF_vars(Step(p))
-----------------------------------------------------------------------------
(***************************************************************************)
(* Properties.                                                             *)
(***************************************************************************)

PCs == {"idle", "load", "loaded", "sources", "tail", "land", "commit", "mark", "finish"}
Cursors == [ino: Ids \cup {None}, off: 0 .. MaxLines, dig: Ids \cup {None},
            state: {"active", "source_gone", "conflict"}]
Files == [Sources -> [ino: Ids \cup {None}, gen: Gens, len: 0 .. MaxLines]]
Parts == [seq: Nat \ {0}, src: Sources, gen: Gens, first: 1 .. MaxLines, last: 1 .. MaxLines]

\* The types of the durable files and of a pass's memory.
TypeOK ==
    /\ file \in Files
    /\ cursor \in [Paths -> Cursors]
    /\ landed \subseteq Parts
    /\ ixFile = NoIndex \/ ixFile \in Seq(Parts)
    /\ ixMark \in Nat \cup {NoMark}
    /\ nextFile \in Nat \ {0}
    /\ lock \in Procs \cup {None}
    /\ pc \in [Procs -> PCs]
    /\ todo \in [Procs -> SUBSET Sources]
    /\ claimed \in [Procs -> SUBSET Sources]
    /\ src \in [Procs -> Sources \cup {None}]
    /\ rounds \in [Procs -> 0 .. MaxDrain]
    /\ chunk \in [Procs -> [part: Parts, ino: Ids, more: BOOLEAN] \cup {NoChunk}]
    /\ next \in [Procs -> Nat \ {0}]
    /\ ix \in [Procs -> Seq(Parts)]
    /\ mark \in [Procs -> Nat \cup {NoMark}]
    /\ dirty \in [Procs -> BOOLEAN]
    /\ report \in [Procs -> {"none", "complete", "incomplete", "busy"}]
    /\ goal \in [Procs -> Files]
    /\ stops \in 0 .. MaxStops /\ faults \in 0 .. MaxFaults /\ drops \in 0 .. MaxDrops

Holds(f, n) == n \in f.first .. f.last
HasLanded(s, g, n) == \E f \in landed : f.src = s /\ f.gen = g /\ Holds(f, n)
Indexed(f) == ixFile # NoIndex /\ \E i \in DOMAIN ixFile : ixFile[i] = f

\* A file lands above everything landed before it, across collectors, crashes and
\* spent sequences: the assembler tracks progress with one watermark, so a file that
\* appeared under a passed sequence would never be read (state.go, RecoverNextSeq).
SequenceGrows == [][\A f \in landed' \ landed : \A g \in landed : g.seq < f.seq]_vars

\* Land before commit: whatever a cursor says was consumed is in a landed file, so an
\* interruption repeats records and never loses them (collect.go, landAppend).
CursorBacked ==
    \A c \in Paths : \A n \in 1 .. cursor[c].off :
        \E f \in landed : CursorOf[f.src] = c /\ Holds(f, n)

\* No seam: a landed window that does not start its file continues a window of the
\* same source and the same content that landed before it (verify.go reads a hole or a
\* foreign continuation as a fault of the stream).
Seamless ==
    \A f \in landed : f.first > 1 =>
        \E g \in landed : g.seq < f.seq /\ g.src = f.src /\ g.gen = f.gen /\ Holds(g, f.first - 1)

\* At-least-once, and no more often than something went wrong.
RepeatsBounded ==
    \A f \in landed : \A n \in f.first .. f.last :
        Cardinality({g \in landed : g.src = f.src /\ g.gen = f.gen /\ Holds(g, n)})
            <= 1 + stops + faults

\* index.state never claims a landed file that entries.bin does not hold, whatever was
\* interrupted between the cursors, the index and its state (collect.go, "Close any gap").
IndexCovers ==
    (ixFile # NoIndex /\ ixMark # NoMark) => \A f \in landed : f.seq <= ixMark => Indexed(f)

\* The index is derived from landed files: it refers to no row that did not land.
IndexDerived == ixFile # NoIndex => \A i \in DOMAIN ixFile : ixFile[i] \in landed

\* "Entries are held in landed order" (lookup.go), each landed file once.
IndexInLandedOrder ==
    ixFile # NoIndex =>
        \A i, j \in DOMAIN ixFile : i < j => ixFile[i].seq < ixFile[j].seq

\* "indexed_seq <= next_seq - 1" (indexstate.go), once a pass has recovered its counter.
WatermarkTrails ==
    \A p \in Procs : pc[p] \in {"sources", "tail", "land", "commit"} => mark[p] <= next[p] - 1

\* A conflict is sticky until resolved: the cursor stays as it was, and nothing more
\* lands behind it (collect.go, collectSource).
ConflictSticky ==
    [][\A c \in Paths : cursor[c].state = "conflict" =>
          /\ cursor'[c] = cursor[c]
          /\ \A f \in landed' \ landed : CursorOf[f.src] # c]_vars

\* Everything the sources held when a pass began, unless they changed underneath it.
Collected(seen) ==
    \A s \in Sources : \A n \in 1 .. seen[s].len :
        (file[s].gen = seen[s].gen /\ Present(s)) => HasLanded(s, seen[s].gen, n)

PassCompletes(p) == pc[p] # "idle" /\ pc'[p] = "idle" /\ report'[p] = "complete"

\* "Complete reports whether the pass collected everything available" (collect.go): a
\* pass that reports itself complete collected everything that was there when it began.
\* (A pass that was Busy collected nothing and is complete too; this is not about it.)
CompleteMeansCollected == [][\A p \in Procs : PassCompletes(p) => Collected(goal[p])]_vars

\* ... and leaves no landed file out of the index it wrote: a gap would be permanent,
\* because nothing lands again (collect.go, "Close any gap").
CompleteMeansIndexed ==
    [][\A p \in Procs : (PassCompletes(p) /\ ixFile # NoIndex) => \A f \in landed : Indexed(f)]_vars

\* The sources that have landed behind a cursor.
Landers(c) == {s \in Sources : CursorOf[s] = c /\ \E f \in landed : f.src = s}

\* "Two distinct sources must never share a landing directory" (collect.go): a cursor that
\* only append sources map to lets one of them land, across passes too, and one more only for
\* each time something went wrong between a landing and the cursor that is to remember it.
OneSourcePerPath ==
    \A c \in Paths :
        (\A s \in Sources : CursorOf[s] = c => Appends(s))
            => Cardinality(Landers(c)) <= 1 + stops + faults

\* While passes recur, every line of a source that is never replaced is landed and
\* indexed, unless the runtime prunes the file first.
EventuallyCollected ==
    \A s \in Sources, n \in 1 .. MaxLines :
        (file[s].gen = 1 /\ file[s].len >= n)
            ~> \/ file[s].gen # 1 \/ ~Present(s)
               \/ \E f \in landed : f.src = s /\ f.gen = 1 /\ Holds(f, n) /\ Indexed(f)
=============================================================================
