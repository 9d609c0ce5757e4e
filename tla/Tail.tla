-------------------------------- MODULE Tail --------------------------------
(***************************************************************************)
(* The tail reader at the granularity of its system calls:                 *)
(* internal/adapters/claudecode/tail.go, with the landing and the cursor   *)
(* of one append source around it (collect.go, landAppend).                *)
(*                                                                         *)
(* TailAppend looks at the source five times - stat, open, the digest      *)
(* behind the cursor, the window, and the digest after landing - and the   *)
(* runtime may append half a line, rename another file over the path or    *)
(* remove it between any two.  Collector takes the read for one step; this *)
(* module is what that step consists of.                                   *)
(*                                                                         *)
(* A file is a sequence of cells: NL, or a byte that carries the number of *)
(* the content it belongs to.  Two contents therefore differ in every      *)
(* window that holds a byte of a line, as transcripts do, whose lines      *)
(* carry ids and times.                                                    *)
(***************************************************************************)
EXTENDS Integers, FiniteSets, FiniteSetsExt, Sequences, SequencesExt

CONSTANTS
    Inodes,       \* inodes of the directory's file system
    None,         \* no inode or digest
    Budget,       \* bytes one window may hold (maxBytes)
    TailWindow,   \* bytes a digest covers (storage.TailWindow)
    MaxBytes,     \* bound: bytes of one file
    MaxContents   \* bound: contents the path ever has

NL   == 0         \* the newline
Pad  == -1        \* a byte of the buffer that no read filled
Contents == 1 .. MaxContents
Sizes    == 0 .. MaxBytes

\* What a digest can be of: the bytes behind an offset.
Digests == UNION {[1 .. n -> Contents \cup {NL, Pad}] : n \in 0 .. TailWindow}

ASSUME TailAssumption ==
    /\ None \notin Inodes \cup Digests
    /\ Budget \in Nat \ {0}
    /\ TailWindow \in Nat \ {0, 1}    \* a line and its newline are at least two bytes
    /\ MaxBytes \in Nat /\ MaxContents \in Nat \ {0}

VARIABLES
    text,     \* content -> its bytes
    disk,     \* inode -> the content it holds, 0 when none
    name,     \* the inode the path leads to, or None
    born,     \* contents there have been
    cursor,   \* the durable cursor: [ino, off, ord, dig, state]
    landed,   \* the records landed: [ord, off, body]
    pc,       \* where the reader is
    seen,     \* what stat said: [ino, size]
    handle,   \* the inode the open file is
    chunk     \* what was read and not yet committed: [off, ord]

source == <<text, disk, name, born>>
memory == <<seen, handle, chunk>>
vars   == <<text, disk, name, born, cursor, landed, pc, seen, handle, chunk>>

\* Texts of content g: no empty line, the last line possibly unfinished.
Texts(g) ==
    {t \in UNION {[1 .. n -> {g, NL}] : n \in Sizes} :
        \A i \in DOMAIN t : t[i] = NL => i > 1 /\ t[i - 1] # NL}

Bytes(i) == IF disk[i] = 0 THEN <<>> ELSE text[disk[i]]
Nothing  == [off |-> 0, ord |-> 0]
Unseen   == [ino |-> None, size |-> 0]

Init ==
    /\ text = [g \in Contents |-> <<>>]
    /\ disk = [i \in Inodes |-> 0]
    /\ name = None /\ born = 0
    /\ cursor = [ino |-> None, off |-> 0, ord |-> 0, dig |-> None, state |-> "active"]
    /\ landed = {}
    /\ pc = "idle" /\ seen = Unseen /\ handle = None /\ chunk = Nothing
-----------------------------------------------------------------------------
(***************************************************************************)
(* The runtime.                                                            *)
(***************************************************************************)

\* A write call appends one byte: a line is complete only with its newline.
AppendByte ==
    /\ name # None
    /\ LET g == disk[name] IN
       /\ Len(text[g]) < MaxBytes
       /\ \E b \in {g, NL} :
             /\ Append(text[g], b) \in Texts(g)
             /\ text' = [text EXCEPT ![g] = Append(@, b)]
    /\ UNCHANGED <<disk, name, born, cursor, landed, pc, memory>>

\* A new file appears at the path, possibly over another.
CreateFile ==
    /\ born < MaxContents /\ born' = born + 1
    /\ \E i \in {j \in Inodes : disk[j] = 0}, t \in Texts(born + 1) :
          /\ name' = i
          /\ disk' = [disk EXCEPT ![i] = born + 1]
          /\ text' = [text EXCEPT ![born + 1] = t]
    /\ UNCHANGED <<cursor, landed, pc, memory>>

RemoveFile ==
    /\ name # None /\ name' = None
    /\ UNCHANGED <<text, disk, born, cursor, landed, pc, memory>>
-----------------------------------------------------------------------------
(***************************************************************************)
(* The reader.                                                             *)
(***************************************************************************)

\* The last step of an attempt; what it held is forgotten.
Leaves ==
    /\ pc' = "idle"
    /\ seen' = Unseen /\ handle' = None /\ chunk' = Nothing

Gone ==
    /\ cursor' = [cursor EXCEPT !.state = "source_gone"]
    /\ Leaves /\ UNCHANGED <<source, landed>>

Conflicts ==
    /\ cursor' = [cursor EXCEPT !.state = "conflict"]
    /\ Leaves /\ UNCHANGED <<source, landed>>

Fresh == cursor.ino = None /\ cursor.off = 0

\* The identity and size of a stat against the cursor.
AnotherFile(st) ==
    ~Fresh /\ (\/ cursor.ino # None /\ st.ino # cursor.ino
               \/ st.size < cursor.off)

\* A conflict is sticky: collectSource does not look at the source again.
SkipConflicted ==
    /\ pc = "idle" /\ cursor.state = "conflict"
    /\ UNCHANGED vars

\* The identity the next pass compares is that of this stat, not of the open file.
Stat ==
    /\ pc = "idle" /\ cursor.state # "conflict"
    /\ IF name = None THEN Gone
       ELSE LET st == [ino |-> name, size |-> Len(Bytes(name))] IN
            IF AnotherFile(st) THEN Conflicts
            ELSE /\ seen' = st
                 /\ pc' = "stated"
                 /\ UNCHANGED <<source, cursor, landed, handle, chunk>>

\* The file is opened by its path, which may lead elsewhere by now.  A size equal to
\* the offset ends the attempt before the digest is looked at.
Open ==
    /\ pc = "stated"
    /\ \/ name = None /\ Gone
       \/ /\ name # None /\ seen.size = cursor.off
          /\ Leaves /\ UNCHANGED <<source, cursor, landed>>
       \/ /\ name # None /\ seen.size # cursor.off
          /\ handle' = name
          /\ pc' = "opened"
          /\ UNCHANGED <<source, cursor, landed, seen, chunk>>

\* tailDigest: the buffer behind the offset, whatever of it the file filled.
Digest(i, off) ==
    LET from == IF off > TailWindow THEN off - TailWindow ELSE 0
    IN  [k \in 1 .. off - from |->
            IF from + k <= Len(Bytes(i)) THEN Bytes(i)[from + k] ELSE Pad]

\* Mutant: the digest is not compared.
Trusted == FALSE

\* The bytes behind the cursor are not those it consumed.
Rewritten == ~Fresh /\ cursor.dig # None /\ Digest(handle, cursor.off) # cursor.dig

Verify ==
    /\ pc = "opened"
    /\ IF Rewritten THEN Conflicts
       ELSE pc' = "verified" /\ UNCHANGED <<source, cursor, landed, memory>>

\* readWindow: the bytes from the offset to the size that stat saw, or to the budget.
ReadWindow(budget) ==
    LET to == IF budget > 0 /\ seen.size > cursor.off + budget
              THEN cursor.off + budget ELSE seen.size
    IN  SubSeq(Bytes(handle), cursor.off + 1, Min({to, Len(Bytes(handle))}))

Breaks(b) == {i \in DOMAIN b : b[i] = NL}
LastBreak(b) == SelectLastInSeq(b, LAMBDA c : c = NL)

\* Mutant: a line larger than the budget is left for later.
NeverGrown(b) == FALSE

\* A full window without a line's end, and more file beyond it.
LineOverBudget(b) ==
    Breaks(b) = {} /\ Len(b) >= Budget /\ cursor.off + Len(b) < seen.size

\* Mutant: everything in the window is taken, its unfinished line too.
TakesAll(b) == {i \in DOMAIN b : b[i] = NL \/ i = Len(b)}

\* Where the lines end that this window holds: an unfinished one is left for the next.
LineEnds(b) == Breaks(b)

Lines(b) ==
    {LET start == SelectLastInSubSeq(b, 1, e - 1, LAMBDA c : c = NL) + 1
     IN  [ord |-> cursor.ord + Cardinality({k \in LineEnds(b) : k <= e}),
          off |-> cursor.off + start - 1,
          body |-> SubSeq(b, start, e)] : e \in LineEnds(b)}

\* The complete lines of the window land; a window with none ends the attempt.
LandLines(b) ==
    IF LineEnds(b) = {} THEN Leaves /\ UNCHANGED <<source, cursor, landed>>
    ELSE /\ landed' = landed \cup Lines(b)
         /\ chunk' = [off |-> cursor.off + Len(b) - Len(SubSeq(b, LastBreak(b) + 1, Len(b))),
                      ord |-> cursor.ord + Cardinality(LineEnds(b))]
         /\ pc' = "landed"
         /\ UNCHANGED <<source, cursor, seen, handle>>

Read ==
    /\ pc = "verified"
    /\ IF LineOverBudget(ReadWindow(Budget))
       THEN pc' = "growing" /\ UNCHANGED <<source, cursor, landed, memory>>
       ELSE LandLines(ReadWindow(Budget))

\* The budget bounds throughput, not the record: the window is read again, to the end.
ReadGrown ==
    /\ pc = "growing"
    /\ LandLines(ReadWindow(0))

\* Mutant: the digest is that of the bytes before the end of the file.
DigestOfEnd == IF name = None THEN None ELSE Digest(name, Len(Bytes(name)))

\* TailDigestAt: by its path again, whatever is there now.
DigestAfter == IF name = None THEN None ELSE Digest(name, chunk.off)

Commit ==
    /\ pc = "landed"
    /\ cursor' = [ino |-> seen.ino, off |-> chunk.off, ord |-> chunk.ord,
                  dig |-> DigestAfter, state |-> "active"]
    /\ Leaves /\ UNCHANGED <<source, landed>>

Runtime == AppendByte \/ CreateFile \/ RemoveFile
Reader  == SkipConflicted \/ Stat \/ Open \/ Verify \/ Read \/ ReadGrown \/ Commit

Next == Runtime \/ Reader

Spec == Init /\ [][Next]_vars

\* An attempt that is under way goes on, and attempts recur.
LiveSpec == Spec /\ WF_vars(Reader)
-----------------------------------------------------------------------------
(***************************************************************************)
(* Properties.                                                             *)
(***************************************************************************)

\* The complete lines of content g within its first n bytes, each at its position.
LinesWithin(g, n) ==
    LET t == text[g] IN
    {LET start == SelectLastInSubSeq(t, 1, e - 1, LAMBDA c : c = NL) + 1
     IN  [ord |-> Cardinality({k \in Breaks(t) : k <= e}),
          off |-> start - 1,
          body |-> SubSeq(t, start, e)] : e \in {k \in Breaks(t) : k <= n}}

\* What has landed is the beginning of one content, line by line, with nothing torn,
\* skipped, repeated or spliced: "collection stops rather than resuming from a position
\* that no longer means what it did" (ConflictError).
LandsAPrefix == \E g \in Contents, n \in Sizes : landed = LinesWithin(g, n)

\* A conflict says that the source changed underneath the cursor: a file that was only
\* ever appended to, whenever the reader looked at it, is never taken for a changed one
\* - the source would be given up for good.
ConflictIsReal == cursor.state = "conflict" => born > 1

\* A complete line is landed, however long: "reading only the budget would stall this
\* source forever, silently, with no error" (TailAppend).
EventuallyRead ==
    \A n \in Sizes \ {0} :
        (name # None /\ born = 1 /\ n \in Breaks(text[1]))
            ~> (name = None \/ born > 1 \/ cursor.off >= n)
=============================================================================
