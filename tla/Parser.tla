------------------------------- MODULE Parser -------------------------------
(***************************************************************************)
(* Parsing one session into its conversation: internal/parse over the      *)
(* round chain of pkg/sessionflow.                                         *)
(*                                                                         *)
(* Builders - `asz parse` processes - read the index and its watermark     *)
(* while a collector may be writing both, take the chain's lock, fold the  *)
(* rounds on disk, assemble the session, and publish the difference as one *)
(* more round.  The assembly is a function of the evidence it reads, given *)
(* as a constant: what it computes never changes what a builder does.      *)
(*                                                                         *)
(* A round is its own digest, and a digest prefix in a file name is the    *)
(* whole of it: rounds that differ have different names.                   *)
(***************************************************************************)
EXTENDS Landing, Fold, Sequences

CONSTANTS
    Builders,       \* processes that may parse at the same time
    Policies,       \* what a builder's settings may amount to
    Assembled(_),   \* what assembling a set of landed files gives
    Reindexes,      \* Options.Reindex is given: a missing index is rebuilt
    NoRound,        \* the digest before the first round
    MaxStops,       \* bound: passes and builders that are interrupted
    MaxFaults       \* bound: rounds whose write fails

ASSUME ParserAssumption ==
    /\ None \notin Builders
    /\ Reindexes \in BOOLEAN
    /\ MaxStops \in Nat /\ MaxFaults \in Nat
    /\ \A S \in SUBSET Seqs : Assembled(S) \in Assemblies

VARIABLES
    files,      \* the rounds whose files are listed
    cut,        \* those not written to their end
    head,       \* conversation.state: the round head_digest names
    holder,     \* the builder that holds the chain's lock
    at,         \* where a builder is
    policy,     \* the policy of its settings
    read,       \* the landed files of the index it loaded
    through,    \* its watermark
    draft,      \* the round it is about to publish
    stops, faults

chain    == <<files, cut, head, holder>>
building == <<at, policy, read, through, draft>>
vars == <<landed, entries, indexed, stage, loaded, ix, drops,
          files, cut, head, holder, at, policy, read, through, draft, stops, faults>>

Init ==
    /\ LandingInit
    /\ files = {} /\ cut = {}
    /\ head = NoRound
    /\ holder = None
    /\ at = [b \in Builders |-> "idle"]
    /\ policy = [b \in Builders |-> None]
    /\ read = [b \in Builders |-> {}]
    /\ through = [b \in Builders |-> 0]
    /\ draft = [b \in Builders |-> NoRound]
    /\ stops = 0 /\ faults = 0
-----------------------------------------------------------------------------
(***************************************************************************)
(* The chain on disk.                                                      *)
(***************************************************************************)

\* Chain.Head: the highest round number listed, whatever its file holds.
HeadRound == Last({f.round : f \in files})

\* The last round listed, and what a round continues: nothing, or that one.
Newest == IF files = {} THEN NoRound ELSE CHOOSE f \in files : f.round = HeadRound
Genesis == [round |-> 0, through |-> 0, input |-> <<>>]
Tip == IF files = {} THEN Genesis ELSE Newest

\* Chain.Fold succeeds: every file is whole, the numbers run from 1 without a gap or a
\* fork, and each round names its predecessor and keeps its policy (View.Apply).
Folds ==
    /\ cut = {}
    /\ {f.round : f \in files} = 1 .. Cardinality(files)
    /\ \A f, g \in files : g.round = f.round + 1 => g.previous = f /\ g.policy = f.policy

RoundAt(rounds, n) == CHOOSE f \in rounds : f.round = n

\* The deltas of rounds 1 to n applied in order to the empty view.
FoldOf(rounds, n) ==
    LET upTo[k \in 0 .. n] ==
            IF k = 0 THEN EmptyView ELSE Apply(upTo[k - 1], RoundAt(rounds, k).delta)
    IN  upTo[n]

\* The view.
Folded == FoldOf(files, HeadRound)
-----------------------------------------------------------------------------
(***************************************************************************)
(* Reading the index, before any lock.                                     *)
(***************************************************************************)
Goes(b, place) == at' = [at EXCEPT ![b] = place]

\* index.Load finds entries.bin.  Each run of the command has settings of its own.
Load(b) ==
    /\ at[b] = "idle" /\ entries # None
    /\ read' = [read EXCEPT ![b] = entries]
    /\ \E p \in Policies : policy' = [policy EXCEPT ![b] = p]
    /\ Goes(b, "loaded")
    /\ UNCHANGED <<landingVars, chain, through, draft, stops, faults>>

\* It is missing: the landed files are read instead, if there are any ...
Rebuild(b) ==
    /\ at[b] = "idle" /\ entries = None /\ Reindexes /\ landed # {}
    /\ read' = [read EXCEPT ![b] = landed]
    /\ \E p \in Policies : policy' = [policy EXCEPT ![b] = p]
    /\ Goes(b, "rebuilt")
    /\ UNCHANGED <<landingVars, chain, through, draft, stops, faults>>

\* ... and the index is written back, without the session's lock ...
WriteRebuilt(b) ==
    /\ at[b] = "rebuilt"
    /\ entries' = read[b]
    /\ Goes(b, "rewritten")
    /\ UNCHANGED <<landed, indexed, passVars, drops, chain,
                   policy, read, through, draft, stops, faults>>

\* ... its watermark after it.
SaveRebuilt(b) ==
    /\ at[b] = "rewritten"
    /\ indexed' = Last(read[b])
    /\ Goes(b, "loaded")
    /\ UNCHANGED <<landed, entries, passVars, drops, chain,
                   policy, read, through, draft, stops, faults>>

\* Mutant: a missing index.state is taken as it is.
WatermarkAsIs(b) == indexed

\* Mutant: the watermark is what has landed.
WatermarkLanded(b) == Last(landed)

\* The watermark of index.state; without one, the highest sequence of the entries.
Watermark(b) == IF indexed \in {NoMark, 0} THEN Last(read[b]) ELSE indexed

ReadWatermark(b) ==
    /\ at[b] = "loaded"
    /\ through' = [through EXCEPT ![b] = Watermark(b)]
    /\ Goes(b, "lock")
    /\ UNCHANGED <<landingVars, chain, policy, read, draft, stops, faults>>
-----------------------------------------------------------------------------
(***************************************************************************)
(* Building a round under the chain's lock.                                *)
(***************************************************************************)

\* Session returns, with or without a round: the deferred unlock runs.
Returns(b) ==
    /\ Goes(b, "idle")
    /\ read' = [read EXCEPT ![b] = {}]
    /\ through' = [through EXCEPT ![b] = 0]
    /\ draft' = [draft EXCEPT ![b] = NoRound]
    /\ holder' = IF holder = b THEN None ELSE holder
    /\ policy' = [policy EXCEPT ![b] = None]
    /\ UNCHANGED landingVars

\* Mutant: no lock.
ChainOpen == TRUE

\* LockChain does not wait.
ChainFree == holder = None

Lock(b) ==
    /\ at[b] = "lock" /\ ChainFree
    /\ holder' = b
    /\ Goes(b, "build")
    /\ UNCHANGED <<landingVars, files, cut, head, policy, read, through, draft, stops, faults>>

ChainBusy(b) ==
    /\ at[b] = "lock" /\ ~ChainFree
    /\ Returns(b)
    /\ UNCHANGED <<files, cut, head, stops, faults>>

\* Mutant: the evidence is whatever the index held.
EvidenceUnbounded(b) == read[b]

\* What the assembly reads: the index as loaded, bounded by the watermark.
Evidence(b) == {n \in read[b] : n <= through[b]}

Difference(b) == Diff(Folded, Assembled(Evidence(b)))

\* Mutant: an index that reaches no further than the chain is refused.
RefusedAtHead(b) ==
    \/ ~Folds
    \/ files # {} /\ (Newest.policy # policy[b] \/ through[b] <= Tip.through)

\* The chain cannot be folded, was built under another policy, or is ahead of the index.
Refused(b) ==
    \/ ~Folds
    \/ files # {} /\ Newest.policy # policy[b]
    \/ through[b] < Tip.through

\* Nothing new arrived, and nothing changed.
Unchanged(b) == IsEmpty(Difference(b)) /\ through[b] <= Tip.through

GiveUp(b) ==
    /\ at[b] = "build" /\ (Refused(b) \/ Unchanged(b))
    /\ Returns(b)
    /\ UNCHANGED <<files, cut, head, stops, faults>>

\* Mutant: the last file consumed is consumed again.
ConsumedAgain(from, to) == {n \in landed : from <= n /\ n <= to}

\* inputDigestFor: the landed files above the chain's watermark up to this round's, as
\* the directory lists them now.
Consumed(from, to) == {n \in landed : from < n /\ n <= to}

\* The header and the delta of the next round.
NextRound(b) ==
    [round |-> Tip.round + 1, previous |-> Newest,
     from |-> Tip.through + 1, through |-> through[b],
     input |-> Append(Tip.input, Consumed(Tip.through, through[b])),
     policy |-> policy[b], delta |-> Difference(b)]

Build(b) ==
    /\ at[b] = "build" /\ ~Refused(b) /\ ~Unchanged(b)
    /\ draft' = [draft EXCEPT ![b] = NextRound(b)]
    /\ Goes(b, "publish")
    /\ UNCHANGED <<landingVars, chain, policy, read, through, stops, faults>>

\* Publish rechecks the head ...
CheckHead(b) ==
    /\ at[b] = "publish"
    /\ IF HeadRound + 1 = draft[b].round
       THEN Goes(b, "create") /\ UNCHANGED <<landingVars, holder, policy, read, through, draft>>
       ELSE Returns(b)
    /\ UNCHANGED <<files, cut, head, stops, faults>>

\* ... and WriteExclusive creates the file, empty, under its final name ...
Create(b) ==
    /\ at[b] = "create"
    /\ IF draft[b] \notin files
       THEN /\ files' = files \cup {draft[b]} /\ cut' = cut \cup {draft[b]}
            /\ Goes(b, "write")
            /\ UNCHANGED <<landingVars, holder, policy, read, through, draft>>
       ELSE Returns(b) /\ UNCHANGED <<files, cut>>
    /\ UNCHANGED <<head, stops, faults>>

\* ... writes it ...
Write(b) ==
    /\ at[b] = "write"
    /\ cut' = cut \ {draft[b]}
    /\ Goes(b, "seal")
    /\ UNCHANGED <<landingVars, files, head, holder, policy, read, through, draft, stops, faults>>

\* ... and makes it read-only.
Seal(b) ==
    /\ at[b] = "seal"
    /\ Goes(b, "state")
    /\ UNCHANGED <<landingVars, chain, policy, read, through, draft, stops, faults>>

\* Writing, syncing or sealing the file fails: it is removed again.
WriteFails(b) ==
    /\ at[b] \in {"write", "seal"} /\ faults < MaxFaults
    /\ faults' = faults + 1
    /\ files' = files \ {draft[b]} /\ cut' = cut \ {draft[b]}
    /\ Returns(b)
    /\ UNCHANGED <<head, stops>>

\* Mutant: the state is saved first.
PlacedEarly(b) == at[b] \in {"publish", "state"}

\* The round is on disk.
Placed(b) == at[b] = "state"

SaveState(b) ==
    /\ Placed(b)
    /\ head' = draft[b]
    /\ Returns(b)
    /\ UNCHANGED <<files, cut, stops, faults>>

\* The process is killed; or an error outside the write of the round is returned.  A file
\* that was being written stays as it is.
Stop(b) ==
    /\ at[b] # "idle" /\ stops < MaxStops
    /\ stops' = stops + 1
    /\ Returns(b)
    /\ UNCHANGED <<files, cut, head, faults>>

Step(b) ==
    \/ Load(b) \/ Rebuild(b) \/ WriteRebuilt(b) \/ SaveRebuilt(b) \/ ReadWatermark(b)
    \/ Lock(b) \/ ChainBusy(b) \/ GiveUp(b) \/ Build(b)
    \/ CheckHead(b) \/ Create(b) \/ Write(b) \/ Seal(b) \/ SaveState(b)

\* The collector's pass goes on, or is interrupted; the index directory is deleted.
Collects == Collecting /\ UNCHANGED <<chain, building, stops, faults>>

Interrupted ==
    /\ BreakOff
    /\ stops < MaxStops /\ stops' = stops + 1
    /\ UNCHANGED <<chain, building, faults>>

Drops == DropEntries /\ UNCHANGED <<chain, building, stops, faults>>

Next ==
    \/ Collects \/ Interrupted \/ Drops
    \/ \E b \in Builders : Step(b) \/ WriteFails(b) \/ Stop(b)

Spec == Init /\ [][Next]_vars

\* `asz collect` and `asz parse` are run again and again, and a run that can go on does.
LiveSpec == Spec /\ WF_vars(Collects) /\ \A b \in Builders : WF_vars(Step(b))
-----------------------------------------------------------------------------
(***************************************************************************)
(* Properties.                                                             *)
(***************************************************************************)
Places == {"idle", "rebuilt", "rewritten", "loaded", "lock", "build", "publish", "create",
           "write", "seal", "state"}

IsRound(r) ==
    /\ r.round \in Nat \ {0} /\ r.from \in Nat \ {0} /\ r.through \in Nat
    /\ r.input \in Seq(SUBSET Seqs)
    /\ r.policy \in Policies /\ r.delta \in Deltas

\* The types of the chain's files and of a builder's memory.
TypeOK ==
    /\ landed \subseteq Seqs
    /\ entries = None \/ entries \subseteq Seqs
    /\ indexed \in Nat \cup {NoMark}
    /\ stage \in {"idle", "begun", "clean", "dirty", "written", "saved"}
    /\ \A f \in files : IsRound(f)
    /\ cut \subseteq files
    /\ head = NoRound \/ IsRound(head)
    /\ holder \in Builders \cup {None}
    /\ at \in [Builders -> Places]
    /\ policy \in [Builders -> Policies \cup {None}]
    /\ read \in [Builders -> SUBSET Seqs]
    /\ through \in [Builders -> Nat]
    /\ \A b \in Builders : draft[b] = NoRound \/ IsRound(draft[b])

\* The rounds that stay: written, and not about to be removed by their own builder.
Settled == files \ (cut \cup {draft[b] : b \in {c \in Builders : at[c] = "seal"}})

\* The rounds are an append-only chain: no fork, no gap, no rewritten round, each continuing
\* the one before it under one policy, whichever builder dies or fails where
\* (chain.go, Publish and Verify).
Log == INSTANCE ChainLog WITH rounds <- Settled
ChainIsLog == Log!Spec

\* A round's input digest covers every landed file of the range its header claims, and no
\* other, however long ago it was taken (parse.go, inputDigestFor).
InputBinds ==
    \A f \in files :
        f.input[Len(f.input)] = {n \in landed : f.from <= n /\ n <= f.through}

\* The state file never names a round that is not on disk (parse.go, "State is saved after
\* the round is on disk").
StateNamesRound == head # NoRound => head \in files \ cut

\* A chain that folds says what the builder of its last round assembled: diffs written by
\* different builders at different times compose (fold.go, "the whole definition").
PublishesTheAssembly ==
    [][\A b \in Builders :
          at[b] = "write" /\ at'[b] = "seal" =>
              Folds' /\ Says(Folded', Assembled({n \in read[b] : n <= draft[b].through}))]_vars

\* "fold(rounds 1..N) == full parse of landed evidence 1..through_seq" (design-notes/02).
FoldIsFullParse ==
    Folds => Says(Folded, Assembled({n \in landed : n <= Tip.through}))

\* A builder was killed inside WriteExclusive: the file it left stops the chain.
CutShort == \E f \in cut : \A b \in Builders : draft[b] # f

\* While collection and parsing recur, the conversation comes to say what all the evidence
\* says, unless a crash cut a round short.
EventuallyFullParse ==
    <>[](CutShort \/ (/\ Folds
                      /\ Tip.through = Last(landed)
                      /\ Says(Folded, Assembled(landed))))
=============================================================================
