------------------------------ MODULE Landing ------------------------------
(***************************************************************************)
(* What collection promises the rest of the system about one session's     *)
(* landing zone: evidence lands in sequence and stays, and the index is    *)
(* carried forward by one pass at a time, entries first and watermark      *)
(* second.  Which sources the evidence comes from is left out.             *)
(*                                                                         *)
(* Collector implements this; Parser runs beside it.                       *)
(***************************************************************************)
EXTENDS Integers, FiniteSets

CONSTANTS
    Seqs,       \* bound: sequences that may land
    MaxDrops,   \* bound: deletions of the index directory
    None        \* no entries.bin, or no pass

ASSUME LandingAssumption == Seqs \subseteq Nat \ {0} /\ MaxDrops \in Nat

VARIABLES
    landed,     \* sequences of the landed files
    entries,    \* entries.bin: the sequences whose rows it holds, or None
    indexed,    \* index.state: indexed_seq, or NoMark
    stage,      \* of the pass under way
    loaded,     \* the indexed_seq that pass read, then wrote
    ix,         \* the index it holds in memory
    drops

zoneFiles == <<landed, entries, indexed>>
passVars  == <<stage, loaded, ix>>
landingVars == <<landed, entries, indexed, stage, loaded, ix, drops>>

NoMark == -1
Last(S) == IF S = {} THEN 0 ELSE CHOOSE n \in S : \A m \in S : m <= n
Above(n) == {m \in landed : m > n}

NoPass == stage = "idle" /\ loaded = NoMark /\ ix = {}
NoPassNext == stage' = "idle" /\ loaded' = NoMark /\ ix' = {}

LandingInit ==
    /\ landed = {}
    /\ entries = None /\ indexed = NoMark
    /\ NoPass
    /\ drops = 0
-----------------------------------------------------------------------------
\* A pass takes the session's lock and reads the watermark.
BeginPass ==
    /\ stage = "idle"
    /\ stage' = "begun"
    /\ loaded' = indexed
    /\ UNCHANGED <<zoneFiles, ix, drops>>

\* It loads the index and adds the landed files above the watermark, or all of them.
LoadEntries ==
    /\ stage = "begun"
    /\ LET usable == loaded # NoMark /\ entries # None
           from   == IF usable THEN loaded ELSE 0
       IN  /\ ix' = (IF usable THEN entries ELSE {}) \cup Above(from)
           /\ loaded' = Last(landed \cup {from})
           /\ stage' = IF Above(from) # {} THEN "dirty" ELSE "clean"
    /\ UNCHANGED <<zoneFiles, drops>>

\* A window lands under the next sequence, and its rows are indexed in memory.
LandNext ==
    LET n == Last(landed) + 1 IN
    /\ stage \in {"clean", "dirty"} /\ n \in Seqs
    /\ landed' = landed \cup {n}
    /\ ix' = ix \cup {n}
    /\ stage' = "dirty"
    /\ UNCHANGED <<entries, indexed, loaded, drops>>

\* The index is written, and its watermark after it.
WriteEntries ==
    /\ stage = "dirty"
    /\ entries' = ix
    /\ loaded' = Last(landed)
    /\ stage' = "written"
    /\ UNCHANGED <<landed, indexed, ix, drops>>

SaveIndexed ==
    /\ stage = "written"
    /\ indexed' = loaded
    /\ stage' = "saved"
    /\ UNCHANGED <<landed, entries, loaded, ix, drops>>

\* The pass ends, or is interrupted anywhere: its memory is gone.
EndPass ==
    /\ stage \in {"clean", "saved"}
    /\ NoPassNext
    /\ UNCHANGED <<zoneFiles, drops>>

BreakOff ==
    /\ stage \notin {"idle", "clean", "saved"}
    /\ NoPassNext
    /\ UNCHANGED <<zoneFiles, drops>>

DropEntries ==
    /\ drops < MaxDrops /\ drops' = drops + 1
    /\ entries # None
    /\ entries' = None /\ indexed' = NoMark
    /\ UNCHANGED <<landed, passVars>>

Collecting == BeginPass \/ LoadEntries \/ LandNext \/ WriteEntries \/ SaveIndexed \/ EndPass

LandingNext == Collecting \/ BreakOff \/ DropEntries

LandingSpec == LandingInit /\ [][LandingNext]_landingVars
=============================================================================
