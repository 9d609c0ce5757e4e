---------------------------- MODULE ParserProofs ----------------------------
(***************************************************************************)
(* Proofs about Parser, for every set of builders, policies and assembly,  *)
(* and every bound.                                                        *)
(***************************************************************************)
EXTENDS Parser, FiniteSetTheorems, SequenceTheorems, WellFoundedInduction, TLAPS

(***************************************************************************)
(* The highest of a bounded set of sequences.                              *)
(***************************************************************************)

\* Last of a bounded set is its maximum.
LEMMA LastIsMax ==
    ASSUME NEW S \in SUBSET Nat, NEW k \in Nat, \A m \in S : m <= k
    PROVE  /\ Last(S) \in Nat
           /\ \A m \in S : m <= Last(S)
           /\ S # {} => Last(S) \in S
<1>1. CASE S = {}
  BY <1>1 DEF Last
<1>2. CASE S # {}
  <2> DEFINE B == {n \in Nat : \A m \in S : m <= n}
  <2>1. PICK x \in B : \A y \in B : ~ (<<y, x>> \in OpToRel(<, Nat))
    <3>1. B \subseteq Nat /\ B # {}
      OBVIOUS
    <3> HIDE DEF B
    <3> QED BY <3>1, NatLessThanWellFounded, WFMin
  <2>2. \A y \in B : ~(y < x)
    <3> TAKE y \in B
    <3>1. x \in Nat /\ y \in Nat
      OBVIOUS
    <3>2. y < x => <<y, x>> \in OpToRel(<, Nat)
      <4> HIDE DEF B
      <4> QED BY <3>1 DEF OpToRel
    <3> QED BY <2>1, <3>2
  <2>3. x \in S
    <3> SUFFICES ASSUME x \notin S PROVE FALSE
      OBVIOUS
    <3>1. \A m \in S : m <= x - 1
      OBVIOUS
    <3>2. PICK m \in S : m <= x - 1
      BY <3>1, <1>2
    <3>3. x - 1 \in Nat
      BY <3>2
    <3> QED BY <3>1, <3>3, <2>2
  <2>4. \E n \in S : \A m \in S : m <= n
    BY <2>3
  <2> QED BY <1>2, <2>4 DEF Last
<1> QED BY <1>1, <1>2

LEMMA LastIs ==
    ASSUME NEW S \in SUBSET Nat, NEW k \in Nat, k \in S, \A m \in S : m <= k
    PROVE  Last(S) = k
<1>1. PICK n \in Nat : n = Last(S)
  BY LastIsMax
<1>2. n \in S /\ \A m \in S : m <= n
  BY <1>1, LastIsMax
<1>3. n <= k /\ k <= n
  BY <1>2
<1>4. n = k
  BY <1>3
<1> QED BY <1>1, <1>4

\* The highest sequence of a bounded set is no higher than that of a set that holds it.
LEMMA LastOfPart ==
    ASSUME NEW S \in SUBSET Nat, NEW T \in SUBSET S, NEW k \in Nat, \A m \in S : m <= k
    PROVE  Last(T) \in 0 .. Last(S)
<1>1. T \in SUBSET Nat /\ \A m \in T : m <= k
  OBVIOUS
<1>2. Last(T) \in Nat /\ (T # {} => Last(T) \in T)
  BY <1>1, LastIsMax
<1>3. Last(S) \in Nat /\ \A m \in S : m <= Last(S)
  BY LastIsMax
<1>4. T = {} => Last(T) = 0
  BY DEF Last
<1> QED BY <1>2, <1>3, <1>4

\* The highest number of an unbroken run of rounds is how many there are.
LEMMA LastOfInterval ==
    ASSUME NEW n \in Nat
    PROVE  Last(1 .. n) = n
<1>1. CASE n = 0
  BY <1>1 DEF Last
<1>2. CASE n # 0
  <2>1. 1 .. n \in SUBSET Nat /\ n \in 1 .. n /\ \A m \in 1 .. n : m <= n
    BY <1>2
  <2> QED BY <2>1, LastIs
<1> QED BY <1>1, <1>2
-----------------------------------------------------------------------------
(***************************************************************************)
(* The landing zone: nothing refers beyond what has landed.                *)
(***************************************************************************)
Top == Last(landed)

ZoneBounded ==
    /\ landed \subseteq Nat \ {0}
    /\ Top \in Nat /\ \A n \in landed : n <= Top
    /\ entries = None \/ entries \subseteq landed
    /\ indexed \in {NoMark} \cup 0 .. Top
    /\ loaded \in {NoMark} \cup 0 .. Top
    /\ ix \subseteq landed

BuildersBounded ==
    /\ at \in [Builders -> Places]
    /\ DOMAIN read = Builders /\ DOMAIN through = Builders
    /\ DOMAIN draft = Builders /\ DOMAIN policy = Builders
    /\ \A b \in Builders : read[b] \subseteq landed /\ through[b] \in 0 .. Top

Bounded == ZoneBounded /\ BuildersBounded

\* What lands goes on top.
LEMMA LandsOnTop ==
    ASSUME ZoneBounded, LandNext
    PROVE  /\ landed' = landed \cup {Top + 1}
           /\ Top' = Top + 1
<1>1. landed' = landed \cup {Top + 1}
  BY DEF LandNext, Top
<1> DEFINE L == landed'
           t == Top + 1
<1>2. t \in Nat /\ L \in SUBSET Nat /\ t \in L /\ \A m \in L : m <= t
  BY <1>1 DEF ZoneBounded
<1>3. Last(L) = t
  <2> HIDE DEF L, t
  <2> QED BY <1>2, LastIs
<1> QED BY <1>1, <1>3 DEF Top

\* A set of landed files has its highest sequence among them.
LEMMA TopOfPart ==
    ASSUME ZoneBounded, NEW T \in SUBSET landed
    PROVE  Last(T) \in 0 .. Top
BY LastOfPart DEF ZoneBounded, Top

\* A watermark that is no higher changes nothing to it.
LEMMA TopWith ==
    ASSUME ZoneBounded, NEW f \in 0 .. Top
    PROVE  Last(landed \cup {f}) = Top
<1> DEFINE L == landed \cup {f}
<1>1. Top \in Nat /\ L \in SUBSET Nat /\ \A m \in L : m <= Top
  BY DEF ZoneBounded
<1>2. Top \in L
  <2>1. CASE landed = {}
    BY <2>1 DEF Top, Last
  <2>2. CASE landed # {}
    <3>1. landed \in SUBSET Nat /\ \A m \in landed : m <= Top
      BY DEF ZoneBounded
    <3> QED BY <1>1, <2>2, <3>1, LastIsMax DEF Top
  <2> QED BY <2>1, <2>2
<1>3. Last(L) = Top
  <2> HIDE DEF L
  <2> QED BY <1>1, <1>2, LastIs
<1> QED BY <1>3

LEMMA ZoneInit == Init => Bounded
<1>1. Last({}) = 0
  BY DEF Last
<1> QED BY <1>1 DEF Init, LandingInit, NoPass, NoMark, Bounded, ZoneBounded, BuildersBounded,
                    Top, Places

\* Collection keeps the zone bounded, and only adds to what has landed.
LEMMA ZoneStep ==
    ASSUME ZoneBounded, LandingNext
    PROVE  ZoneBounded' /\ landed \subseteq landed' /\ Top <= Top'
<1> DEFINE Goal == ZoneBounded' /\ landed \subseteq landed' /\ Top <= Top'
<1> USE DEF ZoneBounded, zoneFiles, passVars, NoPassNext
<1>1. CASE BeginPass
  BY <1>1 DEF BeginPass, Top
<1>2. CASE LoadEntries
  <2> DEFINE usable == loaded # NoMark /\ entries # None
             from   == IF usable THEN loaded ELSE 0
  <2>1. from \in 0 .. Top
    BY DEF NoMark
  <2>2. Last(landed \cup {from}) = Top
    BY <2>1, TopWith
  <2>3. loaded' = Top /\ ix' = (IF usable THEN entries ELSE {}) \cup Above(from)
    BY <1>2, <2>2 DEF LoadEntries
  <2>4. UNCHANGED <<landed, entries, indexed>>
    BY <1>2 DEF LoadEntries
  <2>5. ix' \subseteq landed
    BY <2>3 DEF Above
  <2>6. Top' = Top
    BY <2>4 DEF Top
  <2> QED BY <2>3, <2>4, <2>5, <2>6
<1>3. CASE LandNext
  <2>1. landed' = landed \cup {Top + 1} /\ Top' = Top + 1
    BY <1>3, LandsOnTop
  <2>2. ix' = ix \cup {Top + 1} /\ UNCHANGED <<entries, indexed, loaded>>
    BY <1>3 DEF LandNext, Top
  <2>3. landed' \subseteq Nat \ {0} /\ Top' \in Nat /\ \A n \in landed' : n <= Top'
    BY <2>1
  <2>4. entries' = None \/ entries' \subseteq landed'
    BY <2>1, <2>2
  <2>5. indexed' \in {NoMark} \cup 0 .. Top' /\ loaded' \in {NoMark} \cup 0 .. Top'
    BY <2>1, <2>2
  <2>6. ix' \subseteq landed'
    BY <2>1, <2>2
  <2>7. landed \subseteq landed' /\ Top <= Top'
    BY <2>1
  <2> QED BY <2>3, <2>4, <2>5, <2>6, <2>7
<1>4. CASE WriteEntries
  BY <1>4 DEF WriteEntries, Top
<1>5. CASE SaveIndexed
  BY <1>5 DEF SaveIndexed, Top
<1>6. CASE EndPass
  BY <1>6 DEF EndPass, Top
<1>7. CASE BreakOff
  BY <1>7 DEF BreakOff, Top
<1>8. CASE DropEntries
  BY <1>8 DEF DropEntries, Top
<1> QED BY <1>1, <1>2, <1>3, <1>4, <1>5, <1>6, <1>7, <1>8 DEF LandingNext, Collecting

\* What a builder does to the zone: it may write an index back, and its watermark.
LEMMA BuilderZone ==
    ASSUME Bounded, NEW b \in Builders, Step(b) \/ WriteFails(b) \/ Stop(b)
    PROVE  ZoneBounded' /\ landed' = landed /\ Top' = Top
<1> USE DEF Bounded, ZoneBounded, BuildersBounded, landingVars, passVars
<1> DEFINE Same == UNCHANGED landingVars
<1>1. Same => ZoneBounded' /\ landed' = landed /\ Top' = Top
  BY DEF Top
<1>2. CASE WriteRebuilt(b)
  BY <1>2 DEF WriteRebuilt, Top
<1>3. CASE SaveRebuilt(b)
  <2>1. Last(read[b]) \in 0 .. Top
    <3>1. read[b] \in SUBSET landed
      OBVIOUS
    <3> QED BY <3>1, TopOfPart
  <2> QED BY <1>3, <2>1 DEF SaveRebuilt, Top
<1>4. CASE Load(b) \/ Rebuild(b) \/ ReadWatermark(b) \/ Lock(b) \/ Build(b) \/ Write(b) \/ Seal(b)
  <2>1. Same
    BY <1>4 DEF Load, Rebuild, ReadWatermark, Lock, Build, Write, Seal
  <2> QED BY <1>1, <2>1
<1>5. CASE ChainBusy(b) \/ GiveUp(b) \/ CheckHead(b) \/ Create(b) \/ SaveState(b)
           \/ WriteFails(b) \/ Stop(b)
  <2>1. Same
    BY <1>5 DEF ChainBusy, GiveUp, CheckHead, Create, SaveState, WriteFails, Stop, Returns
  <2> QED BY <1>1, <2>1
<1> QED BY <1>2, <1>3, <1>4, <1>5 DEF Step

\* The index and the watermark a builder holds never reach beyond what has landed.
LEMMA BoundedStep ==
    ASSUME Bounded, [Next]_vars
    PROVE  Bounded'
<1> USE DEF Bounded, BuildersBounded
<1>1. CASE UNCHANGED vars
  <2>1. Top' = Top
    BY <1>1 DEF vars, Top
  <2> QED BY <1>1, <2>1 DEF vars, ZoneBounded
<1>2. ASSUME LandingNext, UNCHANGED building
      PROVE  Bounded'
  <2>1. ZoneBounded' /\ landed \subseteq landed' /\ Top <= Top' /\ Top \in Nat /\ Top' \in Nat
    BY <1>2, ZoneStep DEF ZoneBounded
  <2> QED BY <1>2, <2>1 DEF building
<1>3. ASSUME NEW b \in Builders, Step(b) \/ WriteFails(b) \/ Stop(b)
      PROVE  Bounded'
  <2>1. ZoneBounded' /\ landed' = landed /\ Top' = Top /\ Top \in Nat
    BY <1>3, BuilderZone DEF ZoneBounded
  <2> USE DEF Goes, building, Places
  <2>2. CASE Load(b) \/ Rebuild(b)
    <3>1. read'[b] \subseteq landed
      BY <2>2 DEF Load, Rebuild, ZoneBounded
    <3> QED BY <2>1, <2>2, <3>1 DEF Load, Rebuild
  <2>3. CASE WriteRebuilt(b) \/ SaveRebuilt(b) \/ Lock(b) \/ Build(b) \/ Write(b) \/ Seal(b)
    BY <2>1, <2>3 DEF WriteRebuilt, SaveRebuilt, Lock, Build, Write, Seal
  <2>4. CASE ReadWatermark(b)
    <3>1. Last(read[b]) \in 0 .. Top
      <4>1. read[b] \in SUBSET landed
        OBVIOUS
      <4> QED BY <4>1, TopOfPart
    <3>2. Watermark(b) \in 0 .. Top
      BY <3>1 DEF Watermark, ZoneBounded
    <3> QED BY <2>1, <2>4, <3>2 DEF ReadWatermark
  <2>5. ASSUME Returns(b) PROVE Bounded'
    BY <2>1, <2>5 DEF Returns
  <2>6. CASE ChainBusy(b) \/ GiveUp(b) \/ SaveState(b) \/ WriteFails(b) \/ Stop(b)
    BY <2>5, <2>6 DEF ChainBusy, GiveUp, SaveState, WriteFails, Stop
  <2>7. CASE CheckHead(b) \/ Create(b)
    <3>1. CASE Returns(b)
      BY <3>1, <2>5
    <3>2. CASE ~Returns(b)
      BY <2>1, <2>7, <3>2 DEF CheckHead, Create
    <3> QED BY <3>1, <3>2
  <2> QED BY <1>3, <2>2, <2>3, <2>4, <2>6, <2>7 DEF Step
<1> QED BY <1>1, <1>2, <1>3 DEF Next, Collects, Interrupted, Drops, LandingNext, building
-----------------------------------------------------------------------------
(***************************************************************************)
(* The chain's lock makes a builder alone from folding the chain to saving *)
(* its state.                                                              *)
(***************************************************************************)
Under == {"build", "publish", "create", "write", "seal", "state"}

Locked == \A b \in Builders : at[b] \in Under => holder = b

LEMMA LockedStep ==
    ASSUME Bounded, Locked, [Next]_vars
    PROVE  Locked'
<1> USE ParserAssumption DEF Locked, Under, Bounded, BuildersBounded, Goes
<1>1. CASE UNCHANGED <<at, holder>>
  BY <1>1
<1>2. ASSUME NEW b \in Builders, Step(b) \/ WriteFails(b) \/ Stop(b)
      PROVE  Locked'
  <2>1. CASE Load(b) \/ Rebuild(b) \/ WriteRebuilt(b) \/ SaveRebuilt(b) \/ ReadWatermark(b)
             \/ Build(b) \/ Write(b) \/ Seal(b)
    BY <2>1 DEF Load, Rebuild, WriteRebuilt, SaveRebuilt, ReadWatermark, Build, Write, Seal, chain
  <2>2. CASE Lock(b)
    BY <2>2 DEF Lock, ChainFree
  <2>3. ASSUME Returns(b) PROVE Locked'
    BY <2>3 DEF Returns
  <2>4. CASE ChainBusy(b) \/ GiveUp(b) \/ SaveState(b) \/ WriteFails(b) \/ Stop(b)
    BY <2>3, <2>4 DEF ChainBusy, GiveUp, SaveState, WriteFails, Stop
  <2>5. CASE CheckHead(b) \/ Create(b)
    <3>1. CASE Returns(b)
      BY <3>1, <2>3
    <3>2. CASE ~Returns(b)
      BY <2>5, <3>2 DEF CheckHead, Create
    <3> QED BY <3>1, <3>2
  <2> QED BY <1>2, <2>1, <2>2, <2>4, <2>5 DEF Step
<1> QED BY <1>1, <1>2 DEF Next, vars, Collects, Interrupted, Drops, chain, building
-----------------------------------------------------------------------------
(***************************************************************************)
(* A round binds the landed files of its range, from when it is built.     *)
(***************************************************************************)
Drafted == {"publish", "create", "write", "seal", "state"}

Binds(r) ==
    /\ r.round \in Nat /\ r.from \in Nat /\ r.through \in 0 .. Top
    /\ r.input \in Seq(SUBSET Nat) /\ Len(r.input) > 0
    /\ r.input[Len(r.input)] = {n \in landed : r.from <= n /\ n <= r.through}

AllBind ==
    /\ \A f \in files : Binds(f)
    /\ \A b \in Builders : at[b] \in Drafted => Binds(draft[b])

\* What lands later is above every range already bound.
LEMMA BindsKept ==
    ASSUME ZoneBounded, LandingNext, NEW r, Binds(r)
    PROVE  Binds(r)'
<1>1. CASE LandNext
  <2>1. landed' = landed \cup {Top + 1} /\ Top' = Top + 1 /\ Top \in Nat
    BY <1>1, LandsOnTop DEF ZoneBounded
  <2>2. {n \in landed' : r.from <= n /\ n <= r.through} = {n \in landed : r.from <= n /\ n <= r.through}
    BY <2>1 DEF Binds
  <2> QED BY <2>1, <2>2 DEF Binds
<1>2. CASE landed' = landed
  BY <1>2 DEF Binds, Top
<1> QED BY <1>1, <1>2 DEF LandingNext, Collecting, BeginPass, LoadEntries, WriteEntries, SaveIndexed,
                          EndPass, BreakOff, DropEntries, zoneFiles

\* What the next round must be, for a chain that is the rounds S.
Extends(r, S) ==
    /\ IsFiniteSet(S)
    /\ r.round = Cardinality(S) + 1
    /\ \A f \in S : f.round \in 1 .. Cardinality(S)
    /\ r.through + 1 >= r.from
    /\ IF S = {} THEN r.previous = NoRound /\ r.from = 1
                 ELSE \E p \in S : /\ p.round = Cardinality(S)
                                   /\ r.previous = p /\ r.from = p.through + 1 /\ r.policy = p.policy

LEMMA NewRound ==
    ASSUME NEW r, NEW S, Extends(r, S)
    PROVE  r \notin S
<1>1. Cardinality(S) \in Nat
  BY FS_CardinalityType DEF Extends
<1>2. Cardinality(S) + 1 \notin 1 .. Cardinality(S)
  BY <1>1
<1> QED BY <1>2 DEF Extends

\* The last round of a chain that folds.
LEMMA NewestOf ==
    ASSUME IsFiniteSet(files), Folds, files # {}
    PROVE  /\ Cardinality(files) \in Nat \ {0}
           /\ HeadRound = Cardinality(files)
           /\ Newest \in files /\ Newest.round = Cardinality(files)
<1> DEFINE n == Cardinality(files)
<1>1. n \in Nat /\ n # 0
  BY FS_CardinalityType, FS_EmptySet
<1>2. {f.round : f \in files} = 1 .. n
  BY DEF Folds
<1>3. HeadRound = n
  BY <1>1, <1>2, LastOfInterval DEF HeadRound
<1>4. n \in {f.round : f \in files}
  BY <1>1, <1>2
<1>5. \E f \in files : f.round = HeadRound
  BY <1>3, <1>4
<1> QED BY <1>1, <1>3, <1>5 DEF Newest

\* The round a builder drafts continues the chain it folded, and binds its evidence.
LEMMA DraftedRight ==
    ASSUME Bounded, AllBind, IsFiniteSet(files), NEW b \in Builders, ~Refused(b)
    PROVE  Extends(NextRound(b), files) /\ Binds(NextRound(b))
<1> DEFINE r == NextRound(b)
<1>1. Folds /\ through[b] >= Tip.through
  <2>1. through[b] \in Int /\ Tip.through \in Int
    <3>1. through[b] \in Int
      BY DEF Bounded, BuildersBounded, ZoneBounded
    <3>2. Folds => Tip.through \in Int
      BY NewestOf DEF Tip, Genesis, AllBind, Binds
    <3> QED BY <3>1, <3>2 DEF Refused
  <2> QED BY <2>1 DEF Refused
<1>2. /\ Tip.round = Cardinality(files) /\ Tip.round \in Nat
      /\ Tip.through \in 0 .. Top
      /\ Tip.input \in Seq(SUBSET Nat)
  <2>1. CASE files = {}
    BY <2>1, FS_EmptySet DEF Tip, Genesis, Bounded, ZoneBounded
  <2>2. CASE files # {}
    BY <1>1, <2>2, NewestOf DEF Tip, AllBind, Binds
  <2> QED BY <2>1, <2>2
<1>3. /\ r.round = Tip.round + 1 /\ r.previous = Newest
      /\ r.from = Tip.through + 1 /\ r.through = through[b]
      /\ r.input = Append(Tip.input, Consumed(Tip.through, through[b]))
      /\ r.policy = policy[b]
  BY DEF NextRound
<1>4. through[b] \in 0 .. Top /\ Top \in Nat /\ landed \subseteq Nat
  BY DEF Bounded, BuildersBounded, ZoneBounded
<1>5. Extends(r, files)
  <2>1. r.through + 1 >= r.from
    BY <1>1, <1>2, <1>3, <1>4
  <2>2. \A f \in files : f.round \in 1 .. Cardinality(files)
    BY <1>1 DEF Folds
  <2>3. CASE files = {}
    <3>1. Newest = NoRound /\ Tip.through = 0
      BY <2>3 DEF Newest, Tip, Genesis
    <3>2. r.previous = NoRound /\ r.from = 1
      BY <1>3, <3>1
    <3> HIDE DEF r
    <3> QED BY <1>2, <1>3, <2>1, <2>2, <2>3, <3>2 DEF Extends
  <2>4. CASE files # {}
    <3>1. Newest \in files /\ Newest.round = Cardinality(files) /\ Tip = Newest
      BY <1>1, <2>4, NewestOf DEF Tip
    <3>2. policy[b] = Newest.policy
      BY <2>4 DEF Refused
    <3> HIDE DEF r
    <3> QED BY <1>2, <1>3, <2>1, <2>2, <2>4, <3>1, <3>2 DEF Extends
  <2> QED BY <2>3, <2>4
<1>6. Binds(r)
  <2> DEFINE C == Consumed(Tip.through, through[b])
  <2>1. C \in SUBSET Nat /\ C = {n \in landed : Tip.through + 1 <= n /\ n <= through[b]}
    <3>1. PICK t \in Nat : t = Tip.through
      BY <1>2
    <3>2. \A n \in landed : t < n <=> t + 1 <= n
      BY <1>4
    <3> QED BY <1>4, <3>1, <3>2 DEF Consumed
  <2>2. /\ r.input \in Seq(SUBSET Nat) /\ Len(r.input) = Len(Tip.input) + 1
        /\ r.input[Len(r.input)] = C
    <3> HIDE DEF C, r
    <3>1. r.input = Append(Tip.input, C)
      BY <1>3 DEF C
    <3> QED BY <1>2, <2>1, <3>1, AppendProperties
  <2>3. Len(Tip.input) \in Nat
    BY <1>2
  <2> HIDE DEF r, C
  <2> QED BY <1>2, <1>3, <1>4, <2>1, <2>2, <2>3 DEF Binds
<1> QED BY <1>5, <1>6
-----------------------------------------------------------------------------
(***************************************************************************)
(* The chain while a builder publishes.  A file that is being written is   *)
(* the only one cut short, and the chain without it is the one the round   *)
(* was drafted for.                                                        *)
(***************************************************************************)
Publishing ==
    /\ IsFiniteSet(files) /\ cut \subseteq files
    /\ \A b \in Builders :
          /\ at[b] \in {"publish", "create"} => cut = {} /\ Extends(draft[b], files)
          /\ at[b] = "write" => cut = {draft[b]}
          /\ at[b] = "seal" => cut = {}
          /\ at[b] \in {"write", "seal"} =>
                draft[b] \in files /\ Extends(draft[b], files \ {draft[b]})
          /\ at[b] = "state" => draft[b] \in files /\ cut = {}

\* The state file names no round that is still being written.
HeadStays == \A b \in Builders : at[b] \in {"write", "seal"} => head = NoRound \/ head # draft[b]

Inv == Bounded /\ Locked /\ AllBind /\ Publishing /\ StateNamesRound /\ HeadStays

LEMMA InvInit == Init => Inv
<1>1. Init => Bounded
  BY ZoneInit
<1>2. Init => Publishing
  BY FS_EmptySet DEF Init, Publishing
<1> QED BY <1>1, <1>2 DEF Init, Inv, Locked, Under, AllBind, Drafted, StateNamesRound, HeadStays

\* What a builder does that does not touch the chain's files.
Quiet(b) ==
    \/ Load(b) \/ Rebuild(b) \/ WriteRebuilt(b) \/ SaveRebuilt(b) \/ ReadWatermark(b)
    \/ Lock(b) \/ ChainBusy(b) \/ GiveUp(b)

\* Two builders are never between folding the chain and saving its state.
LEMMA Alone ==
    ASSUME Locked, NEW b \in Builders, NEW c \in Builders, at[b] \in Under, at[c] \in Under
    PROVE  b = c
BY DEF Locked

LEMMA PublishingStep ==
    ASSUME Inv, NEW b \in Builders, Step(b) \/ WriteFails(b) \/ Stop(b)
    PROVE  Publishing'
<1> USE DEF Bounded, BuildersBounded, Goes, Under
<1> USE DEF Inv
<1>1. ASSUME UNCHANGED <<files, cut>>, at'[b] \notin Drafted,
             \A c \in Builders \ {b} : at'[c] = at[c] /\ draft'[c] = draft[c]
      PROVE  Publishing'
  BY <1>1 DEF Publishing, Drafted
<1>2. CASE Quiet(b)
  <2>1. UNCHANGED <<files, cut>> /\ at'[b] \notin Drafted
    BY <1>2 DEF Quiet, Load, Rebuild, WriteRebuilt, SaveRebuilt, ReadWatermark, Lock, ChainBusy,
                GiveUp, Returns, chain, Drafted
  <2>2. \A c \in Builders \ {b} : at'[c] = at[c] /\ draft'[c] = draft[c]
    BY <1>2 DEF Quiet, Load, Rebuild, WriteRebuilt, SaveRebuilt, ReadWatermark, Lock, ChainBusy,
                GiveUp, Returns
  <2> QED BY <1>1, <2>1, <2>2
<1>3. CASE SaveState(b) \/ Stop(b)
  <2>1. UNCHANGED <<files, cut>> /\ at'[b] = "idle"
    BY <1>3 DEF SaveState, Stop, Returns
  <2>2. \A c \in Builders \ {b} : at'[c] = at[c] /\ draft'[c] = draft[c]
    BY <1>3 DEF SaveState, Stop, Returns
  <2> QED BY <1>1, <2>1, <2>2 DEF Drafted
<1>4. CASE Build(b)
  <2>1. cut = {} /\ UNCHANGED <<files, cut>>
    BY <1>4 DEF Build, Refused, Folds, chain
  <2>2. IsFiniteSet(files) /\ Extends(NextRound(b), files)
    BY <1>4, DraftedRight DEF Build, Publishing
  <2>3. draft'[b] = NextRound(b) /\ at'[b] = "publish"
    BY <1>4 DEF Build
  <2>4. \A c \in Builders \ {b} : at'[c] = at[c] /\ draft'[c] = draft[c]
    BY <1>4 DEF Build
  <2> QED BY <2>1, <2>2, <2>3, <2>4 DEF Publishing
<1>5. CASE CheckHead(b)
  <2>1. CASE Returns(b)
    <3>1. UNCHANGED <<files, cut>> /\ at'[b] = "idle"
      BY <1>5, <2>1 DEF CheckHead, Returns
    <3>2. \A c \in Builders \ {b} : at'[c] = at[c] /\ draft'[c] = draft[c]
      BY <2>1 DEF Returns
    <3> QED BY <1>1, <3>1, <3>2 DEF Drafted
  <2>2. CASE ~Returns(b)
    BY <1>5, <2>2 DEF CheckHead, Publishing
  <2> QED BY <2>1, <2>2
<1>6. \A c \in Builders \ {b} : at[b] \in Under => at[c] \notin Under
  BY Alone
<1>7. CASE Create(b)
  <2>1. at[b] = "create" /\ cut = {} /\ Extends(draft[b], files)
    BY <1>7 DEF Create, Publishing
  <2>2. draft[b] \notin files
    BY <2>1, NewRound
  <2>3. /\ files' = files \cup {draft[b]} /\ cut' = cut \cup {draft[b]}
        /\ at' = [at EXCEPT ![b] = "write"] /\ draft' = draft
    BY <1>7, <2>2 DEF Create
  <2>4. IsFiniteSet(files')
    BY <2>3, FS_AddElement DEF Publishing
  <2>5. files' \ {draft[b]} = files
    BY <2>2, <2>3
  <2>7. \A c \in Builders \ {b} : at'[c] \notin Drafted
    BY <1>6, <2>1, <2>3 DEF Drafted
  <2> QED BY <2>1, <2>3, <2>4, <2>5, <2>7 DEF Publishing, Drafted
<1>8. CASE Write(b)
  <2>1. /\ at[b] = "write" /\ cut' = {} /\ UNCHANGED <<files, draft>>
        /\ at' = [at EXCEPT ![b] = "seal"]
    BY <1>8 DEF Write, Publishing
  <2>2. \A c \in Builders \ {b} : at'[c] \notin Drafted
    BY <1>6, <2>1 DEF Drafted
  <2> QED BY <2>1, <2>2 DEF Publishing, Drafted
<1>9. CASE Seal(b)
  <2>1. /\ at[b] = "seal" /\ UNCHANGED <<files, cut, draft>>
        /\ at' = [at EXCEPT ![b] = "state"]
    BY <1>9 DEF Seal, chain
  <2>2. \A c \in Builders \ {b} : at'[c] \notin Drafted
    BY <1>6, <2>1 DEF Drafted
  <2> QED BY <2>1, <2>2 DEF Publishing, Drafted
<1>10. CASE WriteFails(b)
  <2>1. /\ at[b] \in {"write", "seal"}
        /\ files' = files \ {draft[b]} /\ cut' = cut \ {draft[b]}
        /\ at'[b] = "idle" /\ \A c \in Builders \ {b} : at'[c] = at[c]
    BY <1>10 DEF WriteFails, Returns
  <2>2. IsFiniteSet(files')
    BY <2>1, FS_RemoveElement DEF Publishing
  <2>3. \A c \in Builders \ {b} : at'[c] \notin Drafted
    BY <1>6, <2>1 DEF Drafted
  <2> QED BY <2>1, <2>2, <2>3 DEF Publishing, Drafted
<1> QED BY <1>2, <1>3, <1>4, <1>5, <1>7, <1>8, <1>9, <1>10 DEF Step, Quiet

LEMMA AllBindStep ==
    ASSUME Inv, NEW b \in Builders, Step(b) \/ WriteFails(b) \/ Stop(b)
    PROVE  AllBind'
<1> USE DEF Inv, Bounded, BuildersBounded, Goes
<1>0. landed' = landed /\ Top' = Top
  BY BuilderZone
<1>1. \A r : Binds(r) => Binds(r)'
  BY <1>0 DEF Binds
<1>2. ASSUME files' \subseteq files, at'[b] \in Drafted => at[b] \in Drafted /\ draft'[b] = draft[b],
             \A c \in Builders \ {b} : at'[c] = at[c] /\ draft'[c] = draft[c]
      PROVE  AllBind'
  <2>1. \A f \in files' : Binds(f)'
    BY <1>1, <1>2 DEF AllBind
  <2>2. ASSUME NEW c \in Builders, at'[c] \in Drafted
        PROVE  Binds(draft[c])' 
    <3>1. at[c] \in Drafted /\ draft'[c] = draft[c]
      BY <1>2, <2>2
    <3>2. Binds(draft[c])
      BY <3>1 DEF AllBind
    <3> QED BY <1>0, <3>1, <3>2 DEF Binds
  <2> QED BY <2>1, <2>2 DEF AllBind
<1>3. CASE Quiet(b)
  <2>1. files' = files /\ at'[b] \notin Drafted
    BY <1>3 DEF Quiet, Load, Rebuild, WriteRebuilt, SaveRebuilt, ReadWatermark, Lock, ChainBusy,
                GiveUp, Returns, chain, Drafted
  <2>2. \A c \in Builders \ {b} : at'[c] = at[c] /\ draft'[c] = draft[c]
    BY <1>3 DEF Quiet, Load, Rebuild, WriteRebuilt, SaveRebuilt, ReadWatermark, Lock, ChainBusy,
                GiveUp, Returns
  <2> QED BY <1>2, <2>1, <2>2
<1>4. CASE SaveState(b) \/ Stop(b) \/ WriteFails(b)
  <2>1. files' \subseteq files /\ at'[b] = "idle"
    BY <1>4 DEF SaveState, Stop, WriteFails, Returns
  <2>2. \A c \in Builders \ {b} : at'[c] = at[c] /\ draft'[c] = draft[c]
    BY <1>4 DEF SaveState, Stop, WriteFails, Returns
  <2> QED BY <1>2, <2>1, <2>2 DEF Drafted
<1>5. CASE Build(b)
  <2>1. Binds(NextRound(b))
    BY <1>5, DraftedRight DEF Build, Publishing
  <2>2. files' = files /\ draft'[b] = NextRound(b) /\ at'[b] = "publish"
    BY <1>5 DEF Build, chain
  <2>3. \A c \in Builders \ {b} : at'[c] = at[c] /\ draft'[c] = draft[c]
    BY <1>5 DEF Build
  <2>4. \A f \in files' : Binds(f)'
    BY <1>1, <2>2 DEF AllBind
  <2>5. ASSUME NEW c \in Builders, at'[c] \in Drafted
        PROVE  Binds(draft[c])'
    <3>1. \E r : draft'[c] = r /\ Binds(r)
      BY <2>1, <2>2, <2>3, <2>5 DEF AllBind
    <3> QED BY <1>0, <3>1 DEF Binds
  <2> QED BY <2>4, <2>5 DEF AllBind
<1>6. CASE CheckHead(b)
  <2>1. files' = files /\ (at'[b] \in Drafted => at[b] \in Drafted /\ draft'[b] = draft[b])
    BY <1>6 DEF CheckHead, Returns, Drafted
  <2>2. \A c \in Builders \ {b} : at'[c] = at[c] /\ draft'[c] = draft[c]
    BY <1>6 DEF CheckHead, Returns
  <2> QED BY <1>2, <2>1, <2>2
<1>7. CASE Write(b) \/ Seal(b)
  <2>1. files' = files /\ at[b] \in Drafted /\ draft' = draft
    BY <1>7 DEF Write, Seal, chain, Drafted
  <2>2. \A c \in Builders \ {b} : at'[c] = at[c]
    BY <1>7 DEF Write, Seal
  <2> QED BY <1>2, <2>1, <2>2
<1>8. CASE Create(b)
  <2>1. files' \subseteq files \cup {draft[b]} /\ at[b] = "create"
    BY <1>8 DEF Create
  <2>2. Binds(draft[b])
    BY <2>1 DEF AllBind, Drafted
  <2>3. at'[b] \in Drafted => draft'[b] = draft[b]
    BY <1>8 DEF Create, Returns, Drafted
  <2>4. \A c \in Builders \ {b} : at'[c] = at[c] /\ draft'[c] = draft[c]
    BY <1>8 DEF Create, Returns
  <2>5. \A f \in files' : Binds(f)'
    <3>1. \A f \in files' : Binds(f)
      BY <2>1, <2>2 DEF AllBind
    <3> QED BY <1>1, <3>1
  <2>6. ASSUME NEW c \in Builders, at'[c] \in Drafted
        PROVE  Binds(draft[c])'
    <3>1. \E r : draft'[c] = r /\ Binds(r)
      BY <2>2, <2>3, <2>4, <2>6 DEF AllBind
    <3> QED BY <1>0, <3>1 DEF Binds
  <2> QED BY <2>5, <2>6 DEF AllBind
<1> QED BY <1>3, <1>4, <1>5, <1>6, <1>7, <1>8 DEF Step, Quiet

\* The state is saved after the round is on disk, and no round it names is removed.
LEMMA HeadStep ==
    ASSUME Inv, NEW b \in Builders, Step(b) \/ WriteFails(b) \/ Stop(b)
    PROVE  StateNamesRound' /\ HeadStays'
<1> USE DEF Inv, Bounded, BuildersBounded, Goes, StateNamesRound, HeadStays
<1> DEFINE Goal == StateNamesRound' /\ HeadStays'
<1>1. ASSUME UNCHANGED <<files, cut, head>>, at'[b] \notin {"write", "seal"},
             \A c \in Builders \ {b} : at'[c] = at[c] /\ draft'[c] = draft[c]
      PROVE  Goal
  BY <1>1
<1>2. CASE Quiet(b)
  <2>1. UNCHANGED <<files, cut, head>> /\ at'[b] \notin {"write", "seal"}
    BY <1>2 DEF Quiet, Load, Rebuild, WriteRebuilt, SaveRebuilt, ReadWatermark, Lock, ChainBusy,
                GiveUp, Returns, chain
  <2>2. \A c \in Builders \ {b} : at'[c] = at[c] /\ draft'[c] = draft[c]
    BY <1>2 DEF Quiet, Load, Rebuild, WriteRebuilt, SaveRebuilt, ReadWatermark, Lock, ChainBusy,
                GiveUp, Returns
  <2> QED BY <1>1, <2>1, <2>2
<1>3. CASE Build(b) \/ CheckHead(b) \/ Stop(b)
  <2>1. UNCHANGED <<files, cut, head>> /\ at'[b] \notin {"write", "seal"}
    BY <1>3 DEF Build, CheckHead, Stop, Returns, chain
  <2>2. \A c \in Builders \ {b} : at'[c] = at[c] /\ draft'[c] = draft[c]
    BY <1>3 DEF Build, CheckHead, Stop, Returns
  <2> QED BY <1>1, <2>1, <2>2
<1>4. \A c \in Builders \ {b} : at[b] \in Under => at[c] \notin Under
  BY Alone
<1>5. CASE Create(b)
  <2>1. at[b] = "create" /\ draft[b] \notin files
    BY <1>5, NewRound DEF Create, Publishing
  <2>2. /\ files' = files \cup {draft[b]} /\ cut' = cut \cup {draft[b]}
        /\ at' = [at EXCEPT ![b] = "write"] /\ draft' = draft /\ head' = head
    BY <1>5, <2>1 DEF Create
  <2>3. \A c \in Builders \ {b} : at'[c] \notin {"write", "seal"}
    BY <1>4, <2>1, <2>2 DEF Under
  <2> QED BY <2>1, <2>2, <2>3
<1>6. CASE Write(b)
  BY <1>6 DEF Write
<1>7. CASE Seal(b)
  BY <1>7 DEF Seal, chain
<1>8. CASE WriteFails(b)
  <2>1. at[b] \in {"write", "seal"} /\ head' = head /\ at'[b] = "idle"
    BY <1>8 DEF WriteFails, Returns
  <2>2. files' = files \ {draft[b]} /\ cut' = cut \ {draft[b]}
    BY <1>8 DEF WriteFails
  <2>3. \A c \in Builders \ {b} : at'[c] = at[c] /\ draft'[c] = draft[c]
    BY <1>8 DEF WriteFails, Returns
  <2> QED BY <2>1, <2>2, <2>3
<1>9. CASE SaveState(b)
  <2>1. at[b] = "state" /\ draft[b] \in files /\ cut = {}
    BY <1>9 DEF SaveState, Placed, Publishing
  <2>2. /\ head' = draft[b] /\ UNCHANGED <<files, cut>>
        /\ at'[b] = "idle" /\ \A c \in Builders \ {b} : at'[c] = at[c]
    BY <1>9 DEF SaveState, Returns
  <2>3. \A c \in Builders \ {b} : at'[c] \notin {"write", "seal"}
    BY <1>4, <2>1, <2>2 DEF Under
  <2> QED BY <2>1, <2>2, <2>3
<1> QED BY <1>2, <1>3, <1>5, <1>6, <1>7, <1>8, <1>9 DEF Step, Quiet

LEMMA InvStep == Inv /\ [Next]_vars => Inv'
<1> SUFFICES ASSUME Inv, [Next]_vars PROVE Inv'
  OBVIOUS
<1>1. Bounded' /\ Locked'
  BY BoundedStep, LockedStep DEF Inv
<1>2. ASSUME NEW b \in Builders, Step(b) \/ WriteFails(b) \/ Stop(b) PROVE Inv'
  BY <1>1, <1>2, PublishingStep, AllBindStep, HeadStep DEF Inv
<1>3. ASSUME LandingNext, UNCHANGED <<chain, building>> PROVE Inv'
  <2>1. AllBind'
    <3>1. \A r : Binds(r) => Binds(r)'
      BY <1>3, BindsKept DEF Inv, Bounded
    <3>2. \A f \in files' : Binds(f)'
      BY <1>3, <3>1 DEF AllBind, Inv, chain
    <3>3. ASSUME NEW c \in Builders, at'[c] \in Drafted
          PROVE  Binds(draft[c])'
      <4> DEFINE r == draft[c]
      <4>1. Binds(r) /\ draft' = draft
        BY <1>3, <3>3 DEF AllBind, Inv, building
      <4> QED BY <1>3, <3>1, <4>1 DEF Binds
    <3> QED BY <3>2, <3>3 DEF AllBind
  <2>2. Publishing' /\ StateNamesRound' /\ HeadStays'
    BY <1>3 DEF Inv, Publishing, StateNamesRound, HeadStays, chain, building
  <2> QED BY <1>1, <2>1, <2>2 DEF Inv
<1>4. CASE UNCHANGED vars
  <2>1. AllBind' /\ Publishing' /\ StateNamesRound' /\ HeadStays'
    BY <1>4 DEF vars, Inv, AllBind, Binds, Top, Publishing, StateNamesRound, HeadStays
  <2> QED BY <1>1, <2>1 DEF Inv
<1> QED BY <1>2, <1>3, <1>4 DEF Next, Collects, Interrupted, Drops, LandingNext, chain

LEMMA Inductive == Spec => []Inv
BY InvInit, InvStep, PTL DEF Spec
-----------------------------------------------------------------------------
\* Every round on disk binds exactly the landed files of its range, for any builders, crashes
\* and failed writes, and however much lands afterwards (parse.go, inputDigestFor).
THEOREM BindsItsEvidence == Spec => []InputBinds
<1>1. Inv => InputBinds
  BY DEF Inv, AllBind, Binds, InputBinds
<1> QED BY <1>1, Inductive, PTL

\* The state file names a round that is on disk, whole, wherever a builder is stopped
\* (parse.go, "State is saved after the round is on disk").
THEOREM StateTrailsTheChain == Spec => []StateNamesRound
<1>1. Inv => StateNamesRound
  BY DEF Inv
<1> QED BY <1>1, Inductive, PTL
-----------------------------------------------------------------------------
(***************************************************************************)
(* The rounds that stay are a log.  A round joins it when its file is      *)
(* sealed, or when its builder dies after it was written whole.            *)
(***************************************************************************)

\* The rounds that stay, by where the builder of the last one is.
SettledAt ==
    /\ \A b \in Builders : at[b] \in {"write", "seal"} => Settled = files \ {draft[b]}
    /\ (\A b \in Builders : at[b] # "seal") => Settled = files \ cut

LEMMA SettledIs == Inv => SettledAt
<1> SUFFICES ASSUME Inv PROVE SettledAt
  OBVIOUS
<1>1. ASSUME NEW b \in Builders, at[b] \in {"write", "seal"}
      PROVE  Settled = files \ {draft[b]}
  <2>1. \A c \in Builders : at[c] = "seal" => c = b
    BY <1>1, Alone DEF Inv, Under
  <2>2. CASE at[b] = "write"
    BY <2>1, <2>2 DEF Settled, Inv, Publishing
  <2>3. CASE at[b] = "seal"
    <3>1. {draft[c] : c \in {d \in Builders : at[d] = "seal"}} = {draft[b]}
      BY <2>1, <2>3
    <3> QED BY <2>3, <3>1 DEF Settled, Inv, Publishing
  <2> QED BY <1>1, <2>2, <2>3
<1>2. (\A b \in Builders : at[b] # "seal") => Settled = files \ cut
  BY DEF Settled
<1> QED BY <1>1, <1>2 DEF SettledAt

LEMMA SettledNext == Inv' => SettledAt'
BY SettledIs, PTL

\* A round that continues the chain may be appended to it.
LEMMA MayAppend ==
    ASSUME NEW r, Extends(r, Settled), Settled' = Settled \cup {r}
    PROVE  Log!Next
<1>1. r \notin Settled
  BY NewRound
<1>2. Log!Append(r)
  <2>1. Cardinality(Settled) \in Nat
    BY FS_CardinalityType DEF Extends
  <2>2. CASE Settled = {}
    <3>1. Cardinality(Settled) = 0
      BY <2>2, FS_EmptySet
    <3> QED BY <1>1, <2>2, <3>1 DEF Extends, Log!Append, Log!Begins
  <2>3. CASE Settled # {}
    <3>1. PICK p \in Settled : /\ p.round = Cardinality(Settled)
                               /\ r.previous = p /\ r.from = p.through + 1 /\ r.policy = p.policy
      BY <2>3 DEF Extends
    <3>2. Log!Newest(p)
      BY <2>1, <3>1 DEF Extends, Log!Newest
    <3>3. Log!Continues(r, p)
      BY <3>1 DEF Extends, Log!Continues
    <3> QED BY <1>1, <2>3, <3>2, <3>3 DEF Extends, Log!Append
  <2> QED BY <2>2, <2>3
<1>3. r \in Settled' \ Settled
  BY <1>1
<1> QED BY <1>2, <1>3 DEF Log!Next

LEMMA LogStep == Inv /\ Inv' /\ [Next]_vars => [Log!Next]_Settled
<1> SUFFICES ASSUME Inv, Inv', [Next]_vars PROVE Settled' = Settled \/ Log!Next
  OBVIOUS
<1> USE DEF Goes
<1>1. ASSUME UNCHANGED <<files, cut>>,
             \A b \in Builders : at'[b] = "seal" <=> at[b] = "seal",
             \A b \in Builders : at[b] = "seal" => draft'[b] = draft[b]
      PROVE  Settled' = Settled
  <2>1. {draft'[b] : b \in {c \in Builders : at'[c] = "seal"}} = {draft[b] : b \in {c \in Builders : at[c] = "seal"}}
    BY <1>1
  <2> QED BY <1>1, <2>1 DEF Settled
<1>2. CASE UNCHANGED <<chain, building>>
  BY <1>1, <1>2 DEF chain, building
<1>3. ASSUME NEW b \in Builders, Step(b) \/ WriteFails(b) \/ Stop(b)
      PROVE  Settled' = Settled \/ Log!Next
  <2> USE DEF Inv, Bounded, BuildersBounded
  <2>1. \A c \in Builders \ {b} : at[b] \in Under => at[c] \notin Under
    BY Alone
  <2>2. CASE Quiet(b) \/ Build(b) \/ CheckHead(b) \/ SaveState(b) \/ (Stop(b) /\ at[b] # "seal")
    <3>1. UNCHANGED <<files, cut>> /\ at[b] # "seal" /\ at'[b] # "seal"
      BY <2>2 DEF Quiet, Load, Rebuild, WriteRebuilt, SaveRebuilt, ReadWatermark, Lock, ChainBusy,
                  GiveUp, Build, CheckHead, SaveState, Placed, Stop, Returns, chain
    <3>2. \A c \in Builders \ {b} : at'[c] = at[c] /\ draft'[c] = draft[c]
      BY <2>2 DEF Quiet, Load, Rebuild, WriteRebuilt, SaveRebuilt, ReadWatermark, Lock, ChainBusy,
                  GiveUp, Build, CheckHead, SaveState, Stop, Returns
    <3> QED BY <1>1, <3>1, <3>2
  <2>3. CASE Create(b)
    <3>1. at[b] = "create" /\ cut = {} /\ draft[b] \notin files
      BY <2>3, NewRound DEF Create, Publishing
    <3>2. files' = files \cup {draft[b]} /\ at' = [at EXCEPT ![b] = "write"] /\ draft' = draft
      BY <2>3, <3>1 DEF Create
    <3>3. \A c \in Builders : at[c] # "seal"
      BY <2>1, <3>1 DEF Under
    <3>4. Settled = files
      BY <3>1, <3>3, SettledIs DEF SettledAt
    <3>5. at'[b] = "write"
      BY <3>2
    <3>6. Settled' = files' \ {draft'[b]}
      BY <3>5, SettledNext DEF SettledAt
    <3> QED BY <3>1, <3>2, <3>4, <3>6
  <2>4. CASE Write(b)
    <3>1. at[b] = "write" /\ at'[b] = "seal" /\ UNCHANGED <<files, draft>>
      BY <2>4 DEF Write
    <3>2. Settled = files \ {draft[b]} /\ Settled' = files' \ {draft'[b]}
      BY <3>1, SettledIs, SettledNext DEF SettledAt
    <3> QED BY <3>1, <3>2
  <2>5. CASE Seal(b) \/ (Stop(b) /\ at[b] = "seal")
    <3>1. at[b] = "seal" /\ UNCHANGED <<files, cut>> /\ at'[b] # "seal"
          /\ \A c \in Builders \ {b} : at'[c] = at[c]
      BY <2>5 DEF Seal, Stop, Returns, chain
    <3>2. draft[b] \in files /\ cut = {} /\ Extends(draft[b], files \ {draft[b]})
      BY <3>1 DEF Publishing
    <3>3. \A c \in Builders : at'[c] # "seal"
      BY <2>1, <3>1 DEF Under
    <3>4. Settled = files \ {draft[b]} /\ Settled' = files' \ cut'
      BY <3>1, <3>3, SettledIs, SettledNext DEF SettledAt
    <3>5. Settled' = Settled \cup {draft[b]}
      BY <3>1, <3>2, <3>4
    <3> QED BY <3>2, <3>4, <3>5, MayAppend
  <2>6. CASE WriteFails(b)
    <3>1. /\ at[b] \in {"write", "seal"} /\ at'[b] = "idle"
          /\ \A c \in Builders \ {b} : at'[c] = at[c]
          /\ files' = files \ {draft[b]} /\ cut' = cut \ {draft[b]}
      BY <2>6 DEF WriteFails, Returns
    <3>2. cut \subseteq {draft[b]}
      BY <3>1 DEF Publishing
    <3>3. \A c \in Builders : at'[c] # "seal"
      BY <2>1, <3>1 DEF Under
    <3>4. Settled = files \ {draft[b]} /\ Settled' = files' \ cut'
      BY <3>1, <3>3, SettledIs, SettledNext DEF SettledAt
    <3> QED BY <3>1, <3>2, <3>4
  <2> HIDE DEF Inv, Bounded, BuildersBounded
  <2> QED BY <1>3, <2>2, <2>3, <2>4, <2>5, <2>6 DEF Step, Quiet
<1> QED BY <1>2, <1>3 DEF Next, Collects, Interrupted, Drops, vars, chain, building

\* The rounds on disk implement the append-only chain: whichever builder dies or fails where,
\* nothing forks, leaves a gap, is rewritten or goes away (chain.go, Publish and Verify).
THEOREM ChainImplementsLog == Spec => ChainIsLog
<1>1. Init => Log!Init
  BY DEF Init, Settled, Log!Init
<1>2. Inv /\ Inv' /\ [Next]_vars => [Log!Next]_Settled
  BY LogStep
<1> QED BY <1>1, <1>2, Inductive, PTL DEF Spec, ChainIsLog, Log!Spec
=============================================================================
