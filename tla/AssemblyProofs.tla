--------------------------- MODULE AssemblyProofs ----------------------------
(***************************************************************************)
(* Proofs about Assembler and Rendering, for every set of sessions the     *)
(* assumptions allow, however many rows land, in whatever order, and       *)
(* wherever the watermark is: the conversation is one tree, containment    *)
(* stays in a stream, nothing the runtime said is lost, children are       *)
(* accounted for, and a round sees its evidence only.                      *)
(*                                                                         *)
(* The proofs go from the rows of one index to its nodes (Sound, Linked    *)
(* and Tidy are what the nodes ask of the rows), and from the files to the *)
(* rows (Indexed); the invariant says that what has landed is such an      *)
(* index, and that what was said was said of a prefix of it.               *)
(***************************************************************************)
EXTENDS Rendering, WellFoundedInduction, TLAPS

-----------------------------------------------------------------------------
(***************************************************************************)
(* The operators that pick, and the stages of one assembly.                *)
(***************************************************************************)

\* The least of a set of numbers.
LEMMA MinIs ==
    ASSUME NEW S \in SUBSET Nat, S # {}
    PROVE  Min(S) \in S /\ \A y \in S : Min(S) <= y
<1>1. PICK x \in S : \A y \in S : ~ (<<y, x>> \in OpToRel(<, Nat))
  BY NatLessThanWellFounded, WFMin
<1>2. ASSUME NEW y \in S PROVE x <= y
  <2>1. x \in Nat /\ y \in Nat
    OBVIOUS
  <2>2. ~(y < x)
    BY <1>1, <2>1 DEF OpToRel
  <2> QED BY <2>1, <2>2
<1> QED BY <1>2 DEF Min

\* The first row of a set is in it,
LEMMA FirstIs ==
    ASSUME NEW S, S # {}, \A e \in S : e.n \in Nat
    PROVE  First(S) \in S /\ \A f \in S : First(S).n <= f.n
<1> DEFINE B == {e.n : e \in S}
<1>1. B \in SUBSET Nat /\ B # {}
  OBVIOUS
<1>2. Min(B) \in B /\ \A y \in B : Min(B) <= y
  <2> HIDE DEF B
  <2> QED BY <1>1, MinIs
<1>3. PICK e \in S : Min(B) = e.n
  BY <1>2
<1>4. \A f \in S : e.n <= f.n
  BY <1>2, <1>3
<1> QED BY <1>4 DEF First

\* ... and so is the last, when there is a bound.
LEMMA FinalIs ==
    ASSUME NEW S, S # {}, NEW N \in Nat, \A e \in S : e.n \in Nat /\ e.n <= N
    PROVE  Final(S) \in S /\ \A f \in S : f.n <= Final(S).n
<1> DEFINE B == {N - e.n : e \in S}
<1>1. B \in SUBSET Nat /\ B # {}
  OBVIOUS
<1>2. Min(B) \in B /\ \A y \in B : Min(B) <= y
  <2> HIDE DEF B
  <2> QED BY <1>1, MinIs
<1>3. PICK e \in S : Min(B) = N - e.n
  BY <1>2
<1>4. \A f \in S : f.n <= e.n
  <2>1. ASSUME NEW f \in S PROVE f.n <= e.n
    <3>1. N - f.n \in B
      OBVIOUS
    <3>2. N - e.n <= N - f.n
      BY <1>2, <1>3, <3>1
    <3> QED BY <3>2
  <2> QED BY <2>1
<1> QED BY <1>4 DEF Final
-----------------------------------------------------------------------------
\* The builder after stage 5, after stage 6 and after stage 7.
Spawned(jx, w) == Join(Read(jx, w))
Epoched(jx, w) == Cut(Spawned(jx, w))
Talked(jx, w)  == Placed(Epoched(jx, w))

InEpoch(jx, w, i) == [Noted(jx, i) EXCEPT !.epoch = EpochOf(Spawned(jx, w), Noted(jx, i))]
InTalk(jx, w, i)  == [InEpoch(jx, w, i) EXCEPT !.talk = TalkWith(Epoched(jx, w), Beginnings(Epoched(jx, w)), InEpoch(jx, w, i))]

\* Two rows are one but for what stages 6 and 7 found out.
Alike(e, f) ==
    /\ e.n = f.n /\ e.loop = f.loop /\ e.resumes = f.resumes /\ e.reset = f.reset
    /\ e.at = f.at /\ e.stream = f.stream /\ e.kind = f.kind /\ e.call = f.call /\ e.run = f.run
    /\ e.rec = f.rec /\ e.continues = f.continues /\ e.tool = f.tool /\ e.child = f.child
    /\ e.startedBy = f.startedBy /\ e.batch = f.batch /\ e.trigger = f.trigger /\ e.flags = f.flags
    /\ e.ts = f.ts /\ e.uses = f.uses /\ e.results = f.results /\ e.parts = f.parts

\* A noted row keeps what the index says of it.
LEMMA NotedIs ==
    ASSUME NEW jx, NEW i
    PROVE  /\ Noted(jx, i).n = i /\ Noted(jx, i).loop = RunFor(jx, i)
           /\ Noted(jx, i).stream = jx[i].stream /\ Noted(jx, i).at = jx[i].at
           /\ Noted(jx, i).kind = jx[i].kind /\ Noted(jx, i).startedBy = jx[i].startedBy
           /\ Noted(jx, i).tool = jx[i].tool /\ Noted(jx, i).results = jx[i].results
           /\ Noted(jx, i).flags = jx[i].flags /\ Noted(jx, i).call = jx[i].call
           /\ Noted(jx, i).parts = jx[i].parts /\ Noted(jx, i).trigger = jx[i].trigger
BY DEF Noted

\* A row that a stage marks is otherwise the row it was.
LEMMA MarkedAlike ==
    ASSUME NEW jx, NEW w, NEW i
    PROVE  /\ Alike(InEpoch(jx, w, i), Noted(jx, i))
           /\ Alike(InTalk(jx, w, i), Noted(jx, i))
           /\ InEpoch(jx, w, i).epoch = EpochOf(Spawned(jx, w), Noted(jx, i))
           /\ InTalk(jx, w, i).epoch = InEpoch(jx, w, i).epoch
           /\ InTalk(jx, w, i).talk = TalkWith(Epoched(jx, w), Beginnings(Epoched(jx, w)), InEpoch(jx, w, i))
<1> DEFINE r == Noted(jx, i)
           x == EpochOf(Spawned(jx, w), r)
           e == InEpoch(jx, w, i)
           y == TalkWith(Epoched(jx, w), Beginnings(Epoched(jx, w)), e)
<1>1. e = [r EXCEPT !.epoch = x] /\ InTalk(jx, w, i) = [e EXCEPT !.talk = y]
  BY DEF InEpoch, InTalk
<1> HIDE DEF x, y, e
<1>2. Alike(e, r) /\ e.epoch = x /\ DOMAIN e = DOMAIN r
  BY <1>1 DEF Alike, Noted
<1>3. Alike([e EXCEPT !.talk = y], r) /\ [e EXCEPT !.talk = y].epoch = e.epoch /\ [e EXCEPT !.talk = y].talk = y
  BY <1>1 DEF Alike, Noted
<1> QED BY <1>1, <1>2, <1>3 DEF e, x, y

\* The stages in closed form: the rows after each of them, one per first copy of a record.
LEMMA StagesAre ==
    ASSUME NEW jx, NEW w
    PROVE  /\ Read(jx, w).rows = {Noted(jx, i) : i \in Canonical(jx, w)}
           /\ Spawned(jx, w).rows = {Noted(jx, i) : i \in Canonical(jx, w)}
           /\ Epoched(jx, w).rows = {InEpoch(jx, w, i) : i \in Canonical(jx, w)}
           /\ Talked(jx, w).rows = {InTalk(jx, w, i) : i \in Canonical(jx, w)}
           /\ Talked(jx, w).joined = Joined(Read(jx, w))
<1> DEFINE a == Read(jx, w)
           b == Spawned(jx, w)
           c == Epoched(jx, w)
           d == Talked(jx, w)
           C == Canonical(jx, w)
<1>1. /\ a = [joined |-> {}, rows |-> {Noted(jx, i) : i \in C}]
      /\ b = [a EXCEPT !.joined = Joined(a)]
      /\ c = [b EXCEPT !.rows = {[e EXCEPT !.epoch = EpochOf(b, e)] : e \in b.rows}]
      /\ d = [c EXCEPT !.rows = {[e EXCEPT !.talk = TalkWith(c, Beginnings(c), e)] : e \in c.rows}]
  BY DEF Spawned, Epoched, Talked, Join, Cut, Placed, Read
<1>2. \A i : InEpoch(jx, w, i) = [Noted(jx, i) EXCEPT !.epoch = EpochOf(b, Noted(jx, i))]
  BY DEF InEpoch
<1>3. \A i : InTalk(jx, w, i) = [InEpoch(jx, w, i) EXCEPT !.talk = TalkWith(c, Beginnings(c), InEpoch(jx, w, i))]
  BY DEF InTalk
<1> HIDE DEF a, b, c, d, C
<1>4. a.rows = {Noted(jx, i) : i \in C} /\ b = [joined |-> Joined(a), rows |-> {Noted(jx, i) : i \in C}]
  BY <1>1
<1>5. {[e EXCEPT !.epoch = EpochOf(b, e)] : e \in b.rows} = {InEpoch(jx, w, i) : i \in C}
  <2> DEFINE f(e) == [e EXCEPT !.epoch = EpochOf(b, e)]
  <2>1. \A i : InEpoch(jx, w, i) = f(Noted(jx, i))
    BY <1>2
  <2> SUFFICES {f(e) : e \in b.rows} = {InEpoch(jx, w, i) : i \in C}
    OBVIOUS
  <2>2. b.rows = {Noted(jx, i) : i \in C}
    BY <1>4
  <2> HIDE DEF f
  <2> QED BY <2>1, <2>2
<1>6. c = [joined |-> Joined(a), rows |-> {InEpoch(jx, w, i) : i \in C}]
  BY <1>1, <1>4, <1>5
<1>7. {[e EXCEPT !.talk = TalkWith(c, Beginnings(c), e)] : e \in c.rows} = {InTalk(jx, w, i) : i \in C}
  <2> DEFINE f(e) == [e EXCEPT !.talk = TalkWith(c, Beginnings(c), e)]
  <2>1. \A i : InTalk(jx, w, i) = f(InEpoch(jx, w, i))
    BY <1>3
  <2> SUFFICES {f(e) : e \in c.rows} = {InTalk(jx, w, i) : i \in C}
    OBVIOUS
  <2>2. c.rows = {InEpoch(jx, w, i) : i \in C}
    BY <1>6
  <2> HIDE DEF f
  <2> QED BY <2>1, <2>2
<1>8. d = [joined |-> Joined(a), rows |-> {InTalk(jx, w, i) : i \in C}]
  BY <1>1, <1>6, <1>7
<1>9. /\ a.rows = {Noted(jx, i) : i \in C} /\ b.rows = {Noted(jx, i) : i \in C}
      /\ c.rows = {InEpoch(jx, w, i) : i \in C} /\ d.rows = {InTalk(jx, w, i) : i \in C}
      /\ d.joined = Joined(a)
  BY <1>4, <1>6, <1>8
<1> QED BY <1>9 DEF a, b, c, d, C

-----------------------------------------------------------------------------
(***************************************************************************)
(* What holds of the rows after the stages: their order, epochs and talks. *)
(***************************************************************************)

\* An index is a sequence of rows that say where they are, each once.
Plain(jx) ==
    /\ Len(jx) \in Nat /\ DOMAIN jx = 1 .. Len(jx)
    /\ \A i, j \in DOMAIN jx : jx[i].at = jx[j].at => i = j
    /\ \A i \in DOMAIN jx : jx[i].parts \subseteq {"text", "thinking"}

Ordered(b) ==
    /\ \E N \in Nat : \A e \in b.rows : e.n \in Nat /\ e.n <= N
    /\ \A e, f \in b.rows : e.n = f.n => e = f

\* The talk of a row, by its stream.
TalkFits(b, e) ==
    /\ e.stream = None => e.talk = None
    /\ e.stream \notin {None, Main} => e.talk = <<"talk", e.stream>>
    /\ e.stream = Main /\ e.talk # None =>
          \E f \in b.rows : /\ f.stream = Main /\ f.loop # None
                            /\ f.talk = e.talk /\ e.talk = <<"talk", Main, f.loop>>
    /\ e.stream = Main /\ e.loop # None => e.talk # None
    /\ \A f \in b.rows : e.stream = Main /\ f.stream = Main /\ e.loop # None /\ f.loop = e.loop => e.talk = f.talk

Sound(b) ==
    /\ Ordered(b)
    /\ \A e, f \in b.rows : e.at = f.at => e = f
    /\ \A e \in b.rows : e.parts \subseteq {"text", "thinking"}
    /\ \A e \in b.rows : \E x : e.epoch = <<"epoch", e.stream, x>>
    /\ \A e \in b.rows : TalkFits(b, e)

\* An identifier that is absent is no node's.
Apart == Main # None /\ \A x, y, z : None \notin {<<x>>, <<x, y>>, <<x, y, z>>}

\* The stages keep the order of the rows.
LEMMA RowsOrdered ==
    ASSUME NEW jx, NEW w, Plain(jx)
    PROVE  Ordered(Epoched(jx, w)) /\ Ordered(Talked(jx, w))
<1>1. /\ Len(jx) \in Nat
      /\ \A i \in Canonical(jx, w) : i \in Nat /\ i <= Len(jx)
  BY DEF Plain, Canonical
<1>2. \A i : InEpoch(jx, w, i).n = i /\ InTalk(jx, w, i).n = i
  BY MarkedAlike, NotedIs DEF Alike
<1> QED BY <1>1, <1>2, StagesAre DEF Ordered

\* Inside Main: the talk of a run's rows, and of any other row there.
LEMMA TalkWithIs ==
    ASSUME NEW c, Ordered(c), Apart, NEW e \in c.rows, e.stream = Main
    PROVE  LET t(x) == TalkWith(c, Beginnings(c), x) IN
           /\ t(e) # None => \E f \in c.rows : f.stream = Main /\ f.loop # None /\ t(f) = t(e)
                                                 /\ t(e) = <<"talk", Main, f.loop>>
           /\ e.loop # None => t(e) # None
           /\ \A f \in c.rows : e.loop # None /\ f.stream = Main /\ f.loop = e.loop => t(f) = t(e)
<1> DEFINE B == Beginnings(c)
           t(x) == TalkWith(c, B, x)
           from(x) == IF x.loop = None THEN x ELSE Opening(c, Main, x.loop)
           begun(x) == {f \in B : f.n <= from(x).n}
           opens == {Opening(c, Main, r) : r \in Runs(c, Main)}
<1>1. PICK N \in Nat : \A f \in c.rows : f.n \in Nat /\ f.n <= N
  BY DEF Ordered
<1>2. \A x : x.stream = Main => t(x) = IF begun(x) = {} THEN None ELSE <<"talk", Main, Final(begun(x)).loop>>
  BY DEF TalkWith, Apart
<1>3. ASSUME NEW r \in Runs(c, Main)
      PROVE  LET o == Opening(c, Main, r) IN
             o \in c.rows /\ o.stream = Main /\ o.loop = r /\ r # None
  <2> DEFINE S == {f \in In(c, Main) : f.loop = r}
  <2>1. r # None /\ S # {} /\ S \subseteq c.rows
    BY DEF Runs, In
  <2>2. \A f \in S : f.n \in Nat
    BY <1>1, <2>1
  <2>3. First(S) \in S
    <3> HIDE DEF S
    <3> QED BY <2>1, <2>2, FirstIs
  <2> QED BY <2>1, <2>3 DEF Opening, In
<1>4. B \subseteq opens /\ (opens # {} => First(opens) \in B)
  <2>1. opens \subseteq c.rows
    BY <1>3
  <2>2. opens # {} => First(opens) \in opens
    <3> HIDE DEF opens
    <3> QED BY <1>1, <2>1, FirstIs
  <2> QED BY <2>2 DEF Beginnings
<1>5. ASSUME NEW f \in c.rows, f.stream = Main, f.loop # None
      PROVE  f.loop \in Runs(c, Main) /\ from(f) = Opening(c, Main, f.loop)
  BY <1>5 DEF Runs, In
<1>6. ASSUME e.loop # None PROVE begun(e) # {}
  <2>1. from(e) \in opens /\ opens # {} /\ opens \subseteq c.rows
    BY <1>3, <1>5, <1>6
  <2>2. First(opens).n <= from(e).n
    <3> HIDE DEF opens, from
    <3> QED BY <1>1, <2>1, FirstIs
  <2> QED BY <1>4, <2>1, <2>2
<1>7. ASSUME begun(e) # {}
      PROVE  \E f \in c.rows : f.stream = Main /\ f.loop # None /\ t(f) = t(e)
                                 /\ t(e) = <<"talk", Main, f.loop>>
  <2> DEFINE g == Final(begun(e))
  <2>1. begun(e) \subseteq c.rows
    BY <1>3, <1>4
  <2>2. g \in begun(e)
    <3> HIDE DEF begun
    <3> QED BY <1>1, <1>7, <2>1, FinalIs
  <2>3. g \in B /\ g \in opens /\ g \in c.rows
    BY <1>4, <2>1, <2>2
  <2>4. PICK r \in Runs(c, Main) : g = Opening(c, Main, r)
    BY <2>3
  <2>5. g.stream = Main /\ g.loop # None /\ from(g) = g
    BY <1>3, <2>4
  <2>6. begun(g) = {f \in B : f.n <= g.n} /\ g \in begun(g) /\ begun(g) \subseteq c.rows
    BY <1>1, <1>3, <1>4, <2>3, <2>5
  <2>7. Final(begun(g)) = g
    <3> DEFINE h == Final(begun(g))
    <3>1. h \in begun(g) /\ g.n <= h.n
      <4> HIDE DEF begun, g
      <4> QED BY <1>1, <2>6, FinalIs
    <3>2. h.n <= g.n /\ h \in c.rows
      BY <2>6, <3>1
    <3> HIDE DEF g, h
    <3>3. h.n = g.n
      BY <1>1, <2>3, <3>1, <3>2
    <3>4. h = g
      BY <2>3, <3>2, <3>3 DEF Ordered
    <3> QED BY <3>4 DEF h
  <2>8. t(g) = <<"talk", Main, g.loop>> /\ t(e) = <<"talk", Main, g.loop>>
    <3> HIDE DEF begun, g, t
    <3> QED BY <1>2, <1>7, <2>5, <2>6, <2>7 DEF g
  <2> QED BY <2>3, <2>5, <2>8
<1>8. \A f \in c.rows : e.loop # None /\ f.stream = Main /\ f.loop = e.loop => t(f) = t(e)
  <2> SUFFICES ASSUME NEW f \in c.rows, e.loop # None, f.stream = Main, f.loop = e.loop PROVE t(f) = t(e)
    OBVIOUS
  <2>1. from(f) = from(e)
    BY <1>5
  <2>2. begun(f) = begun(e)
    BY <2>1
  <2> HIDE DEF begun, t
  <2> QED BY <1>2, <2>2
<1>9. begun(e) = {} => t(e) = None
  <2> HIDE DEF begun, t
  <2> QED BY <1>2
<1>10. begun(e) # {} => t(e) # None
  <2> HIDE DEF begun, t
  <2> QED BY <1>7 DEF Apart
<1>11. /\ t(e) # None => \E f \in c.rows : f.stream = Main /\ f.loop # None /\ t(f) = t(e)
                                               /\ t(e) = <<"talk", Main, f.loop>>
       /\ e.loop # None => t(e) # None
  <2> HIDE DEF begun, t
  <2> QED BY <1>6, <1>7, <1>9, <1>10
<1> QED BY <1>8, <1>11

\* The rows of a finished builder are sound, whatever index they are of.
LEMMA SoundIs ==
    ASSUME NEW jx, NEW w, Plain(jx), Apart
    PROVE  Sound(Talked(jx, w))
<1> DEFINE b == Talked(jx, w)
           c == Epoched(jx, w)
           C == Canonical(jx, w)
           t(x) == TalkWith(c, Beginnings(c), x)
<1>1. /\ C \subseteq DOMAIN jx
      /\ c.rows = {InEpoch(jx, w, i) : i \in C} /\ b.rows = {InTalk(jx, w, i) : i \in C}
  BY StagesAre DEF Canonical
<1>2. Ordered(b) /\ Ordered(c)
  BY RowsOrdered
<1>3. ASSUME NEW i \in C
      PROVE  LET e == InTalk(jx, w, i)
                 d == InEpoch(jx, w, i)
             IN  /\ e.stream = d.stream /\ e.loop = d.loop /\ e.talk = t(d)
                 /\ e.at = jx[i].at /\ e.parts = jx[i].parts
                 /\ \E x : e.epoch = <<"epoch", e.stream, x>>
  <2> DEFINE e == InTalk(jx, w, i)
             d == InEpoch(jx, w, i)
             r == Noted(jx, i)
  <2>1. e.stream = d.stream /\ e.loop = d.loop /\ e.stream = r.stream /\ e.at = r.at /\ e.parts = r.parts
    BY MarkedAlike DEF Alike
  <2>2. e.talk = t(d) /\ e.epoch = EpochOf(Spawned(jx, w), r)
    BY MarkedAlike
  <2>3. \E x : EpochOf(Spawned(jx, w), r) = <<"epoch", r.stream, x>>
    BY DEF EpochOf
  <2>4. r.at = jx[i].at /\ r.parts = jx[i].parts
    BY NotedIs
  <2> HIDE DEF e, d, r, t
  <2>5. \E x : e.epoch = <<"epoch", e.stream, x>>
    BY <2>1, <2>2, <2>3
  <2> QED BY <2>1, <2>2, <2>4, <2>5 DEF e, d, r
<1> HIDE DEF b, c, C, t
<1>4. \A e, f \in b.rows : e.at = f.at => e = f
  BY <1>1, <1>3 DEF Plain
<1>5. \A e \in b.rows : e.parts \subseteq {"text", "thinking"}
  BY <1>1, <1>3 DEF Plain
<1>6. \A e \in b.rows : \E x : e.epoch = <<"epoch", e.stream, x>>
  BY <1>1, <1>3
<1>7. ASSUME NEW i \in C
      PROVE  TalkFits(b, InTalk(jx, w, i))
  <2> DEFINE e == InTalk(jx, w, i)
             d == InEpoch(jx, w, i)
  <2>1. d \in c.rows /\ e \in b.rows /\ e.stream = d.stream /\ e.loop = d.loop /\ e.talk = t(d)
    BY <1>1, <1>3
  <2>2. \A f \in c.rows : \E g \in b.rows : g.stream = f.stream /\ g.loop = f.loop /\ g.talk = t(f)
    BY <1>1, <1>3
  <2>3. \A g \in b.rows : \E f \in c.rows : g.stream = f.stream /\ g.loop = f.loop /\ g.talk = t(f)
    BY <1>1, <1>3
  <2> HIDE DEF e, d
  <2>4. e.stream = None => e.talk = None
    BY <2>1 DEF t, TalkWith
  <2>5. e.stream \notin {None, Main} => e.talk = <<"talk", e.stream>>
    BY <2>1 DEF t, TalkWith
  <2>6. CASE e.stream # Main
    BY <2>4, <2>5, <2>6 DEF TalkFits, e
  <2>7. CASE e.stream = Main
    <3>1. /\ t(d) # None => \E f \in c.rows : f.stream = Main /\ f.loop # None /\ t(f) = t(d)
                                                 /\ t(d) = <<"talk", Main, f.loop>>
          /\ d.loop # None => t(d) # None
          /\ \A f \in c.rows : d.loop # None /\ f.stream = Main /\ f.loop = d.loop => t(f) = t(d)
      BY <1>2, <2>1, <2>7, TalkWithIs DEF t
    <3>2. e.talk # None => \E f \in b.rows : f.stream = Main /\ f.loop # None
                                                 /\ f.talk = e.talk /\ e.talk = <<"talk", Main, f.loop>>
      BY <2>1, <2>2, <3>1
    <3>3. \A f \in b.rows : e.loop # None /\ f.stream = Main /\ f.loop = e.loop => e.talk = f.talk
      BY <2>1, <2>3, <3>1
    <3> QED BY <2>1, <2>4, <2>5, <3>1, <3>2, <3>3 DEF TalkFits, e
  <2> QED BY <2>6, <2>7
<1>8. \A e \in b.rows : TalkFits(b, e)
  BY <1>1, <1>7
<1> QED BY <1>2, <1>4, <1>5, <1>6, <1>8 DEF Sound, b

-----------------------------------------------------------------------------
(***************************************************************************)
(* The nodes one by one, and what each says.                               *)
(***************************************************************************)

\* A node says what it was made of.
LEMMA NodeIs ==
    ASSUME NEW id, NEW parent, NEW stream, NEW refs, NEW what
    PROVE  LET n == Node(id, parent, stream, refs, what) IN
           n.id = id /\ n.parent = parent /\ n.stream = stream /\ n.refs = refs /\ n.what = what
BY DEF Node

\* The node of a thing, each as the emission writes it.
EpochNode(s, p)  == Node(p, Stream(s), s, {}, {})
StreamNode(b, s) == Node(Stream(s), Session, s, At({First(In(b, s))}), {})
MainTalk(t)      == Node(t.id, t.opens.epoch, Main, {t.opens.at}, {})
ChildTalk(b, s)  == Node(<<"talk", s>>, First(In(b, s)).epoch, s, {First(In(b, s)).at}, {})
RunNode(b, s, r) ==
    Node(<<"run", Opening(b, s, r).talk, r>>, Opening(b, s, r).talk, s, {Opening(b, s, r).at}, {})
SegmentNode(b, g) == Node(g.id, Session, None, {g.at}, UnmetGates(b, g))
CallNode(b, c) ==
    LET parts == Fragments(b, c)
    IN  Node(<<"call", c>>, Home(b, First(parts)), First(parts).stream, At(parts),
             IF \E e \in parts : "finished" \in e.flags THEN {<<"usage", Final(parts).at>>} ELSE {})
MessageNode(b, c, e, p) ==
    Node(<<p, e.at>>, <<"call", c>>, e.stream, {e.at},
         {f \in {"synthetic"} : \E d \in Fragments(b, c) : f \in d.flags})
ToolNode(b, t) ==
    LET use == First(Uses(b, t))
        one == Cardinality(Results(b, t)) = 1
    IN  Node(<<"tool", t>>, IF use.call \in Calls(b) THEN <<"call", use.call>> ELSE Home(b, use),
             use.stream, At({use} \cup (IF one THEN Results(b, t) ELSE {}) \cup Manifest(b, t)),
             IF \E d \in b.joined : d.tool = t THEN {"starts_agent"} ELSE {})
StepNode(b, e, k)  == Node(<<k, e.at>>, Home(b, e), e.stream, {e.at}, {})
ResetNode(e, k)    == Node(<<k, e.at>>, e.epoch, e.stream, {e.at}, {})
OutputNode(b, s) ==
    LET spoke     == IF Answers(b, s) = {} THEN {} ELSE {Final(Answers(b, s))}
        returned == IF Returned(b, s) = {} THEN {} ELSE {First(Returned(b, s))}
        primary  == IF spoke # {} THEN First(spoke) ELSE First(returned)
    IN  Node(OutputId(b, s), Home(b, primary), s, At(spoke \cup returned), {})

Steps(e) == UNION {Is(e, ks) : ks \in StepKinds}
StepsOf(b)  == UNION {{StepNode(b, e, k) : k \in Steps(e)} : e \in b.rows}
ResetsOf(b) == UNION {{ResetNode(e, k) : k \in Is(e, ResetKinds)} : e \in Streamed(b)}
Toolsome(b) == {u \in Tools(b) : Uses(b, u) # {}}

\* The nodes, set by set, each with the operator that makes it.
LEMMA NodesAre ==
    ASSUME NEW b
    PROVE  /\ \A n : n \in StreamNodes(b)  <=> \E s \in Streams(b) : n = StreamNode(b, s)
           /\ \A n : n \in EpochNodes(b)   <=> \E s \in Streams(b) : \E p \in Epochs(b, s) : n = EpochNode(s, p)
           /\ \A n : n \in TalkNodes(b)    <=> \/ \E t \in MainTalks(b) : n = MainTalk(t)
                                               \/ \E s \in Children(b) : n = ChildTalk(b, s)
           /\ \A n : n \in RunNodes(b)     <=> \E s \in Streams(b) : \E r \in Runs(b, s) : n = RunNode(b, s, r)
           /\ \A n : n \in SegmentNodes(b) <=> \E g \in Segments(b) : n = SegmentNode(b, g)
           /\ \A n : n \in CallNodes(b)    <=> \E c \in Calls(b) : n = CallNode(b, c)
           /\ \A n : n \in MessageNodes(b) <=> \E c \in Calls(b) : \E e \in Fragments(b, c) : \E p \in e.parts :
                                                  n = MessageNode(b, c, e, p)
           /\ \A n : n \in ToolNodes(b)    <=> \E t \in Toolsome(b) : n = ToolNode(b, t)
           /\ \A n : n \in StepNodes(b)    <=> \/ \E e \in b.rows : \E k \in Steps(e) : n = StepNode(b, e, k)
                                               \/ \E e \in Streamed(b) : \E k \in Is(e, ResetKinds) : n = ResetNode(e, k)
           /\ \A n : n \in OutputNodes(b)  <=> \E s \in Finished(b) : n = OutputNode(b, s)
<1>1. StreamNodes(b) = {StreamNode(b, s) : s \in Streams(b)}
  BY DEF StreamNodes, StreamNode
<1>2. EpochNodes(b) = UNION {{EpochNode(s, p) : p \in Epochs(b, s)} : s \in Streams(b)}
  BY DEF EpochNodes, EpochNode
<1>3. TalkNodes(b) = {MainTalk(t) : t \in MainTalks(b)} \cup {ChildTalk(b, s) : s \in Children(b)}
  BY DEF TalkNodes, MainTalk, ChildTalk
<1>4. RunNodes(b) = UNION {{RunNode(b, s, r) : r \in Runs(b, s)} : s \in Streams(b)}
  BY DEF RunNodes, RunNode
<1>5. SegmentNodes(b) = {SegmentNode(b, g) : g \in Segments(b)}
  BY DEF SegmentNodes, SegmentNode
<1>6. CallNodes(b) = {CallNode(b, c) : c \in Calls(b)}
  BY DEF CallNodes, CallNode
<1>7. MessageNodes(b) =
        UNION {UNION {{MessageNode(b, c, e, p) : p \in e.parts} : e \in Fragments(b, c)} : c \in Calls(b)}
  BY DEF MessageNodes, MessageNode
<1>8. ToolNodes(b) = {ToolNode(b, t) : t \in Toolsome(b)}
  BY DEF ToolNodes, ToolNode, Toolsome
<1>9. StepNodes(b) = StepsOf(b) \cup ResetsOf(b)
  BY DEF StepNodes, StepNode, ResetNode, Steps, StepsOf, ResetsOf
<1>10. OutputNodes(b) = {OutputNode(b, s) : s \in Finished(b)}
  BY DEF OutputNodes, OutputNode
<1>11. \A n : n \in MessageNodes(b) <=> \E c \in Calls(b) : \E e \in Fragments(b, c) : \E p \in e.parts :
                                           n = MessageNode(b, c, e, p)
  BY <1>7
<1>12. \A n : n \in StepNodes(b) <=> \/ \E e \in b.rows : \E k \in Steps(e) : n = StepNode(b, e, k)
                                     \/ \E e \in Streamed(b) : \E k \in Is(e, ResetKinds) : n = ResetNode(e, k)
  <2>1. \A n : n \in StepsOf(b) <=> \E e \in b.rows : \E k \in Steps(e) : n = StepNode(b, e, k)
    BY DEF StepsOf
  <2>2. \A n : n \in ResetsOf(b) <=> \E e \in Streamed(b) : \E k \in Is(e, ResetKinds) : n = ResetNode(e, k)
    BY DEF ResetsOf
  <2> QED BY <1>9, <2>1, <2>2
<1> QED BY <1>1, <1>2, <1>3, <1>4, <1>5, <1>6, <1>8, <1>10, <1>11, <1>12

\* What each node says of itself: its id, what holds it and its stream.
LEMMA EpochSays ==
    ASSUME NEW s, NEW p
    PROVE  LET n == EpochNode(s, p) IN
              n.id = p /\ n.parent = Stream(s) /\ n.stream = s
BY NodeIs DEF EpochNode

LEMMA StreamSays ==
    ASSUME NEW b, NEW s
    PROVE  LET n == StreamNode(b, s) IN
              n.id = Stream(s) /\ n.parent = Session /\ n.stream = s
BY NodeIs DEF StreamNode

LEMMA MainTalkSays ==
    ASSUME NEW t
    PROVE  LET n == MainTalk(t) IN
              n.id = t.id /\ n.parent = t.opens.epoch /\ n.stream = Main
BY NodeIs DEF MainTalk

LEMMA ChildTalkSays ==
    ASSUME NEW b, NEW s
    PROVE  LET n == ChildTalk(b, s) IN
              n.id = <<"talk", s>> /\ n.parent = First(In(b, s)).epoch /\ n.stream = s
BY NodeIs DEF ChildTalk

LEMMA RunSays ==
    ASSUME NEW b, NEW s, NEW r
    PROVE  LET n == RunNode(b, s, r) IN
              /\ n.id = <<"run", Opening(b, s, r).talk, r>>
              /\ n.parent = Opening(b, s, r).talk /\ n.stream = s
BY NodeIs DEF RunNode

LEMMA SegmentSays ==
    ASSUME NEW b, NEW g
    PROVE  LET n == SegmentNode(b, g) IN
              n.id = g.id /\ n.parent = Session /\ n.stream = None
BY NodeIs DEF SegmentNode

LEMMA CallSays ==
    ASSUME NEW b, NEW c
    PROVE  LET n == CallNode(b, c) IN
              /\ n.id = <<"call", c>> /\ n.parent = Home(b, First(Fragments(b, c)))
              /\ n.stream = First(Fragments(b, c)).stream
BY NodeIs DEF CallNode

LEMMA MessageSays ==
    ASSUME NEW b, NEW c, NEW e, NEW p
    PROVE  LET n == MessageNode(b, c, e, p) IN
              n.id = <<p, e.at>> /\ n.parent = <<"call", c>> /\ n.stream = e.stream
BY NodeIs DEF MessageNode

LEMMA ToolSays ==
    ASSUME NEW b, NEW t
    PROVE  LET n == ToolNode(b, t) IN
              LET use == First(Uses(b, t)) IN
              /\ n.id = <<"tool", t>> /\ n.stream = use.stream
              /\ n.parent = IF use.call \in Calls(b) THEN <<"call", use.call>> ELSE Home(b, use)
BY NodeIs DEF ToolNode

LEMMA StepSays ==
    ASSUME NEW b, NEW e, NEW k
    PROVE  LET n == StepNode(b, e, k) IN
              /\ n.id = <<k, e.at>> /\ n.parent = Home(b, e) /\ n.stream = e.stream
              /\ e.at \in n.refs
BY NodeIs DEF StepNode

LEMMA ResetSays ==
    ASSUME NEW e, NEW k
    PROVE  LET n == ResetNode(e, k) IN
              n.id = <<k, e.at>> /\ n.parent = e.epoch /\ n.stream = e.stream /\ e.at \in n.refs
BY NodeIs DEF ResetNode

\* The row a child's answer is held by.
Primary(b, s) == IF Answers(b, s) = {} THEN First(Returned(b, s)) ELSE Final(Answers(b, s))

\* The output of a child is held where the row it is taken from is: in the stream of the child, or a journal has it.
LEMMA OutputSays ==
    ASSUME NEW b, NEW s \in Finished(b), Sound(b)
    PROVE  LET n == OutputNode(b, s)
               e == Primary(b, s)
           IN  /\ n.id = OutputId(b, s) /\ n.parent = Home(b, e) /\ n.stream = s
               /\ e \in b.rows
               /\ e.stream = s \/ e.kind = "journal"
<1> DEFINE A == Answers(b, s)
           R == Returned(b, s)
           spoke     == IF A = {} THEN {} ELSE {Final(A)}
           returned == IF R = {} THEN {} ELSE {First(R)}
           primary  == IF spoke # {} THEN First(spoke) ELSE First(returned)
           n == OutputNode(b, s)
<1>1. A \cup R # {} /\ A \subseteq b.rows /\ R \subseteq b.rows
      /\ (\A e \in A : e.stream = s)
      /\ (\A e \in R : e.kind = "journal")
  BY DEF Finished, Answers, Returned, In
<1>2. n.id = OutputId(b, s) /\ n.parent = Home(b, primary) /\ n.stream = s
  BY NodeIs DEF OutputNode
<1>3. PICK N \in Nat : \A e \in b.rows : e.n \in Nat /\ e.n <= N
  BY DEF Sound, Ordered
<1>4. A # {} => Final(A) \in A
  <2> HIDE DEF A
  <2> QED BY <1>1, <1>3, FinalIs
<1>5. R # {} => First(R) \in R
  <2> HIDE DEF R
  <2> QED BY <1>1, <1>3, FirstIs
<1>6. \A x \in b.rows : First({x}) = x
  <2> SUFFICES ASSUME NEW x \in b.rows PROVE First({x}) = x
    OBVIOUS
  <2>1. First({x}) \in {x}
    BY <1>3, FirstIs
  <2> QED BY <2>1
<1>7. primary = Primary(b, s)
  <2> HIDE DEF A, R
  <2> QED BY <1>1, <1>4, <1>5, <1>6 DEF Primary, A, R
<1>8. Primary(b, s) \in A \cup R
  <2> HIDE DEF A, R
  <2> QED BY <1>1, <1>4, <1>5 DEF Primary, A, R
<1>9. n.id = OutputId(b, s) /\ n.parent = Home(b, Primary(b, s)) /\ n.stream = s
  BY <1>2, <1>7
<1>10. Primary(b, s) \in b.rows /\ (Primary(b, s).stream = s \/ Primary(b, s).kind = "journal")
  <2> HIDE DEF A, R
  <2> QED BY <1>1, <1>8
<1> QED BY <1>9, <1>10

-----------------------------------------------------------------------------
(***************************************************************************)
(* What a step is called, what a segment's talk is, and what can hold a    *)
(* row.                                                                    *)
(***************************************************************************)

StepTags  == {"launch_ack", "notification", "external_input", "injected",
              "error", "turn_duration", "command", "notice"}
ResetTags == {"context_reset", "reset_summary"}

\* A record is a step of a list exactly when one of the list is among its flags.
LEMMA IsOf ==
    ASSUME NEW e, NEW kinds, DOMAIN kinds \subseteq Nat
    PROVE  /\ \A k \in Is(e, kinds) : \E j \in DOMAIN kinds : k = kinds[j] /\ k \in e.flags \cup {e.trigger}
           /\ (\E j \in DOMAIN kinds : kinds[j] \in e.flags \cup {e.trigger}) => Is(e, kinds) # {}
<1> DEFINE hits == {k \in DOMAIN kinds : kinds[k] \in e.flags \cup {e.trigger}}
<1>1. Is(e, kinds) = IF hits = {} THEN {} ELSE {kinds[Min(hits)]}
  BY DEF Is
<1>2. hits \in SUBSET Nat /\ hits \subseteq DOMAIN kinds
  OBVIOUS
<1>3. hits # {} => Min(hits) \in hits
  <2> HIDE DEF hits
  <2> QED BY <1>2, MinIs
<1>4. \A k \in hits : kinds[k] \in e.flags \cup {e.trigger}
  OBVIOUS
<1>5. \A j \in DOMAIN kinds : kinds[j] \in e.flags \cup {e.trigger} => hits # {}
  OBVIOUS
<1> HIDE DEF hits
<1> QED BY <1>1, <1>2, <1>3, <1>4, <1>5

\* The kinds a step or a reset can be of.
LEMMA StepTag ==
    ASSUME NEW e
    PROVE  /\ \A k \in Steps(e) : k \in StepTags
           /\ \A k \in Is(e, ResetKinds) : k \in ResetTags
<1>1. ASSUME NEW ks \in StepKinds, NEW k \in Is(e, ks) PROVE k \in StepTags
  <2>1. CASE ks = <<"launch_ack", "notification">>
    <3>1. DOMAIN ks = 1 .. 2 /\ ks[1] = "launch_ack" /\ ks[2] = "notification" /\ 1 .. 2 \subseteq Nat
      BY <2>1
    <3>2. \E j \in 1 .. 2 : k = ks[j]
      <4>1. DOMAIN ks \subseteq Nat
        BY <3>1
      <4>2. \E j \in DOMAIN ks : k = ks[j]
        BY <1>1, <4>1, IsOf
      <4> QED BY <3>1, <4>2
    <3> QED BY <3>1, <3>2 DEF StepTags
  <2>2. CASE ks = <<"external_input", "injected">>
    <3>1. DOMAIN ks = 1 .. 2 /\ ks[1] = "external_input" /\ ks[2] = "injected" /\ 1 .. 2 \subseteq Nat
      BY <2>2
    <3>2. \E j \in 1 .. 2 : k = ks[j]
      <4>1. DOMAIN ks \subseteq Nat
        BY <3>1
      <4>2. \E j \in DOMAIN ks : k = ks[j]
        BY <1>1, <4>1, IsOf
      <4> QED BY <3>1, <4>2
    <3> QED BY <3>1, <3>2 DEF StepTags
  <2>3. CASE ks = <<"error", "turn_duration", "command", "notice">>
    <3>1. /\ DOMAIN ks = 1 .. 4 /\ 1 .. 4 \subseteq Nat
          /\ ks[1] = "error" /\ ks[2] = "turn_duration" /\ ks[3] = "command" /\ ks[4] = "notice"
      BY <2>3
    <3>2. \E j \in 1 .. 4 : k = ks[j]
      <4>1. DOMAIN ks \subseteq Nat
        BY <3>1
      <4>2. \E j \in DOMAIN ks : k = ks[j]
        BY <1>1, <4>1, IsOf
      <4> QED BY <3>1, <4>2
    <3>3. \A j \in 1 .. 4 : j = 1 \/ j = 2 \/ j = 3 \/ j = 4
      OBVIOUS
    <3> QED BY <3>1, <3>2, <3>3 DEF StepTags
  <2> QED BY <2>1, <2>2, <2>3 DEF StepKinds
<1>2. ASSUME NEW k \in Is(e, ResetKinds) PROVE k \in ResetTags
  <2>1. DOMAIN ResetKinds = 1 .. 2 /\ ResetKinds[1] = "context_reset" /\ ResetKinds[2] = "reset_summary" /\ 1 .. 2 \subseteq Nat
    BY DEF ResetKinds
  <2>2. \E j \in 1 .. 2 : k = ResetKinds[j]
    <3>1. DOMAIN ResetKinds \subseteq Nat
      BY <2>1
    <3>2. \E j \in DOMAIN ResetKinds : k = ResetKinds[j]
      BY <1>2, <3>1, IsOf
    <3> QED BY <2>1, <3>2
  <2> QED BY <2>1, <2>2 DEF ResetTags
<1>3. \A k \in Steps(e) : \E ks \in StepKinds : k \in Is(e, ks)
  BY DEF Steps
<1> QED BY <1>1, <1>2, <1>3

OneTalk(b, t) ==
    [id |-> t, opens |-> First(Of(b, t)),
     first |-> Min({e.ts : e \in Of(b, t)}), last |-> Max({e.ts : e \in Of(b, t)})]

\* The talks of the main stream, one per mark its rows bear.
LEMMA OneTalkIs ==
    ASSUME NEW b
    PROVE  /\ MainTalks(b) = {OneTalk(b, t) : t \in {e.talk : e \in In(b, Main)} \ {None}}
           /\ \A t : OneTalk(b, t).id = t /\ OneTalk(b, t).opens = First(Of(b, t))
<1>1. MainTalks(b) = {OneTalk(b, t) : t \in {e.talk : e \in In(b, Main)} \ {None}}
  BY DEF MainTalks, OneTalk
<1>2. \A t : OneTalk(b, t).id = t /\ OneTalk(b, t).opens = First(Of(b, t))
  BY DEF OneTalk
<1> QED BY <1>1, <1>2

\* A talk of the main stream begins in it, and its id tells which it is.
LEMMA MainTalkIs ==
    ASSUME NEW b, Sound(b), Apart, NEW t \in MainTalks(b)
    PROVE  /\ t.opens \in b.rows /\ t.opens.stream = Main /\ t.opens.talk = t.id
           /\ t.id # None /\ \E x : t.id = <<"talk", Main, x>>
           /\ \A u \in MainTalks(b) : u.id = t.id => u = t
<1>1. /\ t.opens = First(Of(b, t.id)) /\ t.id # None
      /\ \E e \in In(b, Main) : e.talk = t.id
  BY OneTalkIs
<1>2. PICK e \in b.rows : e.stream = Main /\ e.talk = t.id
  BY <1>1 DEF In
<1>3. PICK f \in b.rows : /\ f.stream = Main /\ f.loop # None
                          /\ f.talk = t.id /\ t.id = <<"talk", Main, f.loop>>
  BY <1>1, <1>2 DEF Sound, TalkFits
<1> DEFINE S == Of(b, t.id)
<1>4. f \in S /\ S \subseteq b.rows /\ \A g \in S : g.stream # None /\ g.talk = t.id
  BY <1>3 DEF Of, Streamed, Apart
<1>5. PICK N \in Nat : \A g \in b.rows : g.n \in Nat /\ g.n <= N
  BY DEF Sound, Ordered
<1>6. First(S) \in S
  <2> HIDE DEF S
  <2> QED BY <1>4, <1>5, FirstIs
<1>7. ASSUME NEW g \in S PROVE g.stream = Main
  <2>1. g \in b.rows /\ TalkFits(b, g) /\ g.stream # None /\ g.talk = <<"talk", Main, f.loop>>
    BY <1>3, <1>4 DEF Sound
  <2>2. <<"talk", g.stream>> # <<"talk", Main, f.loop>>
    OBVIOUS
  <2> QED BY <2>1, <2>2 DEF TalkFits
<1>8. t.opens \in b.rows /\ t.opens.stream = Main /\ t.opens.talk = t.id
  <2> HIDE DEF S
  <2> QED BY <1>1, <1>4, <1>6, <1>7 DEF S
<1>9. \A u \in MainTalks(b) : u.id = t.id => u = t
  BY OneTalkIs
<1> QED BY <1>1, <1>3, <1>8, <1>9

\* What holds a row that is in a stream is of that stream.
LEMMA Holders ==
    ASSUME NEW b, Sound(b), Apart, NEW e \in b.rows, e.stream # None
    PROVE  /\ e.stream \in Streams(b)
           /\ e.epoch \in Epochs(b, e.stream)
           /\ e.talk # None => \/ e.stream = Main /\ \E t \in MainTalks(b) : t.id = e.talk
                               \/ e.stream \in Children(b) /\ e.talk = <<"talk", e.stream>>
           /\ e.loop # None => /\ e.loop \in Runs(b, e.stream) /\ e.talk # None
                               /\ Opening(b, e.stream, e.loop).talk = e.talk
<1>1. e.stream \in Streams(b) /\ e \in In(b, e.stream) /\ e.epoch \in Epochs(b, e.stream)
  BY DEF Streams, In, Epochs
<1>2. TalkFits(b, e)
  BY DEF Sound
<1>3. ASSUME e.talk # None
      PROVE  \/ e.stream = Main /\ \E t \in MainTalks(b) : t.id = e.talk
             \/ e.stream \in Children(b) /\ e.talk = <<"talk", e.stream>>
  <2>1. CASE e.stream = Main
    <3>1. e.talk \in {f.talk : f \in In(b, Main)} \ {None}
      BY <1>1, <1>3, <2>1
    <3>2. OneTalk(b, e.talk) \in MainTalks(b) /\ OneTalk(b, e.talk).id = e.talk
      BY <3>1, OneTalkIs
    <3> QED BY <2>1, <3>2
  <2>2. CASE e.stream # Main
    BY <1>1, <1>2, <2>2 DEF TalkFits, Children
  <2> QED BY <2>1, <2>2
<1>4. ASSUME e.loop # None
      PROVE  /\ e.loop \in Runs(b, e.stream) /\ e.talk # None
             /\ Opening(b, e.stream, e.loop).talk = e.talk
  <2> DEFINE S == {f \in In(b, e.stream) : f.loop = e.loop}
             o == First(S)
  <2>1. e \in S /\ S \subseteq b.rows /\ e.loop \in Runs(b, e.stream)
    BY <1>1, <1>4 DEF In, Runs
  <2>2. PICK N \in Nat : \A g \in b.rows : g.n \in Nat /\ g.n <= N
    BY DEF Sound, Ordered
  <2>3. o \in S
    <3> HIDE DEF S
    <3> QED BY <2>1, <2>2, FirstIs
  <2>4. o \in b.rows /\ o.stream = e.stream /\ o.loop = e.loop
    BY <2>3 DEF In
  <2> HIDE DEF o, S
  <2>5. e.talk # None /\ o.talk = e.talk
    <3>1. TalkFits(b, o)
      BY <2>4 DEF Sound
    <3>2. CASE e.stream = Main
      BY <1>2, <1>4, <2>4, <3>2 DEF TalkFits
    <3>3. CASE e.stream # Main
      BY <1>2, <3>1, <2>4, <3>3 DEF TalkFits, Apart
    <3> QED BY <3>2, <3>3
  <2> QED BY <2>1, <2>5 DEF o, S, Opening
<1> QED BY <1>1, <1>3, <1>4

\* A node of some set with that id, of that stream.
Is1(S, id, stream) == \E m \in S : m.id = id /\ m.stream = stream

\* A row is held by the session when it has no stream, and otherwise by a container of that stream.
LEMMA HomeIs ==
    ASSUME NEW b, Sound(b), Apart, NEW e \in b.rows
    PROVE  /\ e.stream = None => Home(b, e) = Session
           /\ e.stream # None => /\ Is1(EpochNodes(b), e.epoch, e.stream)
                                 /\ \/ Is1(EpochNodes(b), Home(b, e), e.stream)
                                    \/ Is1(TalkNodes(b), Home(b, e), e.stream)
                                    \/ Is1(RunNodes(b), Home(b, e), e.stream)
           /\ e.stream # None /\ e.talk # None => Is1(TalkNodes(b), e.talk, e.stream)
<1>1. e.stream = None => Home(b, e) = Session
  BY DEF Home
<1>2. ASSUME e.stream # None PROVE Is1(EpochNodes(b), e.epoch, e.stream)
  <2>1. EpochNode(e.stream, e.epoch) \in EpochNodes(b)
    BY <1>2, Holders, NodesAre
  <2> QED BY <2>1, EpochSays DEF Is1
<1>3. ASSUME e.stream # None, e.talk # None PROVE Is1(TalkNodes(b), e.talk, e.stream)
  <2>1. \/ e.stream = Main /\ \E t \in MainTalks(b) : t.id = e.talk
        \/ e.stream \in Children(b) /\ e.talk = <<"talk", e.stream>>
    BY <1>3, Holders
  <2>2. ASSUME e.stream = Main, NEW t \in MainTalks(b), t.id = e.talk PROVE Is1(TalkNodes(b), e.talk, e.stream)
    <3>1. MainTalk(t) \in TalkNodes(b)
      BY NodesAre
    <3> QED BY <2>2, <3>1, MainTalkSays DEF Is1
  <2>3. ASSUME e.stream \in Children(b), e.talk = <<"talk", e.stream>> PROVE Is1(TalkNodes(b), e.talk, e.stream)
    <3>1. ChildTalk(b, e.stream) \in TalkNodes(b)
      BY <2>3, NodesAre
    <3>2. ChildTalk(b, e.stream).id = <<"talk", e.stream>> /\ ChildTalk(b, e.stream).stream = e.stream
      BY ChildTalkSays
    <3> QED BY <2>3, <3>1, <3>2 DEF Is1
  <2> QED BY <2>1, <2>2, <2>3
<1>4. ASSUME e.stream # None, e.loop # None
      PROVE  Is1(RunNodes(b), <<"run", e.talk, e.loop>>, e.stream)
  <2>1. RunNode(b, e.stream, e.loop) \in RunNodes(b)
    BY <1>4, Holders, NodesAre
  <2>2. Opening(b, e.stream, e.loop).talk = e.talk
    BY <1>4, Holders
  <2>3. LET n == RunNode(b, e.stream, e.loop) IN
        n.id = <<"run", Opening(b, e.stream, e.loop).talk, e.loop>> /\ n.stream = e.stream
    BY RunSays
  <2> QED BY <2>1, <2>2, <2>3 DEF Is1
<1>5. e.stream # None => Home(b, e) = IF e.loop # None THEN <<"run", e.talk, e.loop>>
                                      ELSE IF e.talk # None THEN e.talk ELSE e.epoch
  BY DEF Home
<1> QED BY <1>1, <1>2, <1>3, <1>4, <1>5

\* A stream that has rows has a node.
LEMMA StreamNodeIn ==
    ASSUME NEW b, NEW s \in Streams(b)
    PROVE  Is1(StreamNodes(b), Stream(s), s)
<1>1. StreamNode(b, s) \in StreamNodes(b)
  BY NodesAre
<1>2. StreamNode(b, s).id = Stream(s) /\ StreamNode(b, s).stream = s
  BY StreamSays
<1> QED BY <1>1, <1>2 DEF Is1

\* The first row of a stream, and of a run in it.
LEMMA FirstIn ==
    ASSUME NEW b, Sound(b), NEW s \in Streams(b)
    PROVE  /\ s # None
           /\ First(In(b, s)) \in b.rows /\ First(In(b, s)).stream = s
           /\ \A r \in Runs(b, s) : LET o == Opening(b, s, r) IN
                 o \in b.rows /\ o.stream = s /\ o.loop = r /\ r # None
<1>1. PICK N \in Nat : \A g \in b.rows : g.n \in Nat /\ g.n <= N
  BY DEF Sound, Ordered
<1>2. s # None /\ First(In(b, s)) \in b.rows /\ First(In(b, s)).stream = s
  <2> DEFINE S == In(b, s)
  <2>1. s # None /\ S # {} /\ S \subseteq b.rows /\ \A e \in S : e.stream = s
    BY DEF Streams, In
  <2>2. First(S) \in S
    <3> HIDE DEF S
    <3> QED BY <1>1, <2>1, FirstIs
  <2> HIDE DEF S
  <2>3. First(S) \in b.rows /\ First(S).stream = s
    BY <2>1, <2>2
  <2> QED BY <2>1, <2>3 DEF S
<1>3. ASSUME NEW r \in Runs(b, s)
      PROVE  LET o == Opening(b, s, r) IN o \in b.rows /\ o.stream = s /\ o.loop = r /\ r # None
  <2> DEFINE S == {e \in In(b, s) : e.loop = r}
  <2>1. r # None /\ S # {} /\ S \subseteq b.rows /\ \A e \in S : e.stream = s /\ e.loop = r
    BY DEF Runs, In
  <2>2. First(S) \in S
    <3> HIDE DEF S
    <3> QED BY <1>1, <2>1, FirstIs
  <2>3. Opening(b, s, r) = First(S)
    BY DEF Opening
  <2> HIDE DEF S
  <2> QED BY <2>1, <2>2, <2>3
<1> QED BY <1>2, <1>3

\* The first fragment of a call, and the first record that makes a request.
LEMMA FirstPart ==
    ASSUME NEW b, Sound(b)
    PROVE  /\ \A c \in Calls(b) : LET e == First(Fragments(b, c)) IN
                 e \in b.rows /\ e.stream # None /\ e.call = c /\ c # None
           /\ \A t \in Toolsome(b) : LET e == First(Uses(b, t)) IN e \in b.rows /\ e.stream # None
<1>1. PICK N \in Nat : \A g \in b.rows : g.n \in Nat /\ g.n <= N
  BY DEF Sound, Ordered
<1>2. ASSUME NEW c \in Calls(b)
      PROVE  LET e == First(Fragments(b, c)) IN e \in b.rows /\ e.stream # None /\ e.call = c /\ c # None
  <2> DEFINE S == Fragments(b, c)
  <2>1. c # None /\ S # {} /\ S \subseteq b.rows /\ \A e \in S : e.stream # None /\ e.call = c
    BY DEF Calls, Fragments, Streamed
  <2>2. First(S) \in S
    <3> HIDE DEF S
    <3> QED BY <1>1, <2>1, FirstIs
  <2> HIDE DEF S
  <2>3. First(S) \in b.rows /\ First(S).stream # None /\ First(S).call = c /\ c # None
    BY <2>1, <2>2
  <2> QED BY <2>3 DEF S
<1>3. ASSUME NEW t \in Toolsome(b)
      PROVE  LET e == First(Uses(b, t)) IN e \in b.rows /\ e.stream # None
  <2> DEFINE S == Uses(b, t)
  <2>1. S # {} /\ S \subseteq b.rows /\ \A e \in S : e.stream # None
    BY DEF Toolsome, Uses, Streamed
  <2>2. First(S) \in S
    <3> HIDE DEF S
    <3> QED BY <1>1, <2>1, FirstIs
  <2> HIDE DEF S
  <2>3. First(S) \in b.rows /\ First(S).stream # None
    BY <2>1, <2>2
  <2> QED BY <2>3 DEF S
<1> QED BY <1>2, <1>3

\* What has no stream is held by the session, the rest by its epoch, its talk or its run.
InHome(b, id, stream) ==
    id = Session \/ Is1(EpochNodes(b), id, stream) \/ Is1(TalkNodes(b), id, stream) \/ Is1(RunNodes(b), id, stream)

\* A message is of one stream, and a journal of none.
Tidy(b) ==
    /\ \A e, f \in Streamed(b) : e.call # None /\ e.call = f.call => e.stream = f.stream
    /\ \A e \in b.rows : e.kind = "journal" => e.stream = None

Fits(b, n, stream) == Tidy(b) => stream = n.stream

\* The same as the home of a row.
LEMMA RowHome ==
    ASSUME NEW b, Sound(b), Apart, NEW e \in b.rows
    PROVE  InHome(b, Home(b, e), e.stream)
BY HomeIs DEF InHome

\* What holds the containers,
LEMMA ContainersHeld ==
    ASSUME NEW b, Sound(b), Apart
    PROVE  /\ \A n \in StreamNodes(b) \cup SegmentNodes(b) : n.parent = Session
           /\ \A n \in EpochNodes(b) : Is1(StreamNodes(b), n.parent, n.stream)
           /\ \A n \in TalkNodes(b) : Is1(EpochNodes(b), n.parent, n.stream)
           /\ \A n \in RunNodes(b) : Is1(TalkNodes(b), n.parent, n.stream)
<1>1. ASSUME NEW n \in StreamNodes(b) \cup SegmentNodes(b) PROVE n.parent = Session
  <2>1. CASE n \in StreamNodes(b)
    <3>1. PICK s \in Streams(b) : n = StreamNode(b, s)
      BY <2>1, NodesAre
    <3> QED BY <3>1, StreamSays
  <2>2. CASE n \in SegmentNodes(b)
    <3>1. PICK g \in Segments(b) : n = SegmentNode(b, g)
      BY <2>2, NodesAre
    <3> QED BY <3>1, SegmentSays
  <2> QED BY <2>1, <2>2
<1>2. ASSUME NEW n \in EpochNodes(b) PROVE Is1(StreamNodes(b), n.parent, n.stream)
  <2>s. PICK s \in Streams(b) : \E p \in Epochs(b, s) : n = EpochNode(s, p)
    BY NodesAre
  <2>1. PICK p \in Epochs(b, s) : n = EpochNode(s, p)
    BY <2>s
  <2>2. n.parent = Stream(s) /\ n.stream = s
    BY <2>1, EpochSays
  <2> QED BY <2>2, StreamNodeIn
<1>3. ASSUME NEW n \in TalkNodes(b) PROVE Is1(EpochNodes(b), n.parent, n.stream)
  <2>1. ASSUME NEW t \in MainTalks(b), n = MainTalk(t) PROVE Is1(EpochNodes(b), n.parent, n.stream)
    <3>1. n.parent = t.opens.epoch /\ n.stream = Main
      BY <2>1, MainTalkSays
    <3>2. t.opens \in b.rows /\ t.opens.stream = Main /\ Main # None
      BY MainTalkIs DEF Apart
    <3> QED BY <3>1, <3>2, HomeIs
  <2>2. ASSUME NEW s \in Children(b), n = ChildTalk(b, s) PROVE Is1(EpochNodes(b), n.parent, n.stream)
    <3>1. n.parent = First(In(b, s)).epoch /\ n.stream = s
      BY <2>2, ChildTalkSays
    <3>2. s # None /\ First(In(b, s)) \in b.rows /\ First(In(b, s)).stream = s
      BY FirstIn DEF Children
    <3> QED BY <3>1, <3>2, HomeIs
  <2> QED BY <2>1, <2>2, NodesAre
<1>4. ASSUME NEW n \in RunNodes(b) PROVE Is1(TalkNodes(b), n.parent, n.stream)
  <2>s. PICK s \in Streams(b) : \E r \in Runs(b, s) : n = RunNode(b, s, r)
    BY NodesAre
  <2>1. PICK r \in Runs(b, s) : n = RunNode(b, s, r)
    BY <2>s
  <2> DEFINE o == Opening(b, s, r)
  <2>2. n.parent = o.talk /\ n.stream = s
    BY <2>1, RunSays
  <2>3. s # None /\ o \in b.rows /\ o.stream = s /\ o.loop # None
    BY FirstIn
  <2> HIDE DEF o
  <2>4. o.talk # None
    BY <2>3, Holders
  <2> QED BY <2>2, <2>3, <2>4, HomeIs
<1> QED BY <1>1, <1>2, <1>3, <1>4

\* ... and what holds a call and what is in it, and a step.
LEMMA StepsHeld ==
    ASSUME NEW b, Sound(b), Apart
    PROVE  /\ \A n \in CallNodes(b) \cup StepNodes(b) : InHome(b, n.parent, n.stream)
           /\ \A n \in OutputNodes(b) : \E st : InHome(b, n.parent, st) /\ (Tidy(b) => n.parent = Session \/ st = n.stream)
           /\ \A n \in MessageNodes(b) : \E st : Is1(CallNodes(b), n.parent, st) /\ Fits(b, n, st)
           /\ \A n \in ToolNodes(b) : \/ InHome(b, n.parent, n.stream)
                                      \/ \E st : Is1(CallNodes(b), n.parent, st) /\ Fits(b, n, st)
<1>1. ASSUME NEW c \in Calls(b)
      PROVE  Is1(CallNodes(b), <<"call", c>>, First(Fragments(b, c)).stream)
  <2>1. CallNode(b, c) \in CallNodes(b)
    BY NodesAre
  <2>2. CallNode(b, c).id = <<"call", c>> /\ CallNode(b, c).stream = First(Fragments(b, c)).stream
    BY CallSays
  <2> QED BY <2>1, <2>2 DEF Is1
<1>2. ASSUME NEW n \in CallNodes(b) PROVE InHome(b, n.parent, n.stream)
  <2>1. PICK c \in Calls(b) : n = CallNode(b, c)
    BY NodesAre
  <2> DEFINE e == First(Fragments(b, c))
  <2>2. n.parent = Home(b, e) /\ n.stream = e.stream
    BY <2>1, CallSays
  <2>3. e \in b.rows
    BY FirstPart
  <2> HIDE DEF e
  <2> QED BY <2>2, <2>3, RowHome
<1>3. ASSUME NEW n \in StepNodes(b) PROVE InHome(b, n.parent, n.stream)
  <2>1. ASSUME NEW e \in b.rows, NEW k \in Steps(e), n = StepNode(b, e, k) PROVE InHome(b, n.parent, n.stream)
    <3>1. n.parent = Home(b, e) /\ n.stream = e.stream
      BY <2>1, StepSays
    <3> QED BY <3>1, RowHome
  <2>2. ASSUME NEW e \in Streamed(b), NEW k \in Is(e, ResetKinds), n = ResetNode(e, k)
        PROVE  InHome(b, n.parent, n.stream)
    <3>1. n.parent = e.epoch /\ n.stream = e.stream
      BY <2>2, ResetSays
    <3>2. e \in b.rows /\ e.stream # None
      BY DEF Streamed
    <3> QED BY <3>1, <3>2, HomeIs DEF InHome
  <2> QED BY <2>1, <2>2, NodesAre
<1>4. ASSUME NEW n \in OutputNodes(b)
      PROVE  \E st : InHome(b, n.parent, st) /\ (Tidy(b) => n.parent = Session \/ st = n.stream)
  <2>1. PICK s \in Finished(b) : n = OutputNode(b, s)
    BY NodesAre
  <2> DEFINE e == Primary(b, s)
  <2>2. n.parent = Home(b, e) /\ n.stream = s /\ e \in b.rows /\ (e.stream = s \/ e.kind = "journal")
    BY <2>1, OutputSays
  <2> HIDE DEF e
  <2>3. InHome(b, n.parent, e.stream)
    BY <2>2, RowHome
  <2>4. Tidy(b) => n.parent = Session \/ e.stream = n.stream
    BY <2>2, HomeIs DEF Tidy
  <2> QED BY <2>3, <2>4
<1>5. ASSUME NEW n \in MessageNodes(b) PROVE \E st : Is1(CallNodes(b), n.parent, st) /\ Fits(b, n, st)
  <2>c. PICK c \in Calls(b) : \E e \in Fragments(b, c) : \E p \in e.parts : n = MessageNode(b, c, e, p)
    BY NodesAre
  <2>e. PICK e \in Fragments(b, c) : \E p \in e.parts : n = MessageNode(b, c, e, p)
    BY <2>c
  <2>1. PICK p \in e.parts : n = MessageNode(b, c, e, p)
    BY <2>e
  <2> DEFINE f == First(Fragments(b, c))
  <2>2. n.parent = <<"call", c>> /\ n.stream = e.stream
    BY <2>1, MessageSays
  <2>3. /\ e \in Streamed(b) /\ e.call = c
        /\ f \in b.rows /\ f.stream # None /\ f.call = c /\ c # None
    BY FirstPart DEF Fragments
  <2>4. Is1(CallNodes(b), n.parent, f.stream)
    BY <1>1, <2>2
  <2> HIDE DEF f
  <2>5. Fits(b, n, f.stream)
    BY <2>2, <2>3 DEF Fits, Tidy, Streamed
  <2> QED BY <2>4, <2>5
<1>6. ASSUME NEW n \in ToolNodes(b)
      PROVE  InHome(b, n.parent, n.stream) \/ \E st : Is1(CallNodes(b), n.parent, st) /\ Fits(b, n, st)
  <2>1. PICK t \in Toolsome(b) : n = ToolNode(b, t)
    BY NodesAre
  <2> DEFINE e == First(Uses(b, t))
             f == First(Fragments(b, e.call))
  <2>2. n.stream = e.stream /\ n.parent = IF e.call \in Calls(b) THEN <<"call", e.call>> ELSE Home(b, e)
    BY <2>1, ToolSays
  <2>3. e \in b.rows /\ e.stream # None
    BY FirstPart
  <2>4. CASE e.call \notin Calls(b)
    <3> HIDE DEF e
    <3> QED BY <2>2, <2>3, <2>4, RowHome
  <2>5. CASE e.call \in Calls(b)
    <3>1. f \in b.rows /\ f.stream # None /\ f.call = e.call /\ e.call # None
      BY <2>5, FirstPart
    <3>2. Is1(CallNodes(b), n.parent, f.stream)
      BY <1>1, <2>2, <2>5
    <3> HIDE DEF e, f
    <3>3. Fits(b, n, f.stream)
      BY <2>2, <2>3, <3>1 DEF Fits, Tidy, Streamed
    <3> QED BY <3>2, <3>3
  <2> QED BY <2>4, <2>5
<1> QED BY <1>2, <1>3, <1>4, <1>5, <1>6

-----------------------------------------------------------------------------
(***************************************************************************)
(* One node per id.                                                        *)
(***************************************************************************)

\* Tuples of different lengths differ, and equal ones agree in every place.
LEMMA TagIs ==
    /\ \A x, y : <<x, y>>[1] = x /\ \A u, v : <<x, y>> = <<u, v>> => x = u /\ y = v
    /\ \A x, y, z : <<x, y, z>>[1] = x /\ \A u, v, t : <<x, y, z>> = <<u, v, t>> => x = u /\ y = v /\ z = t
    /\ \A x, y, u, v, t : <<x, y>> # <<u, v, t>>
OBVIOUS

\* A segment is named after what opens it, so no two have one name, and it holds talks of the main stream.
LEMMA SegmentIs ==
    ASSUME NEW b, Sound(b), Apart, NEW g \in Segments(b)
    PROVE  /\ g.id[1] = "segment" /\ g.id # None
           /\ \A h \in Segments(b) : h.id = g.id => h = g
           /\ \A t \in g.talks : \E u \in MainTalks(b) : t = u.id
<1> DEFINE T == MainTalks(b)
           before(t)  == {s \in T : Sooner(s, t)}
           openers    == {t \in T : \A p \in before(t) :
                             (\A o \in before(t) : ~Sooner(p, o)) => t.first - p.last > IdleGap}
           members(o) == {t \in T : ~Sooner(t, o) /\ \A p \in openers : Sooner(o, p) => Sooner(t, p)}
           seg(o) == [id |-> <<"segment", o.opens.at>>, at |-> o.opens.at, talks |-> {t.id : t \in members(o)},
                      from |-> o.first, to |-> Max({t.last : t \in members(o)}),
                      last |-> \A p \in openers : ~Sooner(o, p)]
<1>1. Segments(b) = {seg(o) : o \in openers}
  BY DEF Segments
<1>2. \A o : seg(o).id = <<"segment", o.opens.at>> /\ seg(o).talks = {t.id : t \in members(o)}
  OBVIOUS
<1>3. openers \subseteq T /\ \A o : members(o) \subseteq T
  OBVIOUS
<1> HIDE DEF seg, openers, members
<1>4. PICK o \in openers : g = seg(o)
  BY <1>1
<1>5. g.id[1] = "segment" /\ g.id # None
  <2>1. g.id = <<"segment", o.opens.at>>
    BY <1>2, <1>4
  <2> QED BY <2>1, TagIs DEF Apart
<1>6. ASSUME NEW h \in Segments(b), h.id = g.id PROVE h = g
  <2>1. PICK q \in openers : h = seg(q)
    BY <1>1
  <2>2. q.opens.at = o.opens.at
    BY <1>2, <1>4, <1>6, <2>1, TagIs
  <2>3. o \in T /\ q \in T
    BY <1>3
  <2>4. q.opens = o.opens
    BY <2>2, <2>3, MainTalkIs DEF Sound
  <2>5. q.id = o.id
    BY <2>3, <2>4, MainTalkIs
  <2>6. q = o
    BY <2>3, <2>5, MainTalkIs
  <2> QED BY <1>4, <2>1, <2>6
<1>7. \A t \in g.talks : \E u \in MainTalks(b) : t = u.id
  <2>1. g.talks = {t.id : t \in members(o)}
    BY <1>2, <1>4
  <2>2. members(o) \subseteq T
    BY <1>3
  <2> QED BY <2>1, <2>2
<1> QED BY <1>5, <1>6, <1>7

\* An id says which set of nodes it belongs to.
LEMMA Tagged ==
    ASSUME NEW b, Sound(b), Apart
    PROVE  /\ \A n \in StreamNodes(b) : n.id[1] = "stream"
           /\ \A n \in EpochNodes(b) : n.id[1] = "epoch"
           /\ \A n \in TalkNodes(b) : n.id[1] = "talk"
           /\ \A n \in RunNodes(b) : n.id[1] = "run"
           /\ \A n \in SegmentNodes(b) : n.id[1] = "segment"
           /\ \A n \in CallNodes(b) : n.id[1] = "call"
           /\ \A n \in MessageNodes(b) : n.id[1] \in {"text", "thinking"}
           /\ \A n \in ToolNodes(b) : n.id[1] = "tool"
           /\ \A n \in StepNodes(b) : n.id[1] \in StepTags \cup ResetTags
           /\ \A n \in OutputNodes(b) : n.id[1] = "output"
<1>1. ASSUME NEW n \in StreamNodes(b) PROVE n.id[1] = "stream"
  <2>1. PICK s \in Streams(b) : n = StreamNode(b, s)
    BY NodesAre
  <2> QED BY <2>1, StreamSays, TagIs DEF Stream
<1>2. ASSUME NEW n \in EpochNodes(b) PROVE n.id[1] = "epoch"
  <2>s. PICK s \in Streams(b) : \E p \in Epochs(b, s) : n = EpochNode(s, p)
    BY NodesAre
  <2>1. PICK p \in Epochs(b, s) : n = EpochNode(s, p)
    BY <2>s
  <2>2. \E x : p = <<"epoch", s, x>>
    BY DEF Epochs, In, Sound
  <2> QED BY <2>1, <2>2, EpochSays, TagIs
<1>3. ASSUME NEW n \in TalkNodes(b) PROVE n.id[1] = "talk"
  <2>1. ASSUME NEW t \in MainTalks(b), n = MainTalk(t) PROVE n.id[1] = "talk"
    BY <2>1, MainTalkSays, MainTalkIs, TagIs
  <2>2. ASSUME NEW s \in Children(b), n = ChildTalk(b, s) PROVE n.id[1] = "talk"
    BY <2>2, ChildTalkSays, TagIs
  <2> QED BY <2>1, <2>2, NodesAre
<1>4. ASSUME NEW n \in RunNodes(b) PROVE n.id[1] = "run"
  <2>s. PICK s \in Streams(b) : \E r \in Runs(b, s) : n = RunNode(b, s, r)
    BY NodesAre
  <2>1. PICK r \in Runs(b, s) : n = RunNode(b, s, r)
    BY <2>s
  <2> QED BY <2>1, RunSays, TagIs
<1>5. ASSUME NEW n \in SegmentNodes(b) PROVE n.id[1] = "segment"
  <2>1. PICK g \in Segments(b) : n = SegmentNode(b, g)
    BY NodesAre
  <2> QED BY <2>1, SegmentSays, SegmentIs
<1>6. ASSUME NEW n \in CallNodes(b) PROVE n.id[1] = "call"
  <2>1. PICK c \in Calls(b) : n = CallNode(b, c)
    BY NodesAre
  <2> QED BY <2>1, CallSays, TagIs
<1>7. ASSUME NEW n \in MessageNodes(b) PROVE n.id[1] \in {"text", "thinking"}
  <2>c. PICK c \in Calls(b) : \E e \in Fragments(b, c) : \E p \in e.parts : n = MessageNode(b, c, e, p)
    BY NodesAre
  <2>e. PICK e \in Fragments(b, c) : \E p \in e.parts : n = MessageNode(b, c, e, p)
    BY <2>c
  <2>1. PICK p \in e.parts : n = MessageNode(b, c, e, p)
    BY <2>e
  <2>2. n.id = <<p, e.at>>
    BY <2>1, MessageSays
  <2>3. p \in {"text", "thinking"}
    BY DEF Fragments, Streamed, Sound
  <2> QED BY <2>2, <2>3, TagIs
<1>8. ASSUME NEW n \in ToolNodes(b) PROVE n.id[1] = "tool"
  <2>1. PICK t \in Toolsome(b) : n = ToolNode(b, t)
    BY NodesAre
  <2>2. n.id = <<"tool", t>>
    BY <2>1, ToolSays
  <2> QED BY <2>2, TagIs
<1>9. ASSUME NEW n \in StepNodes(b) PROVE n.id[1] \in StepTags \cup ResetTags
  <2>1. ASSUME NEW e \in b.rows, NEW k \in Steps(e), n = StepNode(b, e, k) PROVE n.id[1] \in StepTags
    BY <2>1, StepSays, StepTag, TagIs
  <2>2. ASSUME NEW e \in Streamed(b), NEW k \in Is(e, ResetKinds), n = ResetNode(e, k)
        PROVE  n.id[1] \in ResetTags
    BY <2>2, ResetSays, StepTag, TagIs
  <2> QED BY <2>1, <2>2, NodesAre
<1>10. ASSUME NEW n \in OutputNodes(b) PROVE n.id[1] = "output"
  <2>1. PICK s \in Finished(b) : n = OutputNode(b, s)
    BY NodesAre
  <2> QED BY <2>1, OutputSays, TagIs DEF OutputId
<1> QED BY <1>1, <1>2, <1>3, <1>4, <1>5, <1>6, <1>7, <1>8, <1>9, <1>10

\* In each set an id is one node's.
LEMMA OneEach ==
    ASSUME NEW b, Sound(b), Apart, NEW m, NEW n, m.id = n.id
    PROVE  /\ m \in StreamNodes(b) /\ n \in StreamNodes(b) => m = n
           /\ m \in EpochNodes(b) /\ n \in EpochNodes(b) => m = n
           /\ m \in TalkNodes(b) /\ n \in TalkNodes(b) => m = n
           /\ m \in RunNodes(b) /\ n \in RunNodes(b) => m = n
           /\ m \in SegmentNodes(b) /\ n \in SegmentNodes(b) => m = n
           /\ m \in CallNodes(b) /\ n \in CallNodes(b) => m = n
           /\ m \in MessageNodes(b) /\ n \in MessageNodes(b) => m = n
           /\ m \in ToolNodes(b) /\ n \in ToolNodes(b) => m = n
           /\ m \in StepNodes(b) /\ n \in StepNodes(b) => m = n
           /\ m \in OutputNodes(b) /\ n \in OutputNodes(b) => m = n
<1>1. ASSUME m \in StreamNodes(b), n \in StreamNodes(b) PROVE m = n
  <2>1. PICK s \in Streams(b) : m = StreamNode(b, s)
    BY <1>1, NodesAre
  <2>2. PICK u \in Streams(b) : n = StreamNode(b, u)
    BY <1>1, NodesAre
  <2> QED BY <2>1, <2>2, StreamSays, TagIs DEF Stream
<1>2. ASSUME m \in EpochNodes(b), n \in EpochNodes(b) PROVE m = n
  <2>1. ASSUME NEW x \in EpochNodes(b) PROVE \E s, p, y : x = EpochNode(s, p) /\ x.id = p /\ p = <<"epoch", s, y>>
    <3>s. PICK s \in Streams(b) : \E p \in Epochs(b, s) : x = EpochNode(s, p)
      BY NodesAre
    <3>1. PICK p \in Epochs(b, s) : x = EpochNode(s, p)
      BY <3>s
    <3>2. \E y : p = <<"epoch", s, y>>
      BY DEF Epochs, In, Sound
    <3> QED BY <3>1, <3>2, EpochSays
  <2> QED BY <1>2, <2>1, TagIs
<1>3. ASSUME m \in TalkNodes(b), n \in TalkNodes(b) PROVE m = n
  <2>1. ASSUME NEW x \in TalkNodes(b)
        PROVE  \/ \E t \in MainTalks(b) : x = MainTalk(t) /\ x.id = t.id /\ \E y : x.id = <<"talk", Main, y>>
               \/ \E s : x = ChildTalk(b, s) /\ x.id = <<"talk", s>>
    <3>1. ASSUME NEW t \in MainTalks(b), x = MainTalk(t) PROVE x.id = t.id /\ \E y : x.id = <<"talk", Main, y>>
      BY <3>1, MainTalkSays, MainTalkIs
    <3>2. ASSUME NEW s, x = ChildTalk(b, s) PROVE x.id = <<"talk", s>>
      BY <3>2, ChildTalkSays
    <3> QED BY <3>1, <3>2, NodesAre
  <2>2. \A t, u \in MainTalks(b) : t.id = u.id => t = u
    BY MainTalkIs
  <2> QED BY <1>3, <2>1, <2>2, TagIs
<1>4. ASSUME m \in RunNodes(b), n \in RunNodes(b) PROVE m = n
  <2>1. ASSUME NEW x \in RunNodes(b)
        PROVE  \E s, r, t : /\ x = RunNode(b, s, r) /\ x.id = <<"run", t, r>>
                            /\ s = Main => \E y : t = <<"talk", Main, y>>
                            /\ s # Main => t = <<"talk", s>>
    <3>s. PICK s \in Streams(b) : \E r \in Runs(b, s) : x = RunNode(b, s, r)
      BY NodesAre
    <3>1. PICK r \in Runs(b, s) : x = RunNode(b, s, r)
      BY <3>s
    <3> DEFINE o == Opening(b, s, r)
    <3>2. s # None /\ o \in b.rows /\ o.stream = s /\ o.loop # None
      BY FirstIn
    <3>3. x.id = <<"run", o.talk, r>>
      BY <3>1, RunSays
    <3> HIDE DEF o
    <3>4. o.talk # None /\ TalkFits(b, o)
      BY <3>2, Holders DEF Sound
    <3>5. /\ s = Main => \E y : o.talk = <<"talk", Main, y>>
          /\ s # Main => o.talk = <<"talk", s>>
      BY <3>2, <3>4 DEF TalkFits
    <3> QED BY <3>1, <3>3, <3>5
  <2> QED BY <1>4, <2>1, TagIs
<1>5. ASSUME m \in SegmentNodes(b), n \in SegmentNodes(b) PROVE m = n
  <2>1. PICK g \in Segments(b) : m = SegmentNode(b, g)
    BY <1>5, NodesAre
  <2>2. PICK h \in Segments(b) : n = SegmentNode(b, h)
    BY <1>5, NodesAre
  <2>3. g.id = h.id
    BY <2>1, <2>2, SegmentSays
  <2> QED BY <2>1, <2>2, <2>3, SegmentIs
<1>6. ASSUME m \in CallNodes(b), n \in CallNodes(b) PROVE m = n
  <2>1. PICK c \in Calls(b) : m = CallNode(b, c)
    BY <1>6, NodesAre
  <2>2. PICK d \in Calls(b) : n = CallNode(b, d)
    BY <1>6, NodesAre
  <2> QED BY <2>1, <2>2, CallSays, TagIs
<1>7. ASSUME m \in MessageNodes(b), n \in MessageNodes(b) PROVE m = n
  <2>1. ASSUME NEW x \in MessageNodes(b)
        PROVE  \E e \in b.rows : \E p : x = MessageNode(b, e.call, e, p) /\ x.id = <<p, e.at>>
    <3>c. PICK c \in Calls(b) : \E e \in Fragments(b, c) : \E p \in e.parts : x = MessageNode(b, c, e, p)
      BY NodesAre
    <3>e. PICK e \in Fragments(b, c) : \E p \in e.parts : x = MessageNode(b, c, e, p)
      BY <3>c
    <3>1. PICK p \in e.parts : x = MessageNode(b, c, e, p)
      BY <3>e
    <3>2. x.id = <<p, e.at>>
      BY <3>1, MessageSays
    <3>3. e \in b.rows /\ e.call = c
      BY DEF Fragments, Streamed
    <3> QED BY <3>1, <3>2, <3>3
  <2>2. PICK e \in b.rows : \E p : m = MessageNode(b, e.call, e, p) /\ m.id = <<p, e.at>>
    BY <1>7, <2>1
  <2>3. PICK f \in b.rows : \E p : n = MessageNode(b, f.call, f, p) /\ n.id = <<p, f.at>>
    BY <1>7, <2>1
  <2>4. e.at = f.at
    BY <2>2, <2>3, TagIs
  <2>5. e = f
    BY <2>4 DEF Sound
  <2> QED BY <2>2, <2>3, <2>5, TagIs
<1>8. ASSUME m \in ToolNodes(b), n \in ToolNodes(b) PROVE m = n
  <2>1. PICK t \in Toolsome(b) : m = ToolNode(b, t)
    BY <1>8, NodesAre
  <2>2. PICK u \in Toolsome(b) : n = ToolNode(b, u)
    BY <1>8, NodesAre
  <2>3. m.id = <<"tool", t>> /\ n.id = <<"tool", u>>
    BY <2>1, <2>2, ToolSays
  <2> QED BY <2>1, <2>2, <2>3, TagIs
<1>9. ASSUME m \in StepNodes(b), n \in StepNodes(b) PROVE m = n
  <2>1. ASSUME NEW x \in StepNodes(b)
        PROVE  \E e \in b.rows : \E k : /\ x.id = <<k, e.at>>
                                       /\ \/ k \in StepTags /\ x = StepNode(b, e, k)
                                          \/ k \in ResetTags /\ x = ResetNode(e, k)
    <3>1. ASSUME NEW e \in b.rows, NEW k \in Steps(e), x = StepNode(b, e, k)
          PROVE  x.id = <<k, e.at>> /\ k \in StepTags
      BY <3>1, StepSays, StepTag
    <3>2. ASSUME NEW e \in Streamed(b), NEW k \in Is(e, ResetKinds), x = ResetNode(e, k)
          PROVE  x.id = <<k, e.at>> /\ k \in ResetTags /\ e \in b.rows
      BY <3>2, ResetSays, StepTag DEF Streamed
    <3> QED BY <3>1, <3>2, NodesAre
  <2>e. PICK e \in b.rows : \E k : /\ m.id = <<k, e.at>>
                                   /\ \/ k \in StepTags /\ m = StepNode(b, e, k)
                                      \/ k \in ResetTags /\ m = ResetNode(e, k)
    BY <1>9, <2>1
  <2>2. PICK k : /\ m.id = <<k, e.at>>
                 /\ \/ k \in StepTags /\ m = StepNode(b, e, k)
                    \/ k \in ResetTags /\ m = ResetNode(e, k)
    BY <2>e
  <2>f. PICK f \in b.rows : \E l : /\ n.id = <<l, f.at>>
                                   /\ \/ l \in StepTags /\ n = StepNode(b, f, l)
                                      \/ l \in ResetTags /\ n = ResetNode(f, l)
    BY <1>9, <2>1
  <2>3. PICK l : /\ n.id = <<l, f.at>>
                 /\ \/ l \in StepTags /\ n = StepNode(b, f, l)
                    \/ l \in ResetTags /\ n = ResetNode(f, l)
    BY <2>f
  <2>4. e.at = f.at /\ k = l
    <3>1. <<k, e.at>> = <<l, f.at>>
      BY <2>2, <2>3
    <3> QED BY <3>1, TagIs
  <2>5. e = f
    BY <2>4 DEF Sound
  <2>6. \A x \in StepTags : x \notin ResetTags
    BY DEF StepTags, ResetTags
  <2> QED BY <2>2, <2>3, <2>4, <2>5, <2>6
<1>10. ASSUME m \in OutputNodes(b), n \in OutputNodes(b) PROVE m = n
  <2>1. PICK s \in Finished(b) : m = OutputNode(b, s)
    BY <1>10, NodesAre
  <2>2. PICK u \in Finished(b) : n = OutputNode(b, u)
    BY <1>10, NodesAre
  <2> QED BY <2>1, <2>2, OutputSays, TagIs DEF OutputId
<1> QED BY <1>1, <1>2, <1>3, <1>4, <1>5, <1>6, <1>7, <1>8, <1>9, <1>10

\* An id is one node's.
LEMMA OneNode ==
    ASSUME NEW b, Sound(b), Apart, NEW m \in Nodes(b), NEW n \in Nodes(b), m.id = n.id
    PROVE  m = n
<1> DEFINE root == Node(Session, None, None, {}, {})
<1>1. root.id[1] = "session"
  BY NodeIs DEF Session
<1>2. \A x \in Nodes(b) : \/ x = root
        \/ x \in StreamNodes(b) \/ x \in EpochNodes(b) \/ x \in TalkNodes(b) \/ x \in RunNodes(b)
        \/ x \in SegmentNodes(b) \/ x \in CallNodes(b) \/ x \in MessageNodes(b) \/ x \in ToolNodes(b)
        \/ x \in StepNodes(b) \/ x \in OutputNodes(b)
  BY DEF Nodes
<1>3. m.id[1] = n.id[1]
  OBVIOUS
<1>4. StepTags \cup ResetTags =
         {"launch_ack", "notification", "external_input", "injected", "error", "turn_duration",
          "command", "notice", "context_reset", "reset_summary"}
  BY DEF StepTags, ResetTags
<1> HIDE DEF root
<1> QED BY <1>1, <1>2, <1>3, <1>4, Tagged, OneEach

-----------------------------------------------------------------------------
(***************************************************************************)
(* Every node is reached from the session.                                 *)
(***************************************************************************)

LEMMA IdIn == ASSUME NEW S, NEW n \in S PROVE n.id \in Ids(S)
BY DEF Ids

\* One level down: what was there stays, and what it holds is added.
LEMMA UnderIs ==
    ASSUME NEW N, NEW S
    PROVE  /\ S \subseteq Under(N, S)
           /\ \A n \in N : n.parent \in S => n.id \in Under(N, S)
           /\ S \subseteq Ids(N) => Under(N, S) \subseteq Ids(N)
<1>1. Under(N, S) = S \cup {n.id : n \in {m \in N : m.parent \in S}}
  BY DEF Under
<1> QED BY <1>1 DEF Ids

\* Each set of nodes is part of all of them, and there are no others.
LEMMA NodesIn ==
    ASSUME NEW b
    PROVE  /\ StreamNodes(b) \subseteq Nodes(b) /\ EpochNodes(b) \subseteq Nodes(b) /\ TalkNodes(b) \subseteq Nodes(b)
           /\ RunNodes(b) \subseteq Nodes(b) /\ SegmentNodes(b) \subseteq Nodes(b) /\ CallNodes(b) \subseteq Nodes(b)
           /\ MessageNodes(b) \subseteq Nodes(b) /\ ToolNodes(b) \subseteq Nodes(b) /\ StepNodes(b) \subseteq Nodes(b)
           /\ OutputNodes(b) \subseteq Nodes(b) /\ Session \in Ids(Nodes(b))
           /\ \A n \in Nodes(b) :
                 \/ n.id = Session /\ n.stream = None /\ n.parent = None
                 \/ n \in StreamNodes(b) \/ n \in EpochNodes(b) \/ n \in TalkNodes(b) \/ n \in RunNodes(b)
                 \/ n \in SegmentNodes(b) \/ n \in CallNodes(b) \/ n \in MessageNodes(b) \/ n \in ToolNodes(b)
                 \/ n \in StepNodes(b) \/ n \in OutputNodes(b)
<1> DEFINE root == Node(Session, None, None, {}, {})
<1>1. root \in Nodes(b)
  BY DEF Nodes
<1>2. root.id = Session /\ root.stream = None /\ root.parent = None
  BY NodeIs
<1>3. Session \in Ids(Nodes(b))
  BY <1>1, <1>2, IdIn
<1> QED BY <1>2, <1>3 DEF Nodes

LEMMA IsIn ==
    ASSUME NEW S, NEW T, NEW id, NEW stream, Is1(S, id, stream), \A m \in S : m.id \in T
    PROVE  id \in T
BY DEF Is1

\* Every node is reached from the session, and nothing else is.
LEMMA Reached ==
    ASSUME NEW b, Sound(b), Apart
    PROVE  Ids(Nodes(b)) = Within(Nodes(b), Within(Nodes(b), {Session}))
<1> DEFINE N == Nodes(b)
           U(S) == Under(N, S)
           L1 == U({Session})
           L2 == U(L1)
           L3 == U(L2)
           L4 == U(L3)
           L5 == U(L4)
           L6 == U(L5)
           L7 == U(L6)
           L8 == U(L7)
           L9 == U(L8)
           L10 == U(L9)
<1>1. Within(N, Within(N, {Session})) = L10
  BY DEF Within
<1>2. \A S : S \subseteq U(S) /\ (\A n \in N : n.parent \in S => n.id \in U(S)) /\ (S \subseteq Ids(N) => U(S) \subseteq Ids(N))
  BY UnderIs
<1>3. Session \in Ids(N)
  BY NodesIn
<1> HIDE DEF U, N
<1>4. L10 \subseteq Ids(N)
  <2>1. L1 \subseteq Ids(N) /\ L2 \subseteq Ids(N) /\ L3 \subseteq Ids(N) /\ L4 \subseteq Ids(N) /\ L5 \subseteq Ids(N)
    BY <1>2, <1>3
  <2> HIDE DEF L5
  <2>2. L6 \subseteq Ids(N) /\ L7 \subseteq Ids(N) /\ L8 \subseteq Ids(N) /\ L9 \subseteq Ids(N) /\ L10 \subseteq Ids(N)
    BY <1>2, <2>1
  <2> QED BY <2>2
<1>5. /\ L1 \subseteq L2 /\ L2 \subseteq L3 /\ L3 \subseteq L4 /\ L4 \subseteq L5 /\ L5 \subseteq L6
      /\ L6 \subseteq L7 /\ L7 \subseteq L8 /\ L8 \subseteq L9 /\ L9 \subseteq L10 /\ Session \in L1
  BY <1>2
<1>6. /\ \A n \in N : n.parent = Session => n.id \in L1
      /\ \A n \in N : n.parent \in L1 => n.id \in L2
      /\ \A n \in N : n.parent \in L2 => n.id \in L3
      /\ \A n \in N : n.parent \in L3 => n.id \in L4
      /\ \A n \in N : n.parent \in L4 => n.id \in L5
      /\ \A n \in N : n.parent \in L5 => n.id \in L6
  BY <1>2
<1>in. /\ StreamNodes(b) \subseteq N /\ EpochNodes(b) \subseteq N /\ TalkNodes(b) \subseteq N
       /\ RunNodes(b) \subseteq N /\ SegmentNodes(b) \subseteq N /\ CallNodes(b) \subseteq N
       /\ MessageNodes(b) \subseteq N /\ ToolNodes(b) \subseteq N /\ StepNodes(b) \subseteq N
       /\ OutputNodes(b) \subseteq N
  BY NodesIn DEF N
<1> HIDE DEF L1, L2, L3, L4, L5, L6, L7, L8, L9, L10
<1>7. \A n \in StreamNodes(b) \cup SegmentNodes(b) : n.id \in L1
  BY <1>6, <1>in, ContainersHeld
<1>8. \A n \in EpochNodes(b) : n.id \in L2
  BY <1>6, <1>7, <1>in, ContainersHeld, IsIn
<1>9. \A n \in TalkNodes(b) : n.id \in L3
  BY <1>6, <1>8, <1>in, ContainersHeld, IsIn
<1>10. \A n \in RunNodes(b) : n.id \in L4
  BY <1>6, <1>9, <1>in, ContainersHeld, IsIn
<1>11. \A id, st : InHome(b, id, st) => id \in L4
  <2> SUFFICES ASSUME NEW id, NEW st, InHome(b, id, st) PROVE id \in L4
    OBVIOUS
  <2>1. Is1(EpochNodes(b), id, st) => id \in L2
    BY <1>8, IsIn
  <2>2. Is1(TalkNodes(b), id, st) => id \in L3
    BY <1>9, IsIn
  <2>3. Is1(RunNodes(b), id, st) => id \in L4
    BY <1>10, IsIn
  <2> QED BY <1>5, <2>1, <2>2, <2>3 DEF InHome
<1>12. \A n \in CallNodes(b) \cup StepNodes(b) \cup OutputNodes(b) : n.id \in L5
  BY <1>6, <1>11, <1>in, StepsHeld
<1>13. \A n \in MessageNodes(b) \cup ToolNodes(b) : n.id \in L6
  <2>1. \A id, st : Is1(CallNodes(b), id, st) => id \in L5
    BY <1>12, IsIn
  <2>2. \A n \in MessageNodes(b) : n.parent \in L5
    BY <2>1, StepsHeld
  <2>3. \A n \in ToolNodes(b) : n.parent \in L5
    BY <1>5, <1>11, <2>1, StepsHeld
  <2> QED BY <1>6, <1>in, <2>2, <2>3
<1>14. \A n \in N : n.id \in L10
  <2>1. /\ \A x : x \in L1 => x \in L10
        /\ \A x : x \in L2 => x \in L10
        /\ \A x : x \in L3 => x \in L10
        /\ \A x : x \in L4 => x \in L10
        /\ \A x : x \in L5 => x \in L10
        /\ \A x : x \in L6 => x \in L10
    BY <1>5
  <2> QED BY <1>5, <1>7, <1>8, <1>9, <1>10, <1>12, <1>13, <2>1, NodesIn DEF N
<1>15. Ids(N) = L10
  BY <1>4, <1>14 DEF Ids
<1> QED BY <1>1, <1>15 DEF N

-----------------------------------------------------------------------------
(***************************************************************************)
(* Both ends of a relation are nodes, and a node is held by one of its     *)
(* stream.                                                                 *)
(***************************************************************************)

\* What stages 1 and 5 leave behind: a child that is joined has a stream, and what summarises
\* a reset and the reset are both records of a transcript.
Linked(b) ==
    /\ \A d \in b.joined : d.child \in Streams(b)
    /\ \A e \in b.rows : "reset_summary" \in e.flags \cup {e.trigger} /\ e.reset # None =>
          /\ e.stream # None
          /\ \E f \in Streamed(b) : f.at = e.reset /\ "context_reset" \in f.flags

\* What a relation may end in is a node.
LEMMA Known ==
    ASSUME NEW b, Sound(b), Apart
    PROVE  /\ \A s \in Streams(b) : Stream(s) \in Ids(Nodes(b))
           /\ \A s \in Streams(b) : \A p \in Epochs(b, s) : p \in Ids(Nodes(b))
           /\ \A t \in MainTalks(b) : t.id \in Ids(Nodes(b))
           /\ \A s \in Children(b) : <<"talk", s>> \in Ids(Nodes(b))
           /\ \A g \in Segments(b) : g.id \in Ids(Nodes(b))
           /\ \A t : Uses(b, t) # {} => <<"tool", t>> \in Ids(Nodes(b))
           /\ \A e \in b.rows : \A k \in Steps(e) : <<k, e.at>> \in Ids(Nodes(b))
           /\ \A e \in Streamed(b) : \A k \in Is(e, ResetKinds) : <<k, e.at>> \in Ids(Nodes(b))
           /\ \A s \in Finished(b) : OutputId(b, s) \in Ids(Nodes(b))
<1>1. ASSUME NEW s \in Streams(b) PROVE Stream(s) \in Ids(Nodes(b))
  <2>1. StreamNode(b, s) \in Nodes(b) /\ StreamNode(b, s).id = Stream(s)
    BY NodesAre, NodesIn, StreamSays
  <2> QED BY <2>1, IdIn
<1>2. ASSUME NEW s \in Streams(b), NEW p \in Epochs(b, s) PROVE p \in Ids(Nodes(b))
  <2>1. EpochNode(s, p) \in EpochNodes(b) /\ EpochNode(s, p).id = p
    BY NodesAre, EpochSays
  <2> QED BY <2>1, NodesIn, IdIn
<1>3. ASSUME NEW t \in MainTalks(b) PROVE t.id \in Ids(Nodes(b))
  <2>1. MainTalk(t) \in TalkNodes(b) /\ MainTalk(t).id = t.id
    BY NodesAre, MainTalkSays
  <2> QED BY <2>1, NodesIn, IdIn
<1>4. ASSUME NEW s \in Children(b) PROVE <<"talk", s>> \in Ids(Nodes(b))
  <2>1. ChildTalk(b, s) \in TalkNodes(b) /\ ChildTalk(b, s).id = <<"talk", s>>
    BY NodesAre, ChildTalkSays
  <2> QED BY <2>1, NodesIn, IdIn
<1>5. ASSUME NEW g \in Segments(b) PROVE g.id \in Ids(Nodes(b))
  <2>1. SegmentNode(b, g) \in SegmentNodes(b) /\ SegmentNode(b, g).id = g.id
    BY NodesAre, SegmentSays
  <2> QED BY <2>1, NodesIn, IdIn
<1>6. ASSUME NEW t, Uses(b, t) # {} PROVE <<"tool", t>> \in Ids(Nodes(b))
  <2>1. t \in Toolsome(b)
    BY <1>6 DEF Toolsome, Tools, Uses
  <2>2. ToolNode(b, t) \in ToolNodes(b) /\ ToolNode(b, t).id = <<"tool", t>>
    BY <2>1, NodesAre, ToolSays
  <2> QED BY <2>2, NodesIn, IdIn
<1>7. ASSUME NEW e \in b.rows, NEW k \in Steps(e) PROVE <<k, e.at>> \in Ids(Nodes(b))
  <2>1. StepNode(b, e, k) \in StepNodes(b) /\ StepNode(b, e, k).id = <<k, e.at>>
    BY NodesAre, StepSays
  <2> QED BY <2>1, NodesIn, IdIn
<1>8. ASSUME NEW e \in Streamed(b), NEW k \in Is(e, ResetKinds) PROVE <<k, e.at>> \in Ids(Nodes(b))
  <2>1. ResetNode(e, k) \in StepNodes(b) /\ ResetNode(e, k).id = <<k, e.at>>
    BY NodesAre, ResetSays
  <2> QED BY <2>1, NodesIn, IdIn
<1>9. ASSUME NEW s \in Finished(b) PROVE OutputId(b, s) \in Ids(Nodes(b))
  <2>1. OutputNode(b, s) \in OutputNodes(b) /\ OutputNode(b, s).id = OutputId(b, s)
    BY NodesAre, OutputSays
  <2> QED BY <2>1, NodesIn, IdIn
<1> QED BY <1>1, <1>2, <1>3, <1>4, <1>5, <1>6, <1>7, <1>8, <1>9

\* A reset that is stated is the first of its list.
LEMMA ResetFirst ==
    ASSUME NEW e, "context_reset" \in e.flags
    PROVE  "context_reset" \in Is(e, ResetKinds)
<1> DEFINE hits == {k \in DOMAIN ResetKinds : ResetKinds[k] \in e.flags \cup {e.trigger}}
<1>1. DOMAIN ResetKinds = 1 .. 2 /\ ResetKinds[1] = "context_reset"
  BY DEF ResetKinds
<1>2. 1 \in hits /\ hits \in SUBSET Nat /\ hits \subseteq 1 .. 2
  BY <1>1
<1>3. Min(hits) \in hits /\ Min(hits) <= 1
  <2> HIDE DEF hits
  <2> QED BY <1>2, MinIs
<1>4. Min(hits) = 1
  <2> HIDE DEF hits
  <2>1. Min(hits) \in 1 .. 2
    BY <1>2, <1>3
  <2> QED BY <1>3, <2>1
<1>5. Is(e, ResetKinds) = IF hits = {} THEN {} ELSE {ResetKinds[Min(hits)]}
  BY DEF Is
<1> HIDE DEF hits
<1> QED BY <1>1, <1>2, <1>4, <1>5

\* Both ends of a relation are nodes.
LEMMA EndsKnown ==
    ASSUME NEW b, Sound(b), Linked(b), Apart, NEW r \in Relations(b)
    PROVE  {r[2], r[3]} \subseteq Ids(Nodes(b))
<1> DEFINE I == Ids(Nodes(b))
           Follows == UNION {EpochFollows(b, s) : s \in Streams(b)}
           Reports == UNION {{<<"reports", <<"notification", e.at>>, Stream(s)>> : s \in Reported(b, e) \cap Streams(b)} :
                                e \in {f \in b.rows : Notifies(f)}}
           Ends == {<<"ends_with", Stream(s), OutputId(b, s)>> : s \in Finished(b)}
           Parts == UNION {{<<"in_segment", t, g.id>> : t \in g.talks \cup ChildTalks(b, g)} : g \in Segments(b)}
<1>ends. \A k, x, y : <<k, x, y>>[2] = x /\ <<k, x, y>>[3] = y
  OBVIOUS
<1>1. CASE r \in Starts(b)
  <2>1. PICK d \in b.joined : Uses(b, d.tool) # {} /\ r = <<"starts", <<"tool", d.tool>>, Stream(d.child)>>
    BY <1>1 DEF Starts
  <2>2. d.child \in Streams(b)
    BY DEF Linked
  <2>3. <<"tool", d.tool>> \in I /\ Stream(d.child) \in I
    BY <2>1, <2>2, Known
  <2> QED BY <1>ends, <2>1, <2>3
<1>2. CASE r \in Follows
  <2>1. PICK s \in Streams(b) : r \in EpochFollows(b, s)
    BY <1>2
  <2>2. PICK c \in Resets(b, s) :
           r = LET before == {e \in In(b, s) : e.n < c.n}
               IN  <<"follows", c.epoch, IF before = {} THEN c.epoch ELSE Final(before).epoch>>
    BY <2>1 DEF EpochFollows
  <2> DEFINE B == {e \in In(b, s) : e.n < c.n}
  <2>3. c \in In(b, s) /\ B \subseteq In(b, s) /\ In(b, s) \subseteq b.rows
    BY DEF Resets, In
  <2>4. PICK N \in Nat : \A g \in b.rows : g.n \in Nat /\ g.n <= N
    BY DEF Sound, Ordered
  <2>5. B # {} => Final(B) \in B
    <3> HIDE DEF B
    <3> QED BY <2>3, <2>4, FinalIs
  <2>6. \A e \in In(b, s) : e.epoch \in I
    BY Known DEF Epochs
  <2>7. r[2] = c.epoch /\ r[3] = IF B = {} THEN c.epoch ELSE Final(B).epoch
    BY <1>ends, <2>2
  <2> HIDE DEF B, I
  <2> QED BY <2>3, <2>5, <2>6, <2>7 DEF I
<1>3. CASE r \in Reports
  <2>1. PICK e \in b.rows : /\ Notifies(e)
                            /\ r \in {<<"reports", <<"notification", e.at>>, Stream(s)>> : s \in Reported(b, e) \cap Streams(b)}
    BY <1>3
  <2>2. PICK s \in Streams(b) : r = <<"reports", <<"notification", e.at>>, Stream(s)>>
    BY <2>1
  <2>3. "notification" \in Steps(e)
    BY <2>1 DEF Notifies, Steps, StepKinds
  <2>4. <<"notification", e.at>> \in I /\ Stream(s) \in I
    BY <2>3, Known
  <2> QED BY <1>ends, <2>2, <2>4
<1>4. CASE r \in Summarizes(b)
  <2>1. PICK e \in b.rows : /\ "reset_summary" \in Is(e, ResetKinds) /\ e.reset # None
                            /\ r = <<"summarizes", <<"reset_summary", e.at>>, <<"context_reset", e.reset>>>>
    BY <1>4 DEF Summarizes
  <2>3. "reset_summary" \in e.flags \cup {e.trigger}
    <3>1. DOMAIN ResetKinds \subseteq Nat
      BY DEF ResetKinds
    <3> QED BY <2>1, <3>1, IsOf
  <2>4. e \in Streamed(b)
    BY <2>1, <2>3 DEF Linked, Streamed
  <2>5. PICK f \in Streamed(b) : f.at = e.reset /\ "context_reset" \in f.flags
    BY <2>1, <2>3 DEF Linked
  <2>6. "context_reset" \in Is(f, ResetKinds)
    BY <2>5, ResetFirst
  <2>7. <<"reset_summary", e.at>> \in I /\ <<"context_reset", e.reset>> \in I
    BY <2>1, <2>4, <2>5, <2>6, Known
  <2> QED BY <1>ends, <2>1, <2>7
<1>5. CASE r \in Ends
  <2>1. PICK s \in Finished(b) : r = <<"ends_with", Stream(s), OutputId(b, s)>>
    BY <1>5
  <2>2. s \in Streams(b)
    BY DEF Finished, Children
  <2>3. Stream(s) \in I /\ OutputId(b, s) \in I
    BY <2>2, Known
  <2> QED BY <1>ends, <2>1, <2>3
<1>6. CASE r \in Parts
  <2>1. PICK g \in Segments(b) : r \in {<<"in_segment", t, g.id>> : t \in g.talks \cup ChildTalks(b, g)}
    BY <1>6
  <2>2. PICK t \in g.talks \cup ChildTalks(b, g) : r = <<"in_segment", t, g.id>>
    BY <2>1
  <2>3. g.id \in I
    BY Known
  <2>4. t \in g.talks => t \in I
    BY SegmentIs, Known
  <2>5. t \in ChildTalks(b, g) => t \in I
    BY Known DEF ChildTalks
  <2> QED BY <1>ends, <2>2, <2>3, <2>4, <2>5
<1>7. r \in Starts(b) \cup Follows \cup Reports \cup Summarizes(b) \cup Ends \cup Parts
  BY DEF Relations
<1> HIDE DEF I, Follows, Reports, Ends, Parts
<1> QED BY <1>1, <1>2, <1>3, <1>4, <1>5, <1>6, <1>7

\* No node is without an id.
LEMMA IdKnown ==
    ASSUME NEW b, Sound(b), Apart, NEW n \in Nodes(b)
    PROVE  n.id # None
<1>1. ASSUME NEW m \in StreamNodes(b) PROVE m.id # None
  <2>1. PICK s \in Streams(b) : m = StreamNode(b, s)
    BY NodesAre
  <2> QED BY <2>1, StreamSays DEF Stream, Apart
<1>2. ASSUME NEW m \in EpochNodes(b) PROVE m.id # None
  <2>s. PICK s \in Streams(b) : \E p \in Epochs(b, s) : m = EpochNode(s, p)
    BY NodesAre
  <2>1. PICK p \in Epochs(b, s) : m = EpochNode(s, p)
    BY <2>s
  <2>2. \E x : p = <<"epoch", s, x>>
    BY DEF Epochs, In, Sound
  <2> QED BY <2>1, <2>2, EpochSays DEF Apart
<1>3. ASSUME NEW m \in TalkNodes(b) PROVE m.id # None
  <2>1. ASSUME NEW t \in MainTalks(b), m = MainTalk(t) PROVE m.id # None
    BY <2>1, MainTalkSays, MainTalkIs DEF Apart
  <2>2. ASSUME NEW s \in Children(b), m = ChildTalk(b, s) PROVE m.id # None
    BY <2>2, ChildTalkSays DEF Apart
  <2> QED BY <2>1, <2>2, NodesAre
<1>4. ASSUME NEW m \in RunNodes(b) PROVE m.id # None
  <2>s. PICK s \in Streams(b) : \E r \in Runs(b, s) : m = RunNode(b, s, r)
    BY NodesAre
  <2>1. PICK r \in Runs(b, s) : m = RunNode(b, s, r)
    BY <2>s
  <2> QED BY <2>1, RunSays DEF Apart
<1>5. ASSUME NEW m \in SegmentNodes(b) PROVE m.id # None
  <2>1. PICK g \in Segments(b) : m = SegmentNode(b, g)
    BY NodesAre
  <2> QED BY <2>1, SegmentSays, SegmentIs
<1>6. ASSUME NEW m \in CallNodes(b) PROVE m.id # None
  <2>1. PICK c \in Calls(b) : m = CallNode(b, c)
    BY NodesAre
  <2> QED BY <2>1, CallSays DEF Apart
<1>7. ASSUME NEW m \in MessageNodes(b) PROVE m.id # None
  <2>c. PICK c \in Calls(b) : \E e \in Fragments(b, c) : \E p \in e.parts : m = MessageNode(b, c, e, p)
    BY NodesAre
  <2>e. PICK e \in Fragments(b, c) : \E p \in e.parts : m = MessageNode(b, c, e, p)
    BY <2>c
  <2>1. PICK p \in e.parts : m = MessageNode(b, c, e, p)
    BY <2>e
  <2>2. m.id = <<p, e.at>>
    BY <2>1, MessageSays
  <2> QED BY <2>2 DEF Apart
<1>8. ASSUME NEW m \in ToolNodes(b) PROVE m.id # None
  <2>1. PICK t \in Toolsome(b) : m = ToolNode(b, t)
    BY NodesAre
  <2>2. m.id = <<"tool", t>>
    BY <2>1, ToolSays
  <2> QED BY <2>2 DEF Apart
<1>9. ASSUME NEW m \in StepNodes(b) PROVE m.id # None
  <2>1. ASSUME NEW e \in b.rows, NEW k \in Steps(e), m = StepNode(b, e, k) PROVE m.id # None
    BY <2>1, StepSays, StepTag DEF Apart
  <2>2. ASSUME NEW e \in Streamed(b), NEW k \in Is(e, ResetKinds), m = ResetNode(e, k)
        PROVE  m.id # None
    BY <2>2, ResetSays, StepTag DEF Apart
  <2> QED BY <2>1, <2>2, NodesAre
<1>10. ASSUME NEW m \in OutputNodes(b) PROVE m.id # None
  <2>1. PICK s \in Finished(b) : m = OutputNode(b, s)
    BY NodesAre
  <2> QED BY <2>1, OutputSays DEF OutputId, Apart
<1>11. Session # None
  BY DEF Apart, Session
<1> QED BY <1>1, <1>2, <1>3, <1>4, <1>5, <1>6, <1>7, <1>8, <1>9, <1>10, <1>11, NodesIn

\* What holds a node is of its own stream, or of none.
LEMMA HeldByOwn ==
    ASSUME NEW b, Sound(b), Tidy(b), Apart, NEW m \in Nodes(b), NEW n \in Nodes(b), m.id = n.parent
    PROVE  m.stream \in {n.stream, None}
<1>1. ASSUME NEW S, S \subseteq Nodes(b), NEW st, Is1(S, n.parent, st) PROVE m.stream = st
  <2>1. PICK x \in S : x.id = n.parent /\ x.stream = st
    BY <1>1 DEF Is1
  <2> QED BY <1>1, <2>1, OneNode
<1>2. n.parent = Session => m.stream = None
  <2>1. PICK x \in Nodes(b) : x.id = Session /\ x.stream = None
    <3>1. Node(Session, None, None, {}, {}) \in Nodes(b)
      BY DEF Nodes
    <3> QED BY <3>1, NodeIs
  <2> QED BY <2>1, OneNode
<1>in. /\ StreamNodes(b) \subseteq Nodes(b) /\ EpochNodes(b) \subseteq Nodes(b) /\ TalkNodes(b) \subseteq Nodes(b)
       /\ RunNodes(b) \subseteq Nodes(b) /\ CallNodes(b) \subseteq Nodes(b)
  BY NodesIn
<1>3. ASSUME NEW st, InHome(b, n.parent, st) PROVE n.parent = Session \/ m.stream = st
  BY <1>1, <1>3, <1>in DEF InHome
<1>4. \A st : Fits(b, n, st) => st = n.stream
  BY DEF Fits
<1>5. CASE n.id = Session /\ n.stream = None /\ n.parent = None
  <2>1. n.parent # m.id
    <3>1. \A x \in Nodes(b) : x.id # None
      BY IdKnown
    <3> QED BY <1>5, <3>1
  <2> QED BY <2>1
<1>6. CASE n \in StreamNodes(b) \cup SegmentNodes(b)
  BY <1>2, <1>6, ContainersHeld
<1>7. CASE n \in EpochNodes(b)
  BY <1>1, <1>7, <1>in, ContainersHeld
<1>8. CASE n \in TalkNodes(b)
  BY <1>1, <1>8, <1>in, ContainersHeld
<1>9. CASE n \in RunNodes(b)
  BY <1>1, <1>9, <1>in, ContainersHeld
<1>10. CASE n \in CallNodes(b) \cup StepNodes(b)
  BY <1>2, <1>3, <1>10, StepsHeld
<1>11. CASE n \in OutputNodes(b)
  BY <1>2, <1>3, <1>11, StepsHeld
<1>12. CASE n \in MessageNodes(b)
  BY <1>1, <1>4, <1>12, <1>in, StepsHeld
<1>13. CASE n \in ToolNodes(b)
  <2>1. CASE InHome(b, n.parent, n.stream)
    BY <1>2, <1>3, <2>1
  <2>2. CASE \E st : Is1(CallNodes(b), n.parent, st) /\ Fits(b, n, st)
    BY <1>1, <1>4, <1>in, <2>2
  <2> QED BY <1>13, <2>1, <2>2, StepsHeld
<1> QED BY <1>5, <1>6, <1>7, <1>8, <1>9, <1>10, <1>11, <1>12, <1>13, NodesIn

-----------------------------------------------------------------------------
(***************************************************************************)
(* Where the rows of an index come from.                                   *)
(***************************************************************************)

\* The row of a record, by the files alone.
Entry(F, s, k, at) == Row(F[s].src, F[s].records[k], at)

\* The i-th row is the k-th record's of a file, as it landed or replayed; what the file holds
\* before that record landed before this row.
Origin(jx, F, i, s, k) ==
    /\ \/ jx[i] = Entry(F, s, k, <<s, k>>)
       \/ /\ jx[i] = Entry(F, s, k, <<s, i, "again">>) /\ F[s].records[k].uuid # None
          /\ \E j \in 1 .. i - 1 : jx[j] = Entry(F, s, k, <<s, k>>)
    /\ \A l \in 1 .. k - 1 : \E j \in 1 .. i - 1 : jx[j] = Entry(F, s, l, <<s, l>>)

\* An index: every row has an origin, and is where no other is.
Indexed(jx, F) ==
    /\ Len(jx) \in Nat /\ DOMAIN jx = 1 .. Len(jx)
    /\ \A i, j \in DOMAIN jx : jx[i].at = jx[j].at => i = j
    /\ \A i \in DOMAIN jx : \E s \in Sources : \E k \in DOMAIN F[s].records : Origin(jx, F, i, s, k)

\* What the proofs ask of the files.
Good(F) == \E c \in Scenarios : F = c.files

\* What conversion and index keep of a record.
LEMMA EntryIs ==
    ASSUME NEW F, NEW s, NEW k, NEW at
    PROVE  LET r == Entry(F, s, k, at)
               d == F[s].records[k]
               src == F[s].src
               bare == src.kind \in {"manifest", "script"} \/ d.type = "garbage"
           IN  /\ r.at = at /\ r.stream = src.stream /\ r.parts \subseteq {"text", "thinking"}
               /\ r.kind = "journal" => src.kind = "journal"
               /\ bare => r.rec = None /\ r.flags = {} /\ r.trigger = None /\ r.call = None
                          /\ r.parent = None /\ r.continues = None
               /\ ~bare => /\ r.rec = d.uuid /\ r.parent = d.parentUuid /\ r.continues = d.logicalParent
                           /\ r.call = d.message /\ r.run = d.prompt
                           /\ r.flags = FlagsOf(d, src) /\ r.trigger = TriggerOf(d)
<1> DEFINE d == F[s].records[k]
           src == F[s].src
           bare == src.kind \in {"manifest", "script"} \/ d.type = "garbage"
           v == Convert(src, d)
           r == Entry(F, s, k, at)
<1>1. r = FromRecord(src, v, at)
  BY DEF Entry, Row
<1> HIDE DEF v
<1>2. /\ r.at = at /\ r.stream = src.stream /\ r.kind = KindOf(src, v)
      /\ r.rec = v.id /\ r.parent = v.parent /\ r.call = v.call /\ r.run = v.run
      /\ r.continues = v.continues /\ r.trigger = v.trigger /\ r.flags = v.flags
      /\ r.parts \subseteq {"text", "thinking"}
  <2> HIDE DEF r
  <2> QED BY <1>1 DEF FromRecord
<1>3. KindOf(src, v) = "journal" => src.kind = "journal"
  BY DEF KindOf
<1>4. bare => /\ v.id = None /\ v.flags = {} /\ v.trigger = None /\ v.call = None
              /\ v.parent = None /\ v.continues = None
  <2>1. bare => \/ v = [Bare("data") EXCEPT !.batch = FirstOf(d.batch, src.batch)]
                \/ v = Bare("unknown")
    BY DEF Convert, v
  <2> HIDE DEF d, src, bare
  <2> QED BY <2>1 DEF Bare
<1>5. ~bare => /\ v.id = d.uuid /\ v.parent = d.parentUuid /\ v.continues = d.logicalParent
               /\ v.call = d.message /\ v.run = d.prompt
               /\ v.flags = FlagsOf(d, src) /\ v.trigger = TriggerOf(d)
  <2>1. ~bare => v = [id |-> d.uuid, parent |-> d.parentUuid, call |-> d.message, run |-> d.prompt,
          continues |-> d.logicalParent, time |-> d.time, trigger |-> TriggerOf(d),
          tool |-> LinkedTool(d, src), child |-> LinkedChild(d, src),
          batch |-> FirstOf(Enriched(d, "batch"), src.batch), startedBy |-> d.parentAgent,
          flags |-> FlagsOf(d, src), from |-> ProducerOf(d, src), parts |-> PartsOf(d)]
    BY DEF Convert, v
  <2> HIDE DEF d, src, bare, v
  <2> QED BY <2>1
<1> HIDE DEF r
<1> QED BY <1>2, <1>3, <1>4, <1>5 DEF r

\* A record of the runtime has a flag that makes it a step, whatever its subtype.
LEMMA FlagsAre ==
    ASSUME NEW d, NEW src
    PROVE  /\ "context_reset" \in FlagsOf(d, src) => d.type = "system"
           /\ "reset_summary" \in FlagsOf(d, src) => d.summary
           /\ d.type = "system" =>
                 FlagsOf(d, src) \cap {"context_reset", "error", "turn_duration", "command", "notice"} # {}
           /\ d.type = "attachment" /\ src.kind \in Transcripts =>
                 FlagsOf(d, src) \cap {"external_input", "injected"} # {}
<1>1. "context_reset" \in FlagsOf(d, src) => d.type = "system"
  BY DEF FlagsOf, SystemFlags
<1>2. "reset_summary" \in FlagsOf(d, src) => d.summary
  BY DEF FlagsOf, SystemFlags
<1>3. d.type = "system" =>
         SystemFlags(d) \cap {"context_reset", "error", "turn_duration", "command", "notice"} # {}
  BY DEF SystemFlags
<1>4. SystemFlags(d) \subseteq FlagsOf(d, src)
  BY DEF FlagsOf
<1>5. d.type = "attachment" /\ src.kind \in Transcripts => External(d, src) \/ Injected(d)
  BY DEF External, Injected, Transcripts
<1>6. /\ External(d, src) => "external_input" \in FlagsOf(d, src)
      /\ Injected(d) => "injected" \in FlagsOf(d, src)
  BY DEF FlagsOf
<1> QED BY <1>1, <1>2, <1>3, <1>4, <1>5, <1>6

\* The lookup finds the first copy, or nothing.
LEMMA ByRecordIs ==
    ASSUME NEW jx, DOMAIN jx = 1 .. Len(jx), Len(jx) \in Nat, NEW r
    PROVE  LET up == ByRecord(jx, r) IN
           /\ up = 0 \/ (up \in DOMAIN jx /\ jx[up].rec = r /\ r # None)
           /\ \A j \in DOMAIN jx : r # None /\ jx[j].rec = r => up # 0 /\ up <= j
<1> DEFINE found == {j \in DOMAIN jx : r # None /\ jx[j].rec = r}
<1>1. ByRecord(jx, r) = IF found = {} THEN 0 ELSE Min(found)
  BY DEF ByRecord
<1>2. found \in SUBSET Nat /\ found \subseteq DOMAIN jx /\ 0 \notin found
  OBVIOUS
<1>3. \A j \in DOMAIN jx : j \in found <=> r # None /\ jx[j].rec = r
  OBVIOUS
<1> HIDE DEF found
<1>4. found # {} => Min(found) \in found /\ \A j \in found : Min(found) <= j
  BY <1>2, MinIs
<1> QED BY <1>1, <1>2, <1>3, <1>4

\* A record that has an id is indexed under it.
LEMMA UuidIs ==
    ASSUME NEW c \in Scenarios, NEW s \in Sources, NEW k \in DOMAIN c.files[s].records, NEW at,
           c.files[s].records[k].uuid # None
    PROVE  Entry(c.files, s, k, at).rec = c.files[s].records[k].uuid
<1>1. c.files[s].src.kind \in Transcripts /\ c.files[s].records[k].type # "garbage"
  BY SessionsAssumption DEF Shaped
<1>2. c.files[s].src.kind \notin {"manifest", "script"}
  BY <1>1 DEF Transcripts
<1> QED BY <1>1, <1>2, EntryIs

\* What a row names is found before it: the record is earlier in its file, and a file lands in order.
LEMMA BackLinks ==
    ASSUME NEW F, Good(F), NEW jx, Indexed(jx, F), NEW i \in DOMAIN jx, NEW r,
           r \in {jx[i].parent, jx[i].continues}
    PROVE  \/ ByRecord(jx, r) \in 1 .. i - 1
           \/ ByRecord(jx, r) = 0
<1> DEFINE up == ByRecord(jx, r)
<1>0. DOMAIN jx = 1 .. Len(jx) /\ Len(jx) \in Nat
  BY DEF Indexed
<1> SUFFICES ASSUME up # 0 PROVE up \in 1 .. i - 1
  OBVIOUS
<1>1. up \in DOMAIN jx /\ jx[up].rec = r /\ r # None
  BY <1>0, ByRecordIs
<1>2. PICK c \in Scenarios : F = c.files
  BY DEF Good
<1>3. PICK s \in Sources : \E k \in DOMAIN F[s].records : Origin(jx, F, i, s, k)
  BY DEF Indexed
<1>4. PICK k \in DOMAIN F[s].records : Origin(jx, F, i, s, k)
  BY <1>3
<1>at. PICK at : jx[i] = Entry(F, s, k, at)
  BY <1>4 DEF Origin
<1>5. PICK q \in Sources : \E l \in DOMAIN F[q].records : Origin(jx, F, up, q, l)
  BY <1>1 DEF Indexed
<1>6. PICK l \in DOMAIN F[q].records : Origin(jx, F, up, q, l)
  BY <1>5
<1>on. PICK on : jx[up] = Entry(F, q, l, on)
  BY <1>6 DEF Origin
<1>7. F[q].records[l].uuid = r
  BY <1>1, <1>on, EntryIs
<1>8. r \in {F[s].records[k].parentUuid, F[s].records[k].logicalParent}
  BY <1>1, <1>at, EntryIs
<1>9. LinksBack(c)
  BY SessionsAssumption
<1>10. PICK p \in 1 .. k - 1 : F[s].records[p].uuid = r
  BY <1>1, <1>2, <1>7, <1>8, <1>9 DEF LinksBack
<1>11. PICK j \in 1 .. i - 1 : jx[j] = Entry(F, s, p, <<s, p>>)
  BY <1>4 DEF Origin
<1>12. p \in DOMAIN F[s].records
  <2>1. Len(F[s].records) \in Nat /\ DOMAIN F[s].records = 1 .. Len(F[s].records)
    BY <1>2, SessionsAssumption DEF Shaped
  <2> QED BY <2>1
<1>13. jx[j].rec = r
  BY <1>1, <1>2, <1>10, <1>11, <1>12, UuidIs
<1>14. j \in DOMAIN jx
  BY <1>0
<1>15. up <= j
  BY <1>0, <1>1, <1>13, <1>14, ByRecordIs
<1> QED BY <1>0, <1>1, <1>15

\* Every row is an entry of some file.
LEMMA RowIs ==
    ASSUME NEW F, NEW jx, Indexed(jx, F), NEW i \in DOMAIN jx
    PROVE  \E s \in Sources : \E k \in DOMAIN F[s].records :
              Origin(jx, F, i, s, k) /\ \E at : jx[i] = Entry(F, s, k, at)
<1>1. PICK s \in Sources : \E k \in DOMAIN F[s].records : Origin(jx, F, i, s, k)
  BY DEF Indexed
<1>2. PICK k \in DOMAIN F[s].records : Origin(jx, F, i, s, k)
  BY <1>1
<1>3. \E at : jx[i] = Entry(F, s, k, at)
  BY <1>2 DEF Origin
<1> QED BY <1>2, <1>3

\* An index of the files is plain.
LEMMA IndexedIsPlain ==
    ASSUME NEW F, NEW jx, Indexed(jx, F)
    PROVE  Plain(jx)
<1>1. ASSUME NEW i \in DOMAIN jx PROVE jx[i].parts \subseteq {"text", "thinking"}
  <2>1. PICK s, k, at : jx[i] = Entry(F, s, k, at)
    BY RowIs
  <2> QED BY <2>1, EntryIs
<1> QED BY <1>1 DEF Plain, Indexed

\* The rows of the finished builder, each the row of the index it is made of.
LEMMA TalkedRow ==
    ASSUME NEW jx, NEW w, NEW e \in Talked(jx, w).rows
    PROVE  \E i \in Canonical(jx, w) : e = InTalk(jx, w, i) /\ Alike(e, Noted(jx, i))
<1>1. PICK i \in Canonical(jx, w) : e = InTalk(jx, w, i)
  BY StagesAre
<1> QED BY <1>1, MarkedAlike

LEMMA SameStreams ==
    ASSUME NEW jx, NEW w
    PROVE  Streams(Talked(jx, w)) = Streams(Read(jx, w))
<1>1. \A i : InTalk(jx, w, i).stream = Noted(jx, i).stream
  BY MarkedAlike DEF Alike
<1> QED BY <1>1, StagesAre DEF Streams

\* The rows of an index of the files are tidy: a call is of one stream,
LEMMA TidyIs ==
    ASSUME NEW F, Good(F), NEW jx, Indexed(jx, F), NEW w
    PROVE  Tidy(Talked(jx, w))
<1> DEFINE b == Talked(jx, w)
<1>1. PICK c \in Scenarios : F = c.files
  BY DEF Good
<1>2. ASSUME NEW e \in b.rows
      PROVE  \E s \in Sources : \E k \in DOMAIN F[s].records :
                /\ e.stream = F[s].src.stream
                /\ e.call # None => e.call = F[s].records[k].message
                /\ e.kind = "journal" => F[s].src.kind = "journal"
  <2>1. PICK i \in Canonical(jx, w) : Alike(e, Noted(jx, i))
    BY TalkedRow
  <2>2. i \in DOMAIN jx /\ e.stream = jx[i].stream /\ e.call = jx[i].call /\ e.kind = jx[i].kind
    BY <2>1, NotedIs DEF Alike, Canonical
  <2>3. PICK s \in Sources : \E k \in DOMAIN F[s].records : \E at : jx[i] = Entry(F, s, k, at)
    BY <2>2, RowIs
  <2>4. PICK k \in DOMAIN F[s].records : \E at : jx[i] = Entry(F, s, k, at)
    BY <2>3
  <2>5. PICK at : jx[i] = Entry(F, s, k, at)
    BY <2>4
  <2> QED BY <2>2, <2>5, EntryIs
<1>3. ASSUME NEW e \in Streamed(b), NEW f \in Streamed(b), e.call # None, e.call = f.call
      PROVE  e.stream = f.stream
  <2>1. e \in b.rows /\ f \in b.rows /\ e.stream # None /\ f.stream # None
    BY DEF Streamed
  <2>2. PICK s \in Sources : \E k \in DOMAIN F[s].records :
                e.stream = F[s].src.stream /\ e.call = F[s].records[k].message
    BY <1>2, <1>3, <2>1
  <2>3. PICK q \in Sources : \E l \in DOMAIN F[q].records :
                f.stream = F[q].src.stream /\ f.call = F[q].records[l].message
    BY <1>2, <1>3, <2>1
  <2>4. MessagesOwn(c)
    BY SessionsAssumption
  <2> QED BY <1>1, <1>3, <2>1, <2>2, <2>3, <2>4 DEF MessagesOwn
<1>4. ASSUME NEW e \in b.rows, e.kind = "journal" PROVE e.stream = None
  <2>1. PICK s \in Sources : e.stream = F[s].src.stream /\ F[s].src.kind = "journal"
    BY <1>2, <1>4
  <2> QED BY <1>1, <2>1, SessionsAssumption DEF Shaped
<1> QED BY <1>3, <1>4 DEF Tidy

\* Whatever names no call is absent: it is no word of the code's.
Wordless == None \notin {"reset_summary", "context_reset"}

\* ... and linked: a joined child has a stream, and so has the reset a summary is of.
LEMMA LinkedIs ==
    ASSUME NEW F, Good(F), NEW jx, Indexed(jx, F), NEW w \in Nat, Wordless
    PROVE  Linked(Talked(jx, w))
<1> DEFINE b == Talked(jx, w)
<1>c. PICK c \in Scenarios : F = c.files
  BY DEF Good
<1>s. \A s \in Sources : \A k \in DOMAIN F[s].records :
         F[s].records[k].summary \/ F[s].records[k].type = "system" => F[s].src.stream # None
  <2> SUFFICES ASSUME NEW s \in Sources, NEW k \in DOMAIN F[s].records,
                      F[s].records[k].summary \/ F[s].records[k].type = "system"
               PROVE  F[s].src.stream # None
    OBVIOUS
  <2>1. Shaped(c)
    BY SessionsAssumption
  <2>2. F[s].src.kind \in Transcripts
    BY <1>c, <2>1 DEF Shaped
  <2> QED BY <1>c, <2>1, <2>2 DEF Shaped
<1>1. \A d \in b.joined : d.child \in Streams(b)
  <2>1. b.joined = Joined(Read(jx, w))
    BY StagesAre
  <2>2. \A d \in Joined(Read(jx, w)) : d.child \in Streams(Read(jx, w))
    BY DEF Joined
  <2> QED BY <2>1, <2>2, SameStreams
<1>2. ASSUME NEW i \in DOMAIN jx, "context_reset" \in jx[i].flags PROVE jx[i].stream # None
  <2>1. PICK s \in Sources : \E k \in DOMAIN F[s].records : \E at : jx[i] = Entry(F, s, k, at)
    BY RowIs
  <2>2. PICK k \in DOMAIN F[s].records : \E at : jx[i] = Entry(F, s, k, at)
    BY <2>1
  <2>3. PICK at : jx[i] = Entry(F, s, k, at)
    BY <2>2
  <2>4. "context_reset" \in FlagsOf(F[s].records[k], F[s].src)
    BY <1>2, <2>3, EntryIs
  <2>5. F[s].records[k].type = "system"
    BY <2>4, FlagsAre
  <2> QED BY <1>s, <2>3, <2>5, EntryIs
<1>3. ASSUME NEW i \in DOMAIN jx, "reset_summary" \in jx[i].flags \cup {jx[i].trigger} PROVE jx[i].stream # None
  <2>1. PICK s \in Sources : \E k \in DOMAIN F[s].records : \E at : jx[i] = Entry(F, s, k, at)
    BY RowIs
  <2>2. PICK k \in DOMAIN F[s].records : \E at : jx[i] = Entry(F, s, k, at)
    BY <2>1
  <2>3. PICK at : jx[i] = Entry(F, s, k, at)
    BY <2>2
  <2> DEFINE d == F[s].records[k]
  <2>4. TriggerOf(d) \in {None, "external", "notification", "unknown"}
    BY DEF TriggerOf
  <2>5. "reset_summary" \in FlagsOf(d, F[s].src)
    BY <1>3, <2>3, <2>4, EntryIs DEF Wordless
  <2>6. d.summary
    BY <2>5, FlagsAre
  <2> QED BY <1>s, <2>3, <2>6, EntryIs
<1>4. ASSUME NEW e \in b.rows, "reset_summary" \in e.flags \cup {e.trigger}, e.reset # None
      PROVE  e.stream # None /\ \E f \in Streamed(b) : f.at = e.reset /\ "context_reset" \in f.flags
  <2>1. PICK i \in Canonical(jx, w) : Alike(e, Noted(jx, i))
    BY TalkedRow
  <2> DEFINE up == ByRecord(jx, jx[i].parent)
  <2>2. /\ i \in DOMAIN jx /\ i <= w /\ e.stream = jx[i].stream
        /\ e.flags = jx[i].flags /\ e.trigger = jx[i].trigger
        /\ e.reset = IF up # 0 /\ "context_reset" \in jx[up].flags THEN jx[up].at ELSE None
    <3>1. Noted(jx, i).reset = IF up # 0 /\ "context_reset" \in jx[up].flags THEN jx[up].at ELSE None
      BY DEF Noted
    <3> QED BY <2>1, <3>1, NotedIs DEF Alike, Canonical
  <2>3. e.stream # None
    BY <1>3, <1>4, <2>2
  <2>4. up # 0 /\ "context_reset" \in jx[up].flags /\ e.reset = jx[up].at
    BY <1>4, <2>2
  <2>5. up \in 1 .. i - 1
    BY <2>2, <2>4, BackLinks
  <2>6. DOMAIN jx = 1 .. Len(jx) /\ Len(jx) \in Nat
    BY DEF Indexed
  <2>7. up \in DOMAIN jx /\ jx[up].rec = jx[i].parent /\ up <= w
    BY <2>2, <2>4, <2>5, <2>6, ByRecordIs
  <2>8. up \in Canonical(jx, w)
    BY <2>7 DEF Canonical
  <2> DEFINE f == InTalk(jx, w, up)
  <2>9. f \in b.rows /\ f.at = jx[up].at /\ f.stream = jx[up].stream /\ f.flags = jx[up].flags
    BY <2>8, StagesAre, MarkedAlike, NotedIs DEF Alike
  <2>10. f \in Streamed(b)
    BY <1>2, <2>4, <2>7, <2>9 DEF Streamed
  <2> QED BY <2>3, <2>4, <2>9, <2>10
<1> QED BY <1>1, <1>4 DEF Linked

-----------------------------------------------------------------------------
(***************************************************************************)
(* The index as it grows, and what was said of it.                         *)
(***************************************************************************)

\* How much of each file an index holds.
Taken(F, jx, tk) ==
    /\ tk \in [Sources -> Nat]
    /\ \A s \in Sources : tk[s] <= Len(F[s].records)
    /\ \A s \in Sources : \A k \in 1 .. tk[s] : \E j \in DOMAIN jx : jx[j] = Entry(F, s, k, <<s, k>>)
    /\ \A s \in Sources : \A i \in DOMAIN jx : \A k \in Nat : jx[i].at = <<s, k>> => k <= tk[s]

\* What has landed is an index of the files, each up to where it was taken.
Landed ==
    /\ Good(script.files) /\ DOMAIN script = {"files", "replays"}
    /\ Indexed(ix, script.files) /\ \E T : ix \in Seq(T)
    /\ Taken(script.files, ix, taken)

\* What was said is what the index said when it was shorter.
Spoken ==
    \E jx : /\ Indexed(jx, script.files) /\ Len(jx) <= Len(ix)
            /\ \A i \in DOMAIN jx : jx[i] = ix[i]
            /\ through \in 0 .. Len(jx) /\ said = Assembled(jx, through)

IInv == Landed /\ Spoken

\* The row that may land next.
MayFollow(F, jx, r, s, k) ==
    /\ s \in Sources /\ k \in DOMAIN F[s].records
    /\ \A i \in DOMAIN jx : jx[i].at # r.at
    /\ \/ r = Entry(F, s, k, <<s, k>>)
       \/ /\ r = Entry(F, s, k, <<s, Len(jx) + 1, "again">>) /\ F[s].records[k].uuid # None
          /\ \E j \in DOMAIN jx : jx[j] = Entry(F, s, k, <<s, k>>)
    /\ \A l \in 1 .. k - 1 : \E j \in DOMAIN jx : jx[j] = Entry(F, s, l, <<s, l>>)

\* One row more.
Lengthens(jx, x, r) ==
    /\ Len(jx) \in Nat /\ DOMAIN jx = 1 .. Len(jx)
    /\ Len(x) = Len(jx) + 1 /\ DOMAIN x = 1 .. Len(jx) + 1
    /\ \A i \in DOMAIN jx : x[i] = jx[i]
    /\ x[Len(jx) + 1] = r

\* An index of the files is still one after the row that may follow.
LEMMA Extend ==
    ASSUME NEW F, NEW jx, Indexed(jx, F), \E T : jx \in Seq(T), NEW r, NEW s, NEW k,
           MayFollow(F, jx, r, s, k), NEW x, x = Append(jx, r)
    PROVE  /\ Indexed(x, F)
           /\ \E T : x \in Seq(T)
           /\ Lengthens(jx, x, r)
<1> DEFINE n == Len(jx) + 1
<1>0. PICK T : jx \in Seq(T)
  OBVIOUS
<1>1. /\ Len(jx) \in Nat /\ DOMAIN jx = 1 .. Len(jx)
      /\ jx \in Seq(T \cup {r}) /\ r \in T \cup {r}
  BY <1>0 DEF Indexed
<1>2. /\ x \in Seq(T \cup {r}) /\ Len(x) = n /\ DOMAIN x = 1 .. n /\ x[n] = r
      /\ \A i \in 1 .. Len(jx) : x[i] = jx[i]
  BY <1>1
<1>3. \A i \in DOMAIN x : i = n \/ (i \in DOMAIN jx /\ x[i] = jx[i])
  BY <1>1, <1>2
<1>4. ASSUME NEW i \in DOMAIN x, NEW j \in DOMAIN x, x[i].at = x[j].at PROVE i = j
  BY <1>1, <1>2, <1>3, <1>4 DEF Indexed, MayFollow
<1>5. ASSUME NEW i \in DOMAIN jx
      PROVE  \E q \in Sources : \E l \in DOMAIN F[q].records : Origin(x, F, i, q, l)
  <2>1. PICK q \in Sources : \E l \in DOMAIN F[q].records : Origin(jx, F, i, q, l)
    BY DEF Indexed
  <2>2. PICK l \in DOMAIN F[q].records : Origin(jx, F, i, q, l)
    BY <2>1
  <2>3. x[i] = jx[i] /\ \A j \in 1 .. i - 1 : x[j] = jx[j]
    BY <1>1, <1>2
  <2>4. Origin(x, F, i, q, l)
    BY <2>2, <2>3 DEF Origin
  <2> QED BY <2>4
<1>6. Origin(x, F, n, s, k)
  <2>1. \A j \in DOMAIN jx : j \in 1 .. n - 1 /\ x[j] = jx[j]
    BY <1>1, <1>2
  <2>2. \A l \in 1 .. k - 1 : \E j \in 1 .. n - 1 : x[j] = Entry(F, s, l, <<s, l>>)
    BY <2>1 DEF MayFollow
  <2>3. \/ r = Entry(F, s, k, <<s, k>>)
        \/ /\ r = Entry(F, s, k, <<s, n, "again">>) /\ F[s].records[k].uuid # None
           /\ \E j \in 1 .. n - 1 : x[j] = Entry(F, s, k, <<s, k>>)
    BY <2>1 DEF MayFollow
  <2> QED BY <1>2, <2>2, <2>3 DEF Origin
<1>7. \A i \in DOMAIN x : \E q \in Sources : \E l \in DOMAIN F[q].records : Origin(x, F, i, q, l)
  BY <1>3, <1>5, <1>6 DEF MayFollow
<1>8. Indexed(x, F)
  <2>1. Len(x) \in Nat /\ DOMAIN x = 1 .. Len(x)
    BY <1>1, <1>2
  <2> QED BY <1>4, <1>7, <2>1 DEF Indexed
<1> QED BY <1>1, <1>2, <1>8 DEF Lengthens

LEMMA LandedInit == Init => Landed
<1> SUFFICES ASSUME Init PROVE Landed
  OBVIOUS
<1>1. script \in Scenarios /\ ix = <<>> /\ taken = [s \in Sources |-> 0]
  BY DEF Init
<1>2. Shaped(script)
  BY <1>1, SessionsAssumption
<1>3. Len(ix) = 0 /\ DOMAIN ix = {} /\ ix \in Seq({})
  BY <1>1
<1>4. Indexed(ix, script.files)
  BY <1>3 DEF Indexed
<1>5. Good(script.files) /\ DOMAIN script = {"files", "replays"}
  BY <1>1, <1>2 DEF Good, Shaped
<1>6. \A s \in Sources : taken[s] = 0 /\ taken[s] <= Len(script.files[s].records)
  BY <1>1, <1>2 DEF Shaped
<1>7. taken \in [Sources -> Nat]
  BY <1>1
<1>8. Taken(script.files, ix, taken)
  BY <1>3, <1>6, <1>7 DEF Taken
<1> QED BY <1>3, <1>4, <1>5, <1>8 DEF Landed

LEMMA EntryAt ==
    ASSUME NEW F, NEW s, NEW k, NEW at
    PROVE  Entry(F, s, k, at).at = at
  BY EntryIs

\* The next record of a file may follow,
LEMMA TakeNext ==
    ASSUME NEW F, Good(F), NEW jx, Indexed(jx, F), \E T : jx \in Seq(T), NEW tk, Taken(F, jx, tk),
           NEW s \in Sources, tk[s] < Len(F[s].records),
           NEW k, k = tk[s] + 1, NEW r, r = Entry(F, s, k, <<s, k>>),
           NEW x, x = Append(jx, r), NEW u, u = [tk EXCEPT ![s] = k]
    PROVE  MayFollow(F, jx, r, s, k) /\ Taken(F, x, u)
<1>1. PICK c \in Scenarios : F = c.files
  BY DEF Good
<1>2. tk[s] \in Nat /\ k \in Nat /\ k \in DOMAIN F[s].records
      /\ \A q \in Sources : Len(F[q].records) \in Nat
  <2>1. Shaped(c)
    BY SessionsAssumption
  <2>2. \A q \in Sources : Len(F[q].records) \in Nat /\ DOMAIN F[q].records = 1 .. Len(F[q].records)
    BY <1>1, <2>1 DEF Shaped
  <2>3. tk[s] \in Nat
    BY DEF Taken
  <2> QED BY <2>2, <2>3
<1>3. r.at = <<s, k>>
  BY EntryAt
<1>4. ASSUME NEW i \in DOMAIN jx PROVE jx[i].at # <<s, k>>
  <2>1. jx[i].at = <<s, k>> => k <= tk[s]
    BY <1>2 DEF Taken
  <2> QED BY <1>2, <2>1
<1>5. \A l \in 1 .. k - 1 : \E j \in DOMAIN jx : jx[j] = Entry(F, s, l, <<s, l>>)
  <2>1. \A l \in 1 .. k - 1 : l \in 1 .. tk[s]
    BY <1>2
  <2> QED BY <2>1 DEF Taken
<1>6. MayFollow(F, jx, r, s, k)
  BY <1>2, <1>3, <1>4, <1>5 DEF MayFollow
<1>7. /\ DOMAIN x = 1 .. Len(jx) + 1 /\ DOMAIN jx = 1 .. Len(jx) /\ Len(jx) \in Nat
      /\ \A i \in DOMAIN jx : x[i] = jx[i]
      /\ x[Len(jx) + 1] = r
  <2>1. Lengthens(jx, x, r)
    BY <1>6, Extend
  <2> QED BY <2>1 DEF Lengthens
<1>8. /\ u \in [Sources -> Nat] /\ u[s] = k
      /\ \A q \in Sources : q # s => u[q] = tk[q]
  BY <1>2 DEF Taken
<1>9. \A q \in Sources : u[q] <= Len(F[q].records)
  <2>1. k <= Len(F[s].records)
    BY <1>2
  <2> QED BY <1>8, <2>1 DEF Taken
<1>10. ASSUME NEW q \in Sources, NEW l \in 1 .. u[q]
       PROVE  \E j \in DOMAIN x : x[j] = Entry(F, q, l, <<q, l>>)
  <2>1. CASE l \in 1 .. tk[q]
    <3>1. PICK j \in DOMAIN jx : jx[j] = Entry(F, q, l, <<q, l>>)
      BY <2>1 DEF Taken
    <3> QED BY <1>7, <3>1
  <2>2. CASE l \notin 1 .. tk[q]
    <3>1. q = s /\ l = k
      BY <1>2, <1>8, <1>10, <2>2
    <3>2. Len(jx) + 1 \in DOMAIN x
      BY <1>7
    <3> QED BY <1>7, <3>1, <3>2
  <2> QED BY <2>1, <2>2
<1>11. ASSUME NEW q \in Sources, NEW i \in DOMAIN x, NEW l \in Nat, x[i].at = <<q, l>> PROVE l <= u[q]
  <2>1. tk[q] <= u[q] /\ u[q] \in Nat /\ tk[q] \in Nat
    BY <1>2, <1>8 DEF Taken
  <2>2. CASE i \in DOMAIN jx
    <3>1. l <= tk[q]
      BY <1>7, <1>11, <2>2 DEF Taken
    <3> QED BY <2>1, <3>1
  <2>3. CASE i = Len(jx) + 1
    <3>1. <<q, l>> = <<s, k>>
      BY <1>3, <1>7, <1>11, <2>3
    <3>2. q = s /\ l = k
      BY <3>1
    <3> QED BY <1>2, <1>8, <3>2
  <2> QED BY <1>7, <2>2, <2>3
<1>12. Taken(F, x, u)
  BY <1>8, <1>9, <1>10, <1>11 DEF Taken
<1> QED BY <1>6, <1>12

\* ... and so may a record that is there already, and nothing more is taken.
LEMMA TakeAgain ==
    ASSUME NEW F, Good(F), NEW jx, Indexed(jx, F), \E T : jx \in Seq(T), NEW tk, Taken(F, jx, tk),
           NEW s \in Sources, NEW k \in 1 .. tk[s], F[s].records[k].uuid # None,
           NEW at, at = <<s, Len(jx) + 1, "again">>, NEW r, r = Entry(F, s, k, at), NEW x, x = Append(jx, r)
    PROVE  MayFollow(F, jx, r, s, k) /\ Taken(F, x, tk)
<1>1. PICK c \in Scenarios : F = c.files
  BY DEF Good
<1>2. tk[s] \in Nat /\ k \in Nat /\ k \in DOMAIN F[s].records
  <2>1. Shaped(c)
    BY SessionsAssumption
  <2>2. Len(F[s].records) \in Nat /\ DOMAIN F[s].records = 1 .. Len(F[s].records)
    BY <1>1, <2>1 DEF Shaped
  <2>3. tk[s] \in Nat /\ tk[s] <= Len(F[s].records)
    BY DEF Taken
  <2> QED BY <2>2, <2>3
<1>3. r.at = at
  BY EntryAt
<1>4. ASSUME NEW i \in DOMAIN jx PROVE jx[i].at # at
  <2>0. DOMAIN jx = 1 .. Len(jx) /\ Len(jx) \in Nat
    BY DEF Indexed
  <2>1. PICK q \in Sources : \E l \in DOMAIN F[q].records : Origin(jx, F, i, q, l)
    BY DEF Indexed
  <2>2. PICK l \in DOMAIN F[q].records : Origin(jx, F, i, q, l)
    BY <2>1
  <2>3. jx[i].at = <<q, l>> \/ jx[i].at = <<q, i, "again">>
    BY <2>2, EntryAt DEF Origin
  <2>4. i # Len(jx) + 1
    BY <2>0
  <2>5. <<q, l>> # at /\ <<q, i, "again">> # at
    BY <2>4
  <2> QED BY <2>3, <2>5
<1>5. \A l \in 1 .. k : \E j \in DOMAIN jx : jx[j] = Entry(F, s, l, <<s, l>>)
  <2>1. \A l \in 1 .. k : l \in 1 .. tk[s]
    BY <1>2
  <2> QED BY <2>1 DEF Taken
<1>6. MayFollow(F, jx, r, s, k)
  <2>1. k \in 1 .. k /\ \A l \in 1 .. k - 1 : l \in 1 .. k
    BY <1>2
  <2>2. r = Entry(F, s, k, <<s, Len(jx) + 1, "again">>)
    OBVIOUS
  <2> QED BY <1>2, <1>3, <1>4, <1>5, <2>1, <2>2 DEF MayFollow
<1>7. /\ DOMAIN x = 1 .. Len(jx) + 1 /\ DOMAIN jx = 1 .. Len(jx) /\ Len(jx) \in Nat
      /\ \A i \in DOMAIN jx : x[i] = jx[i]
      /\ x[Len(jx) + 1] = r
  <2>1. Lengthens(jx, x, r)
    BY <1>6, Extend
  <2> QED BY <2>1 DEF Lengthens
<1>8. ASSUME NEW q \in Sources, NEW l \in 1 .. tk[q] PROVE \E j \in DOMAIN x : x[j] = Entry(F, q, l, <<q, l>>)
  <2>1. PICK j \in DOMAIN jx : jx[j] = Entry(F, q, l, <<q, l>>)
    BY DEF Taken
  <2> QED BY <1>7, <2>1
<1>9. ASSUME NEW q \in Sources, NEW i \in DOMAIN x, NEW l \in Nat, x[i].at = <<q, l>> PROVE l <= tk[q]
  <2>1. <<q, l>> # at
    OBVIOUS
  <2>2. i \in DOMAIN jx
    <3>1. i # Len(jx) + 1
      BY <1>3, <1>7, <1>9, <2>1
    <3> QED BY <1>7, <3>1
  <2> QED BY <1>7, <1>9, <2>2 DEF Taken
<1>10. Taken(F, x, tk)
  BY <1>8, <1>9 DEF Taken
<1> QED BY <1>6, <1>10

\* Landing a record keeps the landed an index of the files,
LEMMA LandKeeps ==
    ASSUME Landed, NEW s \in Sources, Land(s)
    PROVE  Landed'
<1> DEFINE F == script.files
           k == taken[s] + 1
           r == Entry(F, s, k, <<s, k>>)
<1>1. /\ taken[s] < Len(F[s].records) /\ script' = script
      /\ taken' = [taken EXCEPT ![s] = k] /\ ix' = Append(ix, r)
  BY DEF Land, Length, RowOf, Entry
<1>2. Good(F) /\ Indexed(ix, F) /\ (\E T : ix \in Seq(T)) /\ Taken(F, ix, taken)
  BY DEF Landed
<1> HIDE DEF F, k, r
<1>3. MayFollow(F, ix, r, s, k) /\ Taken(F, ix', taken')
  <2>1. k = taken[s] + 1 /\ r = Entry(F, s, k, <<s, k>>)
    BY DEF k, r
  <2> QED BY <1>1, <1>2, <2>1, TakeNext
<1>4. Indexed(ix', F) /\ \E T : ix' \in Seq(T)
  BY <1>1, <1>2, <1>3, Extend
<1>5. F = script'.files /\ DOMAIN script' = {"files", "replays"}
  BY <1>1 DEF F, Landed
<1> QED BY <1>2, <1>3, <1>4, <1>5 DEF Landed

\* ... and so does replaying one.
LEMMA ReplayKeeps ==
    ASSUME Landed, NEW s \in Sources, Replay(s)
    PROVE  Landed'
<1> DEFINE F == script.files
           at == <<s, Len(ix) + 1, "again">>
<1>1. /\ script' = [script EXCEPT !.replays = @ - 1] /\ taken' = taken
      /\ \E k \in 1 .. taken[s] : F[s].records[k].uuid # None /\ ix' = Append(ix, Entry(F, s, k, at))
  BY DEF Replay, RowOf, Entry
<1>2. PICK k \in 1 .. taken[s] : F[s].records[k].uuid # None /\ ix' = Append(ix, Entry(F, s, k, at))
  BY <1>1
<1>3. Good(F) /\ Indexed(ix, F) /\ (\E T : ix \in Seq(T)) /\ Taken(F, ix, taken)
  BY DEF Landed
<1>4. F = script'.files /\ DOMAIN script' = {"files", "replays"}
  BY <1>1 DEF Landed
<1> DEFINE r == Entry(F, s, k, at)
<1> HIDE DEF F
<1>5. MayFollow(F, ix, r, s, k) /\ Taken(F, ix', taken)
  <2>1. PICK q : q = r
    OBVIOUS
  <2>2. PICK p : p = at
    OBVIOUS
  <2>3. p = <<s, Len(ix) + 1, "again">> /\ q = Entry(F, s, k, p) /\ ix' = Append(ix, q)
    BY <1>2, <2>1, <2>2
  <2> HIDE DEF at, r
  <2>4. MayFollow(F, ix, q, s, k) /\ Taken(F, ix', taken)
    BY <1>2, <1>3, <2>3, TakeAgain
  <2> QED BY <2>1, <2>4
<1>6. Indexed(ix', F) /\ \E T : ix' \in Seq(T)
  <2>1. ix' = Append(ix, r)
    BY <1>2
  <2> HIDE DEF r
  <2> QED BY <1>3, <1>5, <2>1, Extend
<1> QED BY <1>1, <1>3, <1>4, <1>5, <1>6 DEF Landed

\* An index that has grown begins as it did.
LEMMA Grows ==
    ASSUME Landed, NEW s \in Sources, Land(s) \/ Replay(s)
    PROVE  /\ Len(ix) <= Len(ix') /\ \A i \in DOMAIN ix : ix'[i] = ix[i]
           /\ script'.files = script.files
<1>1. \E r : ix' = Append(ix, r)
  BY DEF Land, Replay
<1>2. PICK T : ix \in Seq(T)
  BY DEF Landed
<1>3. PICK r : ix' = Append(ix, r)
  BY <1>1
<1>4. ix \in Seq(T \cup {r}) /\ r \in T \cup {r}
  BY <1>2
<1>5. Len(ix) \in Nat /\ DOMAIN ix = 1 .. Len(ix)
  BY <1>2
<1>6. Len(ix') = Len(ix) + 1 /\ \A i \in 1 .. Len(ix) : ix'[i] = ix[i]
  BY <1>3, <1>4
<1>7. script'.files = script.files
  BY DEF Land, Replay, Landed
<1> QED BY <1>5, <1>6, <1>7

LEMMA SpokenInit == Init => Spoken
<1> SUFFICES ASSUME Init PROVE Spoken
  OBVIOUS
<1>1. ix = <<>> /\ through = 0 /\ said = Assembled(ix, 0)
  BY DEF Init
<1>2. Indexed(ix, script.files) /\ Len(ix) = 0
  BY <1>1, LandedInit DEF Landed
<1> QED BY <1>1, <1>2 DEF Spoken

\* What was said stays said of a prefix: of the same one while rows land, of all that landed after a round.
LEMMA SpokenKeeps ==
    ASSUME IInv, [Next]_vars
    PROVE  Spoken'
<1>0. PICK jx : /\ Indexed(jx, script.files) /\ Len(jx) <= Len(ix)
                /\ \A i \in DOMAIN jx : jx[i] = ix[i]
                /\ through \in 0 .. Len(jx) /\ said = Assembled(jx, through)
  BY DEF IInv, Spoken
<1>n. /\ Len(jx) \in Nat /\ DOMAIN jx = 1 .. Len(jx)
      /\ Len(ix) \in Nat /\ DOMAIN ix = 1 .. Len(ix) /\ Indexed(ix, script.files)
  BY <1>0 DEF IInv, Landed, Indexed
<1>1. ASSUME NEW s \in Sources, Land(s) \/ Replay(s) PROVE Spoken'
  <2>1. /\ Len(ix) <= Len(ix') /\ \A i \in DOMAIN ix : ix'[i] = ix[i]
        /\ script'.files = script.files
    BY <1>1, Grows DEF IInv
  <2>2. Landed'
    BY <1>1, LandKeeps, ReplayKeeps DEF IInv
  <2>3. Len(ix') \in Nat
    BY <2>2 DEF Landed, Indexed
  <2>4. through' = through /\ said' = said
    BY <1>1 DEF Land, Replay
  <2>5. Len(jx) <= Len(ix') /\ \A i \in DOMAIN jx : jx[i] = ix'[i]
    BY <1>0, <1>n, <2>1, <2>3
  <2>6. /\ Indexed(jx, script'.files)
        /\ through' \in 0 .. Len(jx) /\ said' = Assembled(jx, through')
    BY <1>0, <2>1, <2>4
  <2> QED BY <2>5, <2>6 DEF Spoken
<1>2. ASSUME Assemble PROVE Spoken'
  <2>1. PICK w \in {through, Len(ix)} \ {0} :
            through' = w /\ said' = Assembled(ix, w) /\ UNCHANGED <<script, ix, taken>>
    BY <1>2 DEF Assemble
  <2>2. w \in 0 .. Len(ix)
    <3>0. Len(jx) \in Nat /\ Len(ix) \in Nat /\ Len(jx) <= Len(ix) /\ through \in 0 .. Len(jx)
      BY <1>0, <1>n
    <3>1. through \in 0 .. Len(ix)
      BY <3>0
    <3>2. Len(ix) \in 0 .. Len(ix)
      BY <1>n
    <3> QED BY <2>1, <3>1, <3>2
  <2>3. script' = script /\ ix' = ix /\ through' = w /\ said' = Assembled(ix, w)
    BY <2>1
  <2>4. /\ Indexed(ix, script'.files) /\ Len(ix) <= Len(ix')
        /\ \A i \in DOMAIN ix : ix[i] = ix'[i]
        /\ through' \in 0 .. Len(ix) /\ said' = Assembled(ix, through')
    <3>1. Len(ix) <= Len(ix)
      BY <1>n
    <3>2. Indexed(ix, script'.files) /\ Len(ix) <= Len(ix')
      BY <1>n, <2>3, <3>1
    <3>3. through' \in 0 .. Len(ix) /\ said' = Assembled(ix, through')
      BY <2>2, <2>3
    <3> QED BY <2>3, <3>2, <3>3
  <2> QED BY <2>4 DEF Spoken
<1>3. ASSUME UNCHANGED vars PROVE Spoken'
  BY <1>0, <1>3 DEF vars, Spoken
<1> QED BY <1>1, <1>2, <1>3 DEF Next

LEMMA LandedKeeps ==
    ASSUME IInv, [Next]_vars
    PROVE  Landed'
<1>1. ASSUME Assemble PROVE Landed'
  BY <1>1 DEF Assemble, IInv, Landed
<1>2. ASSUME UNCHANGED vars PROVE Landed'
  BY <1>2 DEF vars, IInv, Landed
<1> QED BY <1>1, <1>2, LandKeeps, ReplayKeeps DEF Next, IInv

\* The inductive invariant: what has landed is an index of the files, and what was said was said
\* of a prefix of it that reaches the watermark (parse.go).
THEOREM LandedAndSpoken == Spec => []IInv
<1>1. Init => IInv
  BY LandedInit, SpokenInit DEF IInv
<1>2. IInv /\ [Next]_vars => IInv'
  BY LandedKeeps, SpokenKeeps DEF IInv
<1> QED BY <1>1, <1>2, PTL DEF Spec

\* What was said was said by the stages, of an index the proofs know.
LEMMA SaidBy ==
    ASSUME IInv, Apart, Wordless
    PROVE  \E b : /\ said.nodes = Nodes(b) /\ said.relations = Relations(b)
                  /\ Sound(b) /\ Linked(b) /\ Tidy(b)
<1>1. PICK jx : Indexed(jx, script.files) /\ through \in 0 .. Len(jx) /\ said = Assembled(jx, through)
  BY DEF IInv, Spoken
<1> DEFINE b == Talked(jx, through)
<1>2. said.nodes = Nodes(b) /\ said.relations = Relations(b)
  BY <1>1 DEF Assembled, Talked, Epoched, Spawned
<1>3. Good(script.files) /\ through \in Nat
  BY <1>1 DEF IInv, Landed, Indexed
<1>4. Sound(b)
  BY <1>1, IndexedIsPlain, SoundIs
<1>5. Linked(b) /\ Tidy(b)
  BY <1>1, <1>3, LinkedIs, TidyIs
<1> QED BY <1>2, <1>4, <1>5

LEMMA IsConnected == IInv /\ Apart /\ Wordless => Connected
<1> SUFFICES ASSUME IInv, Apart, Wordless PROVE Connected
  OBVIOUS
<1>1. PICK b : /\ said.nodes = Nodes(b) /\ said.relations = Relations(b)
               /\ Sound(b) /\ Linked(b) /\ Tidy(b)
  BY SaidBy
<1>2. Ids(said.nodes) = Within(said.nodes, Within(said.nodes, {Session}))
  BY <1>1, Reached
<1>3. \A m, n \in said.nodes : m.id = n.id => m = n
  BY <1>1, OneNode
<1>4. \A r \in said.relations : {r[2], r[3]} \subseteq Ids(said.nodes)
  BY <1>1, EndsKnown
<1> QED BY <1>2, <1>3, <1>4 DEF Connected

LEMMA IsOwnStream == IInv /\ Apart /\ Wordless => OwnStream
<1> SUFFICES ASSUME IInv, Apart, Wordless, NEW m \in said.nodes, NEW n \in said.nodes, m.id = n.parent
             PROVE  m.stream \in {n.stream, None}
  BY DEF OwnStream
<1>1. PICK b : said.nodes = Nodes(b) /\ Sound(b) /\ Tidy(b)
  BY SaidBy
<1> QED BY <1>1, HeldByOwn

\* For every session the conversation is one tree without dangling ends, at every round
\* (talk.go, place; emit.go).  An id that is absent is no tuple and no word of the code's.
THEOREM OneTree ==
    ASSUME Apart, Wordless
    PROVE  Spec => []Connected
BY LandedAndSpoken, IsConnected, PTL

\* ... and what contains a node is of its own stream: flow between streams is relations only
\* (spawn.go).
THEOREM ContainmentInStream ==
    ASSUME Apart, Wordless
    PROVE  Spec => []OwnStream
BY LandedAndSpoken, IsOwnStream, PTL

-----------------------------------------------------------------------------
(***************************************************************************)
(* Records of the runtime are shown.                                       *)
(***************************************************************************)

\* Up to its length, an index and one that has grown from it have the same first copies.
LEMMA FirstCopies ==
    ASSUME NEW jx, Len(jx) \in Nat, DOMAIN jx = 1 .. Len(jx),
           NEW kx, Len(kx) \in Nat, DOMAIN kx = 1 .. Len(kx), Len(jx) <= Len(kx),
           \A i \in DOMAIN jx : jx[i] = kx[i],
           NEW w \in 0 .. Len(jx)
    PROVE  Canonical(kx, w) = Canonical(jx, w)
<1>1. ASSUME NEW i \in DOMAIN jx, jx[i].rec # None
      PROVE  ByRecord(kx, jx[i].rec) = i <=> ByRecord(jx, jx[i].rec) = i
  <2> DEFINE r == jx[i].rec
             a == ByRecord(jx, r)
             b == ByRecord(kx, r)
  <2>1. a \in DOMAIN jx /\ jx[a].rec = r /\ \A j \in DOMAIN jx : jx[j].rec = r => a <= j
    BY <1>1, ByRecordIs
  <2>2. i \in DOMAIN kx /\ kx[i].rec = r /\ a \in DOMAIN kx /\ kx[a].rec = r
    BY <2>1
  <2>3. b \in DOMAIN kx /\ kx[b].rec = r /\ b <= a /\ b <= i
    BY <1>1, <2>2, ByRecordIs
  <2> HIDE DEF r, a, b
  <2>4. b \in DOMAIN jx /\ jx[b].rec = r
    BY <2>1, <2>3
  <2>5. a <= b
    BY <2>1, <2>4
  <2>6. a = b
    BY <2>1, <2>3, <2>4, <2>5
  <2> QED BY <2>6 DEF r, a, b
<1>2. \A i : i \in DOMAIN jx /\ i <= w <=> i \in DOMAIN kx /\ i <= w
  OBVIOUS
<1>3. ASSUME NEW i PROVE i \in Canonical(kx, w) <=> i \in Canonical(jx, w)
  <2>1. CASE i \in DOMAIN jx /\ i <= w
    <3>1. jx[i] = kx[i] /\ i \in DOMAIN kx
      BY <2>1
    <3> QED BY <1>1, <2>1, <3>1 DEF Canonical
  <2>2. CASE ~(i \in DOMAIN jx /\ i <= w)
    BY <1>2, <2>2 DEF Canonical
  <2> QED BY <2>1, <2>2
<1> QED BY <1>3

\* A first copy is the record as it landed, not as it was replayed.
LEMMA FirstLanded ==
    ASSUME NEW F, Good(F), NEW jx, Indexed(jx, F), NEW w, NEW i \in Canonical(jx, w)
    PROVE  \E s \in Sources : \E k \in DOMAIN F[s].records : jx[i] = Entry(F, s, k, <<s, k>>)
<1>0. i \in DOMAIN jx /\ (jx[i].rec = None \/ ByRecord(jx, jx[i].rec) = i)
  BY DEF Canonical
<1>1. PICK s \in Sources : \E k \in DOMAIN F[s].records : Origin(jx, F, i, s, k)
  BY <1>0 DEF Indexed
<1>2. PICK k \in DOMAIN F[s].records : Origin(jx, F, i, s, k)
  BY <1>1
<1> SUFFICES ASSUME /\ jx[i] = Entry(F, s, k, <<s, i, "again">>) /\ F[s].records[k].uuid # None
                    /\ \E j \in 1 .. i - 1 : jx[j] = Entry(F, s, k, <<s, k>>)
             PROVE  FALSE
  BY <1>2 DEF Origin
<1>3. PICK j \in 1 .. i - 1 : jx[j] = Entry(F, s, k, <<s, k>>)
  OBVIOUS
<1>4. PICK c \in Scenarios : F = c.files
  BY DEF Good
<1>5. jx[i].rec = F[s].records[k].uuid /\ jx[j].rec = F[s].records[k].uuid
  BY <1>3, <1>4, UuidIs
<1>6. DOMAIN jx = 1 .. Len(jx) /\ Len(jx) \in Nat
  BY DEF Indexed
<1>7. ByRecord(jx, jx[i].rec) <= j
  BY <1>0, <1>5, <1>6, ByRecordIs
<1> QED BY <1>0, <1>5, <1>6, <1>7

\* A record with one of the words of a list is shown as a step.
StepWords == StepTags \cup {"context_reset"}

\* A row with one of the words of a step is a step.
LEMMA WordShown ==
    ASSUME NEW b, NEW e \in b.rows, e.stream # None, e.flags \cap StepWords # {}
    PROVE  \E n \in Nodes(b) : IsStep(n.id) /\ e.at \in n.refs
<1>1. ASSUME NEW k \in StepTags \cup ResetTags, NEW n, n.id = <<k, e.at>> PROVE IsStep(n.id)
  <2>1. KindOfNode(n.id) = k
    BY <1>1 DEF KindOfNode
  <2> QED BY <2>1 DEF IsStep, Containers, StepTags, ResetTags
<1>2. ASSUME NEW ks \in StepKinds, NEW k \in Is(e, ks)
      PROVE  \E n \in Nodes(b) : IsStep(n.id) /\ e.at \in n.refs
  <2> DEFINE n == StepNode(b, e, k)
  <2>1. k \in Steps(e)
    BY <1>2 DEF Steps
  <2>2. n \in Nodes(b)
    BY <2>1, NodesAre DEF Nodes
  <2> QED BY <1>1, <2>1, <2>2, StepTag, StepSays
<1>3. ASSUME "context_reset" \in e.flags
      PROVE  \E n \in Nodes(b) : IsStep(n.id) /\ e.at \in n.refs
  <2> DEFINE k == "context_reset"
             n == ResetNode(e, k)
  <2>1. k \in Is(e, ResetKinds) /\ e \in Streamed(b)
    BY <1>3, ResetFirst DEF Streamed
  <2>2. n \in Nodes(b)
    BY <2>1, NodesAre DEF Nodes
  <2>3. k \in ResetTags /\ n.id = <<k, e.at>> /\ e.at \in n.refs
    BY ResetSays DEF ResetTags
  <2> QED BY <1>1, <2>2, <2>3
<1>4. ASSUME NEW ks \in StepKinds, NEW m \in Nat, DOMAIN ks = 1 .. m, NEW j \in 1 .. m, ks[j] \in e.flags
      PROVE  \E n \in Nodes(b) : IsStep(n.id) /\ e.at \in n.refs
  <2>1. Is(e, ks) # {}
    BY <1>4, IsOf
  <2> QED BY <1>2, <2>1
<1>5. PICK word \in e.flags : word \in StepWords
  OBVIOUS
<1>6. CASE word \in {"launch_ack", "notification"}
  <2> DEFINE ks == <<"launch_ack", "notification">>
  <2>1. ks \in StepKinds /\ DOMAIN ks = 1 .. 2 /\ 1 \in 1 .. 2 /\ 2 \in 1 .. 2 /\ 2 \in Nat
        /\ (word = ks[1] \/ word = ks[2])
    BY <1>6 DEF StepKinds
  <2> HIDE DEF ks
  <2> QED BY <1>4, <2>1
<1>7. CASE word \in {"external_input", "injected"}
  <2> DEFINE ks == <<"external_input", "injected">>
  <2>1. ks \in StepKinds /\ DOMAIN ks = 1 .. 2 /\ 1 \in 1 .. 2 /\ 2 \in 1 .. 2 /\ 2 \in Nat
        /\ (word = ks[1] \/ word = ks[2])
    BY <1>7 DEF StepKinds
  <2> HIDE DEF ks
  <2> QED BY <1>4, <2>1
<1>8. CASE word \in {"error", "turn_duration", "command", "notice"}
  <2> DEFINE ks == <<"error", "turn_duration", "command", "notice">>
  <2>1. ks \in StepKinds /\ DOMAIN ks = 1 .. 4 /\ 4 \in Nat
        /\ 1 \in 1 .. 4 /\ 2 \in 1 .. 4 /\ 3 \in 1 .. 4 /\ 4 \in 1 .. 4
        /\ (word = ks[1] \/ word = ks[2] \/ word = ks[3] \/ word = ks[4])
    BY <1>8 DEF StepKinds
  <2> HIDE DEF ks
  <2> QED BY <1>4, <2>1
<1> QED BY <1>3, <1>5, <1>6, <1>7, <1>8 DEF StepWords, StepTags

\* A record of the runtime is a step of the builder whose nodes were said.
LEMMA IsShown == IInv => RuntimeRecordsShown
<1> DEFINE F == script.files
           Record(i) == F[ix[i].at[1]].records[ix[i].at[2]]
<1> SUFFICES ASSUME IInv, NEW i \in Canonical(ix, through), Record(i).type \in {"system", "attachment"}
             PROVE  \E n \in said.nodes : IsStep(n.id) /\ ix[i].at \in n.refs
  BY DEF RuntimeRecordsShown
<1>1. Good(F) /\ Indexed(ix, F) /\ Len(ix) \in Nat /\ DOMAIN ix = 1 .. Len(ix)
  BY DEF IInv, Landed, Indexed
<1>2. PICK jx : /\ Indexed(jx, F) /\ Len(jx) <= Len(ix)
                /\ \A j \in DOMAIN jx : jx[j] = ix[j]
                /\ through \in 0 .. Len(jx) /\ said = Assembled(jx, through)
  BY DEF IInv, Spoken
<1>3. Len(jx) \in Nat /\ DOMAIN jx = 1 .. Len(jx)
  BY <1>2 DEF Indexed
<1>4. i \in Canonical(jx, through)
  BY <1>1, <1>2, <1>3, FirstCopies
<1>5. i \in DOMAIN jx /\ jx[i] = ix[i]
  BY <1>2, <1>4 DEF Canonical
<1>6. PICK s \in Sources : \E k \in DOMAIN F[s].records : jx[i] = Entry(F, s, k, <<s, k>>)
  <2>1. Good(F) /\ Indexed(jx, F)
    BY <1>1, <1>2
  <2> HIDE DEF F
  <2> QED BY <1>4, <2>1, FirstLanded
<1>7. PICK k \in DOMAIN F[s].records : jx[i] = Entry(F, s, k, <<s, k>>)
  BY <1>6
<1> DEFINE d == F[s].records[k]
           src == F[s].src
<1>8. ix[i].at = <<s, k>> /\ d.type \in {"system", "attachment"}
  <2>1. ix[i].at = <<s, k>>
    BY SMTT(30), <1>5, <1>7, EntryAt
  <2> QED BY <2>1
<1>9. src.kind \in Transcripts /\ src.stream # None /\ src.kind \notin {"manifest", "script"}
  <2>1. PICK c \in Scenarios : F = c.files
    BY <1>1 DEF Good
  <2>2. Shaped(c)
    BY SessionsAssumption
  <2>3. src.kind \in Transcripts
    BY <1>8, <2>1, <2>2 DEF Shaped
  <2>4. src.kind \in Transcripts => src.stream # None
    BY <2>1, <2>2 DEF Shaped
  <2> QED BY <2>3, <2>4 DEF Transcripts
<1> HIDE DEF d, src
<1>10. jx[i].flags = FlagsOf(d, src) /\ jx[i].stream = src.stream
  <2>1. ~(src.kind \in {"manifest", "script"} \/ d.type = "garbage")
    BY <1>8, <1>9
  <2>2. LET r == Entry(F, s, k, <<s, k>>)
        IN  r.flags = FlagsOf(d, src) /\ r.stream = src.stream
    <3> HIDE DEF F
    <3> QED BY <2>1, EntryIs DEF d, src
  <2> QED BY <1>7, <2>2
<1>11. FlagsOf(d, src) \cap StepWords # {}
  <2>1. \/ FlagsOf(d, src) \cap {"context_reset", "error", "turn_duration", "command", "notice"} # {}
        \/ FlagsOf(d, src) \cap {"external_input", "injected"} # {}
    BY <1>8, <1>9, FlagsAre
  <2> QED BY <2>1 DEF StepWords, StepTags
<1> DEFINE b == Talked(jx, through)
           e == InTalk(jx, through, i)
<1>12. e \in b.rows /\ e.at = ix[i].at /\ e.stream # None /\ e.flags \cap StepWords # {}
  <2>1. e \in b.rows
    BY SMTT(30), <1>4, StagesAre
  <2>2. e.at = jx[i].at /\ e.stream = jx[i].stream /\ e.flags = jx[i].flags
    <3>1. Alike(InTalk(jx, through, i), Noted(jx, i))
      BY MarkedAlike
    <3>2. Noted(jx, i).at = jx[i].at /\ Noted(jx, i).stream = jx[i].stream /\ Noted(jx, i).flags = jx[i].flags
      BY DEF Noted
    <3> QED BY <3>1, <3>2 DEF Alike
  <2> QED BY <1>5, <1>9, <1>10, <1>11, <2>1, <2>2
<1>13. said.nodes = Nodes(b)
  BY <1>2 DEF Assembled, Talked, Epoched, Spawned
<1> HIDE DEF b, e
<1> QED BY <1>12, <1>13, WordShown

\* No record of the runtime's own types is lost, whatever its subtype (index.go).
THEOREM NothingSilent == Spec => []RuntimeRecordsShown
BY LandedAndSpoken, IsShown, PTL

-----------------------------------------------------------------------------
(***************************************************************************)
(* Children are accounted for.                                             *)
(***************************************************************************)

\* A nested child's sidecar names the call that started it, as well as the agent.
SidecarsNameCalls ==
    \A c \in Scenarios : \A s \in Sources : \A k \in DOMAIN c.files[s].records :
        LET d == c.files[s].records[k]
            src == c.files[s].src
        IN  src.kind = "meta" /\ d.parentAgent # None => LinkedTool(d, src) # None

\* What a sidecar says of the parent reaches its row.
LEMMA StartedIs ==
    ASSUME NEW F, NEW s, NEW k, NEW at
    PROVE  LET r == Entry(F, s, k, at)
               d == F[s].records[k]
               src == F[s].src
           IN  /\ r.kind = "meta" => src.kind = "meta"
               /\ r.startedBy # None => r.startedBy = d.parentAgent /\ r.tool = LinkedTool(d, src)
<1> DEFINE d == F[s].records[k]
           src == F[s].src
           v == Convert(src, d)
           r == Entry(F, s, k, at)
<1>1. r = FromRecord(src, v, at)
  BY DEF Entry, Row
<1> HIDE DEF v
<1>2. r.kind = KindOf(src, v) /\ r.startedBy = v.startedBy /\ r.tool = v.tool
  <2> HIDE DEF r
  <2> QED BY <1>1 DEF FromRecord
<1>3. KindOf(src, v) = "meta" => src.kind = "meta"
  BY DEF KindOf
<1>4. v.startedBy # None => v.startedBy = d.parentAgent /\ v.tool = LinkedTool(d, src)
  <2>1. \/ v = [Bare("data") EXCEPT !.batch = FirstOf(d.batch, src.batch)]
        \/ v = Bare("unknown")
        \/ v = [id |-> d.uuid, parent |-> d.parentUuid, call |-> d.message, run |-> d.prompt,
                continues |-> d.logicalParent, time |-> d.time, trigger |-> TriggerOf(d),
                tool |-> LinkedTool(d, src), child |-> LinkedChild(d, src),
                batch |-> FirstOf(Enriched(d, "batch"), src.batch), startedBy |-> d.parentAgent,
                flags |-> FlagsOf(d, src), from |-> ProducerOf(d, src), parts |-> PartsOf(d)]
    BY DEF Convert, v
  <2> HIDE DEF d, src, v
  <2> QED BY <2>1 DEF Bare
<1> HIDE DEF r, d, src
<1> QED BY <1>2, <1>3, <1>4 DEF r, d, src

\* What the stages find out about a row changes neither streams, nor requests, nor edges.
LEMMA SameJoins ==
    ASSUME NEW jx, NEW w
    PROVE  LET a == Read(jx, w)
               b == Talked(jx, w)
           IN  /\ Tools(a) = Tools(b)
               /\ \A e \in a.rows : \E f \in b.rows : Alike(f, e)
<1> DEFINE a == Read(jx, w)
           b == Talked(jx, w)
           C == Canonical(jx, w)
<1>1. a.rows = {Noted(jx, i) : i \in C} /\ b.rows = {InTalk(jx, w, i) : i \in C}
  BY StagesAre
<1>2. \A i : Alike(InTalk(jx, w, i), Noted(jx, i))
  BY MarkedAlike
<1> HIDE DEF a, b, C
<1>3. \A e \in a.rows : \E f \in b.rows : Alike(f, e)
  BY <1>1, <1>2
<1>4. \A f \in b.rows : \E e \in a.rows : Alike(f, e)
  BY <1>1, <1>2
<1>5. \A t : t \in Tools(a) <=> \E e \in a.rows : e.stream # None /\ (t \in e.uses \/ \E k \in DOMAIN e.results : t = e.results[k])
  BY DEF Tools, Streamed, Answered
<1>6. \A t : t \in Tools(b) <=> \E e \in b.rows : e.stream # None /\ (t \in e.uses \/ \E k \in DOMAIN e.results : t = e.results[k])
  BY DEF Tools, Streamed, Answered
<1>7. ASSUME NEW t PROVE t \in Tools(a) <=> t \in Tools(b)
  BY <1>3, <1>4, <1>5, <1>6 DEF Alike
<1> QED BY <1>3, <1>7 DEF a, b

\* The launch of a batch is the same row before and after the marks of the later stages,
LEMMA SameBatch ==
    ASSUME NEW jx, Plain(jx), NEW w, NEW e, NEW f, Alike(f, e)
    PROVE  BatchTool(Talked(jx, w), f) = BatchTool(Read(jx, w), e)
<1> DEFINE a == Read(jx, w)
           b == Talked(jx, w)
           C == Canonical(jx, w)
           Go(g) == g.kind # "journal" /\ g.batch = e.batch /\ g.results # <<>>
           L == {g \in a.rows : Go(g)}
           M == {g \in b.rows : Go(g)}
<1>1. a.rows = {Noted(jx, i) : i \in C} /\ b.rows = {InTalk(jx, w, i) : i \in C}
  BY StagesAre
<1>2. \A i : Alike(InTalk(jx, w, i), Noted(jx, i)) /\ Noted(jx, i).n = i
  BY MarkedAlike, NotedIs
<1>3. f.batch = e.batch
  BY DEF Alike
<1>4. BatchTool(a, e) = IF e.batch = None \/ L = {} THEN None ELSE Head(First(L).results)
  BY DEF BatchTool
<1>5. BatchTool(b, f) = IF e.batch = None \/ M = {} THEN None ELSE Head(First(M).results)
  BY <1>3 DEF BatchTool
<1>6. \A i \in C : Noted(jx, i) \in L <=> InTalk(jx, w, i) \in M
  <2>1. \A g, h : Alike(g, h) => (Go(g) <=> Go(h))
    BY DEF Alike
  <2> HIDE DEF Go
  <2> QED BY <1>1, <1>2, <2>1
<1>7. \A g \in L : \E i \in C : g = Noted(jx, i)
  BY <1>1
<1>8. \A g \in M : \E i \in C : g = InTalk(jx, w, i)
  BY <1>1
<1> HIDE DEF a, b, C, L, M, Go
<1>9. L = {} <=> M = {}
  BY <1>6, <1>7, <1>8
<1>c. C \subseteq Nat
  BY DEF C, Canonical, Plain
<1>10. ASSUME L # {} PROVE First(L).results = First(M).results
  <2> DEFINE g == First(L)
             h == First(M)
  <2>1. (\A x \in L : x.n \in Nat) /\ (\A x \in M : x.n \in Nat)
    BY <1>2, <1>7, <1>8, <1>c DEF Alike
  <2>2. /\ g \in L /\ \A x \in L : g.n <= x.n
        /\ h \in M /\ \A x \in M : h.n <= x.n
    BY <1>9, <1>10, <2>1, FirstIs
  <2> HIDE DEF g, h
  <2>3. PICK i \in C : g = Noted(jx, i)
    BY <1>7, <2>2
  <2>4. PICK j \in C : h = InTalk(jx, w, j)
    BY <1>8, <2>2
  <2>5. g.n = i /\ h.n = j /\ i \in Nat /\ j \in Nat
    BY <1>2, <1>c, <2>3, <2>4 DEF Alike
  <2>6. Noted(jx, j) \in L /\ InTalk(jx, w, i) \in M
    BY <1>6, <2>2, <2>3, <2>4
  <2>7. Noted(jx, j).n = j /\ InTalk(jx, w, i).n = i
    BY <1>2 DEF Alike
  <2>8. i <= j /\ j <= i
    BY <2>2, <2>5, <2>6, <2>7
  <2>9. i = j
    BY <2>5, <2>8
  <2>10. g.results = h.results
    BY <1>2, <2>3, <2>4, <2>9 DEF Alike
  <2> QED BY <2>10 DEF g, h
<1> QED BY <1>4, <1>5, <1>9, <1>10 DEF a, b

\* ... and so are the spawn edges.
LEMMA SameEdges ==
    ASSUME NEW jx, Plain(jx), NEW w
    PROVE  Edges(Read(jx, w)) \subseteq Edges(Talked(jx, w))
<1> DEFINE a == Read(jx, w)
           b == Talked(jx, w)
<1>1. ASSUME NEW e \in a.rows PROVE \E f \in b.rows : Edge(b, f) = Edge(a, e)
  <2>1. PICK f \in b.rows : Alike(f, e)
    BY SameJoins
  <2>2. BatchTool(b, f) = BatchTool(a, e)
    BY <2>1, SameBatch
  <2>3. Anchor(f) = Anchor(e)
    BY <2>1 DEF Alike, Anchor
  <2>4. f.kind = e.kind /\ f.child = e.child /\ f.batch = e.batch /\ f.startedBy = e.startedBy
    BY <2>1 DEF Alike
  <2> HIDE DEF a, b
  <2>5. Edge(b, f) = Edge(a, e)
    BY <2>2, <2>3, <2>4 DEF Edge
  <2> QED BY <2>5
<1> HIDE DEF a, b
<1>2. Edges(a) \subseteq Edges(b)
  BY <1>1 DEF Edges
<1> QED BY <1>2 DEF a, b

\* An edge that counts as resolved names a call, if the sidecars do.
LEMMA JoinedNames ==
    ASSUME NEW F, Good(F), NEW jx, Indexed(jx, F), NEW w, SidecarsNameCalls, NEW d \in Joined(Read(jx, w))
    PROVE  d.tool \in Tools(Read(jx, w))
<1> DEFINE a == Read(jx, w)
<1> SUFFICES ASSUME NestedChild(a, d) PROVE FALSE
  BY DEF Joined
<1>1. d \in Edges(a) /\ d.tool = None /\ d.parent \in Streams(a)
  BY DEF Joined, NestedChild
<1>2. d.parent # None
  BY <1>1 DEF Streams
<1>3. PICK e \in a.rows : d = Edge(a, e)
  BY <1>1 DEF Edges
<1>4. d.parent = (IF e.kind = "meta" THEN e.startedBy ELSE None)
      /\ d.tool = (IF e.kind = "journal" THEN BatchTool(a, e) ELSE Anchor(e))
  <2> HIDE DEF a
  <2> QED BY <1>3 DEF Edge
<1>5. e.kind = "meta" /\ e.startedBy # None /\ Anchor(e) = None
  BY <1>1, <1>2, <1>4
<1>6. e.tool = None
  BY <1>5 DEF Anchor
<1>7. PICK i \in Canonical(jx, w) : e = Noted(jx, i)
  BY StagesAre
<1>8. i \in DOMAIN jx /\ jx[i].kind = "meta" /\ jx[i].startedBy # None /\ jx[i].tool = None
  BY <1>5, <1>6, <1>7, NotedIs DEF Canonical
<1>9. PICK s \in Sources : \E k \in DOMAIN F[s].records : \E at : jx[i] = Entry(F, s, k, at)
  BY <1>8, RowIs
<1>10. PICK k \in DOMAIN F[s].records : \E at : jx[i] = Entry(F, s, k, at)
  BY <1>9
<1>11. PICK at : jx[i] = Entry(F, s, k, at)
  BY <1>10
<1>12. /\ F[s].src.kind = "meta" /\ F[s].records[k].parentAgent # None
       /\ LinkedTool(F[s].records[k], F[s].src) = None
  BY <1>8, <1>11, StartedIs
<1> QED BY <1>12 DEF Good, SidecarsNameCalls

\* A joined child is reached from its call, any other has its gap.
LEMMA IsAccounted == IInv /\ Apart /\ SidecarsNameCalls => ChildrenAccounted
<1> SUFFICES ASSUME IInv, Apart, SidecarsNameCalls,
                    NEW n \in said.nodes, n.id[1] = "stream", n.stream # Main
             PROVE  (\E r \in said.relations : r[1] = "starts" /\ r[3] = n.id) \/ About(n.stream) \cap said.gaps # {}
  BY DEF ChildrenAccounted
<1>1. PICK jx : Indexed(jx, script.files) /\ said = Assembled(jx, through)
  BY DEF IInv, Spoken
<1> DEFINE a == Read(jx, through)
           b == Talked(jx, through)
           s == n.stream
<1>2. said.nodes = Nodes(b) /\ said.relations = Relations(b) /\ said.gaps = Gaps(b) /\ said.edges = Edges(b)
  BY <1>1 DEF Assembled, Talked, Epoched, Spawned
<1>3. Good(script.files)
  BY DEF IInv, Landed
<1>4. Sound(b)
  BY <1>1, IndexedIsPlain, SoundIs
<1>5. s \in Children(b) /\ n.id = Stream(s)
  <2> DEFINE root == Node(Session, None, None, {}, {})
  <2>1. \/ n = root
        \/ n \in StreamNodes(b) \/ n \in EpochNodes(b) \/ n \in TalkNodes(b) \/ n \in RunNodes(b)
        \/ n \in SegmentNodes(b) \/ n \in CallNodes(b) \/ n \in MessageNodes(b) \/ n \in ToolNodes(b)
        \/ n \in StepNodes(b) \/ n \in OutputNodes(b)
    BY <1>2 DEF Nodes
  <2>2. n # root
    BY NodeIs DEF Session
  <2>3. "stream" \notin StepTags \cup ResetTags
    BY DEF StepTags, ResetTags
  <2>4. n \in StreamNodes(b)
    BY <1>4, <2>1, <2>2, <2>3, Tagged
  <2>5. PICK t \in Streams(b) : n = StreamNode(b, t)
    BY <2>4, NodesAre
  <2>6. n.id = Stream(t) /\ n.stream = t
    BY <2>5, StreamSays
  <2> QED BY <2>5, <2>6 DEF Children
<1>6. b.joined = Joined(a) /\ Tools(a) = Tools(b) /\ Edges(a) \subseteq Edges(b)
  BY <1>1, StagesAre, SameJoins, IndexedIsPlain, SameEdges
<1>7. \A d \in b.joined : d.tool \in Tools(a) /\ d \in Edges(a)
  BY <1>1, <1>3, <1>6, JoinedNames DEF Joined
<1> HIDE DEF a, b
<1>8. CASE s \notin {d.child : d \in b.joined}
  <2>1. Gap("spawn_of_child", s) \in SpawnGaps(b)
    BY <1>5, <1>8 DEF SpawnGaps
  <2> QED BY <1>2, <2>1 DEF Gaps, About
<1>9. ASSUME NEW d \in b.joined, d.child = s
      PROVE  (\E r \in said.relations : r[1] = "starts" /\ r[3] = n.id) \/ About(n.stream) \cap said.gaps # {}
  <2>1. CASE Uses(b, d.tool) # {}
    <3> DEFINE r == <<"starts", <<"tool", d.tool>>, Stream(d.child)>>
    <3>1. r \in Starts(b)
      BY <1>9, <2>1 DEF Starts
    <3>2. r \in said.relations
      BY <1>2, <3>1 DEF Relations
    <3> QED BY <1>5, <1>9, <3>2
  <2>2. CASE Uses(b, d.tool) = {}
    <3>1. Gap("tool_use", d.tool) \in ToolGaps(b)
      BY <1>6, <1>7, <2>2 DEF ToolGaps
    <3>2. d \in said.edges
      BY <1>2, <1>6, <1>7
    <3>3. Gap("tool_use", d.tool) \in About(s)
      BY <1>9, <3>2 DEF About
    <3> QED BY <1>2, <3>1, <3>3 DEF Gaps
  <2> QED BY <2>1, <2>2
<1> QED BY <1>8, <1>9

\* Where the sidecars that name an agent name its call, a child that landed is reached from the
\* call that started it, or the gap is on record (spawn.go).  The hypothesis is needed: without
\* it stage 5 takes the child as resolved, and the step that writes the edges drops it.
THEOREM NoChildIsLost ==
    ASSUME Apart, SidecarsNameCalls
    PROVE  Spec => []ChildrenAccounted
BY LandedAndSpoken, IsAccounted, PTL

-----------------------------------------------------------------------------
(***************************************************************************)
(* An assembly at a watermark does not see beyond it.                      *)
(***************************************************************************)

\* Induction over the numbers, for a set of them instead of a predicate.
LEMMA NatInduct ==
    ASSUME NEW T \in SUBSET Nat, 0 \in T, \A k \in T : k + 1 \in T
    PROVE  T = Nat
<1> DEFINE S == Nat \ T
<1> SUFFICES ASSUME S # {} PROVE FALSE
  OBVIOUS
<1>1. S \in SUBSET Nat
  OBVIOUS
<1>2. Min(S) \in S /\ \A y \in S : Min(S) <= y
  <2> HIDE DEF S
  <2> QED BY <1>1, MinIs
<1> DEFINE n == Min(S)
<1>3. n \in Nat /\ n \notin T /\ n # 0
  BY <1>2
<1> HIDE DEF n
<1>4. n - 1 \in Nat /\ n - 1 \notin S
  <2>1. n - 1 \in Nat /\ ~(n <= n - 1)
    BY <1>3
  <2> QED BY <1>2, <2>1 DEF n
<1>5. (n - 1) + 1 \in T
  BY <1>4
<1> QED BY <1>3, <1>5

\* What an index looks up for a row, an index grown from it looks up.
Prefix(jx, kx) == Len(jx) <= Len(kx) /\ \A i \in DOMAIN jx : jx[i] = kx[i]

\* An index that has grown answers as before: what a row names was there already.
LEMMA SameLookup ==
    ASSUME NEW F, Good(F), NEW jx, Indexed(jx, F), NEW kx, Indexed(kx, F), Prefix(jx, kx),
           NEW i \in DOMAIN jx, NEW r, r \in {jx[i].parent, jx[i].continues}
    PROVE  ByRecord(kx, r) = ByRecord(jx, r)
<1> DEFINE a == ByRecord(jx, r)
           b == ByRecord(kx, r)
<1>1. /\ Len(jx) \in Nat /\ DOMAIN jx = 1 .. Len(jx) /\ Len(kx) \in Nat /\ DOMAIN kx = 1 .. Len(kx)
      /\ Len(jx) <= Len(kx) /\ \A j \in DOMAIN jx : jx[j] = kx[j]
  BY DEF Indexed, Prefix
<1>2. i \in DOMAIN kx /\ r \in {kx[i].parent, kx[i].continues}
  BY <1>1
<1>3. b \in 1 .. i - 1 \/ b = 0
  BY <1>2, BackLinks
<1>4. /\ a = 0 \/ (a \in DOMAIN jx /\ jx[a].rec = r /\ r # None)
      /\ \A j \in DOMAIN jx : r # None /\ jx[j].rec = r => a # 0 /\ a <= j
      /\ b = 0 \/ (b \in DOMAIN kx /\ kx[b].rec = r /\ r # None)
      /\ \A j \in DOMAIN kx : r # None /\ kx[j].rec = r => b # 0 /\ b <= j
  BY <1>1, ByRecordIs
<1> HIDE DEF a, b
<1>5. CASE b = 0
  <2>1. a \notin DOMAIN jx \/ jx[a].rec # r \/ r = None
    BY <1>1, <1>4, <1>5
  <2> QED BY <1>4, <1>5, <2>1 DEF a, b
<1>6. CASE b # 0
  <2>1. b \in DOMAIN jx /\ jx[b].rec = r /\ r # None
    BY <1>1, <1>3, <1>4, <1>6
  <2>2. a # 0 /\ a <= b
    BY <1>4, <2>1
  <2>3. a \in DOMAIN kx /\ kx[a].rec = r
    BY <1>1, <1>4, <2>2
  <2>4. b <= a
    BY <1>4, <2>1, <2>3
  <2>5. a = b
    BY <1>1, <1>4, <2>1, <2>2, <2>3, <2>4
  <2> QED BY <2>5 DEF a, b
<1> QED BY <1>5, <1>6
-----------------------------------------------------------------------------
\* The backward walk of RunFor, hop by hop.
Hop(jx, u, h, j) ==
    LET up == ByRecord(jx, jx[j].parent)
    IN  IF jx[j].run # None THEN jx[j].run
        ELSE IF h = 0 \/ up \in {0, j} THEN None
        ELSE u[h - 1][up]

Hops(jx, u, h)  == [j \in DOMAIN jx |-> Hop(jx, u, h, j)]
Walked(jx, u, m) == u = [h \in 0 .. m |-> Hops(jx, u, h)]

\* A walk, hop by hop.
LEMMA WalkedAt ==
    ASSUME NEW jx, NEW u, NEW m \in Nat, Walked(jx, u, m), NEW h \in 0 .. m
    PROVE  u[h] = Hops(jx, u, h)
<1> DEFINE G == [k \in 0 .. m |-> Hops(jx, u, k)]
<1>1. u = G
  BY DEF Walked
<1>2. u[h] = G[h]
  BY <1>1
<1> QED BY <1>2

\* A hop looks no further than the one before it.
LEMMA HopsOf ==
    ASSUME NEW jx, NEW u, NEW v, NEW h \in Nat, h # 0 => u[h - 1] = v[h - 1]
    PROVE  Hops(jx, u, h) = Hops(jx, v, h)
<1>1. \A j \in DOMAIN jx : Hop(jx, u, h, j) = Hop(jx, v, h, j)
  BY DEF Hop
<1> QED BY <1>1 DEF Hops

\* There is a walk of every length,
LEMMA WalkExists ==
    ASSUME NEW jx, NEW m \in Nat
    PROVE  \E u : Walked(jx, u, m)
<1> DEFINE T == {k \in Nat : \E u : Walked(jx, u, k)}
<1>1. 0 \in T
  <2> DEFINE z == [h \in 0 .. 0 |-> None]
             u == [h \in 0 .. 0 |-> Hops(jx, z, h)]
  <2>1. \A h \in 0 .. 0 : h \in Nat /\ h = 0
    OBVIOUS
  <2>2. \A h \in 0 .. 0 : Hops(jx, z, h) = Hops(jx, u, h)
    <3> HIDE DEF z, u
    <3> QED BY <2>1, HopsOf
  <2>3. u = [h \in 0 .. 0 |-> Hops(jx, u, h)]
    <3>1. u = [h \in 0 .. 0 |-> Hops(jx, z, h)]
      OBVIOUS
    <3> HIDE DEF u, z
    <3> QED BY <2>2, <3>1
  <2> HIDE DEF u
  <2>4. Walked(jx, u, 0)
    BY <2>3 DEF Walked
  <2> QED BY <2>4
<1>2. ASSUME NEW k \in T PROVE k + 1 \in T
  <2>0. k \in Nat /\ k + 1 \in Nat
    OBVIOUS
  <2>1. PICK u : Walked(jx, u, k)
    OBVIOUS
  <2> DEFINE v == [h \in 0 .. (k + 1) |-> IF h <= k THEN u[h] ELSE Hops(jx, u, h)]
  <2>2. ASSUME NEW h \in 0 .. (k + 1) PROVE v[h] = Hops(jx, v, h)
    <3>1. h \in Nat /\ (h # 0 => v[h - 1] = u[h - 1])
      BY <2>0
    <3>2. Hops(jx, u, h) = Hops(jx, v, h)
      <4> HIDE DEF v
      <4> QED BY <3>1, HopsOf
    <3>3. h <= k => u[h] = Hops(jx, u, h)
      <4>1. h <= k => h \in 0 .. k
        BY <3>1
      <4> QED BY <2>0, <2>1, <4>1, WalkedAt
    <3>4. v[h] = IF h <= k THEN u[h] ELSE Hops(jx, u, h)
      OBVIOUS
    <3> HIDE DEF v
    <3> QED BY <3>2, <3>3, <3>4
  <2>3. v = [h \in 0 .. (k + 1) |-> Hops(jx, v, h)]
    <3>1. v = [h \in 0 .. (k + 1) |-> v[h]]
      OBVIOUS
    <3> HIDE DEF v
    <3> QED BY <2>2, <3>1
  <2> HIDE DEF v
  <2>4. Walked(jx, v, k + 1)
    BY <2>3 DEF Walked
  <2> QED BY <2>0, <2>4
<1>3. T = Nat
  <2>1. T \in SUBSET Nat
    OBVIOUS
  <2> HIDE DEF T
  <2> QED BY <1>1, <1>2, <2>1, NatInduct
<1> QED BY <1>3

\* ... and the run of a row is where one of AncestorHops ends.
LEMMA RunForIs ==
    ASSUME NEW jx
    PROVE  \E u : Walked(jx, u, AncestorHops) /\ \A i : RunFor(jx, i) = u[AncestorHops][i]
<1> DEFINE u == CHOOSE w : Walked(jx, w, AncestorHops)
<1>1. Walked(jx, u, AncestorHops)
  <2>1. \E w : Walked(jx, w, AncestorHops)
    BY HopsAssumption, WalkExists
  <2> QED BY <2>1
<1>2. \A i : RunFor(jx, i) = u[AncestorHops][i]
  BY DEF RunFor, Walked, Hops, Hop
<1> QED BY <1>1, <1>2

\* A row's run is that of any index it is in.
LEMMA SameRun ==
    ASSUME NEW F, Good(F), NEW jx, Indexed(jx, F), NEW kx, Indexed(kx, F), Prefix(jx, kx),
           NEW i \in DOMAIN jx
    PROVE  RunFor(kx, i) = RunFor(jx, i)
<1> DEFINE m == AncestorHops
<1>m. m \in Nat
  BY HopsAssumption
<1> HIDE DEF m
<1>1. PICK u : Walked(jx, u, m) /\ \A j : RunFor(jx, j) = u[m][j]
  BY RunForIs DEF m
<1>2. PICK v : Walked(kx, v, m) /\ \A j : RunFor(kx, j) = v[m][j]
  BY RunForIs DEF m
<1>3. /\ DOMAIN jx \subseteq DOMAIN kx /\ \A j \in DOMAIN jx : jx[j] = kx[j]
      /\ DOMAIN jx = 1 .. Len(jx) /\ Len(jx) \in Nat
  <2>1. /\ Len(jx) \in Nat /\ DOMAIN jx = 1 .. Len(jx) /\ Len(kx) \in Nat /\ DOMAIN kx = 1 .. Len(kx)
        /\ Len(jx) <= Len(kx) /\ \A j \in DOMAIN jx : jx[j] = kx[j]
    BY DEF Indexed, Prefix
  <2> QED BY <2>1
<1>4. ASSUME NEW h \in 0 .. m, NEW j \in DOMAIN jx,
             h # 0 => \A l \in DOMAIN jx : u[h - 1][l] = v[h - 1][l]
      PROVE  u[h][j] = v[h][j]
  <2>1. u[h][j] = Hop(jx, u, h, j)
    <3>1. u[h] = Hops(jx, u, h)
      BY <1>m, <1>1, WalkedAt
    <3> QED BY <3>1 DEF Hops
  <2>2. v[h][j] = Hop(kx, v, h, j)
    <3>1. v[h] = Hops(kx, v, h) /\ j \in DOMAIN kx
      BY <1>m, <1>2, <1>3, WalkedAt
    <3> QED BY <3>1 DEF Hops
  <2>3. ByRecord(kx, kx[j].parent) = ByRecord(jx, jx[j].parent) /\ kx[j].run = jx[j].run
    BY <1>3, SameLookup
  <2>4. ByRecord(jx, jx[j].parent) = 0 \/ ByRecord(jx, jx[j].parent) \in DOMAIN jx
    BY <1>3, ByRecordIs
  <2> QED BY <1>4, <2>1, <2>2, <2>3, <2>4 DEF Hop
<1> DEFINE T == {h \in Nat : h <= m => \A j \in DOMAIN jx : u[h][j] = v[h][j]}
<1>5. 0 \in T
  <2>1. 0 \in 0 .. m
    BY <1>m
  <2>2. \A j \in DOMAIN jx : u[0][j] = v[0][j]
    BY <1>4, <2>1
  <2> QED BY <2>2
<1>6. ASSUME NEW h \in T PROVE h + 1 \in T
  <2>1. h \in Nat /\ h + 1 # 0 /\ (h + 1) - 1 = h
    OBVIOUS
  <2> SUFFICES ASSUME h + 1 <= m PROVE \A j \in DOMAIN jx : u[h + 1][j] = v[h + 1][j]
    BY <2>1
  <2>2. h + 1 \in 0 .. m /\ h <= m
    BY <1>m, <2>1
  <2>3. \A l \in DOMAIN jx : u[h][l] = v[h][l]
    BY <2>2
  <2> HIDE DEF T
  <2> QED BY <1>4, <2>1, <2>2, <2>3
<1>7. T = Nat
  <2>1. T \in SUBSET Nat
    OBVIOUS
  <2> HIDE DEF T
  <2> QED BY <1>5, <1>6, <2>1, NatInduct
<1>8. m <= m /\ m \in T
  BY <1>m, <1>7
<1>9. u[m][i] = v[m][i]
  BY <1>8
<1> HIDE DEF T
<1> QED BY <1>1, <1>2, <1>9

\* An index that has grown is assembled alike, up to a watermark the shorter one reaches.
LEMMA SameAssembled ==
    ASSUME NEW F, Good(F), NEW jx, Indexed(jx, F), NEW kx, Indexed(kx, F), Prefix(jx, kx),
           NEW w \in 0 .. Len(jx)
    PROVE  Assembled(kx, w) = Assembled(jx, w)
<1>1. /\ Len(jx) \in Nat /\ DOMAIN jx = 1 .. Len(jx) /\ Len(kx) \in Nat /\ DOMAIN kx = 1 .. Len(kx)
      /\ Len(jx) <= Len(kx) /\ \A j \in DOMAIN jx : jx[j] = kx[j]
  BY DEF Indexed, Prefix
<1>2. Canonical(kx, w) = Canonical(jx, w)
  BY <1>1, FirstCopies
<1>3. ASSUME NEW i \in Canonical(jx, w) PROVE Noted(kx, i) = Noted(jx, i)
  <2>1. i \in DOMAIN jx /\ kx[i] = jx[i]
    BY <1>1 DEF Canonical
  <2>2. RunFor(kx, i) = RunFor(jx, i)
    BY <2>1, SameRun
  <2>3. /\ ByRecord(kx, kx[i].continues) = ByRecord(jx, jx[i].continues)
        /\ ByRecord(kx, kx[i].parent) = ByRecord(jx, jx[i].parent)
    BY <2>1, SameLookup
  <2> DEFINE up == ByRecord(jx, jx[i].parent)
  <2>4. up # 0 => kx[up] = jx[up]
    BY <1>1, <2>1, ByRecordIs
  <2> HIDE DEF up
  <2>5. (IF up # 0 /\ "context_reset" \in kx[up].flags THEN kx[up].at ELSE None)
            = (IF up # 0 /\ "context_reset" \in jx[up].flags THEN jx[up].at ELSE None)
    BY <2>4
  <2> QED BY <2>1, <2>2, <2>3, <2>5 DEF Noted, up
<1>4. Read(kx, w) = Read(jx, w)
  BY <1>2, <1>3 DEF Read
<1> QED BY <1>4 DEF Assembled

\* Assembled again at its watermark a round says the same, though the stages look records up in
\* the whole index (assemble.go, Options.ThroughSeq).
THEOREM WatermarkBounds == Spec => ReadsItsEvidenceOnly
<1>1. IInv /\ [Next]_vars => (through' = through => said' = said) \/ UNCHANGED vars
  <2> SUFFICES ASSUME IInv, Next, through' = through PROVE said' = said
    BY DEF vars
  <2>1. ASSUME NEW s \in Sources, Land(s) \/ Replay(s) PROVE said' = said
    BY <2>1 DEF Land, Replay
  <2>2. ASSUME Assemble PROVE said' = said
    <3>1. through # 0 /\ said' = Assembled(ix, through)
      BY <2>2 DEF Assemble
    <3>2. PICK jx : /\ Indexed(jx, script.files) /\ Len(jx) <= Len(ix)
                    /\ \A i \in DOMAIN jx : jx[i] = ix[i]
                    /\ through \in 0 .. Len(jx) /\ said = Assembled(jx, through)
      BY DEF IInv, Spoken
    <3>3. Good(script.files) /\ Indexed(ix, script.files)
      BY DEF IInv, Landed
    <3>4. Prefix(jx, ix)
      BY <3>2 DEF Prefix
    <3>5. Assembled(ix, through) = Assembled(jx, through)
      BY <3>2, <3>3, <3>4, SameAssembled
    <3> QED BY <3>1, <3>2, <3>5
  <2> QED BY <2>1, <2>2 DEF Next
<1> QED BY <1>1, LandedAndSpoken, PTL DEF Spec, ReadsItsEvidenceOnly

=============================================================================
