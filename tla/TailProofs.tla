------------------------------ MODULE TailProofs ------------------------------
(***************************************************************************)
(* Proofs about Tail: what lands is the beginning of one content, and no   *)
(* file that only grew is taken for a changed one, for every number of     *)
(* files and contents, every budget and every digest window that covers a  *)
(* line's last byte and its newline.                                       *)
(***************************************************************************)
EXTENDS Tail, FiniteSetTheorems, SequenceTheorems, WellFoundedInduction, TLAPS

(***************************************************************************)
(* Lines of a text, without the state.                                     *)
(***************************************************************************)
Upto(t, n)  == {k \in Breaks(t) : k <= n}
LastUpto(t, n) == SelectLastInSubSeq(t, 1, n, LAMBDA c : c = NL)
LineAt(t, e) ==
    [ord |-> Cardinality(Upto(t, e)),
     off |-> LastUpto(t, e - 1),
     body |-> SubSeq(t, LastUpto(t, e - 1) + 1, e)]
LinesOf(t, n) == {LineAt(t, e) : e \in Upto(t, n)}

\* The greatest element of a set of positions: a minimum counted from the upper bound.
LEMMA MaxOfBounded ==
    ASSUME NEW S \in SUBSET Nat, S # {}, NEW n \in Nat, \A k \in S : k <= n
    PROVE  Max(S) \in S /\ \A k \in S : k <= Max(S)
<1> DEFINE B == {n - k : k \in S}
<1>1. B \subseteq Nat /\ B # {}
  <2>1. \A k \in S : n - k \in Nat
    OBVIOUS
  <2>2. PICK k \in S : TRUE
    OBVIOUS
  <2>3. n - k \in B
    OBVIOUS
  <2> QED BY <2>1, <2>3
<1>2. PICK x \in B : \A y \in B : ~ (<<y, x>> \in OpToRel(<, Nat))
  <2> HIDE DEF B
  <2> QED BY <1>1, NatLessThanWellFounded, WFMin
<1>3. PICK m \in S : x = n - m
  BY <1>2
<1>4. ASSUME NEW k \in S PROVE k <= m
  <2>1. n - k \in B /\ n - k \in Nat /\ x \in Nat
    BY <1>1, <1>2
  <2>2. ~ (n - k < x)
    <3> HIDE DEF B
    <3> QED BY <1>2, <2>1 DEF OpToRel
  <2> QED BY <1>3, <2>2
<1> QED BY <1>4 DEF Max

LEMMA MaxIs ==
    ASSUME NEW S \in SUBSET Nat, NEW m \in S, \A k \in S : k <= m
    PROVE  Max(S) = m
<1>1. m \in Nat /\ \A k \in S : m >= k
  OBVIOUS
<1>2. Max(S) \in S /\ \A k \in S : Max(S) >= k
  BY <1>1 DEF Max
<1>3. Max(S) \in Nat /\ Max(S) <= m /\ Max(S) >= m
  BY <1>2
<1> QED BY <1>1, <1>3

LEMMA MinOfTwo ==
    ASSUME NEW a \in Int, NEW b \in Int
    PROVE  Min({a, b}) = IF a <= b THEN a ELSE b
<1>1. Min({a, b}) \in {a, b} /\ \A k \in {a, b} : Min({a, b}) <= k
  <2>1. \E x \in {a, b} : \A k \in {a, b} : x <= k
    OBVIOUS
  <2> QED BY <2>1 DEF Min
<1> QED BY <1>1

LEMMA InUpto ==
    ASSUME NEW t \in Seq(Int), NEW n, NEW k
    PROVE  k \in Upto(t, n) <=> k \in 1 .. Len(t) /\ t[k] = NL /\ k <= n
BY DEF Upto, Breaks

\* The newlines of a text, up to a position, are finitely many positions.
LEMMA UptoFinite ==
    ASSUME NEW t \in Seq(Int), NEW n \in Int
    PROVE  /\ IsFiniteSet(Upto(t, n)) /\ Cardinality(Upto(t, n)) \in Nat
           /\ IsFiniteSet(Breaks(t)) /\ Cardinality(Breaks(t)) \in Nat
           /\ Breaks(t) \subseteq 1 .. Len(t) /\ Upto(t, n) \subseteq Breaks(t)
<1>1. Breaks(t) \subseteq 1 .. Len(t) /\ Upto(t, n) \subseteq Breaks(t)
  BY DEF Breaks, Upto
<1>2. IsFiniteSet(1 .. Len(t))
  BY FS_Interval
<1> QED BY <1>1, <1>2, FS_Subset, FS_CardinalityType

\* The newline before a position: the last one up to it, or none.
LEMMA LastUptoIs ==
    ASSUME NEW t \in Seq(Int), NEW n \in Int, n <= Len(t)
    PROVE  /\ Upto(t, n) = {} => LastUpto(t, n) = 0
           /\ Upto(t, n) # {} => /\ LastUpto(t, n) \in Upto(t, n)
                                 /\ \A k \in Upto(t, n) : k <= LastUpto(t, n)
           /\ LastUpto(t, n) \in Nat
           /\ \A m \in Upto(t, n) : (\A k \in Upto(t, n) : k <= m) => LastUpto(t, n) = m
<1> DEFINE I == {i \in 1 .. n : t[i] = NL}
<1>1. I = Upto(t, n)
  BY DEF Breaks, Upto
<1>2. LastUpto(t, n) = IF I # {} THEN Max(I) ELSE 0
  BY DEF LastUpto, SelectLastInSubSeq
<1>3. I \in SUBSET Nat /\ (I # {} => n \in Nat) /\ \A k \in I : k <= n
  OBVIOUS
<1> HIDE DEF I
<1>4. CASE I = {}
  BY <1>1, <1>2, <1>4
<1>5. CASE I # {}
  <2>1. Max(I) \in I /\ \A k \in I : k <= Max(I)
    BY <1>3, <1>5, MaxOfBounded
  <2>2. \A m \in I : (\A k \in I : k <= m) => Max(I) = m
    BY <1>3, MaxIs
  <2> QED BY <1>1, <1>2, <1>3, <1>5, <2>1, <2>2
<1> QED BY <1>4, <1>5

\* The same of a whole text.
LEMMA LastBreakIs ==
    ASSUME NEW t \in Seq(Int), Breaks(t) # {}
    PROVE  /\ LastBreak(t) \in Breaks(t) /\ \A k \in Breaks(t) : k <= LastBreak(t)
<1> DEFINE I == {i \in 1 .. Len(t) : t[i] = NL}
<1>1. I = Breaks(t)
  BY DEF Breaks
<1>2. LastBreak(t) = IF I # {} THEN Max(I) ELSE 0
  BY DEF LastBreak, SelectLastInSeq
<1>3. I \in SUBSET Nat /\ \A k \in I : k <= Len(t)
  OBVIOUS
<1>4. Len(t) \in Nat
  OBVIOUS
<1> HIDE DEF I
<1>5. Max(I) \in I /\ \A k \in I : k <= Max(I)
  BY <1>1, <1>3, <1>4, MaxOfBounded
<1> QED BY <1>1, <1>2, <1>5

\* A text that grows keeps the lines it had.
LEMMA GrownLines ==
    ASSUME NEW t \in Seq(Int), NEW u \in Seq(Int), NEW n \in Nat,
           n <= Len(t), Len(t) <= Len(u), \A i \in 1 .. Len(t) : u[i] = t[i]
    PROVE  LinesOf(u, n) = LinesOf(t, n) /\ Upto(u, n) = Upto(t, n)
<1>1. ASSUME NEW m \in Int, m <= Len(t) PROVE Upto(u, m) = Upto(t, m)
  <2>1. ASSUME NEW k PROVE k \in Upto(u, m) <=> k \in Upto(t, m)
    <3>1. Len(t) \in Nat /\ Len(u) \in Nat
      OBVIOUS
    <3>2. k \in Upto(u, m) <=> k \in 1 .. Len(u) /\ u[k] = NL /\ k <= m
      BY InUpto
    <3>3. k \in Upto(t, m) <=> k \in 1 .. Len(t) /\ t[k] = NL /\ k <= m
      BY InUpto
    <3>4. k \in 1 .. Len(u) /\ k <= m => k \in 1 .. Len(t)
      BY <1>1, <3>1
    <3>5. k \in 1 .. Len(t) => k \in 1 .. Len(u) /\ u[k] = t[k]
      BY <3>1
    <3> QED BY <3>2, <3>3, <3>4, <3>5
  <2> QED BY <2>1
<1>2. ASSUME NEW m \in Int, m <= Len(t) PROVE LastUpto(u, m) = LastUpto(t, m)
  <2>1. {i \in 1 .. m : u[i] = NL} = {i \in 1 .. m : t[i] = NL}
    <3>1. \A i \in 1 .. m : u[i] = t[i]
      <4>1. \A i \in 1 .. m : i \in 1 .. Len(t)
        <5>1. Len(t) \in Nat
          OBVIOUS
        <5> QED BY <1>2, <5>1
      <4> QED BY <4>1
    <3> QED BY <3>1
  <2> QED BY <2>1 DEF LastUpto, SelectLastInSubSeq
<1>3. ASSUME NEW e \in Upto(t, n) PROVE LineAt(u, e) = LineAt(t, e)
  <2>1. e \in 1 .. Len(t) /\ e - 1 \in Int /\ e - 1 <= Len(t) /\ e <= Len(t)
    <3>1. e \in 1 .. Len(t) /\ Len(t) \in Nat
      BY InUpto
    <3> QED BY <3>1
  <2>2. LastUpto(t, e - 1) \in Nat
    BY <2>1, LastUptoIs
  <2>3. SubSeq(u, LastUpto(t, e - 1) + 1, e) = SubSeq(t, LastUpto(t, e - 1) + 1, e)
    <3> DEFINE a == LastUpto(t, e - 1) + 1
    <3>1. a \in Nat \ {0}
      BY <2>2
    <3> HIDE DEF a
    <3>2. \A i \in 1 .. e - a + 1 : t[a + i - 1] = u[a + i - 1]
      BY <2>1, <3>1
    <3>3. [i \in 1 .. e - a + 1 |-> u[a + i - 1]] = [i \in 1 .. e - a + 1 |-> t[a + i - 1]]
      BY <3>2
    <3>4. SubSeq(u, a, e) = SubSeq(t, a, e)
      BY <2>1, <3>1, <3>3 DEF SubSeq
    <3> QED BY <3>4 DEF a
  <2>4. Upto(u, e) = Upto(t, e) /\ LastUpto(u, e - 1) = LastUpto(t, e - 1)
    BY <1>1, <1>2, <2>1
  <2> QED BY <2>3, <2>4 DEF LineAt
<1> QED BY <1>1, <1>3 DEF LinesOf

\* No lines within nothing.
LEMMA NoLines == ASSUME NEW t \in Seq(Int) PROVE LinesOf(t, 0) = {} /\ Upto(t, 0) = {}
BY DEF LinesOf, Upto, Breaks

(***************************************************************************)
(* A window of a text, read from where a line ended: its lines are those   *)
(* of the text, at their positions.                                        *)
(***************************************************************************)
WindowOf(t, off, m, b) ==
    /\ t \in Seq(Int) /\ off \in 0 .. Len(t) /\ (off = 0 \/ t[off] = NL)
    /\ m \in Nat /\ m <= Len(t) /\ b = SubSeq(t, off + 1, m)

LEMMA WindowIs ==
    ASSUME NEW t, NEW off, NEW m, NEW b, WindowOf(t, off, m, b)
    PROVE  /\ b \in Seq(Int) /\ Len(b) = IF off + 1 <= m THEN m - off ELSE 0
           /\ \A k \in 1 .. Len(b) : b[k] = t[off + k] /\ off + k <= Len(t)
<1>1. \A i \in off + 1 .. m : t[i] \in Int
  BY DEF WindowOf
<1>2. /\ b \in Seq(Int) /\ Len(b) = IF off + 1 <= m THEN m - (off + 1) + 1 ELSE 0
      /\ \A i \in 1 .. m - (off + 1) + 1 : b[i] = t[off + 1 + i - 1]
  BY <1>1, SubSeqProperties, off + 1 \in Int, m \in Int DEF WindowOf
<1>3. off \in Nat /\ m \in Nat /\ m <= Len(t) /\ Len(t) \in Nat
  BY DEF WindowOf
<1>4. Len(b) = IF off + 1 <= m THEN m - off ELSE 0
  BY <1>2, <1>3
<1>5. ASSUME NEW k \in 1 .. Len(b) PROVE b[k] = t[off + k] /\ off + k <= Len(t)
  <2>1. k \in 1 .. m - (off + 1) + 1 /\ off + 1 + k - 1 = off + k /\ off + k <= Len(t)
    BY <1>3, <1>4
  <2> QED BY <1>2, <2>1
<1> QED BY <1>2, <1>4, <1>5

\* Counting the newlines of the text up to a place of the window.
LEMMA WindowCounts ==
    ASSUME NEW t, NEW off, NEW m, NEW b, WindowOf(t, off, m, b), NEW e \in 0 .. Len(b)
    PROVE  /\ Upto(t, off + e) = Upto(t, off) \cup {off + k : k \in Upto(b, e)}
           /\ Cardinality(Upto(t, off + e)) = Cardinality(Upto(t, off)) + Cardinality(Upto(b, e))
<1> DEFINE U == Upto(b, e)  V == {off + k : k \in U}  W == Upto(t, off)
<1>1. /\ b \in Seq(Int) /\ \A k \in 1 .. Len(b) : b[k] = t[off + k] /\ off + k <= Len(t)
  BY WindowIs
<1>2. t \in Seq(Int) /\ off \in Nat
  BY DEF WindowOf
<1>3. U \subseteq 1 .. Len(b) /\ IsFiniteSet(U) /\ IsFiniteSet(W) /\ Cardinality(U) \in Nat /\ Cardinality(W) \in Nat
  BY <1>1, <1>2, UptoFinite
<1>4. Upto(t, off + e) = W \cup V
  <2>1. Len(t) \in Nat /\ Len(b) \in Nat /\ off \in 0 .. Len(t)
    BY SMTT(30), <1>1, <1>2 DEF WindowOf
  <2>2. ASSUME NEW x \in Upto(t, off + e), x \notin W PROVE x \in V
    <3>1. x \in 1 .. Len(t) /\ t[x] = NL /\ x <= off + e /\ ~(x <= off)
      BY <1>2, <2>2, InUpto
    <3>2. x - off \in 1 .. Len(b) /\ off + (x - off) = x /\ x - off <= e
      BY <1>2, <2>1, <3>1
    <3>3. x - off \in U
      BY <1>1, <3>1, <3>2, InUpto
    <3> QED BY <3>2, <3>3
  <2>3. ASSUME NEW x \in W PROVE x \in Upto(t, off + e)
    <3>1. x \in 1 .. Len(t) /\ t[x] = NL /\ x <= off
      BY <1>2, InUpto
    <3> QED BY <1>2, <3>1, InUpto
  <2>4. ASSUME NEW k \in U PROVE off + k \in Upto(t, off + e)
    <3>1. k \in 1 .. Len(b) /\ b[k] = NL /\ k <= e
      BY <1>1, InUpto
    <3>2. off + k \in 1 .. Len(t) /\ t[off + k] = NL /\ off + k <= off + e
      BY SMTT(30), <1>1, <1>2, <2>1, <3>1
    <3> QED BY <1>2, <3>2, InUpto
  <2> QED BY <2>2, <2>3, <2>4
<1>5. IsFiniteSet(V) /\ Cardinality(V) = Cardinality(U)
  <2> DEFINE f == [k \in U |-> off + k]
  <2>1. f \in Bijection(U, V)
    <3>1. f \in Surjection(U, V)
      BY DEF Surjection
    <3>2. f \in Injection(U, V)
      BY <1>2, <1>3 DEF Injection, IsInjective
    <3> QED BY <3>1, <3>2 DEF Bijection
  <2> QED BY <1>3, <2>1, FS_Bijection DEF ExistsBijection
<1>6. W \cap V = {}
  BY <1>2, <1>3 DEF Upto
<1>7. Cardinality(W \cup V) = Cardinality(W) + Cardinality(V) - Cardinality(W \cap V)
  <2> HIDE DEF W, V
  <2> QED BY <1>3, <1>5, FS_Union
<1>8. Cardinality(W \cup V) = Cardinality(W) + Cardinality(U)
  <2>1. Cardinality(W \cap V) = 0
    BY <1>6, FS_EmptySet
  <2> HIDE DEF U, V, W
  <2> QED BY <1>3, <1>5, <1>7, <2>1
<1> QED BY <1>4, <1>8

\* A line of the window is the line of the text that ends there.
WindowLine(t, off, b, e) ==
    [ord |-> Cardinality(Upto(t, off)) + Cardinality(Upto(b, e)),
     off |-> off + LastUpto(b, e - 1),
     body |-> SubSeq(b, LastUpto(b, e - 1) + 1, e)]

LEMMA WindowStarts ==
    ASSUME NEW t, NEW off, NEW m, NEW b, WindowOf(t, off, m, b), NEW e \in 0 .. Len(b)
    PROVE  LastUpto(t, off + e) = off + LastUpto(b, e)
<1>1. /\ b \in Seq(Int) /\ t \in Seq(Int) /\ off \in 0 .. Len(t) /\ off \in Nat /\ Len(b) \in Nat /\ Len(t) \in Nat
      /\ \A k \in 1 .. Len(b) : off + k <= Len(t)
      /\ e \in Int /\ e <= Len(b) /\ off + e \in Int
  BY WindowIs DEF WindowOf
<1>2. off + e <= Len(t)
  <2>1. CASE e = 0
    BY <1>1, <2>1
  <2>2. CASE e # 0
    BY <1>1, <2>2
  <2> QED BY <2>1, <2>2
<1>3. Upto(t, off + e) = Upto(t, off) \cup {off + k : k \in Upto(b, e)}
  BY WindowCounts
<1>4. ASSUME NEW k \in Upto(t, off) PROVE k \in Nat /\ k <= off
  BY <1>1, InUpto
<1>5. CASE Upto(b, e) = {}
  <2>1. LastUpto(b, e) = 0
    BY <1>1, <1>5, LastUptoIs
  <2>2. Upto(t, off + e) = Upto(t, off)
    BY <1>3, <1>5
  <2>3. CASE off = 0
    <3>1. Upto(t, off + e) = {}
      BY <1>1, <2>2, <2>3, NoLines
    <3>2. LastUpto(t, off + e) = 0
      BY <1>1, <1>2, <3>1, LastUptoIs
    <3> QED BY <2>1, <2>3, <3>2
  <2>4. CASE off # 0
    <3>1. off \in Upto(t, off)
      BY SMTT(30), <1>1, <2>4, InUpto DEF WindowOf
    <3>2. LastUpto(t, off + e) = off
      BY <1>1, <1>2, <1>4, <2>2, <3>1, LastUptoIs
    <3> QED BY <1>1, <2>1, <3>2
  <2> QED BY <2>3, <2>4
<1>6. CASE Upto(b, e) # {}
  <2> DEFINE l == LastUpto(b, e)
  <2>1. l \in Upto(b, e) /\ \A k \in Upto(b, e) : k <= l
    BY <1>1, <1>6, LastUptoIs
  <2>2. l \in Nat \ {0} /\ \A k \in Upto(b, e) : k \in Nat
    BY <1>1, <2>1, InUpto
  <2>3. off + l \in Upto(t, off + e)
    BY <1>3, <2>1
  <2>4. ASSUME NEW x \in Upto(t, off + e) PROVE x <= off + l
    <3>1. CASE x \in Upto(t, off)
      <4>1. x \in Nat /\ x <= off
        BY <1>4, <3>1
      <4> HIDE DEF l
      <4> QED BY <1>1, <2>2, <4>1
    <3>2. ASSUME NEW k \in Upto(b, e), x = off + k PROVE x <= off + l
      <4> HIDE DEF l
      <4> QED BY <1>1, <2>1, <2>2, <3>2
    <3> QED BY <1>3, <3>1, <3>2
  <2>5. LastUpto(t, off + e) = off + l
    BY <1>1, <1>2, <2>3, <2>4, LastUptoIs
  <2> QED BY <2>5
<1> QED BY <1>5, <1>6

LEMMA WindowLineIs ==
    ASSUME NEW t, NEW off, NEW m, NEW b, WindowOf(t, off, m, b), NEW e \in Breaks(b)
    PROVE  LineAt(t, off + e) = WindowLine(t, off, b, e)
<1>1. /\ b \in Seq(Int) /\ t \in Seq(Int) /\ off \in Nat /\ Len(b) \in Nat /\ m \in Nat /\ Len(t) \in Nat
      /\ m <= Len(t) /\ Len(b) = IF off + 1 <= m THEN m - off ELSE 0
      /\ b = SubSeq(t, off + 1, m)
  BY SMTT(30), WindowIs DEF WindowOf
<1>2. e \in 1 .. Len(b)
  BY <1>1 DEF Breaks
<1>3. e \in 0 .. Len(b) /\ e - 1 \in 0 .. Len(b) /\ off + (e - 1) = (off + e) - 1 /\ e - 1 \in Int /\ e - 1 <= Len(b)
  BY <1>1, <1>2
<1>4. Cardinality(Upto(t, off + e)) = Cardinality(Upto(t, off)) + Cardinality(Upto(b, e))
  BY <1>3, WindowCounts
<1> DEFINE p == LastUpto(b, e - 1)
<1>5. LastUpto(t, (off + e) - 1) = off + p
  BY <1>3, WindowStarts
<1>6. p \in Nat /\ p <= e - 1
  <2>1. p \in Nat /\ (Upto(b, e - 1) = {} => p = 0) /\ (Upto(b, e - 1) # {} => p \in Upto(b, e - 1))
    BY <1>1, <1>3, LastUptoIs
  <2>2. p \in Upto(b, e - 1) => p <= e - 1
    BY <1>1, InUpto
  <2> QED BY <1>2, <2>1, <2>2
<1>7. SubSeq(b, p + 1, e) = SubSeq(t, off + p + 1, off + e)
  <2> HIDE DEF p
  <2>1. /\ off + 1 \in 1 .. Len(t) /\ m \in 1 .. Len(t)
        /\ p + 1 \in 1 .. m - (off + 1) + 1 /\ e \in 1 .. m - (off + 1) + 1
    BY <1>1, <1>2, <1>6
  <2>2. off + 1 + (p + 1) - 1 = off + p + 1 /\ off + 1 + e - 1 = off + e
    BY <1>1, <1>2, <1>6
  <2>3. SubSeq(SubSeq(t, off + 1, m), p + 1, e) = SubSeq(t, off + 1 + (p + 1) - 1, off + 1 + e - 1)
    <3>1. t \in Seq(Int)
      BY <1>1
    <3>2. \A S : \A s \in Seq(S) : \A i, j \in 1 .. Len(s) : \A x, y \in 1 .. j - i + 1 :
              SubSeq(SubSeq(s, i, j), x, y) = SubSeq(s, i + x - 1, i + y - 1)
      BY SubSeqOfSubSeq
    <3>3. \A i, j \in 1 .. Len(t) : \A x, y \in 1 .. j - i + 1 :
              SubSeq(SubSeq(t, i, j), x, y) = SubSeq(t, i + x - 1, i + y - 1)
      BY <3>1, <3>2
    <3> QED BY <2>1, <3>3
  <2> QED BY <1>1, <2>2, <2>3
<1>8. LineAt(t, off + e) = [ord |-> Cardinality(Upto(t, off + e)), off |-> LastUpto(t, (off + e) - 1),
                            body |-> SubSeq(t, LastUpto(t, (off + e) - 1) + 1, off + e)]
  BY DEF LineAt
<1>9. WindowLine(t, off, b, e) = [ord |-> Cardinality(Upto(t, off)) + Cardinality(Upto(b, e)), off |-> off + p,
                                  body |-> SubSeq(b, p + 1, e)]
  BY DEF WindowLine
<1> HIDE DEF p
<1> QED BY <1>4, <1>5, <1>7, <1>8, <1>9

\* The lines of the window are what the text has between the window's beginning and the
\* last line it holds.
LEMMA WindowLines ==
    ASSUME NEW t, NEW off, NEW m, NEW b, WindowOf(t, off, m, b), Breaks(b) # {}
    PROVE  /\ LinesOf(t, off + LastBreak(b)) = LinesOf(t, off) \cup {WindowLine(t, off, b, e) : e \in Breaks(b)}
           /\ Cardinality(Upto(t, off + LastBreak(b))) = Cardinality(Upto(t, off)) + Cardinality(Breaks(b))
           /\ LastBreak(b) \in 1 .. Len(b) /\ off + LastBreak(b) <= Len(t) /\ t[off + LastBreak(b)] = NL
<1> DEFINE l == LastBreak(b)
<1>1. b \in Seq(Int) /\ t \in Seq(Int) /\ \A k \in 1 .. Len(b) : b[k] = t[off + k] /\ off + k <= Len(t)
  <2>1. t \in Seq(Int)
    BY DEF WindowOf
  <2> QED BY <2>1, WindowIs
<1>2. l \in Breaks(b) /\ \A k \in Breaks(b) : k <= l
  BY <1>1, LastBreakIs
<1>3. l \in 1 .. Len(b) /\ b[l] = NL
  BY <1>1, <1>2 DEF Breaks
<1>4. Upto(b, l) = Breaks(b)
  BY <1>2 DEF Upto
<1>5. l \in 0 .. Len(b)
  BY <1>3
<1>6. /\ Upto(t, off + l) = Upto(t, off) \cup {off + k : k \in Upto(b, l)}
      /\ Cardinality(Upto(t, off + l)) = Cardinality(Upto(t, off)) + Cardinality(Upto(b, l))
  <2> HIDE DEF l
  <2> QED BY <1>5, WindowCounts
<1>7. \A e \in Breaks(b) : LineAt(t, off + e) = WindowLine(t, off, b, e)
  BY WindowLineIs
<1>8. LinesOf(t, off + l) = LinesOf(t, off) \cup {WindowLine(t, off, b, e) : e \in Breaks(b)}
  <2> HIDE DEF l
  <2> QED BY <1>4, <1>6, <1>7 DEF LinesOf
<1> QED BY <1>1, <1>3, <1>4, <1>6, <1>8

(***************************************************************************)
(* The inductive invariant.                                                *)
(***************************************************************************)
Phases  == {"idle", "stated", "opened", "verified", "growing", "landed"}
Holding == {"opened", "verified", "growing", "landed"}

TypeOK ==
    /\ text \in [Contents -> Seq(Int)] /\ \A g \in Contents : text[g] \in Texts(g)
    /\ born \in 0 .. MaxContents
    /\ disk \in [Inodes -> 0 .. born]
    /\ name \in Inodes \cup {None}
    /\ cursor \in [ino : Inodes \cup {None}, off : Nat, ord : Nat, dig : Digests \cup {None},
                   state : {"active", "source_gone", "conflict"}]
    /\ pc \in Phases
    /\ seen \in [ino : Inodes \cup {None}, size : Nat]
    /\ handle \in Inodes \cup {None}
    /\ chunk \in [off : Nat, ord : Nat]

\* A content is on one inode, and the path leads to the newest.  No inode is used again,
\* so a path that left one never leads to it again.
OnDisk ==
    /\ \A i, j \in Inodes : disk[i] # 0 /\ disk[i] = disk[j] => i = j
    /\ name # None => disk[name] = born /\ born # 0

\* What has landed is content g up to its n-th byte, the end of its o-th line.
At(g, n, o) ==
    /\ g \in 1 .. born
    /\ n \in 1 .. Len(text[g]) /\ text[g][n] = NL
    /\ o = Cardinality(Upto(text[g], n))
    /\ landed = LinesOf(text[g], n)

\* What a digest is of, in one text.
DigestIn(t, off) ==
    LET from == IF off > TailWindow THEN off - TailWindow ELSE 0
    IN  [k \in 1 .. off - from |-> IF from + k <= Len(t) THEN t[from + k] ELSE Pad]

\* Whatever the cursor says, a beginning of some content has landed: before a commit, of
\* the one that is open.
Prefixed ==
    /\ pc = "landed" => At(disk[handle], chunk.off, chunk.ord)
    /\ pc # "landed" => IF cursor.ino = None THEN landed = {} ELSE \E g, n, o : At(g, n, o)

\* A cursor whose inode the path leads to, or a reader has found there, is of that inode's
\* content, digest and all.  Otherwise the path has left that inode for good.
Follows ==
    /\ cursor.ino = None => cursor.off = 0 /\ cursor.ord = 0
    /\ cursor.ino # None => disk[cursor.ino] # 0
    /\ (cursor.ino # None /\ pc # "landed" /\ (name = cursor.ino \/ pc # "idle")) =>
          /\ At(disk[cursor.ino], cursor.off, cursor.ord)
          /\ cursor.dig = DigestIn(text[disk[cursor.ino]], cursor.off)

\* Where a read is: what stat saw is the cursor's inode; the open file may be another,
\* until its digest is compared, but only if the path has left the first.
Reading ==
    /\ pc # "idle" => seen.ino # None /\ disk[seen.ino] # 0 /\ cursor.ino \in {None, seen.ino}
    /\ pc \in Holding => handle # None /\ disk[handle] # 0 /\ (name = seen.ino => handle = seen.ino)
    /\ (pc \in {"verified", "growing"} /\ cursor.ino # None) => handle = cursor.ino

TailInv == TypeOK /\ OnDisk /\ Prefixed /\ Follows /\ Reading /\ ConflictIsReal

LEMMA TextsAre ==
    ASSUME NEW g \in Contents, NEW t \in Texts(g)
    PROVE  /\ t \in Seq(Int) /\ Len(t) \in Sizes
           /\ \A i \in 1 .. Len(t) : t[i] \in {g, NL} /\ (t[i] = NL => i > 1 /\ t[i - 1] # NL)
<1>1. PICK n \in Sizes : t \in [1 .. n -> {g, NL}]
  BY DEF Texts
<1>2. n \in Nat /\ {g, NL} \subseteq Int
  BY TailAssumption DEF Sizes, Contents, NL
<1>3. t \in [1 .. n -> Int]
  BY <1>1, <1>2
<1>4. t \in Seq(Int) /\ Len(t) = n /\ DOMAIN t = 1 .. n
  BY <1>2, <1>3
<1> QED BY <1>1, <1>4 DEF Texts

\* The state's lines are those of the text.
LEMMA LinesWithinIs ==
    ASSUME TypeOK, NEW g \in Contents, NEW n \in Nat, n <= Len(text[g])
    PROVE  LinesWithin(g, n) = LinesOf(text[g], n)
<1> DEFINE t == text[g]
<1>1. t \in Seq(Int) /\ Len(t) \in Nat
  BY DEF TypeOK
<1>2. ASSUME NEW e \in Upto(t, n)
      PROVE  LineAt(t, e) =
               LET start == SelectLastInSubSeq(t, 1, e - 1, LAMBDA c : c = NL) + 1
               IN  [ord |-> Cardinality({k \in Breaks(t) : k <= e}), off |-> start - 1, body |-> SubSeq(t, start, e)]
  <2>1. e - 1 \in Int /\ e - 1 <= Len(t)
    BY <1>1, InUpto
  <2>2. LastUpto(t, e - 1) \in Nat
    BY <1>1, <2>1, LastUptoIs
  <2>3. (LastUpto(t, e - 1) + 1) - 1 = LastUpto(t, e - 1)
    BY <2>2
  <2> HIDE DEF t
  <2> QED BY <2>3 DEF LineAt, Upto, LastUpto
<1> QED BY <1>2 DEF LinesWithin, LinesOf, Upto

LEMMA InvLandsAPrefix == TailInv => LandsAPrefix
<1> SUFFICES ASSUME TailInv PROVE LandsAPrefix
  OBVIOUS
<1>1. ASSUME NEW g, NEW n, NEW o, At(g, n, o) PROVE LandsAPrefix
  <2>1. g \in Contents /\ n \in Nat /\ n <= Len(text[g]) /\ text[g] \in Texts(g)
    BY <1>1, TailAssumption DEF At, TailInv, TypeOK, Contents
  <2>2. n \in Sizes
    BY <2>1, TextsAre, TailAssumption DEF Sizes
  <2>3. landed = LinesWithin(g, n)
    BY <1>1, <2>1, LinesWithinIs DEF At, TailInv
  <2> QED BY <2>1, <2>2, <2>3 DEF LandsAPrefix
<1>2. ASSUME landed = {} PROVE LandsAPrefix
  <2>1. 1 \in Contents /\ 0 \in Sizes /\ 0 \in Nat
    BY TailAssumption DEF Contents, Sizes
  <2>2. text[1] \in Seq(Int) /\ 0 <= Len(text[1])
    BY <2>1 DEF TailInv, TypeOK
  <2>3. LinesWithin(1, 0) = {}
    BY <2>1, <2>2, LinesWithinIs, NoLines DEF TailInv
  <2> QED BY <1>2, <2>1, <2>3 DEF LandsAPrefix
<1> QED BY <1>1, <1>2 DEF TailInv, Prefixed

LEMMA InitTail == Init => TailInv
<1> SUFFICES ASSUME Init PROVE TailInv
  OBVIOUS
<1>1. \A g \in Contents : <<>> \in Texts(g)
  <2>1. 0 \in Sizes
    BY TailAssumption DEF Sizes
  <2> TAKE g \in Contents
  <2>2. <<>> \in [1 .. 0 -> {g, NL}]
    OBVIOUS
  <2> QED BY <2>1, <2>2 DEF Texts
<1>2. TypeOK
  BY <1>1, TailAssumption DEF Init, TypeOK, Phases, Unseen, Nothing
<1>3. OnDisk /\ Prefixed /\ Follows /\ Reading /\ ConflictIsReal
  BY DEF Init, OnDisk, Prefixed, Follows, Reading, ConflictIsReal, Holding
<1> QED BY <1>2, <1>3 DEF TailInv

(***************************************************************************)
(* The runtime only adds: bytes to the newest content, or another content. *)
(***************************************************************************)
Extends(t, u) == u \in Seq(Int) /\ Len(t) <= Len(u) /\ \A i \in 1 .. Len(t) : u[i] = t[i]

Grown ==
    /\ born <= born'
    /\ \A i \in Inodes : disk[i] # 0 => disk'[i] = disk[i]
    /\ \A g \in 1 .. born : Extends(text[g], text'[g])
    /\ name' = name \/ name' = None \/ (name' \in Inodes /\ disk[name'] = 0)
    /\ UNCHANGED <<cursor, landed, pc, memory>>

LEMMA RuntimeGrows ==
    ASSUME TypeOK, OnDisk, Runtime
    PROVE  Grown /\ TypeOK' /\ OnDisk'
<1>1. /\ \A g \in Contents : text[g] \in Seq(Int) /\ Len(text[g]) \in Nat
      /\ born \in Nat /\ born <= MaxContents /\ MaxContents \in Nat /\ 1 .. born \subseteq Contents
  BY SMTT(30), TailAssumption DEF TypeOK, Contents
<1>2. CASE AppendByte
  <2> DEFINE g == disk[name]
  <2>1. name \in Inodes /\ g \in Contents /\ g = born
    BY SMTT(30), <1>1, <1>2 DEF AppendByte, TypeOK, OnDisk, Contents
  <2>2. PICK b \in {g, NL} : Append(text[g], b) \in Texts(g) /\ text' = [text EXCEPT ![g] = Append(@, b)]
    BY <1>2 DEF AppendByte
  <2>3. UNCHANGED <<disk, name, born, cursor, landed, pc, memory>>
    BY <1>2 DEF AppendByte
  <2> HIDE DEF g
  <2>4. Append(text[g], b) \in Seq(Int)
    BY <2>1, <2>2, TextsAre
  <2>5. /\ text' \in [Contents -> Seq(Int)]
        /\ \A h \in Contents : text'[h] = IF h = g THEN Append(text[g], b) ELSE text[h]
    BY <2>1, <2>2, <2>4 DEF TypeOK
  <2>6. \A h \in Contents : text'[h] \in Texts(h)
    BY <2>2, <2>5 DEF TypeOK
  <2>7. Extends(text[g], Append(text[g], b))
    <3>1. b \in Int
      BY <2>1, <2>2 DEF Contents, NL
    <3> QED BY <1>1, <2>1, <2>4, <3>1, AppendProperties DEF Extends
  <2>8. \A h \in 1 .. born : Extends(text[h], text'[h])
    <3> TAKE h \in 1 .. born
    <3>1. h \in Contents
      BY <1>1
    <3>2. Extends(text[h], text[h])
      BY <1>1, <3>1 DEF Extends
    <3> QED BY <2>5, <2>7, <3>1, <3>2
  <2>9. Grown
    BY <1>1, <2>3, <2>8 DEF Grown
  <2>10. TypeOK'
    BY <2>3, <2>5, <2>6 DEF TypeOK, memory
  <2> QED BY <2>3, <2>9, <2>10 DEF OnDisk
<1>3. CASE CreateFile
  <2>1. PICK i \in Inodes, t \in Texts(born + 1) :
            /\ disk[i] = 0 /\ name' = i
            /\ disk' = [disk EXCEPT ![i] = born + 1] /\ text' = [text EXCEPT ![born + 1] = t]
    BY <1>3 DEF CreateFile
  <2>2. born < MaxContents /\ born' = born + 1 /\ UNCHANGED <<cursor, landed, pc, memory>>
    BY <1>3 DEF CreateFile
  <2>3. born + 1 \in Contents
    BY <1>1, <2>2 DEF Contents
  <2>4. t \in Seq(Int)
    BY <2>3, TextsAre
  <2>5. /\ text' \in [Contents -> Seq(Int)]
        /\ \A h \in Contents : text'[h] = IF h = born + 1 THEN t ELSE text[h]
    BY <2>1, <2>3, <2>4 DEF TypeOK
  <2>6. \A h \in Contents : text'[h] \in Texts(h)
    BY <2>1, <2>5 DEF TypeOK
  <2>7. \A h \in 1 .. born : Extends(text[h], text'[h])
    <3> TAKE h \in 1 .. born
    <3>1. h \in Contents /\ h # born + 1
      BY <1>1
    <3> QED BY <1>1, <2>5, <3>1 DEF Extends
  <2>8. /\ disk' \in [Inodes -> 0 .. born'] /\ disk'[i] = born + 1
        /\ \A j \in Inodes : j # i => disk'[j] = disk[j]
    BY <1>1, <2>1, <2>2 DEF TypeOK
  <2>9. \A j \in Inodes : disk[j] # born + 1
    BY <1>1 DEF TypeOK
  <2>10. Grown
    BY <1>1, <2>1, <2>2, <2>7, <2>8 DEF Grown
  <2>11. TypeOK'
    BY <1>1, <2>1, <2>2, <2>5, <2>6, <2>8 DEF TypeOK, memory
  <2>12. OnDisk'
    <3>1. \A a, c \in Inodes : disk'[a] # 0 /\ disk'[a] = disk'[c] => a = c
      BY <2>8, <2>9 DEF OnDisk
    <3> QED BY <1>1, <2>1, <2>2, <2>8, <3>1 DEF OnDisk
  <2> QED BY <2>10, <2>11, <2>12
<1>4. CASE RemoveFile
  <2>1. name' = None /\ UNCHANGED <<text, disk, born, cursor, landed, pc, memory>>
    BY <1>4 DEF RemoveFile
  <2>2. \A h \in 1 .. born : Extends(text[h], text[h])
    BY <1>1 DEF Extends
  <2>3. Grown
    BY <1>1, <2>1, <2>2 DEF Grown
  <2> QED BY <2>1, <2>3 DEF OnDisk, TypeOK, memory
<1> QED BY <1>2, <1>3, <1>4 DEF Runtime

\* What has landed of a content, and the digest behind it, outlast its growth.
LEMMA AtStays ==
    ASSUME TypeOK, Grown, TypeOK', NEW g, NEW n, NEW o, At(g, n, o)
    PROVE  At(g, n, o)' /\ DigestIn(text[g], n)' = DigestIn(text[g], n)
<1> DEFINE t == text[g]  u == text'[g]
<1>1. /\ g \in 1 .. born /\ g \in Contents /\ t \in Seq(Int) /\ n \in 1 .. Len(t) /\ t[n] = NL
      /\ o = Cardinality(Upto(t, n)) /\ landed = LinesOf(t, n)
  BY TailAssumption DEF At, TypeOK, Contents
<1>2. u \in Seq(Int) /\ Len(t) <= Len(u) /\ \A i \in 1 .. Len(t) : u[i] = t[i]
  BY <1>1 DEF Grown, Extends
<1>3. g \in 1 .. born' /\ landed' = landed
  BY <1>1 DEF Grown, TypeOK
<1>4. Len(t) \in Nat /\ Len(u) \in Nat /\ n \in Nat /\ n <= Len(t)
  BY <1>1, <1>2
<1>5. n \in 1 .. Len(u) /\ u[n] = NL
  BY SMTT(30), <1>1, <1>2, <1>4
<1>6. LinesOf(u, n) = LinesOf(t, n) /\ Upto(u, n) = Upto(t, n)
  <2> HIDE DEF t, u
  <2> QED BY <1>1, <1>2, <1>4, GrownLines
<1>7. DigestIn(u, n) = DigestIn(t, n)
  <2> DEFINE from == IF n > TailWindow THEN n - TailWindow ELSE 0
  <2>1. from \in Nat /\ from <= n
    BY <1>4, TailAssumption
  <2> HIDE DEF from
  <2>2. ASSUME NEW k \in 1 .. n - from PROVE from + k <= Len(t) /\ from + k <= Len(u) /\ u[from + k] = t[from + k]
    <3>1. from + k \in 1 .. Len(t) /\ from + k <= Len(u)
      BY SMTT(30), <1>2, <1>4, <2>1
    <3> HIDE DEF t, u
    <3> QED BY <1>2, <1>4, <3>1
  <2>3. [k \in 1 .. n - from |-> IF from + k <= Len(u) THEN u[from + k] ELSE Pad]
        = [k \in 1 .. n - from |-> IF from + k <= Len(t) THEN t[from + k] ELSE Pad]
    BY <2>2
  <2> QED BY <2>3 DEF DigestIn, from
<1> QED BY <1>1, <1>3, <1>5, <1>6, <1>7 DEF At

LEMMA RuntimeKeeps ==
    ASSUME TailInv, Runtime
    PROVE  TailInv'
<1>1. TypeOK /\ OnDisk /\ Prefixed /\ Follows /\ Reading /\ ConflictIsReal
  BY DEF TailInv
<1>2. Grown /\ TypeOK' /\ OnDisk'
  BY <1>1, RuntimeGrows
<1>3. /\ UNCHANGED <<cursor, landed, pc, seen, handle, chunk>>
      /\ \A i \in Inodes : disk[i] # 0 => disk'[i] = disk[i]
      /\ name' = name \/ name' = None \/ (name' \in Inodes /\ disk[name'] = 0)
  BY <1>2 DEF Grown, memory
<1>4. /\ cursor.ino \in Inodes \cup {None} /\ seen.ino \in Inodes \cup {None} /\ handle \in Inodes \cup {None}
      /\ None \notin Inodes
  BY <1>1, TailAssumption DEF TypeOK
<1>5. ASSUME NEW i \in Inodes, disk[i] # 0, name' = i PROVE name = i
  BY <1>3, <1>4, <1>5
<1>6. ASSUME NEW i \in Inodes, disk[i] # 0, NEW n, NEW o, At(disk[i], n, o)
      PROVE  At(disk[i], n, o)' /\ DigestIn(text[disk[i]], n)' = DigestIn(text[disk[i]], n)
  <2>1. PICK g : g = disk[i]
    OBVIOUS
  <2>2. g = disk'[i] /\ At(g, n, o)
    BY <1>3, <1>6, <2>1
  <2>3. At(g, n, o)' /\ DigestIn(text[g], n)' = DigestIn(text[g], n)
    BY <1>1, <1>2, <2>2, AtStays
  <2> QED BY <2>1, <2>2, <2>3 DEF At
<1>7. Prefixed'
  <2>1. ASSUME pc' = "landed" PROVE At(disk[handle], chunk.off, chunk.ord)'
    <3>1. pc = "landed" /\ handle \in Inodes /\ disk[handle] # 0 /\ At(disk[handle], chunk.off, chunk.ord)
      BY <1>1, <1>3, <1>4, <2>1 DEF Prefixed, Reading, Holding
    <3>2. PICK i \in Inodes, n \in Nat, o \in Nat : i = handle /\ n = chunk.off /\ o = chunk.ord
      BY <1>1, <3>1 DEF TypeOK
    <3>3. At(disk[i], n, o)'
      BY <1>6, <3>1, <3>2
    <3> QED BY <1>3, <3>2, <3>3
  <2>2. ASSUME pc' # "landed", cursor'.ino = None PROVE landed' = {}
    BY <1>1, <1>3, <2>2 DEF Prefixed
  <2>3. ASSUME pc' # "landed", cursor'.ino # None PROVE (\E g, n, o : At(g, n, o))'
    <3>1. PICK g, n, o : At(g, n, o)
      BY <1>1, <1>3, <2>3 DEF Prefixed
    <3>2. At(g, n, o)'
      BY <1>1, <1>2, <3>1, AtStays
    <3> QED BY <3>2
  <2> QED BY <2>1, <2>2, <2>3 DEF Prefixed
<1>8. Follows'
  <2>1. cursor'.ino = None => cursor'.off = 0 /\ cursor'.ord = 0
    BY <1>1, <1>3 DEF Follows
  <2>2. cursor'.ino # None => disk'[cursor'.ino] # 0
    BY <1>1, <1>3, <1>4 DEF Follows
  <2>3. ASSUME cursor'.ino # None, pc' # "landed", name' = cursor'.ino \/ pc' # "idle"
        PROVE  At(disk[cursor.ino], cursor.off, cursor.ord)' /\ cursor'.dig = DigestIn(text[disk[cursor.ino]], cursor.off)'
    <3>1. PICK i \in Inodes, n \in Nat, o \in Nat : i = cursor.ino /\ n = cursor.off /\ o = cursor.ord
      BY <1>1, <1>3, <1>4, <2>3 DEF TypeOK
    <3>2. disk[i] # 0 /\ (name' = i => name = i)
      BY <1>1, <1>3, <1>5, <2>3, <3>1 DEF Follows
    <3>3. At(disk[i], n, o) /\ cursor.dig = DigestIn(text[disk[i]], n)
      BY <1>1, <1>3, <2>3, <3>1, <3>2 DEF Follows
    <3>4. At(disk[i], n, o)' /\ DigestIn(text[disk[i]], n)' = DigestIn(text[disk[i]], n)
      BY <1>6, <3>2, <3>3
    <3>5. disk'[i] = disk[i] /\ cursor' = cursor
      BY <1>3, <3>2
    <3> QED BY <3>1, <3>3, <3>4, <3>5
  <2> QED BY <2>1, <2>2, <2>3 DEF Follows
<1>9. Reading'
  <2>1. pc' # "idle" => seen'.ino # None /\ disk'[seen'.ino] # 0 /\ cursor'.ino \in {None, seen'.ino}
    BY <1>1, <1>3, <1>4 DEF Reading
  <2>2. ASSUME pc' \in Holding
        PROVE  handle' # None /\ disk'[handle'] # 0 /\ (name' = seen'.ino => handle' = seen'.ino)
    <3>1. handle # None /\ disk[handle] # 0 /\ (name = seen.ino => handle = seen.ino)
      BY <1>1, <1>3, <2>2 DEF Reading
    <3>2. seen.ino # None /\ disk[seen.ino] # 0
      BY <1>1, <1>3, <2>2 DEF Reading, Holding
    <3>3. name' = seen.ino => name = seen.ino
      BY <1>4, <1>5, <3>2
    <3> QED BY <1>3, <1>4, <3>1, <3>3
  <2>3. (pc' \in {"verified", "growing"} /\ cursor'.ino # None) => handle' = cursor'.ino
    BY <1>1, <1>3 DEF Reading
  <2> QED BY <2>1, <2>2, <2>3 DEF Reading
<1>10. ConflictIsReal'
  BY <1>1, <1>2, <1>3 DEF ConflictIsReal, Grown, TypeOK
<1> QED BY <1>2, <1>7, <1>8, <1>9, <1>10 DEF TailInv

(***************************************************************************)
(* Digests.                                                                *)
(***************************************************************************)
LEMMA DigestTyped ==
    ASSUME TypeOK, NEW g \in Contents, NEW n \in Nat
    PROVE  DigestIn(text[g], n) \in Digests /\ DigestIn(text[g], n) # None
<1> DEFINE t == text[g]  from == IF n > TailWindow THEN n - TailWindow ELSE 0
<1>1. TailWindow \in Nat /\ from \in Nat /\ n - from \in 0 .. TailWindow
  BY TailAssumption
<1>2. t \in Seq(Int) /\ \A i \in 1 .. Len(t) : t[i] \in Contents \cup {NL, Pad}
  BY SMTT(30), TextsAre DEF TypeOK
<1>3. DigestIn(t, n) = [k \in 1 .. n - from |-> IF from + k <= Len(t) THEN t[from + k] ELSE Pad]
  BY DEF DigestIn
<1> HIDE DEF t, from
<1>4. \A k \in 1 .. n - from : (IF from + k <= Len(t) THEN t[from + k] ELSE Pad) \in Contents \cup {NL, Pad}
  <2> TAKE k \in 1 .. n - from
  <2>1. from + k \in Nat \ {0} /\ Len(t) \in Nat
    BY <1>1, <1>2
  <2>2. from + k <= Len(t) => from + k \in 1 .. Len(t)
    BY <2>1
  <2> QED BY <1>2, <2>2
<1>5. DigestIn(t, n) \in [1 .. n - from -> Contents \cup {NL, Pad}]
  BY <1>3, <1>4
<1>6. DigestIn(t, n) \in Digests
  BY <1>1, <1>5 DEF Digests
<1> QED BY <1>6, TailAssumption DEF t

\* A digest that covers the end of a line names the content: the byte before a newline is
\* a byte of that content.
LEMMA DigestTells ==
    ASSUME TypeOK, NEW g \in Contents, NEW h \in Contents, NEW n \in 1 .. Len(text[g]), text[g][n] = NL,
           DigestIn(text[h], n) = DigestIn(text[g], n)
    PROVE  g = h
<1> DEFINE t == text[g]  u == text[h]  from == IF n > TailWindow THEN n - TailWindow ELSE 0
<1>1. /\ t \in Seq(Int) /\ u \in Seq(Int) /\ Len(t) \in Nat /\ Len(u) \in Nat
      /\ \A i \in 1 .. Len(t) : t[i] \in {g, NL} /\ (t[i] = NL => i > 1 /\ t[i - 1] # NL)
      /\ \A i \in 1 .. Len(u) : u[i] \in {h, NL}
  <2>1. t \in Texts(g) /\ u \in Texts(h)
    BY DEF TypeOK
  <2> HIDE DEF t, u
  <2>2. /\ t \in Seq(Int) /\ Len(t) \in Nat
        /\ \A i \in 1 .. Len(t) : t[i] \in {g, NL} /\ (t[i] = NL => i > 1 /\ t[i - 1] # NL)
    BY <2>1, TextsAre
  <2>3. u \in Seq(Int) /\ Len(u) \in Nat /\ \A i \in 1 .. Len(u) : u[i] \in {h, NL}
    BY <2>1, TextsAre
  <2> QED BY <2>2, <2>3
<1>2. n \in Nat /\ n > 1 /\ n - 1 \in 1 .. Len(t) /\ t[n - 1] = g
  <2>1. n \in 1 .. Len(t) /\ t[n] = NL
    OBVIOUS
  <2> HIDE DEF t
  <2>2. n > 1 /\ t[n - 1] # NL /\ n \in Nat
    BY <1>1, <2>1
  <2>3. n - 1 \in 1 .. Len(t)
    BY <1>1, <2>1, <2>2
  <2> QED BY <1>1, <2>2, <2>3
<1>3. from \in Nat /\ from <= n - 2
  BY <1>2, TailAssumption
<1>4. /\ DigestIn(t, n) = [k \in 1 .. n - from |-> IF from + k <= Len(t) THEN t[from + k] ELSE Pad]
      /\ DigestIn(u, n) = [k \in 1 .. n - from |-> IF from + k <= Len(u) THEN u[from + k] ELSE Pad]
      /\ DigestIn(t, n) = DigestIn(u, n)
  BY DEF DigestIn
<1> HIDE DEF t, u, from
<1>5. n - 1 - from \in 1 .. n - from /\ from + (n - 1 - from) = n - 1 /\ n - 1 <= Len(t)
  BY SMTT(30), <1>1, <1>2, <1>3
<1>6. t[n - 1] = IF n - 1 <= Len(u) THEN u[n - 1] ELSE Pad
  BY <1>4, <1>5
<1>7. n - 1 <= Len(u) => u[n - 1] \in {h, NL}
  BY <1>1, <1>2
<1> QED BY <1>2, <1>6, <1>7, TailAssumption DEF Contents, NL, Pad

(***************************************************************************)
(* The reader, step by step.                                               *)
(***************************************************************************)
\* An attempt ends without having landed: the cursor keeps its place.
LEMMA LeaveKeeps ==
    ASSUME TailInv, pc # "landed", Leaves, UNCHANGED <<source, landed>>,
           NEW s \in {"active", "source_gone", "conflict"}, cursor' = [cursor EXCEPT !.state = s],
           s = "conflict" => born > 1
    PROVE  TailInv'
<1>1. TypeOK /\ OnDisk /\ Prefixed /\ Follows
  BY DEF TailInv
<1>2. /\ UNCHANGED <<text, disk, name, born, landed>>
      /\ pc' = "idle" /\ seen' = Unseen /\ handle' = None /\ chunk' = Nothing
  BY DEF Leaves, source
<1>3. /\ cursor'.ino = cursor.ino /\ cursor'.off = cursor.off /\ cursor'.ord = cursor.ord /\ cursor'.dig = cursor.dig
      /\ cursor'.state = s
      /\ cursor' \in [ino : Inodes \cup {None}, off : Nat, ord : Nat, dig : Digests \cup {None},
                      state : {"active", "source_gone", "conflict"}]
  BY <1>1 DEF TypeOK
<1>4. TypeOK'
  BY <1>1, <1>2, <1>3 DEF TypeOK, Phases, Unseen, Nothing
<1>5. \A g, n, o : At(g, n, o) => At(g, n, o)'
  BY <1>2 DEF At
<1>6. Prefixed'
  BY <1>1, <1>2, <1>3, <1>5 DEF Prefixed
<1>7. Follows'
  <2>1. ASSUME cursor.ino # None, name = cursor.ino PROVE At(disk[cursor.ino], cursor.off, cursor.ord)'
    <3>1. At(disk[cursor.ino], cursor.off, cursor.ord)
      BY <1>1, <2>1 DEF Follows
    <3> QED BY <1>2, <1>3, <3>1 DEF At
  <2> QED BY <1>1, <1>2, <1>3, <2>1 DEF Follows
<1>8. OnDisk' /\ Reading' /\ ConflictIsReal'
  BY <1>1, <1>2, <1>3 DEF OnDisk, Reading, ConflictIsReal, Holding
<1> QED BY <1>4, <1>6, <1>7, <1>8 DEF TailInv

\* An attempt goes on without landing.
LEMMA AdvanceKeeps ==
    ASSUME TailInv, pc # "landed", pc' # "landed", UNCHANGED <<source, cursor, landed>>,
           pc = "idle" => cursor.ino \in {None, name}, TypeOK', Reading'
    PROVE  TailInv'
<1>1. TypeOK /\ OnDisk /\ Prefixed /\ Follows /\ ConflictIsReal
  BY DEF TailInv
<1>2. UNCHANGED <<text, disk, name, born, cursor, landed>>
  BY DEF source
<1>3. \A g, n, o : At(g, n, o) => At(g, n, o)'
  BY <1>2 DEF At
<1>4. Prefixed'
  BY <1>1, <1>2, <1>3 DEF Prefixed
<1>5. Follows'
  <2>1. ASSUME cursor.ino # None, name = cursor.ino \/ pc' # "idle"
        PROVE  At(disk[cursor.ino], cursor.off, cursor.ord)' /\ cursor.dig = DigestIn(text[disk[cursor.ino]], cursor.off)
    <3>1. /\ At(disk[cursor.ino], cursor.off, cursor.ord)
          /\ cursor.dig = DigestIn(text[disk[cursor.ino]], cursor.off)
      BY <1>1, <2>1 DEF Follows
    <3> QED BY <1>2, <3>1 DEF At
  <2> QED BY <1>1, <1>2, <2>1 DEF Follows
<1> QED BY <1>1, <1>2, <1>4, <1>5 DEF TailInv, OnDisk, ConflictIsReal

\* While the path has had one content, every inode anyone remembers is the one it leads to.
LEMMA OneInode ==
    ASSUME TypeOK, OnDisk, ~(born > 1), NEW i \in Inodes, NEW j \in Inodes, disk[i] # 0, disk[j] # 0
    PROVE  i = j
BY TailAssumption DEF TypeOK, OnDisk

LEMMA StatKeeps == ASSUME TailInv, Stat PROVE TailInv'
<1>1. TypeOK /\ OnDisk /\ Prefixed /\ Follows /\ Reading
  BY DEF TailInv
<1>2. pc = "idle" /\ cursor.ino \in Inodes \cup {None} /\ cursor.off \in Nat
  BY <1>1 DEF Stat, TypeOK
<1>3. CASE name = None
  BY <1>2, <1>3, LeaveKeeps DEF Stat, Gone
<1>4. CASE name # None
  <2> DEFINE st == [ino |-> name, size |-> Len(Bytes(name))]
  <2>1. /\ name \in Inodes /\ disk[name] # 0 /\ disk[name] \in Contents /\ Bytes(name) = text[disk[name]]
        /\ Len(Bytes(name)) \in Nat
    BY <1>1, <1>4, TailAssumption DEF TypeOK, OnDisk, Bytes, Contents
  <2>2. st.ino = name /\ st.size = Len(text[disk[name]])
    BY <2>1
  <2>3. CASE AnotherFile(st)
    <3>1. Conflicts
      BY <1>4, <2>3 DEF Stat
    <3>2. cursor.ino # None
      BY <1>1, <2>3 DEF AnotherFile, Fresh, Follows
    <3>3. ASSUME ~(born > 1) PROVE FALSE
      <4>1. cursor.ino = name
        BY <1>1, <1>2, <2>1, <3>2, <3>3, OneInode DEF Follows
      <4>2. At(disk[name], cursor.off, cursor.ord)
        BY <1>1, <1>2, <3>2, <4>1 DEF Follows
      <4>3. cursor.off <= Len(text[disk[name]]) /\ Len(text[disk[name]]) \in Nat
        BY <2>1, <4>2 DEF At
      <4> QED BY <1>2, <2>2, <2>3, <4>1, <4>3 DEF AnotherFile
    <3> QED BY <1>2, <3>1, <3>3, LeaveKeeps DEF Conflicts
  <2>4. CASE ~AnotherFile(st)
    <3>1. seen' = st /\ pc' = "stated" /\ UNCHANGED <<source, cursor, landed, handle, chunk>>
      BY <1>4, <2>4 DEF Stat
    <3>2. cursor.ino \in {None, name}
      BY <2>2, <2>4 DEF AnotherFile, Fresh
    <3>3. TypeOK'
      BY <1>1, <2>1, <3>1 DEF TypeOK, source, Phases
    <3>4. Reading'
      BY <1>1, <2>1, <2>2, <3>1, <3>2, TailAssumption DEF Reading, Holding, source
    <3> QED BY <1>2, <3>1, <3>2, <3>3, <3>4, AdvanceKeeps
  <2> QED BY <2>3, <2>4
<1> QED BY <1>3, <1>4

LEMMA OpenKeeps == ASSUME TailInv, Open PROVE TailInv'
<1>1. TypeOK /\ OnDisk /\ Follows /\ Reading /\ ConflictIsReal /\ pc = "stated"
  BY DEF TailInv, Open
<1>2. CASE Gone
  BY <1>1, <1>2, LeaveKeeps DEF Gone
<1>3. CASE Leaves /\ UNCHANGED <<source, cursor, landed>>
  <2>1. cursor' = [cursor EXCEPT !.state = cursor.state] /\ cursor.state \in {"active", "source_gone", "conflict"}
    BY <1>1, <1>3 DEF TypeOK
  <2> QED BY <1>1, <1>3, <2>1, LeaveKeeps DEF ConflictIsReal
<1>4. CASE name # None /\ handle' = name /\ pc' = "opened" /\ UNCHANGED <<source, cursor, landed, seen, chunk>>
  <2>1. name \in Inodes /\ disk[name] # 0
    BY <1>1, <1>4 DEF TypeOK, OnDisk
  <2>2. TypeOK'
    BY <1>1, <1>4 DEF TypeOK, source, Phases
  <2>3. Reading'
    BY <1>1, <1>4, <2>1, TailAssumption DEF Reading, Holding, source
  <2> QED BY <1>1, <1>4, <2>2, <2>3, AdvanceKeeps
<1> QED BY <1>2, <1>3, <1>4 DEF Open

LEMMA VerifyKeeps == ASSUME TailInv, Verify PROVE TailInv'
<1>1. TypeOK /\ OnDisk /\ Follows /\ Reading /\ pc = "opened"
  BY DEF TailInv, Verify
<1>2. /\ handle \in Inodes /\ disk[handle] # 0 /\ disk[handle] \in Contents /\ None \notin Inodes
      /\ Bytes(handle) = text[disk[handle]]
      /\ cursor.ino \in Inodes \cup {None} /\ cursor.off \in Nat
  BY <1>1, TailAssumption DEF TypeOK, Reading, Holding, Bytes, Contents
<1>3. Digest(handle, cursor.off) = DigestIn(text[disk[handle]], cursor.off)
  BY <1>2 DEF Digest, DigestIn
<1>4. ASSUME cursor.ino # None
      PROVE  /\ cursor.ino \in Inodes /\ disk[cursor.ino] # 0 /\ disk[cursor.ino] \in Contents
             /\ At(disk[cursor.ino], cursor.off, cursor.ord)
             /\ cursor.dig = DigestIn(text[disk[cursor.ino]], cursor.off) /\ cursor.dig # None
  <2>1. cursor.ino \in Inodes /\ disk[cursor.ino] # 0 /\ disk[cursor.ino] \in Contents
    BY SMTT(30), <1>1, <1>2, <1>4, TailAssumption DEF Follows, TypeOK, Contents
  <2>2. At(disk[cursor.ino], cursor.off, cursor.ord) /\ cursor.dig = DigestIn(text[disk[cursor.ino]], cursor.off)
    BY <1>1, <1>4 DEF Follows
  <2> QED BY <1>1, <1>2, <2>1, <2>2, DigestTyped
<1>5. CASE Rewritten
  <2>1. Conflicts
    BY <1>5 DEF Verify
  <2>2. cursor.ino # None
    BY <1>1, <1>5 DEF Rewritten, Fresh, Follows
  <2>3. ASSUME ~(born > 1) PROVE FALSE
    <3>1. handle = cursor.ino
      BY <1>1, <1>2, <1>4, <2>2, <2>3, OneInode
    <3> QED BY <1>3, <1>4, <1>5, <2>2, <3>1 DEF Rewritten
  <2> QED BY <1>1, <2>1, <2>3, LeaveKeeps DEF Conflicts
<1>6. CASE ~Rewritten
  <2>1. pc' = "verified" /\ UNCHANGED <<source, cursor, landed, seen, handle, chunk>>
    BY <1>6 DEF Verify, memory
  <2>2. ASSUME cursor.ino # None PROVE handle = cursor.ino
    <3>1. DigestIn(text[disk[handle]], cursor.off) = DigestIn(text[disk[cursor.ino]], cursor.off)
      BY <1>3, <1>4, <1>6, <2>2 DEF Rewritten, Fresh
    <3>2. cursor.off \in 1 .. Len(text[disk[cursor.ino]]) /\ text[disk[cursor.ino]][cursor.off] = NL
      BY <1>4, <2>2 DEF At
    <3>3. disk[cursor.ino] = disk[handle]
      BY <1>1, <1>2, <1>4, <2>2, <3>1, <3>2, DigestTells
    <3> QED BY <1>1, <1>2, <1>4, <2>2, <3>3 DEF OnDisk
  <2>3. TypeOK'
    BY <1>1, <2>1 DEF TypeOK, source, Phases
  <2>4. Reading'
    BY <1>1, <2>1, <2>2 DEF Reading, Holding, source
  <2> QED BY <1>1, <2>1, <2>3, <2>4, AdvanceKeeps
<1> QED BY <1>5, <1>6

\* The window lands behind what has landed, and the chunk says how far.
LEMMA LandKeeps ==
    ASSUME TailInv, pc \in {"verified", "growing"}, NEW x \in Nat, LandLines(ReadWindow(x))
    PROVE  TailInv'
<1> DEFINE b == ReadWindow(x)  t == text[disk[handle]]  off == cursor.off
<1>1. TypeOK /\ OnDisk /\ Prefixed /\ Follows /\ Reading /\ ConflictIsReal
  BY DEF TailInv
<1>2. /\ handle \in Inodes /\ disk[handle] # 0 /\ disk[handle] \in Contents /\ disk[handle] \in 1 .. born
      /\ Bytes(handle) = t /\ t \in Seq(Int) /\ Len(t) \in Nat
      /\ cursor.off \in Nat /\ cursor.ord \in Nat /\ seen.size \in Nat
  BY SMTT(30), <1>1, TailAssumption DEF TypeOK, Reading, Holding, Bytes, Contents
<1>3. CASE LineEnds(b) = {}
  <2>1. Leaves /\ UNCHANGED <<source, cursor, landed>>
    BY <1>3 DEF LandLines
  <2>2. cursor' = [cursor EXCEPT !.state = cursor.state] /\ cursor.state \in {"active", "source_gone", "conflict"}
    BY <1>1, <2>1 DEF TypeOK
  <2> QED BY <1>1, <2>1, <2>2, LeaveKeeps DEF ConflictIsReal
<1>4. CASE LineEnds(b) # {}
  <2>1. /\ landed' = landed \cup Lines(b)
        /\ chunk' = [off |-> off + (Len(b) - Len(SubSeq(b, LastBreak(b) + 1, Len(b)))),
                     ord |-> cursor.ord + Cardinality(Breaks(b))]
        /\ pc' = "landed" /\ UNCHANGED <<source, cursor, seen, handle>>
    BY <1>4 DEF LandLines, LineEnds
  \* What the cursor counts is the beginning of the open file.
  <2>2. /\ off \in 0 .. Len(t) /\ (off = 0 \/ t[off] = NL)
        /\ cursor.ord = Cardinality(Upto(t, off)) /\ landed = LinesOf(t, off)
    <3>1. CASE cursor.ino = None
      <4>1. off = 0 /\ cursor.ord = 0 /\ landed = {}
        BY <1>1, <3>1 DEF Follows, Prefixed
      <4>2. LinesOf(t, 0) = {} /\ Upto(t, 0) = {} /\ Cardinality({}) = 0
        BY <1>2, NoLines, FS_EmptySet
      <4>3. 0 \in 0 .. Len(t) /\ cursor.ord = Cardinality(Upto(t, 0)) /\ landed = LinesOf(t, 0)
        <5>1. 0 \in 0 .. Len(t)
          BY <1>2
        <5> HIDE DEF t
        <5>2. cursor.ord = Cardinality(Upto(t, 0))
          BY <4>1, <4>2
        <5>3. landed = LinesOf(t, 0)
          BY <4>1, <4>2
        <5> QED BY <5>1, <5>2, <5>3
      <4> HIDE DEF t
      <4> QED BY <4>1, <4>3
    <3>2. CASE cursor.ino # None
      <4>1. handle = cursor.ino
        BY <1>1, <3>2 DEF Reading
      <4>2. At(disk[handle], off, cursor.ord)
        BY <1>1, <3>2, <4>1 DEF Follows
      <4> QED BY <1>2, <4>2 DEF At
    <3> QED BY <3>1, <3>2
  <2>3. PICK m \in Nat : m <= Len(t) /\ b = SubSeq(t, off + 1, m)
    <3> DEFINE to == IF x > 0 /\ seen.size > off + x THEN off + x ELSE seen.size
    <3>1. to \in Nat /\ b = SubSeq(t, off + 1, Min({to, Len(t)}))
      BY <1>2 DEF ReadWindow
    <3> HIDE DEF to
    <3>2. Min({to, Len(t)}) \in Nat /\ Min({to, Len(t)}) <= Len(t)
      <4>1. to \in Int /\ Len(t) \in Nat /\ Len(t) \in Int
        BY <1>2, <3>1
      <4>2. Min({to, Len(t)}) = IF to <= Len(t) THEN to ELSE Len(t)
        <5> HIDE DEF t
        <5> QED BY <4>1, MinOfTwo
      <4> QED BY <3>1, <4>1, <4>2
    <3> QED BY <3>1, <3>2
  <2>4. WindowOf(t, off, m, b) /\ Breaks(b) # {}
    BY <1>2, <1>4, <2>2, <2>3 DEF WindowOf, LineEnds
  <2>5. b \in Seq(Int) /\ Len(b) \in Nat
    <3> HIDE DEF b, t, off
    <3> QED BY <2>4, WindowIs
  <2> DEFINE l == LastBreak(b)
  <2>6. /\ LinesOf(t, off + l) = LinesOf(t, off) \cup {WindowLine(t, off, b, e) : e \in Breaks(b)}
        /\ Cardinality(Upto(t, off + l)) = Cardinality(Upto(t, off)) + Cardinality(Breaks(b))
        /\ l \in 1 .. Len(b) /\ off + l <= Len(t) /\ t[off + l] = NL
    <3> HIDE DEF b, t, off
    <3> QED BY <2>4, WindowLines
  <2>7. Lines(b) = {WindowLine(t, off, b, e) : e \in Breaks(b)}
    <3>1. ASSUME NEW e \in Breaks(b)
          PROVE  WindowLine(t, off, b, e) =
                   LET start == SelectLastInSubSeq(b, 1, e - 1, LAMBDA c : c = NL) + 1
                   IN  [ord |-> cursor.ord + Cardinality({k \in LineEnds(b) : k <= e}),
                        off |-> cursor.off + (start - 1),
                        body |-> SubSeq(b, start, e)]
      <4>1. e - 1 \in Int /\ e - 1 <= Len(b)
        <5> HIDE DEF b
        <5> QED BY <2>5 DEF Breaks
      <4>2. LastUpto(b, e - 1) \in Nat
        <5> HIDE DEF b
        <5> QED BY <2>5, <4>1, LastUptoIs
      <4>3. (LastUpto(b, e - 1) + 1) - 1 = LastUpto(b, e - 1)
        BY <4>2
      <4> HIDE DEF b, t
      <4> QED BY <2>2, <4>3 DEF WindowLine, Upto, LastUpto, LineEnds
    <3> HIDE DEF b, t
    <3> QED BY <3>1 DEF Lines, LineEnds
  <2>8. chunk'.off = off + l /\ chunk'.ord = cursor.ord + Cardinality(Breaks(b))
    <3>1. l + 1 \in Int /\ Len(b) \in Int /\ \A i \in l + 1 .. Len(b) : b[i] \in Int
      <4> HIDE DEF b
      <4> QED BY <2>5, <2>6
    <3>2. Len(SubSeq(b, l + 1, Len(b))) = IF l + 1 <= Len(b) THEN Len(b) - (l + 1) + 1 ELSE 0
      <4> HIDE DEF b, l
      <4> QED BY <3>1, SubSeqProperties
    <3>3. Len(b) - Len(SubSeq(b, l + 1, Len(b))) = l
      <4> HIDE DEF b, l
      <4> QED BY <2>5, <2>6, <3>2
    <3> HIDE DEF b
    <3> QED BY <2>1, <3>3
  <2>9. Cardinality(Breaks(b)) \in Nat
    <3> HIDE DEF b
    <3> QED BY <2>5, UptoFinite
  <2>10. off + l \in 1 .. Len(t)
    <3> HIDE DEF b, l, t
    <3> QED BY SMTT(30), <1>2, <2>5, <2>6
  <2>11. UNCHANGED <<text, disk, name, born, cursor, seen, handle>> /\ pc' = "landed"
    BY <2>1 DEF source
  <2>12. TypeOK'
    <3>1. chunk' \in [off : Nat, ord : Nat]
      <4>1. chunk'.off \in Nat /\ chunk'.ord \in Nat
        <5> HIDE DEF b, l, t
        <5> QED BY <1>2, <2>8, <2>9, <2>10
      <4>2. chunk' = [off |-> chunk'.off, ord |-> chunk'.ord]
        <5> HIDE DEF b, l, t
        <5> QED BY <2>1
      <4> HIDE DEF b, l, t
      <4> QED BY <4>1, <4>2
    <3> HIDE DEF b, l, t
    <3> QED BY <1>1, <2>11, <3>1 DEF TypeOK, Phases
  <2>13. /\ landed' = LinesOf(t, chunk'.off) /\ chunk'.ord = Cardinality(Upto(t, chunk'.off))
         /\ chunk'.off \in 1 .. Len(t) /\ t[chunk'.off] = NL
    <3> HIDE DEF b, l, t
    <3> QED BY <2>1, <2>2, <2>6, <2>7, <2>8, <2>10
  <2>14. At(disk[handle], chunk.off, chunk.ord)'
    BY <1>2, <2>11, <2>13 DEF At
  <2>15. Prefixed'
    BY <2>11, <2>14 DEF Prefixed
  <2>16. Follows' /\ Reading' /\ OnDisk' /\ ConflictIsReal'
    BY <1>1, <2>11 DEF Follows, Reading, Holding, OnDisk, ConflictIsReal
  <2> QED BY <2>12, <2>15, <2>16 DEF TailInv
<1> QED BY <1>3, <1>4

LEMMA CommitKeeps == ASSUME TailInv, Commit PROVE TailInv'
<1>1. TypeOK /\ OnDisk /\ Prefixed /\ Reading /\ pc = "landed"
  BY DEF TailInv, Commit
<1>2. /\ cursor' = [ino |-> seen.ino, off |-> chunk.off, ord |-> chunk.ord, dig |-> DigestAfter, state |-> "active"]
      /\ pc' = "idle" /\ seen' = Unseen /\ handle' = None /\ chunk' = Nothing
      /\ UNCHANGED <<text, disk, name, born, landed>>
  BY DEF Commit, Leaves, source
<1>3. /\ seen.ino \in Inodes /\ disk[seen.ino] # 0
      /\ handle \in Inodes /\ disk[handle] # 0 /\ (name = seen.ino => handle = seen.ino)
      /\ chunk.off \in Nat /\ chunk.ord \in Nat /\ None \notin Inodes
      /\ At(disk[handle], chunk.off, chunk.ord)
  BY <1>1, TailAssumption DEF TypeOK, Reading, Holding, Prefixed
<1>4. ASSUME name # None
      PROVE  /\ DigestAfter = DigestIn(text[disk[name]], chunk.off)
             /\ DigestAfter \in Digests
  <2>1. name \in Inodes /\ disk[name] # 0 /\ disk[name] \in Contents /\ Bytes(name) = text[disk[name]]
    BY <1>1, <1>4, TailAssumption DEF TypeOK, OnDisk, Bytes, Contents
  <2>2. DigestAfter = DigestIn(text[disk[name]], chunk.off)
    BY <1>4, <2>1 DEF DigestAfter, Digest, DigestIn
  <2> QED BY <1>1, <1>3, <2>1, <2>2, DigestTyped
<1>5. DigestAfter \in Digests \cup {None}
  BY <1>4 DEF DigestAfter
<1>6. TypeOK'
  BY <1>1, <1>2, <1>3, <1>5 DEF TypeOK, Phases, Unseen, Nothing
<1>7. At(disk[handle], chunk.off, chunk.ord) => \E g, n, o : At(g, n, o)'
  <2>1. \A g, n, o : At(g, n, o) => At(g, n, o)'
    BY <1>2 DEF At
  <2> QED BY <2>1
<1>8. Prefixed'
  BY <1>2, <1>3, <1>7 DEF Prefixed
<1>9. Follows'
  <2>1. ASSUME name = seen.ino
        PROVE  /\ At(disk[cursor.ino], cursor.off, cursor.ord)'
               /\ cursor'.dig = DigestIn(text[disk[seen.ino]], chunk.off)
    <3>1. handle = seen.ino /\ name # None
      BY <1>3, <2>1
    <3>2. cursor'.ino = handle /\ cursor'.off = chunk.off /\ cursor'.ord = chunk.ord /\ cursor'.dig = DigestAfter
      BY <1>2, <3>1
    <3>3. At(disk[cursor.ino], cursor.off, cursor.ord)'
      BY <1>2, <1>3, <3>2 DEF At
    <3> QED BY <1>4, <2>1, <3>1, <3>2, <3>3
  <2> QED BY <1>2, <1>3, <2>1 DEF Follows
<1>10. Reading' /\ OnDisk' /\ ConflictIsReal'
  BY <1>1, <1>2, <1>3 DEF Reading, Holding, OnDisk, ConflictIsReal
<1> QED BY <1>6, <1>8, <1>9, <1>10 DEF TailInv

LEMMA NextTail == TailInv /\ [Next]_vars => TailInv'
<1> SUFFICES ASSUME TailInv, [Next]_vars PROVE TailInv'
  OBVIOUS
<1>1. CASE Runtime
  BY <1>1, RuntimeKeeps
<1>2. CASE Stat
  BY <1>2, StatKeeps
<1>3. CASE Open
  BY <1>3, OpenKeeps
<1>4. CASE Verify
  BY <1>4, VerifyKeeps
<1>5. CASE Read
  <2>1. pc = "verified" /\ Budget \in Nat
    BY <1>5, TailAssumption DEF Read
  <2>2. CASE LandLines(ReadWindow(Budget))
    BY <2>1, <2>2, LandKeeps
  <2>3. CASE pc' = "growing" /\ UNCHANGED <<source, cursor, landed, memory>>
    <3>1. TypeOK' /\ Reading'
      BY <2>1, <2>3 DEF TailInv, TypeOK, Reading, Holding, Phases, source, memory
    <3> QED BY <2>1, <2>3, <3>1, AdvanceKeeps
  <2> QED BY <1>5, <2>2, <2>3 DEF Read
<1>6. CASE ReadGrown
  BY <1>6, LandKeeps DEF ReadGrown
<1>7. CASE Commit
  BY <1>7, CommitKeeps
<1>8. CASE UNCHANGED vars
  BY SMTT(30), <1>8 DEF vars, TailInv, TypeOK, OnDisk, Prefixed, Follows, Reading, ConflictIsReal, At
<1> QED BY <1>1, <1>2, <1>3, <1>4, <1>5, <1>6, <1>7, <1>8 DEF Next, Reader, SkipConflicted

LEMMA AlwaysTail == Spec => []TailInv
BY InitTail, NextTail, PTL DEF Spec

\* What has landed is the beginning of one content, line by line, with nothing torn,
\* skipped, repeated or spliced, whatever the runtime does between two looks of the reader.
THEOREM LandsOneContent == Spec => []LandsAPrefix
BY AlwaysTail, InvLandsAPrefix, PTL

\* A file that was only ever appended to is never taken for a changed one, wherever the
\* reader looks at it between two appends.
THEOREM ConflictsAreReal == Spec => []ConflictIsReal
<1>1. TailInv => ConflictIsReal
  BY DEF TailInv
<1> QED BY <1>1, AlwaysTail, PTL
=============================================================================
