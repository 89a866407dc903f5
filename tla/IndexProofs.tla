----------------------------- MODULE IndexProofs ----------------------------
(***************************************************************************)
(* What becomes of the records of an index dropping, from addWrite to the  *)
(* answer of a lookup (src/Index.cpp), for any writes of any processes and *)
(* every window size.                                                      *)
(***************************************************************************)
EXTENDS PatternLookup, FiniteSetTheorems, SequenceTheorems, WellFoundedInduction, TLAPS

(* An element of the encoder's stack, as in PatternDetect.                  *)
Elem == [seq : Seq(Int), cnt : Nat]

LEMMA WithCount ==
  ASSUME NEW t \in Elem, NEW m \in Nat
  PROVE  /\ [t EXCEPT !.cnt = m] \in Elem
         /\ [t EXCEPT !.cnt = m].seq = t.seq /\ [t EXCEPT !.cnt = m].cnt = m
  BY DEF Elem

LEMMA WithSeq ==
  ASSUME NEW t \in Elem, NEW q \in Seq(Int)
  PROVE  /\ [t EXCEPT !.seq = q] \in Elem
         /\ [t EXCEPT !.seq = q].seq = q /\ [t EXCEPT !.seq = q].cnt = t.cnt
  BY DEF Elem

(* Arithmetic of repetitions.                                               *)
LEMMA Product == \A a, b \in Nat : a * b \in Nat
  OBVIOUS

LEMMA NextTurn == \A a, b \in Nat : a * (b + 1) = a * b + a /\ (b + 1) * a = a * b + a
  OBVIOUS

LEMMA AndTurns == \A a, c, r \in Nat : (c + r) * a = a * c + r * a
  OBVIOUS

(* Turn q of b turns of length a, and a place s in it, lie within a * b.    *)
LEMMA WithinTurns ==
  ASSUME NEW a \in Nat, NEW b \in Nat, NEW q \in 0..(b - 1), NEW s \in 1..a
  PROVE  q * a + s \in 1..(a * b)
<1>1. q * a \in Nat /\ a * b \in Nat
  BY Product
<1>2. (q + 1) * a <= a * b
  <2>1. PICK d \in Nat : b = (q + 1) + d
    <3>1. b - (q + 1) \in Nat
      OBVIOUS
    <3> QED BY <3>1
  <2>2. a * b = a * (q + 1) + a * d
    BY <2>1
  <2>3. a * d \in Nat /\ a * (q + 1) = (q + 1) * a /\ (q + 1) * a \in Nat
    BY <2>1
  <2> QED BY <2>2, <2>3
<1>3. (q + 1) * a = q * a + a
  BY NextTurn
<1> QED
  BY <1>1, <1>2, <1>3

(* A set of naturals that is not empty has a least one.                     *)
LEMMA LeastNatural ==
  ASSUME NEW S \in SUBSET Nat, S # {}
  PROVE  \E m \in S : \A x \in S : m <= x
<1>1. PICK m \in S : \A x \in S : ~(<<x, m>> \in OpToRel(<, Nat))
  BY WFMin, NatLessThanWellFounded
<1>2. ASSUME NEW x \in S, ~(m <= x) PROVE FALSE
  <2>1. x \in Nat /\ m \in Nat /\ x < m
    BY <1>2
  <2>2. <<x, m>> \in OpToRel(<, Nat)
    BY <2>1 DEF OpToRel
  <2> QED BY <1>1, <2>2
<1> QED BY <1>2

-----------------------------------------------------------------------------
(* Numbers and lists.                                                       *)

(* The n-th of a set of numbers, as in PatternUnits: each of them is one.   *)
Nth(numbers, i) == CHOOSE n \in numbers : Cardinality({m \in numbers : m <= n}) = i

UpTo(S, s) == {m \in S : m <= s}

LEMMA UpToParts ==
  ASSUME NEW S \in SUBSET Nat, IsFiniteSet(S)
  PROVE  /\ Cardinality(S) \in Nat
         /\ \A s \in S : Cardinality(UpTo(S, s)) \in 1..Cardinality(S)
         /\ \A s, t \in S : s < t => Cardinality(UpTo(S, s)) < Cardinality(UpTo(S, t))
<1>1. Cardinality(S) \in Nat
  BY FS_CardinalityType
<1>2. ASSUME NEW s \in S
      PROVE  /\ UpTo(S, s) \in SUBSET S /\ IsFiniteSet(UpTo(S, s)) /\ Cardinality(UpTo(S, s)) \in Nat
             /\ Cardinality(UpTo(S, s)) <= Cardinality(S) /\ Cardinality(UpTo(S, s)) # 0
  <2>1. UpTo(S, s) \in SUBSET S /\ s \in UpTo(S, s)
    BY DEF UpTo
  <2>2. IsFiniteSet(UpTo(S, s)) /\ Cardinality(UpTo(S, s)) <= Cardinality(S)
    BY <2>1, FS_Subset
  <2> QED BY <2>1, <2>2, FS_CardinalityType, FS_EmptySet
<1>3. ASSUME NEW s \in S, NEW t \in S, s < t
      PROVE  Cardinality(UpTo(S, s)) < Cardinality(UpTo(S, t))
  <2>1. UpTo(S, s) \in SUBSET UpTo(S, t) /\ t \in UpTo(S, t) /\ t \notin UpTo(S, s)
    <3>1. s \in Nat /\ t \in Nat
      OBVIOUS
    <3>2. \A m \in S : m <= s => m <= t
      BY <1>3, <3>1
    <3>3. \A m : /\ m \in UpTo(S, s) <=> m \in S /\ m <= s
                 /\ m \in UpTo(S, t) <=> m \in S /\ m <= t
      BY DEF UpTo
    <3>4. t <= t /\ ~(t <= s)
      BY <1>3, <3>1
    <3> QED BY <3>2, <3>3, <3>4
  <2>2. /\ Cardinality(UpTo(S, s)) <= Cardinality(UpTo(S, t))
        /\ Cardinality(UpTo(S, s)) # Cardinality(UpTo(S, t))
    BY <1>2, <2>1, FS_Subset
  <2> QED BY <1>2, <2>2
<1>4. \A s \in S : Cardinality(UpTo(S, s)) \in 1..Cardinality(S)
  <2> TAKE s \in S
  <2> QED BY <1>1, <1>2
<1> QED BY <1>1, <1>3, <1>4

LEMMA Numbers ==
  ASSUME NEW S \in SUBSET Nat, IsFiniteSet(S)
  PROVE  /\ Cardinality(S) \in Nat
         /\ \A i \in 1..Cardinality(S) : Nth(S, i) \in S /\ Cardinality(UpTo(S, Nth(S, i))) = i
         /\ \A i, j \in 1..Cardinality(S) : Nth(S, i) = Nth(S, j) => i = j
         /\ \A s \in S : Nth(S, Cardinality(UpTo(S, s))) = s
         /\ \A s \in S : \E i \in 1..Cardinality(S) : Nth(S, i) = s
<1>1. /\ Cardinality(S) \in Nat
      /\ \A s \in S : Cardinality(UpTo(S, s)) \in 1..Cardinality(S)
      /\ \A s, t \in S : s < t => Cardinality(UpTo(S, s)) < Cardinality(UpTo(S, t))
  BY UpToParts
<1>2. \A s, t \in S : Cardinality(UpTo(S, s)) = Cardinality(UpTo(S, t)) => s = t
  <2> TAKE s \in S, t \in S
  <2>1. s \in Nat /\ t \in Nat /\ Cardinality(UpTo(S, s)) \in Nat /\ Cardinality(UpTo(S, t)) \in Nat
    BY <1>1
  <2>2. ~(s < t /\ Cardinality(UpTo(S, s)) = Cardinality(UpTo(S, t)))
    BY <1>1, <2>1
  <2>3. ~(t < s /\ Cardinality(UpTo(S, s)) = Cardinality(UpTo(S, t)))
    BY <1>1, <2>1
  <2> QED BY <2>1, <2>2, <2>3
<1>3. \A i \in 1..Cardinality(S) : \E s \in S : Cardinality(UpTo(S, s)) = i
  <2>1. PICK I : I = 1..Cardinality(S)
    OBVIOUS
  <2>2. IsFiniteSet(I) /\ Cardinality(I) = Cardinality(S)
    BY <1>1, <2>1, FS_Interval
  <2>3. PICK f : f = [s \in S |-> Cardinality(UpTo(S, s))]
    OBVIOUS
  <2>4. f \in [S -> I]
    BY <1>1, <2>1, <2>3
  <2>5. f \in Injection(S, I)
    BY <1>2, <2>3, <2>4 DEF Injection, IsInjective
  <2>6. f \in Surjection(S, I)
    BY <2>2, <2>5, FS_Injection
  <2> QED BY <2>1, <2>3, <2>6 DEF Surjection
<1>4. \A i : Nth(S, i) = CHOOSE n \in S : Cardinality(UpTo(S, n)) = i
  BY DEF Nth, UpTo
<1>5. \A i \in 1..Cardinality(S) : Nth(S, i) \in S /\ Cardinality(UpTo(S, Nth(S, i))) = i
  BY <1>3, <1>4
<1>6. \A s \in S : Nth(S, Cardinality(UpTo(S, s))) = s
  <2> TAKE s \in S
  <2>1. PICK i : i = Cardinality(UpTo(S, s))
    OBVIOUS
  <2>2. Nth(S, i) \in S /\ Cardinality(UpTo(S, Nth(S, i))) = i
    BY <1>1, <1>5, <2>1
  <2> QED BY <1>2, <2>1, <2>2
<1> QED BY <1>1, <1>5, <1>6

(* FlattenSeq is the last value of a recursive function, of which there is  *)
(* one for every length.                                                    *)
Joined(f, n, ss) == f = [i \in 1..n |-> IF i = 1 THEN ss[i] ELSE f[i - 1] \o ss[i]]

LEMMA JoinedAt ==
  ASSUME NEW f, NEW n \in Nat, NEW ss, Joined(f, n, ss)
  PROVE  \A i \in 1..n : f[i] = IF i = 1 THEN ss[i] ELSE f[i - 1] \o ss[i]
<1> DEFINE h(i) == IF i = 1 THEN ss[i] ELSE f[i - 1] \o ss[i]
<1>1. f = [i \in 1..n |-> h(i)]
  BY DEF Joined
<1> HIDE DEF h
<1>2. \A i \in 1..n : f[i] = h(i)
  BY <1>1
<1> QED BY <1>2 DEF h

LEMMA JoinedExists ==
  ASSUME NEW ss, NEW n \in Nat
  PROVE  \E f : Joined(f, n, ss)
<1> DEFINE Bad == {m \in Nat : ~\E f : Joined(f, m, ss)}
<1> SUFFICES ASSUME Bad # {} PROVE FALSE
  OBVIOUS
<1>1. PICK m \in Bad : \A x \in Bad : m <= x
  <2>1. Bad \in SUBSET Nat
    OBVIOUS
  <2> HIDE DEF Bad
  <2> QED BY <2>1, LeastNatural
<1>2. m # 0
  <2> DEFINE f == [i \in 1..0 |-> ss[i]]
  <2>1. f = [i \in 1..0 |-> IF i = 1 THEN ss[i] ELSE f[i - 1] \o ss[i]]
    OBVIOUS
  <2> HIDE DEF f
  <2>2. Joined(f, 0, ss)
    BY <2>1 DEF Joined
  <2> QED BY <2>2
<1>3. m - 1 \in Nat /\ m - 1 \notin Bad
  BY <1>1, <1>2
<1>4. PICK f : Joined(f, m - 1, ss)
  BY <1>3
<1> DEFINE value(x, i) == x \o ss[i]
           last == IF m = 1 THEN ss[1] ELSE value(f[m - 1], m)
           g == [i \in 1..m |-> IF i = m THEN last ELSE f[i]]
<1>5. \A i \in 1..(m - 1) : f[i] = IF i = 1 THEN ss[i] ELSE f[i - 1] \o ss[i]
  BY <1>3, <1>4, JoinedAt
<1> HIDE DEF value
<1>6. \A i \in 1..m : g[i] = IF i = 1 THEN ss[i] ELSE value(g[i - 1], i)
  <2> TAKE i \in 1..m
  <2>1. CASE i = m /\ i = 1
    BY <2>1
  <2>2. CASE i = m /\ i # 1
    <3>1. g[i] = value(f[m - 1], m) /\ m - 1 \in 1..m /\ m - 1 # m
      BY <1>1, <1>2, <2>2
    <3>2. g[m - 1] = f[m - 1]
      BY <3>1
    <3> QED BY <2>2, <3>1, <3>2
  <2>3. CASE i # m /\ i # 1
    <3>1. i \in 1..(m - 1) /\ i - 1 \in 1..m /\ i - 1 # m
      BY <1>1, <2>3
    <3>2. g[i] = f[i] /\ g[i - 1] = f[i - 1]
      BY <2>3, <3>1
    <3>3. f[i] = value(f[i - 1], i)
      BY <1>5, <2>3, <3>1 DEF value
    <3> QED BY <2>3, <3>2, <3>3
  <2>4. CASE i # m /\ i = 1
    <3>1. 1 \in 1..(m - 1) /\ g[1] = f[1]
      BY <1>1, <1>2, <2>4
    <3> QED BY <1>5, <2>4, <3>1
  <2> QED BY <2>1, <2>2, <2>3, <2>4
<1>7. g = [i \in 1..m |-> g[i]]
  OBVIOUS
<1> HIDE DEF g
<1>8. Joined(g, m, ss)
  BY <1>6, <1>7 DEF Joined, value
<1> QED BY <1>1, <1>8

LEMMA Quotient ==
  ASSUME NEW a \in Nat, NEW b \in Nat \ {0}
  PROVE  /\ a \div b \in Nat /\ a % b \in 0..(b - 1)
         /\ a = b * (a \div b) + (a % b)
OBVIOUS

LEMMA QuotientIs ==
  ASSUME NEW a \in Nat, NEW b \in Nat \ {0}, NEW q \in Nat, NEW m \in 0..(b - 1), a = b * q + m
  PROVE  a \div b = q /\ a % b = m
OBVIOUS

LEMMA QuotientBelow ==
  ASSUME NEW a \in Nat, NEW b \in Nat \ {0}, NEW c \in Nat, a < b * c
  PROVE  a \div b \in Nat /\ a \div b < c
OBVIOUS

LEMMA ProductGrows ==
  ASSUME NEW a \in Nat, NEW b \in Nat, NEW c \in Nat
  PROVE  /\ a * b \in Nat /\ (a <= b => a * c <= b * c)
         /\ a < b /\ c > 0 => a * c < b * c /\ a * c + c <= b * c
<1>1. a * b \in Nat
  OBVIOUS
<1>2. ASSUME a <= b PROVE a * c <= b * c
  <2>1. PICK d \in Nat : b = a + d
    <3>1. b - a \in Nat /\ b = a + (b - a)
      BY <1>2
    <3> QED BY <3>1
  <2>2. b * c = a * c + d * c /\ d * c \in Nat /\ a * c \in Nat
    BY <2>1
  <2> QED BY <2>2
<1>3. ASSUME a < b, c > 0 PROVE a * c < b * c /\ a * c + c <= b * c
  <2>1. PICK d \in Nat : b = (a + 1) + d
    <3>1. b - (a + 1) \in Nat /\ b = (a + 1) + (b - (a + 1))
      BY <1>3
    <3> QED BY <3>1
  <2>2. b * c = (a * c + c) + d * c /\ d * c \in Nat /\ a * c \in Nat
    BY <2>1
  <2> QED BY <1>3, <2>2
<1> QED BY <1>1, <1>2, <1>3

-----------------------------------------------------------------------------
(* PatternLookup.  The elements of build_off_pat's stack stand one after    *)
(* another on the differences; what merging and pushing make of them.       *)

(* A pattern that may be repeated: a sequence that is not empty, some times. *)
Run(e) == e.seq \in Seq(Int) /\ Len(e.seq) \in Nat \ {0} /\ e.cnt \in Nat \ {0}

LEMMA RunParts ==
  ASSUME NEW e, Run(e)
  PROVE  \E q \in Seq(Int), a \in Nat \ {0}, c \in Nat \ {0} :
           q = e.seq /\ a = Len(e.seq) /\ Len(q) = a /\ c = e.cnt /\ U!Size(e) = a * c /\ a * c \in Nat \ {0}
<1>1. PICK q \in Seq(Int), a \in Nat \ {0}, c \in Nat \ {0} : q = e.seq /\ a = Len(e.seq) /\ c = e.cnt
  BY DEF Run
<1>2. U!Size(e) = a * c
  BY <1>1 DEF U!Size
<1>3. a * c \in Nat \ {0}
  BY Z3
<1> QED BY <1>1, <1>2, <1>3

LEMMA RunIs ==
  ASSUME NEW f, NEW q \in Seq(Int), NEW a \in Nat \ {0}, Len(q) = a, NEW c \in Nat \ {0}, f.seq = q, f.cnt = c
  PROVE  Run(f) /\ U!Size(f) = a * c
BY DEF Run, U!Size

(* Element e stands on the differences d after the first st.                *)
On(d, st, e) ==
  \A q \in 0..(e.cnt - 1) : \A s \in 1..Len(e.seq) : d[st + q * Len(e.seq) + s] = e.seq[s]

(* It is made of some of them and stands on those from st to the it-th.     *)
Stretch(d, st, e, it) == Run(e) /\ On(d, st, e) /\ st + U!Size(e) = it

(* The k differences before a point are the k after it.                     *)
Alike(d, it, k) == \A j \in 1..k : d[it - k + j] = d[it + j]

(* A window of a list.                                                      *)
LEMMA WindowOf ==
  ASSUME NEW d \in Seq(Int), NEW i \in Nat, NEW k \in Nat \ {0}, i + k <= Len(d)
  PROVE  /\ SubSeq(d, i + 1, i + k) \in Seq(Int) /\ Len(SubSeq(d, i + 1, i + k)) = k
         /\ \A j \in 1..k : SubSeq(d, i + 1, i + k)[j] = d[i + j]
<1>1. PICK lo \in Int, hi \in Int : lo = i + 1 /\ hi = i + k
  OBVIOUS
<1>2. \A j \in lo..hi : d[j] \in Int
  <2>1. Len(d) \in Nat /\ \A j \in lo..hi : j \in 1..Len(d)
    BY <1>1, LenProperties
  <2> QED BY <2>1, ElementOfSeq
<1>3. /\ SubSeq(d, lo, hi) \in Seq(Int)
      /\ Len(SubSeq(d, lo, hi)) = IF lo <= hi THEN hi - lo + 1 ELSE 0
      /\ \A j \in 1..(hi - lo + 1) : SubSeq(d, lo, hi)[j] = d[lo + j - 1]
  BY <1>2, SubSeqProperties
<1>4. lo <= hi /\ hi - lo + 1 = k /\ \A j \in 1..k : lo + j - 1 = i + j
  BY <1>1
<1> QED BY <1>1, <1>3, <1>4

LEMMA OneMoreOn ==
  ASSUME NEW d, NEW st \in Nat, NEW e, NEW it \in Nat, Stretch(d, st, e, it),
         NEW k, k = Len(e.seq), Alike(d, it, k), NEW f, f.seq = e.seq, f.cnt = e.cnt + 1
  PROVE  Stretch(d, st, f, it + k)
<1>0. Run(e) /\ On(d, st, e) /\ st + U!Size(e) = it
  BY DEF Stretch
<1> USE <1>0
<1>1. PICK a \in Nat \ {0}, c \in Nat \ {0} : a = Len(e.seq) /\ c = e.cnt /\ U!Size(e) = a * c
  BY RunParts
<1>2. a * c \in Nat /\ st + a * c = it
  BY <1>1, Product
<1>3. \A q \in 0..(c - 1) : \A s \in 1..a : d[st + q * a + s] = e.seq[s]
  BY <1>1 DEF On
<1>4. st + U!Size(f) = it + a
  <2>1. U!Size(f) = a * (c + 1)
    BY <1>1 DEF U!Size
  <2>2. a * (c + 1) = a * c + a
    BY NextTurn
  <2> QED BY <1>2, <2>1, <2>2
<1>5. ASSUME NEW s \in 1..a PROVE d[st + c * a + s] = e.seq[s]
  <2>1. (c - 1) * a = c * a - a /\ c * a = a * c
    OBVIOUS
  <2>2. st + (c - 1) * a + s = it - a + s /\ st + c * a + s = it + s
    BY <1>2, <2>1
  <2>3. d[it - a + s] = d[it + s]
    BY <1>1 DEF Alike
  <2>4. c - 1 \in 0..(c - 1)
    OBVIOUS
  <2>5. d[st + (c - 1) * a + s] = e.seq[s]
    BY <1>3, <2>4, Zenon
  <2> QED BY <2>2, <2>3, <2>5
<1>6. \A q \in 0..((c + 1) - 1) : q \in 0..(c - 1) \/ q = c
  OBVIOUS
<1> PICK more : more = c + 1
  OBVIOUS
<1>7. ASSUME NEW q \in 0..(more - 1), NEW s \in 1..a PROVE d[st + q * a + s] = e.seq[s]
  <2>1. CASE q \in 0..(c - 1)
    BY <1>3, <2>1, Zenon
  <2>2. CASE q = c
    BY <1>5, <2>2, Zenon
  <2> QED BY <1>6, <2>1, <2>2
<1>8. On(d, st, f)
  <2>1. PICK y : y = e.seq
    OBVIOUS
  <2>2. f.seq = y /\ Len(y) = a /\ f.cnt = more
    BY <1>1, <2>1
  <2>3. \A q \in 0..(more - 1) : \A s \in 1..a : d[st + q * a + s] = y[s]
    BY <1>7, <2>1, Zenon
  <2>4. ASSUME NEW q \in 0..(f.cnt - 1), NEW s \in 1..Len(f.seq)
        PROVE  d[st + q * Len(f.seq) + s] = f.seq[s]
    BY <2>2, <2>3
  <2> QED BY <2>4 DEF On
<1>9. Run(f)
  <2>1. PICK q \in Seq(Int), m \in Nat \ {0} : q = e.seq /\ m = c + 1
    BY <1>1 DEF Run
  <2> QED BY <1>1, <2>1, RunIs
<1> QED BY <1>1, <1>4, <1>8, <1>9 DEF Stretch

LEMMA DoubledOn ==
  ASSUME NEW d, NEW st \in Nat, NEW e, NEW it \in Nat, Stretch(d, st, e, it),
         NEW k, k = U!Size(e), Alike(d, it, k), NEW f, f.seq = e.seq, f.cnt = e.cnt * 2
  PROVE  Stretch(d, st, f, it + k)
<1>0. Run(e) /\ On(d, st, e) /\ st + U!Size(e) = it
  BY DEF Stretch
<1> USE <1>0
<1>1. PICK a \in Nat \ {0}, c \in Nat \ {0} : a = Len(e.seq) /\ c = e.cnt /\ U!Size(e) = a * c
  BY RunParts
<1>2. k \in Nat /\ a * c = k /\ st + k = it
  BY <1>1, Product
<1>3. \A q \in 0..(c - 1) : \A s \in 1..a : d[st + q * a + s] = e.seq[s]
  BY <1>1 DEF On
<1>4. st + U!Size(f) = it + k
  <2>1. U!Size(f) = a * (c * 2)
    BY <1>1 DEF U!Size
  <2>2. a * (c * 2) = a * c + a * c
    OBVIOUS
  <2> QED BY <1>2, <2>1, <2>2
<1>5. ASSUME NEW q \in c..(c * 2 - 1), NEW s \in 1..a PROVE d[st + q * a + s] = e.seq[s]
  <2>1. PICK r \in 0..(c - 1) : q = c + r
    <3>1. q - c \in 0..(c - 1)
      BY SMTT(30)
    <3> QED BY <3>1
  <2>2. PICK y \in Nat, w \in Nat : y = r * a /\ w = q * a /\ w = k + y
    <3>1. r * a \in Nat /\ q * a = a * c + r * a
      BY <2>1, Product, AndTurns
    <3> QED BY <1>2, <3>1
  <2>3. y + s \in 1..k
    BY <1>2, <2>2, WithinTurns
  <2>4. st + w + s = it + (y + s) /\ st + y + s = it - k + (y + s)
    BY <1>2, <2>2
  <2>5. d[it - k + (y + s)] = d[it + (y + s)]
    BY <1>2, <2>3 DEF Alike
  <2>6. d[st + y + s] = e.seq[s]
    BY <1>3, <2>2, Zenon
  <2> QED BY <2>2, <2>4, <2>5, <2>6
<1>6. \A q \in 0..(c * 2 - 1) : q \in 0..(c - 1) \/ q \in c..(c * 2 - 1)
  OBVIOUS
<1> PICK more : more = c * 2
  OBVIOUS
<1>7. ASSUME NEW q \in 0..(more - 1), NEW s \in 1..a PROVE d[st + q * a + s] = e.seq[s]
  <2>1. CASE q \in 0..(c - 1)
    BY <1>3, <2>1, Zenon
  <2>2. CASE q \in c..(c * 2 - 1)
    BY <1>5, <2>2, Zenon
  <2> QED BY <1>6, <2>1, <2>2
<1>8. On(d, st, f)
  <2>1. PICK y : y = e.seq
    OBVIOUS
  <2>2. f.seq = y /\ Len(y) = a /\ f.cnt = more
    BY <1>1, <2>1
  <2>3. \A q \in 0..(more - 1) : \A s \in 1..a : d[st + q * a + s] = y[s]
    BY <1>7, <2>1, Zenon
  <2>4. ASSUME NEW q \in 0..(f.cnt - 1), NEW s \in 1..Len(f.seq)
        PROVE  d[st + q * Len(f.seq) + s] = f.seq[s]
    BY <2>2, <2>3
  <2> QED BY <2>4 DEF On
<1>9. Run(f)
  <2>1. PICK q \in Seq(Int), m \in Nat \ {0} : q = e.seq /\ m = c * 2
    BY <1>1 DEF Run
  <2> QED BY <1>1, <2>1, RunIs
<1> QED BY <1>2, <1>4, <1>8, <1>9 DEF Stretch

LEMMA SplitOffOn ==
  ASSUME NEW d \in Seq(Int), NEW st \in Nat, NEW e, e.cnt = 1, NEW it \in Nat, Stretch(d, st, e, it), NEW k \in Nat \ {0}, k < Len(e.seq), it + k <= Len(d),
         Alike(d, it, k),
         NEW f, f.seq = SubSeq(e.seq, 1, Len(e.seq) - k), f.cnt = 1,
         NEW g, g.seq = SubSeq(d, it + 1, it + k), g.cnt = 2
  PROVE  \E p \in Nat : Stretch(d, st, f, p) /\ Stretch(d, p, g, it + k)
<1>0. Run(e) /\ On(d, st, e) /\ st + U!Size(e) = it
  BY DEF Stretch
<1> USE <1>0
<1>1. PICK q \in Seq(Int), a \in Nat \ {0} : q = e.seq /\ Len(q) = a /\ U!Size(e) = a
  <2>1. PICK q \in Seq(Int), a \in Nat \ {0}, c \in Nat \ {0} :
          q = e.seq /\ a = Len(e.seq) /\ Len(q) = a /\ c = e.cnt /\ U!Size(e) = a * c
            /\ a * c \in Nat \ {0}
    BY RunParts
  <2>2. a * c = a
    BY <2>1
  <2> QED BY <2>1, <2>2
<1>2. PICK m \in Nat \ {0}, p \in Nat : m = a - k /\ a = m + k /\ p = it - k /\ p = st + m /\ st + a = it
  <2>1. a - k \in Nat \ {0} /\ it - k \in Nat /\ st + a = it
    BY <1>1
  <2> QED BY <2>1
<1>3. /\ SubSeq(q, 1, m) \in Seq(Int) /\ Len(SubSeq(q, 1, m)) = m
      /\ \A j \in 1..m : SubSeq(q, 1, m)[j] = q[j]
  <2>1. PICK z \in Nat : z = 0
    OBVIOUS
  <2>2. z + m <= Len(q)
    BY <1>1, <1>2, <2>1
  <2>3. /\ SubSeq(q, z + 1, z + m) \in Seq(Int) /\ Len(SubSeq(q, z + 1, z + m)) = m
        /\ \A j \in 1..m : SubSeq(q, z + 1, z + m)[j] = q[z + j]
    BY <2>2, WindowOf
  <2>4. z + 1 = 1 /\ z + m = m /\ \A j \in 1..m : z + j = j
    BY <2>1
  <2> QED BY <2>3, <2>4
<1>4. PICK x \in Seq(Int) : /\ x = SubSeq(q, 1, m) /\ Len(x) = m /\ f.seq = x
                            /\ \A j \in 1..m : x[j] = q[j]
  <2>1. SubSeq(e.seq, 1, Len(e.seq) - k) = SubSeq(q, 1, m)
    BY <1>1, <1>2
  <2> QED BY <1>3, <2>1
<1>5. PICK y \in Seq(Int) : /\ y = SubSeq(d, it + 1, it + k) /\ Len(y) = k /\ g.seq = y
                            /\ \A j \in 1..k : y[j] = d[it + j]
  <2>1. /\ SubSeq(d, it + 1, it + k) \in Seq(Int) /\ Len(SubSeq(d, it + 1, it + k)) = k
        /\ \A j \in 1..k : SubSeq(d, it + 1, it + k)[j] = d[it + j]
    BY WindowOf
  <2> QED BY <2>1
<1>6. PICK one \in Nat \ {0}, two \in Nat \ {0} : one = 1 /\ two = 2
  OBVIOUS
<1>7. Run(f) /\ U!Size(f) = m * one
  <2>1. f.seq = x /\ f.cnt = one
    BY <1>4, <1>6
  <2> QED BY <1>4, <1>6, <2>1, RunIs
<1>8. Run(g) /\ U!Size(g) = k * two
  <2>1. g.seq = y /\ g.cnt = two
    BY <1>5, <1>6
  <2> QED BY <1>5, <1>6, <2>1, RunIs
<1>9. st + U!Size(f) = p /\ p + U!Size(g) = it + k
  BY <1>2, <1>6, <1>7, <1>8
<1>10. On(d, st, f)
  <2>1. ASSUME NEW s \in 1..m PROVE d[st + s] = q[s]
    <3>1. 0 \in 0..(e.cnt - 1) /\ s \in 1..Len(e.seq)
      BY <1>1, <1>2
    <3>2. d[st + 0 * Len(e.seq) + s] = e.seq[s]
      BY <3>1, Zenon DEF On
    <3>3. st + 0 * Len(e.seq) + s = st + s
      BY <1>1
    <3> QED BY <1>1, <3>2, <3>3
  <2>2. ASSUME NEW r \in 0..(f.cnt - 1), NEW s \in 1..Len(f.seq)
        PROVE  d[st + r * Len(f.seq) + s] = f.seq[s]
    <3>0. f.seq = x /\ Len(x) = m /\ \A j \in 1..m : x[j] = q[j]
      BY <1>4
    <3>4. Len(f.seq) = m
      BY <3>0
    <3>5. f.cnt - 1 = 0
      OBVIOUS
    <3>6. r = 0
      BY <3>5
    <3>1. s \in 1..m /\ r = 0 /\ Len(f.seq) = m
      BY <3>4, <3>6, Zenon
    <3>3. f.seq[s] = q[s]
      BY <3>0, <3>1, Zenon
    <3>2. st + r * Len(f.seq) + s = st + s
      BY <3>1
    <3> QED BY <2>1, <3>1, <3>2, <3>3
  <2> QED BY <2>2 DEF On
<1>11. On(d, p, g)
  <2>1. ASSUME NEW s \in 1..k PROVE d[p + 0 * k + s] = y[s] /\ d[p + 1 * k + s] = y[s]
    <3>1. p + 0 * k + s = it - k + s /\ p + 1 * k + s = it + s
      BY <1>2
    <3>2. d[it - k + s] = d[it + s]
      BY DEF Alike
    <3> QED BY <1>5, <3>1, <3>2
  <2>2. ASSUME NEW r \in 0..(g.cnt - 1), NEW s \in 1..Len(g.seq)
        PROVE  d[p + r * Len(g.seq) + s] = g.seq[s]
    <3>1. s \in 1..k /\ Len(g.seq) = k /\ (r = 0 \/ r = 1) /\ g.seq = y
      BY <1>5
    <3> QED BY <2>1, <3>1
  <2> QED BY <2>2 DEF On
<1> QED BY <1>7, <1>8, <1>9, <1>10, <1>11 DEF Stretch

LEMMA PushedOn ==
  ASSUME NEW d \in Seq(Int), NEW st \in Nat, NEW e, e.cnt = 1, NEW it \in Nat, Stretch(d, st, e, it), it + 1 <= Len(d),
         NEW f, f.seq = Append(e.seq, d[it + 1]), f.cnt = 1
  PROVE  Stretch(d, st, f, it + 1)
<1>0. Run(e) /\ On(d, st, e) /\ st + U!Size(e) = it
  BY DEF Stretch
<1> USE <1>0
<1>1. PICK q \in Seq(Int), a \in Nat \ {0} : q = e.seq /\ Len(q) = a /\ U!Size(e) = a
  <2>1. PICK q \in Seq(Int), a \in Nat \ {0}, c \in Nat \ {0} :
          q = e.seq /\ a = Len(e.seq) /\ Len(q) = a /\ c = e.cnt /\ U!Size(e) = a * c
            /\ a * c \in Nat \ {0}
    BY RunParts
  <2>2. a * c = a
    BY <2>1
  <2> QED BY <2>1, <2>2
<1>2. PICK x \in Int : x = d[it + 1]
  <2>1. Len(d) \in Nat /\ it + 1 \in 1..Len(d)
    BY LenProperties
  <2> QED BY <2>1, ElementOfSeq
<1>3. PICK y \in Seq(Int), b \in Nat \ {0} :
        /\ y = Append(q, x) /\ b = a + 1 /\ Len(y) = b /\ f.seq = y
        /\ \A j \in 1..a : y[j] = q[j]
        /\ y[b] = x
  <2>1. /\ Append(q, x) \in Seq(Int)
        /\ Len(Append(q, x)) = Len(q) + 1
        /\ \A i \in 1..Len(q) : Append(q, x)[i] = q[i]
        /\ Append(q, x)[Len(q) + 1] = x
    BY AppendProperties
  <2>2. PICK b \in Nat \ {0} : b = a + 1
    OBVIOUS
  <2>3. f.seq = Append(q, x) /\ Len(Append(q, x)) = b /\ Append(q, x)[b] = x
    BY <1>1, <1>2, <2>1, <2>2
  <2>4. \A j \in 1..a : Append(q, x)[j] = q[j]
    BY <1>1, <2>1
  <2> QED BY <2>1, <2>2, <2>3, <2>4, Zenon
<1>4. PICK one \in Nat \ {0} : one = 1
  OBVIOUS
<1>5. Run(f) /\ U!Size(f) = b * one
  BY <1>3, <1>4, RunIs
<1>6. st + U!Size(f) = it + 1
  BY <1>1, <1>3, <1>4, <1>5
<1>7. ASSUME NEW s \in 1..b PROVE d[st + s] = y[s]
  <2>1. CASE s = b
    <3>1. st + a = it /\ s = a + 1
      BY <1>1, <1>3, <2>1
    <3>2. st + s = it + 1
      BY <3>1
    <3> QED BY <1>2, <1>3, <2>1, <3>2
  <2>2. CASE s # b
    <3>1. s \in 1..a /\ 0 \in 0..(e.cnt - 1)
      BY <1>3, <2>2
    <3>2. d[st + 0 * a + s] = q[s]
      BY <1>1, <3>1, Zenon DEF On
    <3>3. st + 0 * a + s = st + s
      BY <3>1
    <3> QED BY <1>3, <3>1, <3>2, <3>3
  <2> QED BY <2>1, <2>2
<1>8. On(d, st, f)
  <2>1. ASSUME NEW r \in 0..(f.cnt - 1), NEW s \in 1..Len(f.seq)
        PROVE  d[st + r * Len(f.seq) + s] = f.seq[s]
    <3>1. r = 0 /\ s \in 1..b /\ Len(f.seq) = b /\ f.seq = y
      BY <1>3
    <3>2. st + r * Len(f.seq) + s = st + s
      BY <3>1
    <3> QED BY <1>7, <3>1, <3>2
  <2> QED BY <2>1 DEF On
<1> QED BY <1>5, <1>6, <1>8 DEF Stretch

LEMMA FirstOn ==
  ASSUME NEW d \in Seq(Int), NEW it \in Nat, it + 1 <= Len(d), NEW f, f.seq = <<d[it + 1]>>, f.cnt = 1
  PROVE  Stretch(d, it, f, it + 1)
<1>1. PICK x \in Int : x = d[it + 1]
  <2>1. Len(d) \in Nat /\ it + 1 \in 1..Len(d)
    BY LenProperties
  <2> QED BY <2>1, ElementOfSeq
<1>2. PICK q \in Seq(Int), one \in Nat \ {0} : q = <<x>> /\ one = 1 /\ Len(q) = one /\ q[1] = x /\ f.seq = q
  <2>1. <<x>> \in Seq(Int) /\ Len(<<x>>) = 1 /\ <<x>>[1] = x
    OBVIOUS
  <2>2. f.seq = <<x>>
    BY <1>1
  <2>3. 1 \in Nat \ {0}
    OBVIOUS
  <2> QED BY <2>1, <2>2, <2>3, Zenon
<1>3. Run(f) /\ U!Size(f) = one * one
  BY <1>2, RunIs
<1>4. it + U!Size(f) = it + 1
  BY <1>2, <1>3
<1>5. ASSUME NEW r \in 0..(f.cnt - 1), NEW s \in 1..Len(f.seq)
      PROVE  d[it + r * Len(f.seq) + s] = f.seq[s]
  <2>1. r = 0 /\ s = 1 /\ Len(f.seq) = 1 /\ f.seq = q
    BY <1>2
  <2>2. it + r * Len(f.seq) + s = it + 1
    BY <2>1
  <2> QED BY <1>1, <1>2, <2>1, <2>2
<1> QED BY <1>3, <1>4, <1>5 DEF On, Stretch

-----------------------------------------------------------------------------
(* The stack of a turn: as one list of elements, each with its place.       *)

(* The stack s of n elements encodes the first it differences: one element  *)
(* after another, the j-th after the first at[j].                           *)
StackedAt(d, it, s, at, n) ==
  /\ s \in Seq(Elem) /\ n \in Nat \ {0} /\ Len(s) = n
  /\ at \in [1..n -> Nat] /\ at[1] = 0
  /\ \A j \in 1..n : Stretch(d, at[j], s[j], IF j = n THEN it ELSE at[j + 1])

Stacked(d, it, s) == \E at, n : StackedAt(d, it, s, at, n)

LEMMA FrontAnd ==
  ASSUME NEW s \in Seq(Elem), NEW n \in Nat \ {0}, Len(s) = n, NEW e \in Elem
  PROVE  /\ U!Front(s) \in Seq(Elem)
         /\ Append(U!Front(s), e) \in Seq(Elem) /\ Len(Append(U!Front(s), e)) = n
         /\ \A j \in 1..n : Append(U!Front(s), e)[j] = IF j = n THEN e ELSE s[j]
<1>1. PICK lo \in Int, hi \in Int : lo = 1 /\ hi = n - 1
  OBVIOUS
<1>2. \A j \in lo..hi : s[j] \in Elem
  <2> TAKE j \in lo..hi
  <2>1. j \in 1..Len(s)
    BY <1>1
  <2> QED BY <2>1, ElementOfSeq
<1>3. /\ SubSeq(s, lo, hi) \in Seq(Elem)
      /\ Len(SubSeq(s, lo, hi)) = IF lo <= hi THEN hi - lo + 1 ELSE 0
      /\ \A j \in 1..(hi - lo + 1) : SubSeq(s, lo, hi)[j] = s[lo + j - 1]
  BY <1>2, SubSeqProperties
<1>4. PICK f \in Seq(Elem) : f = U!Front(s) /\ f = SubSeq(s, lo, hi)
  BY <1>1, <1>3 DEF U!Front
<1>5. Len(f) = n - 1
  BY <1>1, <1>3, <1>4
<1>6. \A j \in 1..(n - 1) : f[j] = s[j]
  <2> TAKE j \in 1..(n - 1)
  <2>1. j \in 1..(hi - lo + 1) /\ lo + j - 1 = j
    BY <1>1
  <2> QED BY <1>3, <1>4, <2>1
<1>7. /\ Append(f, e) \in Seq(Elem) /\ Len(Append(f, e)) = Len(f) + 1
      /\ \A i \in 1..Len(f) : Append(f, e)[i] = f[i]
      /\ Append(f, e)[Len(f) + 1] = e
  BY AppendProperties
<1>8. \A j \in 1..n : Append(f, e)[j] = IF j = n THEN e ELSE s[j]
  <2> TAKE j \in 1..n
  <2>1. CASE j = n
    BY <1>5, <1>7, <2>1
  <2>2. CASE j # n
    <3>1. j \in 1..(n - 1)
      BY <2>2
    <3> QED BY <1>5, <1>6, <1>7, <2>2, <3>1
  <2> QED BY <2>1, <2>2
<1>9. Len(f) + 1 = n
  BY <1>5
<1> QED BY <1>4, <1>7, <1>8, <1>9

LEMMA TopReplaced ==
  ASSUME NEW d, NEW it, NEW s, NEW at, NEW n, StackedAt(d, it, s, at, n),
         NEW e \in Elem, NEW to, Stretch(d, at[n], e, to)
  PROVE  StackedAt(d, to, Append(U!Front(s), e), at, n)
<1>1. s \in Seq(Elem) /\ n \in Nat \ {0} /\ Len(s) = n /\ at \in [1..n -> Nat] /\ at[1] = 0
  BY DEF StackedAt
<1>2. PICK t : /\ t = Append(U!Front(s), e) /\ t \in Seq(Elem) /\ Len(t) = n
               /\ \A j \in 1..n : t[j] = IF j = n THEN e ELSE s[j]
  <2>1. /\ Append(U!Front(s), e) \in Seq(Elem) /\ Len(Append(U!Front(s), e)) = n
        /\ \A j \in 1..n : Append(U!Front(s), e)[j] = IF j = n THEN e ELSE s[j]
    BY <1>1, FrontAnd
  <2> QED BY <2>1
<1>3. \A j \in 1..n : Stretch(d, at[j], t[j], IF j = n THEN to ELSE at[j + 1])
  <2> TAKE j \in 1..n
  <2>1. CASE j = n
    BY <1>2, <2>1
  <2>2. CASE j # n
    <3>1. Stretch(d, at[j], s[j], at[j + 1])
      BY <2>2 DEF StackedAt
    <3> QED BY <1>2, <2>2, <3>1
  <2> QED BY <2>1, <2>2
<1>4. StackedAt(d, to, t, at, n)
  BY <1>1, <1>2, <1>3 DEF StackedAt
<1> QED BY <1>2, <1>4

LEMMA TopAdded ==
  ASSUME NEW d, NEW it \in Nat, NEW s, NEW at, NEW n, StackedAt(d, it, s, at, n),
         NEW e \in Elem, NEW to, Stretch(d, it, e, to)
  PROVE  Stacked(d, to, Append(s, e))
<1>1. s \in Seq(Elem) /\ n \in Nat \ {0} /\ Len(s) = n /\ at \in [1..n -> Nat] /\ at[1] = 0
  BY DEF StackedAt
<1>2. PICK m \in Nat \ {0} : m = n + 1
  BY <1>1
<1>3. PICK t : /\ t = Append(s, e) /\ t \in Seq(Elem) /\ Len(t) = m
               /\ (\A j \in 1..n : t[j] = s[j]) /\ t[m] = e
  <2>1. /\ Append(s, e) \in Seq(Elem) /\ Len(Append(s, e)) = Len(s) + 1
        /\ \A i \in 1..Len(s) : Append(s, e)[i] = s[i]
        /\ Append(s, e)[Len(s) + 1] = e
    BY <1>1, AppendProperties
  <2> QED BY <1>1, <1>2, <2>1
<1> DEFINE now == [j \in 1..m |-> IF j = m THEN it ELSE at[j]]
<1>4. /\ now \in [1..m -> Nat] /\ now[m] = it
      /\ \A j \in 1..n : j \in 1..m /\ j # m /\ now[j] = at[j]
  BY <1>1, <1>2
<1> HIDE DEF now
<1>5. \A j \in 1..m : j \in 1..n \/ j = m
  BY <1>1, <1>2
<1>6. \A j \in 1..m : Stretch(d, now[j], t[j], IF j = m THEN to ELSE now[j + 1])
  <2> TAKE j \in 1..m
  <2>1. CASE j = m
    BY <1>3, <1>4, <2>1
  <2>2. CASE j \in 1..n
    <3>1. t[j] = s[j] /\ now[j] = at[j] /\ j # m
      BY <1>3, <1>4, <2>2
    <3>2. CASE j = n
      <4>1. j + 1 = m
        BY <1>2, <3>2
      <4>2. Stretch(d, at[j], s[j], it)
        BY <2>2, <3>2 DEF StackedAt
      <4> QED BY <1>4, <3>1, <4>1, <4>2
    <3>3. CASE j # n
      <4>1. j + 1 \in 1..n
        BY <1>1, <2>2, <3>3
      <4>2. now[j + 1] = at[j + 1]
        BY <1>4, <4>1
      <4>3. Stretch(d, at[j], s[j], at[j + 1])
        BY <2>2, <3>3 DEF StackedAt
      <4> QED BY <3>1, <4>2, <4>3
    <3> QED BY <3>2, <3>3
  <2> QED BY <1>5, <2>1, <2>2
<1>7. now[1] = 0
  <2>1. 1 \in 1..n
    BY <1>1
  <2> QED BY <1>1, <1>4, <2>1
<1>8. StackedAt(d, to, t, now, m)
  BY <1>3, <1>4, <1>6, <1>7 DEF StackedAt
<1> QED BY <1>3, <1>8 DEF Stacked

LEMMA PairAppended ==
  ASSUME NEW S, NEW s \in Seq(S), NEW f \in S, NEW g \in S
  PROVE  s \o <<f, g>> = Append(Append(s, f), g)
<1>1. <<f>> \in Seq(S) /\ <<g>> \in Seq(S) /\ <<f>> \o <<g>> = <<f, g>>
  <2>1. PICK x, y, two : x = <<f>> /\ y = <<g>> /\ two = <<f, g>>
    OBVIOUS
  <2>2. /\ x \in Seq(S) /\ Len(x) = 1 /\ x[1] = f
        /\ y \in Seq(S) /\ Len(y) = 1 /\ y[1] = g
        /\ two \in Seq(S) /\ Len(two) = 2 /\ two[1] = f /\ two[2] = g
    BY <2>1
  <2>3. /\ x \o y \in Seq(S) /\ Len(x \o y) = Len(x) + Len(y)
        /\ \A i \in 1..(Len(x) + Len(y)) : (x \o y)[i] = IF i <= Len(x) THEN x[i] ELSE y[i - Len(x)]
    BY <2>2, ConcatProperties
  <2>4. Len(x \o y) = 2 /\ (x \o y)[1] = f /\ (x \o y)[2] = g
    BY <2>2, <2>3
  <2>5. \A i \in 1..Len(x \o y) : (x \o y)[i] = two[i]
    BY <2>2, <2>4
  <2>6. x \o y = two
    BY <2>2, <2>3, <2>4, <2>5, SeqEqual
  <2> QED BY <2>1, <2>2, <2>6
<1>2. Append(s, f) \in Seq(S) /\ Append(s, f) = s \o <<f>>
  BY AppendProperties, AppendIsConcat
<1>3. Append(Append(s, f), g) = Append(s, f) \o <<g>>
  BY <1>2, AppendIsConcat
<1>4. (s \o <<f>>) \o <<g>> = s \o (<<f>> \o <<g>>)
  BY <1>1, ConcatAssociative
<1> QED BY <1>1, <1>2, <1>3, <1>4

(* The scan of one list, by the operators of PatternDetect.                 *)
LEMMA ScanIs ==
  ASSUME NEW d, NEW it, NEW s, NEW k, U!Scanning(d, it, s)!Widest(k)
  PROVE  /\ k \in 1..WindowSize /\ k <= Len(d) - it /\ Alike(d, it, k)
         /\ \/ U!Scanning(d, it, s)!OneMore(k) \/ U!Scanning(d, it, s)!Doubled(k)
            \/ U!Scanning(d, it, s)!SplitOff(k)
<1>1. k \in U!Scanning(d, it, s)!Windows /\ U!Scanning(d, it, s)!Mergeable(k)
  BY DEF U!Scanning!Widest
<1>2. /\ Alike(d, it, k)
      /\ \/ U!Scanning(d, it, s)!OneMore(k) \/ U!Scanning(d, it, s)!Doubled(k)
         \/ U!Scanning(d, it, s)!SplitOff(k)
  BY <1>1 DEF U!Scanning!Mergeable, U!Scanning!equal_lw_sw, Alike
<1>3. k \in 1..WindowSize /\ k <= Len(d) - it
  BY <1>1 DEF U!Scanning!Windows
<1> QED BY <1>2, <1>3

LEMMA TopIs ==
  ASSUME NEW d, NEW it, NEW s, NEW at, NEW n, StackedAt(d, it, s, at, n)
  PROVE  \E e \in Elem, st \in Nat :
           /\ e = s[Len(s)] /\ U!Last(s) = e /\ n \in Nat \ {0} /\ Len(s) = n /\ s \in Seq(Elem)
           /\ st = at[n] /\ Stretch(d, st, e, it)
<1>1. s \in Seq(Elem) /\ n \in Nat \ {0} /\ Len(s) = n /\ at \in [1..n -> Nat]
  BY DEF StackedAt
<1>2. n \in 1..n
  BY <1>1
<1>3. s[n] \in Elem /\ at[n] \in Nat
  BY <1>1, <1>2, ElementOfSeq
<1>4. Stretch(d, at[n], s[n], it)
  BY <1>2 DEF StackedAt
<1>5. U!Last(s) = s[n]
  BY <1>1 DEF U!Last
<1> QED BY <1>1, <1>3, <1>4, <1>5

LEMMA MergedIs ==
  ASSUME NEW d, NEW t, NEW e, U!Last(t.stack) = e, e = t.stack[Len(t.stack)], NEW k \in Int,
         U!Scanning(d, t.iter, t.stack)!Widest(k)
  PROVE  \/ /\ Len(e.seq) = k
            /\ U!MergedStack(d, t, k) = Append(U!Front(t.stack), [e EXCEPT !.cnt = @ + 1])
         \/ /\ U!Size(e) = k
            /\ U!MergedStack(d, t, k) = Append(U!Front(t.stack), [e EXCEPT !.cnt = @ * 2])
         \/ /\ e.cnt = 1 /\ Len(e.seq) > k
            /\ U!MergedStack(d, t, k) =
                 U!Front(t.stack) \o <<[e EXCEPT !.seq = SubSeq(@, 1, Len(@) - k)],
                                       [seq |-> SubSeq(d, t.iter + 1, t.iter + k), cnt |-> 2]>>
<1> DEFINE one == U!Scanning(d, t.iter, t.stack)!OneMore(k)
           two == U!Scanning(d, t.iter, t.stack)!Doubled(k)
           off == U!Scanning(d, t.iter, t.stack)!SplitOff(k)
           ahead == U!Scanning(d, t.iter, t.stack)!Ahead(k)
           longer == [e EXCEPT !.cnt = @ + 1]
           twice == [e EXCEPT !.cnt = @ * 2]
           less == [e EXCEPT !.seq = SubSeq(@, 1, Len(@) - k)]
<1>1. one <=> Len(e.seq) = k
  BY DEF U!Scanning!OneMore, U!Scanning!Top
<1>2. two <=> Len(e.seq) # k /\ U!Size(e) = k
  BY DEF U!Scanning!Doubled, U!Scanning!Top, U!Scanning!Width, U!Size
<1>3. off <=> U!Size(e) # k /\ e.cnt = 1 /\ Len(e.seq) > k
  BY DEF U!Scanning!SplitOff, U!Scanning!Top, U!Scanning!Width, U!Size
<1>4. ahead = SubSeq(d, t.iter + 1, t.iter + k)
  BY DEF U!Scanning!Ahead
<1>5. one \/ two \/ off
  BY ScanIs, Zenon
<1>6. U!MergedStack(d, t, k) =
        CASE one -> Append(U!Front(t.stack), longer)
          [] two -> Append(U!Front(t.stack), twice)
          [] off -> U!Front(t.stack) \o <<less, [seq |-> ahead, cnt |-> 2]>>
  BY DEF U!MergedStack
<1> HIDE DEF one, two, off, ahead
<1>7. CASE Len(e.seq) = k
  <2>1. one /\ ~two
    BY <1>1, <1>2, <1>7, Zenon
  <2>2. ~off
    BY <1>3, <1>7
  <2>3. U!MergedStack(d, t, k) = Append(U!Front(t.stack), longer)
    BY <1>6, <2>1, <2>2
  <2> QED BY <1>7, <2>3
<1>8. CASE Len(e.seq) # k /\ U!Size(e) = k
  <2>1. two /\ ~one /\ ~off
    BY <1>1, <1>2, <1>3, <1>8, Zenon
  <2>2. U!MergedStack(d, t, k) = Append(U!Front(t.stack), twice)
    BY <1>6, <2>1
  <2> QED BY <1>8, <2>2
<1>9. CASE Len(e.seq) # k /\ U!Size(e) # k
  <2>1. off /\ ~one /\ ~two
    BY <1>1, <1>2, <1>5, <1>9, Zenon
  <2>2. U!MergedStack(d, t, k) = U!Front(t.stack) \o <<less, [seq |-> ahead, cnt |-> 2]>>
    BY <1>6, <2>1
  <2>3. e.cnt = 1 /\ Len(e.seq) > k
    BY <1>3, <2>1, Zenon
  <2> QED BY <1>4, <2>2, <2>3
<1> QED BY <1>7, <1>8, <1>9

LEMMA MergedKept ==
  ASSUME NEW d \in Seq(Int), NEW t, NEW it \in Nat, it = t.iter, NEW s, s = t.stack,
         Stacked(d, it, s), NEW k, U!Scanning(d, t.iter, t.stack)!Widest(k)
  PROVE  k \in Nat \ {0} /\ it + k <= Len(d) /\ Stacked(d, it + k, U!MergedStack(d, t, k))
<1>1. PICK at, n : StackedAt(d, it, s, at, n)
  BY DEF Stacked
<1>2. PICK e \in Elem, st \in Nat :
        /\ e = s[Len(s)] /\ U!Last(s) = e /\ n \in Nat \ {0} /\ Len(s) = n /\ s \in Seq(Elem)
        /\ st = at[n] /\ Stretch(d, st, e, it)
  BY <1>1, TopIs
<1>3. PICK q \in Seq(Int), a \in Nat \ {0}, c \in Nat \ {0} :
        q = e.seq /\ a = Len(e.seq) /\ Len(q) = a /\ c = e.cnt /\ U!Size(e) = a * c
          /\ a * c \in Nat \ {0}
  <2>1. Run(e)
    BY <1>2 DEF Stretch
  <2> QED BY <2>1, RunParts
<1>4. k \in Nat \ {0} /\ it + k <= Len(d) /\ Alike(d, it, k)
  <2>1. k \in 1..WindowSize /\ k <= Len(d) - t.iter /\ Alike(d, t.iter, k)
    BY ScanIs, Zenon
  <2>2. Len(d) \in Nat
    BY LenProperties
  <2> QED BY <2>1, <2>2, WindowSizeAssumption
<1>5. PICK to \in Nat : to = it + k
  BY <1>4
<1> PICK z : z = U!MergedStack(d, t, k)
  OBVIOUS
<1>6. \/ Len(e.seq) = k /\ z = Append(U!Front(s), [e EXCEPT !.cnt = @ + 1])
      \/ U!Size(e) = k /\ z = Append(U!Front(s), [e EXCEPT !.cnt = @ * 2])
      \/ /\ e.cnt = 1 /\ Len(e.seq) > k
         /\ z = U!Front(s) \o <<[e EXCEPT !.seq = SubSeq(@, 1, Len(@) - k)],
                                [seq |-> SubSeq(d, it + 1, it + k), cnt |-> 2]>>
  <2>1. U!Last(t.stack) = e /\ e = t.stack[Len(t.stack)] /\ k \in Int
    BY <1>2, <1>4
  <2> QED BY <1>5, <2>1, MergedIs, Zenon
<1>7. CASE Len(e.seq) = k /\ z = Append(U!Front(s), [e EXCEPT !.cnt = @ + 1])
  <2>1. PICK m \in Nat \ {0} : m = c + 1
    BY <1>3
  <2>2. PICK f : f = [e EXCEPT !.cnt = m]
    OBVIOUS
  <2>3. z = Append(U!Front(s), f)
    BY <1>3, <1>7, <2>1, <2>2
  <2>4. f \in Elem /\ f.seq = e.seq /\ f.cnt = e.cnt + 1
    BY <1>3, <2>1, <2>2, WithCount
  <2>5. Stretch(d, st, f, it + k)
    BY <1>2, <1>4, <1>7, <2>4, OneMoreOn
  <2>6. StackedAt(d, to, Append(U!Front(s), f), at, n)
    BY <1>1, <1>2, <1>5, <2>4, <2>5, TopReplaced
  <2> QED BY <1>4, <1>5, <2>3, <2>6 DEF Stacked
<1>8. CASE U!Size(e) = k /\ z = Append(U!Front(s), [e EXCEPT !.cnt = @ * 2])
  <2>1. PICK m \in Nat \ {0} : m = c * 2
    BY <1>3
  <2>2. PICK f : f = [e EXCEPT !.cnt = m]
    OBVIOUS
  <2>3. z = Append(U!Front(s), f)
    BY <1>3, <1>8, <2>1, <2>2
  <2>4. f \in Elem /\ f.seq = e.seq /\ f.cnt = e.cnt * 2
    BY <1>3, <2>1, <2>2, WithCount
  <2>5. Stretch(d, st, f, it + k)
    BY <1>2, <1>4, <1>8, <2>4, DoubledOn
  <2>6. StackedAt(d, to, Append(U!Front(s), f), at, n)
    BY <1>1, <1>2, <1>5, <2>4, <2>5, TopReplaced
  <2> QED BY <1>4, <1>5, <2>3, <2>6 DEF Stacked
<1>9. CASE /\ e.cnt = 1 /\ Len(e.seq) > k
           /\ z = U!Front(s) \o <<[e EXCEPT !.seq = SubSeq(@, 1, Len(@) - k)],
                                  [seq |-> SubSeq(d, it + 1, it + k), cnt |-> 2]>>
  <2>1. PICK lo \in Int, hi \in Int : lo = 1 /\ hi = a - k
    <3>1. a - k \in Int
      BY <1>4
    <3> QED BY <3>1
  <2>2. PICK f, g : /\ f = [e EXCEPT !.seq = SubSeq(q, lo, hi)]
                    /\ g = [seq |-> SubSeq(d, it + 1, it + k), cnt |-> 2]
    OBVIOUS
  <2>3. z = U!Front(s) \o <<f, g>>
    BY <1>3, <1>9, <2>1, <2>2
  <2>4. SubSeq(q, lo, hi) \in Seq(Int)
    <3>1. \A i \in lo..hi : q[i] \in Int
      <4> TAKE i \in lo..hi
      <4>1. i \in 1..Len(q)
        BY <1>3, <1>4, <2>1
      <4> QED BY <4>1, ElementOfSeq
    <3> QED BY <3>1, SubSeqProperties
  <2>5. f \in Elem /\ f.cnt = 1 /\ f.seq = SubSeq(q, lo, hi)
    BY <1>3, <1>9, <2>2, <2>4, WithSeq
  <2>6. g.cnt = 2 /\ g.seq = SubSeq(d, it + 1, it + k) /\ f.seq = SubSeq(e.seq, 1, Len(e.seq) - k)
    BY <1>3, <2>1, <2>2, <2>5
  <2>7. PICK p \in Nat : Stretch(d, st, f, p) /\ Stretch(d, p, g, it + k)
    <3>1. k < Len(e.seq) /\ e.cnt = 1
      BY <1>3, <1>4, <1>9
    <3>2. f.cnt = 1
      BY <2>5
    <3> QED BY <1>2, <1>4, <2>6, <3>1, <3>2, SplitOffOn, Zenon
  <2>8. g \in Elem
    <3>1. SubSeq(d, it + 1, it + k) \in Seq(Int)
      BY <2>6, <2>7 DEF Run, Stretch
    <3> QED BY <2>2, <3>1 DEF Elem
  <2>9. StackedAt(d, p, Append(U!Front(s), f), at, n)
    BY <1>1, <1>2, <2>5, <2>7, TopReplaced
  <2>10. Stacked(d, it + k, Append(Append(U!Front(s), f), g))
    BY <2>7, <2>8, <2>9, TopAdded
  <2>11. U!Front(s) \in Seq(Elem)
    BY <1>2, <2>8, FrontAnd
  <2>12. U!Front(s) \o <<f, g>> = Append(Append(U!Front(s), f), g)
    <3>1. PICK r \in Seq(Elem) : r = U!Front(s)
      BY <2>11
    <3>2. f \in Elem /\ g \in Elem
      BY <2>5, <2>8
    <3>3. r \o <<f, g>> = Append(Append(r, f), g)
      BY <3>2, PairAppended
    <3> QED BY <3>1, <3>3
  <2> QED BY <1>4, <1>5, <2>3, <2>10, <2>12
<1> QED BY <1>6, <1>7, <1>8, <1>9

LEMMA PushedKept ==
  ASSUME NEW d \in Seq(Int), NEW t, NEW it \in Nat, it = t.iter, NEW s, s = t.stack,
         Stacked(d, it, s), it + 1 <= Len(d)
  PROVE  Stacked(d, it + 1, U!PushedStack(d, t))
<1>1. PICK at, n : StackedAt(d, it, s, at, n)
  BY DEF Stacked
<1>2. PICK e \in Elem, st \in Nat :
        /\ e = s[Len(s)] /\ U!Last(s) = e /\ n \in Nat \ {0} /\ Len(s) = n /\ s \in Seq(Elem)
        /\ st = at[n] /\ Stretch(d, st, e, it)
  BY <1>1, TopIs
<1>3. PICK x \in Int : x = d[it + 1]
  <2>1. Len(d) \in Nat /\ it + 1 \in 1..Len(d)
    BY LenProperties
  <2> QED BY <2>1, ElementOfSeq
<1>4. CASE e.cnt # 1
  <2>1. PICK f : f = [seq |-> <<x>>, cnt |-> 1]
    OBVIOUS
  <2>2. U!PushedStack(d, t) = Append(s, f)
    BY <1>2, <1>3, <1>4, <2>1 DEF U!PushedStack
  <2>3. f \in Elem /\ f.seq = <<d[it + 1]>> /\ f.cnt = 1
    BY <1>3, <2>1 DEF Elem
  <2>4. Stretch(d, it, f, it + 1)
    BY <2>3, FirstOn
  <2> QED BY <1>1, <2>2, <2>3, <2>4, TopAdded
<1>5. CASE e.cnt = 1
  <2>1. PICK q \in Seq(Int) : q = e.seq
    BY <1>2 DEF Run, Stretch
  <2>2. PICK f : f = [e EXCEPT !.seq = Append(q, x)]
    OBVIOUS
  <2>3. U!PushedStack(d, t) = Append(U!Front(s), f)
    BY <1>2, <1>3, <1>5, <2>1, <2>2 DEF U!PushedStack
  <2>4. f \in Elem /\ f.seq = Append(e.seq, d[it + 1]) /\ f.cnt = 1
    <3>1. PICK y \in Seq(Int) : y = Append(q, x)
      BY AppendProperties
    <3>2. f \in Elem /\ f.seq = y /\ f.cnt = e.cnt
      BY <1>2, <2>2, <3>1, WithSeq
    <3> QED BY <1>3, <1>5, <2>1, <3>1, <3>2
  <2>5. Stretch(d, st, f, it + 1)
    BY <1>2, <1>5, <2>4, PushedOn
  <2>6. StackedAt(d, it + 1, Append(U!Front(s), f), at, n)
    BY <1>1, <1>2, <2>4, <2>5, TopReplaced
  <2> QED BY <2>3, <2>6 DEF Stacked
<1> QED BY <1>4, <1>5

LEMMA TurnKept ==
  ASSUME NEW d \in Seq(Int), NEW t, NEW it \in Nat, it = t.iter, Stacked(d, it, t.stack), it < Len(d)
  PROVE  /\ U!Turn(d, t).iter \in Nat /\ it < U!Turn(d, t).iter /\ U!Turn(d, t).iter <= Len(d)
         /\ Stacked(d, U!Turn(d, t).iter, U!Turn(d, t).stack)
<1>1. Len(d) \in Nat
  BY LenProperties
<1> PICK s : s = t.stack
  OBVIOUS
<1> DEFINE widest == {k \in 1..WindowSize : U!Scanning(d, t.iter, t.stack)!Widest(k)}
<1>2. CASE widest = {}
  <2>1. U!Turn(d, t) = [iter |-> t.iter + 1, stack |-> U!PushedStack(d, t)]
    BY <1>2 DEF U!Turn
  <2>2. U!Turn(d, t).iter = it + 1 /\ U!Turn(d, t).stack = U!PushedStack(d, t)
    BY <2>1
  <2>3. it + 1 <= Len(d) /\ it + 1 \in Nat /\ it < it + 1
    BY <1>1
  <2>4. Stacked(d, it + 1, U!PushedStack(d, t))
    BY <1>1, <2>3, PushedKept
  <2> QED BY <2>2, <2>3, <2>4
<1>3. CASE widest # {}
  <2>1. PICK k : k = CHOOSE j \in widest : TRUE
    OBVIOUS
  <2>2. k \in widest
    BY <1>3, <2>1
  <2>3. U!Turn(d, t) = [iter |-> t.iter + k, stack |-> U!MergedStack(d, t, k)]
    BY <1>3, <2>1 DEF U!Turn
  <2>4. U!Turn(d, t).iter = it + k /\ U!Turn(d, t).stack = U!MergedStack(d, t, k)
    BY <2>3
  <2>5. U!Scanning(d, t.iter, t.stack)!Widest(k)
    BY <2>2
  <2>6. k \in Nat \ {0} /\ it + k <= Len(d) /\ Stacked(d, it + k, U!MergedStack(d, t, k))
    BY <1>1, <2>5, MergedKept
  <2>7. it + k \in Nat /\ it < it + k
    BY <2>6
  <2> QED BY <2>4, <2>6, <2>7
<1> QED BY <1>2, <1>3

-----------------------------------------------------------------------------
(* Running sums over a list, and over the sizes of a stack.                 *)

(* A value for each of n steps, each made from the one before.              *)
Steps(f, first, n, step) == f[0] = first /\ \A i \in 1..n : f[i] = step[i][f[i - 1]]

LEMMA StepsExist ==
  ASSUME NEW T, NEW first \in T, NEW n \in Nat, NEW step \in [1..n -> [T -> T]]
  PROVE  \E f \in [0..n -> T] : Steps(f, first, n, step)
<1> DEFINE Bad == {m \in Nat : m <= n /\ ~\E f \in [0..m -> T] : Steps(f, first, m, step)}
<1> SUFFICES ASSUME Bad # {} PROVE FALSE
  <2>1. n <= n
    OBVIOUS
  <2> QED BY <2>1
<1>1. PICK m \in Bad : \A x \in Bad : m <= x
  <2>1. Bad \in SUBSET Nat
    OBVIOUS
  <2> HIDE DEF Bad
  <2> QED BY <2>1, LeastNatural
<1>2. m # 0
  <2>1. PICK f : f = [r \in 0..0 |-> first]
    OBVIOUS
  <2>2. f \in [0..0 -> T] /\ f[0] = first
    BY <2>1
  <2>3. Steps(f, first, 0, step)
    BY <2>2 DEF Steps
  <2> QED BY <2>2, <2>3
<1>3. m \in 1..n /\ m - 1 \in Nat /\ m - 1 \notin Bad /\ m - 1 <= n
  BY <1>1, <1>2
<1>4. PICK f \in [0..(m - 1) -> T] : Steps(f, first, m - 1, step)
  BY <1>3
<1>5. PICK y \in T : y = step[m][f[m - 1]]
  <2>1. f[m - 1] \in T
    BY <1>3
  <2>2. step[m] \in [T -> T]
    BY <1>3
  <2> QED BY <2>1, <2>2
<1>6. PICK g : g = [r \in 0..m |-> IF r = m THEN y ELSE f[r]]
  OBVIOUS
<1>7. g[m] = y /\ \A r \in 0..(m - 1) : g[r] = f[r]
  BY <1>3, <1>6
<1>8. g \in [0..m -> T]
  <2>1. \A r \in 0..m : r = m \/ r \in 0..(m - 1)
    BY <1>3
  <2> QED BY <1>6, <2>1
<1>9. g[0] = first
  <2>1. 0 \in 0..(m - 1)
    BY <1>3
  <2> QED BY <1>4, <1>7, <2>1 DEF Steps
<1>10. ASSUME NEW i \in 1..m PROVE g[i] = step[i][g[i - 1]]
  <2>1. i - 1 \in 0..(m - 1)
    BY <1>3
  <2>2. CASE i = m
    BY <1>5, <1>7, <2>1, <2>2
  <2>3. CASE i # m
    <3>1. i \in 1..(m - 1) /\ i \in 0..(m - 1)
      BY <1>3, <2>3
    <3>2. f[i] = step[i][f[i - 1]]
      BY <1>4, <3>1 DEF Steps
    <3> QED BY <1>7, <2>1, <3>1, <3>2
  <2> QED BY <2>2, <2>3
<1>11. Steps(g, first, m, step)
  BY <1>9, <1>10 DEF Steps
<1> QED BY <1>1, <1>8, <1>11

(* The same, counted from 1.                                                *)
StepsFrom1(f, first, n, step) == f[1] = first /\ \A i \in 2..n : f[i] = step[i][f[i - 1]]

LEMMA StepsFromOne ==
  ASSUME NEW T, NEW first \in T, NEW n \in Nat \ {0}, NEW step \in [1..n -> [T -> T]]
  PROVE  \E f \in [1..n -> T] : StepsFrom1(f, first, n, step)
<1>1. PICK m \in Nat : m = n - 1
  OBVIOUS
<1>2. PICK next : next = [i \in 1..m |-> step[i + 1]]
  OBVIOUS
<1>3. next \in [1..m -> [T -> T]]
  <2>1. \A i \in 1..m : i + 1 \in 1..n
    BY <1>1
  <2>2. \A i \in 1..m : step[i + 1] \in [T -> T]
    BY <2>1
  <2> QED BY <1>2, <2>2
<1>4. PICK f \in [0..m -> T] : Steps(f, first, m, next)
  BY <1>3, StepsExist
<1>5. PICK g : g = [i \in 1..n |-> f[i - 1]]
  OBVIOUS
<1>6. \A i \in 1..n : i - 1 \in 0..m /\ g[i] = f[i - 1]
  BY <1>1, <1>5
<1>7. g \in [1..n -> T]
  BY <1>5, <1>6
<1>8. g[1] = first
  <2>1. 1 \in 1..n /\ 1 - 1 = 0
    OBVIOUS
  <2> QED BY <1>4, <1>6, <2>1 DEF Steps
<1>9. ASSUME NEW i \in 2..n PROVE g[i] = step[i][g[i - 1]]
  <2>1. PICK k \in 1..m : k = i - 1
    BY <1>1
  <2>2. f[k] = next[k][f[k - 1]] /\ next[k] = step[k + 1] /\ k + 1 = i
    BY <1>2, <1>4, <2>1 DEF Steps
  <2>3. i \in 1..n /\ k \in 1..n
    BY <1>1
  <2>4. g[i] = f[k] /\ g[k] = f[k - 1]
    BY <1>6, <2>1, <2>3
  <2> QED BY <2>1, <2>2, <2>4
<1>10. StepsFrom1(g, first, n, step)
  BY <1>8, <1>9 DEF StepsFrom1
<1> QED BY <1>7, <1>10

(* The sums of the first numbers of a list.                                 *)
Sums(f, s) == f = [i \in 0..Len(s) |-> IF i = 0 THEN 0 ELSE f[i - 1] + s[i]]

LEMMA SumTos ==
  ASSUME NEW s \in Seq(Int)
  PROVE  /\ U!SumTo(s, 0) = 0
         /\ \A n \in 0..Len(s) : U!SumTo(s, n) \in Int
         /\ \A n \in 1..Len(s) : U!SumTo(s, n) = U!SumTo(s, n - 1) + s[n]
<1>1. PICK n \in Nat : n = Len(s) /\ \A i \in 1..n : s[i] \in Int
  <2>1. Len(s) \in Nat
    BY LenProperties
  <2> QED BY <2>1, ElementOfSeq
<1>2. PICK step : step = [i \in 1..n |-> [x \in Int |-> x + s[i]]]
  OBVIOUS
<1>3. step \in [1..n -> [Int -> Int]] /\ \A i \in 1..n : \A x \in Int : step[i][x] = x + s[i]
  BY <1>1, <1>2
<1>4. \E f : Sums(f, s)
  <2>1. PICK zero \in Int : zero = 0
    OBVIOUS
  <2>2. PICK f \in [0..n -> Int] : Steps(f, zero, n, step)
    BY <1>3, StepsExist
  <2>3. \A i \in 0..n : f[i] = IF i = 0 THEN 0 ELSE f[i - 1] + s[i]
    <3> TAKE i \in 0..n
    <3>1. CASE i = 0
      BY <2>1, <2>2, <3>1 DEF Steps
    <3>2. CASE i # 0
      <4>1. i \in 1..n /\ i - 1 \in 0..n
        BY <3>2
      <4>2. f[i] = step[i][f[i - 1]] /\ f[i - 1] \in Int
        BY <2>2, <4>1 DEF Steps
      <4> QED BY <1>3, <3>2, <4>1, <4>2
    <3> QED BY <3>1, <3>2
  <2>4. f = [i \in 0..n |-> f[i]]
    OBVIOUS
  <2>5. f = [i \in 0..n |-> IF i = 0 THEN 0 ELSE f[i - 1] + s[i]]
    BY <2>3, <2>4
  <2> QED BY <1>1, <2>5 DEF Sums
<1>5. PICK f : f = CHOOSE g : Sums(g, s)
  OBVIOUS
<1>6. Sums(f, s)
  BY <1>4, <1>5
<1>7. \A m : U!SumTo(s, m) = f[m]
  BY <1>5 DEF U!SumTo, Sums
<1> DEFINE h(i) == IF i = 0 THEN 0 ELSE f[i - 1] + s[i]
<1>8. \A i \in 0..n : f[i] = h(i)
  <2>1. f = [i \in 0..n |-> h(i)]
    BY <1>1, <1>6 DEF Sums
  <2> HIDE DEF h
  <2> QED BY <2>1
<1>9. \A i \in 0..n : f[i] \in Int
  <2> DEFINE Bad == {i \in 0..n : f[i] \notin Int}
  <2> SUFFICES ASSUME Bad # {} PROVE FALSE
    OBVIOUS
  <2>1. PICK m \in Bad : \A x \in Bad : m <= x
    <3>1. Bad \in SUBSET Nat
      OBVIOUS
    <3> HIDE DEF Bad
    <3> QED BY <3>1, LeastNatural
  <2>2. f[0] = 0
    BY <1>8
  <2>3. m # 0 /\ m \in 0..n
    BY <2>1, <2>2
  <2>4. m - 1 \in 0..n /\ m - 1 \notin Bad /\ m \in 1..n
    BY <2>1, <2>3
  <2>5. f[m - 1] \in Int
    BY <2>4
  <2>6. f[m] = f[m - 1] + s[m]
    BY <1>8, <2>3
  <2> QED BY <1>1, <2>1, <2>4, <2>5, <2>6
<1>10. \A i \in 1..n : f[i] = f[i - 1] + s[i]
  BY <1>8
<1>11. f[0] = 0
  BY <1>8
<1> HIDE DEF h
<1> QED BY <1>1, <1>7, <1>9, <1>10, <1>11

(* A list of runs that stand one after another, the j-th from at[j] on.     *)
Sized(s, at, n) ==
  /\ n \in Nat \ {0} /\ Len(s) = n /\ at[1] = 0
  /\ \A j \in 1..n : /\ at[j] \in Nat /\ U!Size(s[j]) \in Nat \ {0}
                     /\ j # n => at[j] + U!Size(s[j]) = at[j + 1]

LEMMA SizedStack ==
  ASSUME NEW d, NEW it, NEW s, NEW at, NEW n, StackedAt(d, it, s, at, n)
  PROVE  Sized(s, at, n)
<1>1. s \in Seq(Elem) /\ n \in Nat \ {0} /\ Len(s) = n /\ at \in [1..n -> Nat] /\ at[1] = 0
  BY DEF StackedAt
<1>2. \A j \in 1..n : /\ at[j] \in Nat /\ U!Size(s[j]) \in Nat \ {0}
                      /\ j # n => at[j] + U!Size(s[j]) = at[j + 1]
  <2> TAKE j \in 1..n
  <2>1. Stretch(d, at[j], s[j], IF j = n THEN it ELSE at[j + 1])
    BY DEF StackedAt
  <2>2. Run(s[j])
    BY <2>1 DEF Stretch
  <2>3. U!Size(s[j]) \in Nat \ {0}
    BY <2>2, RunParts
  <2>4. j # n => at[j] + U!Size(s[j]) = at[j + 1]
    BY <2>1 DEF Stretch
  <2> QED BY <1>1, <2>3, <2>4
<1> QED BY <1>1, <1>2 DEF Sized

(* The first j - 1 sizes add up to where the j-th run is.                   *)
LEMMA BeforeIs ==
  ASSUME NEW s, NEW at, NEW n, Sized(s, at, n)
  PROVE  \A j \in 1..n : U!Before(s, j) = at[j]
<1>1. n \in Nat \ {0} /\ Len(s) = n /\ at[1] = 0
  BY DEF Sized
<1>2. PICK z : z = [i \in 1..n |-> U!Size(s[i])]
  OBVIOUS
<1>3. \A j \in 1..n : /\ at[j] \in Nat /\ U!Size(s[j]) \in Nat
                      /\ j # n => at[j] + U!Size(s[j]) = at[j + 1]
  BY DEF Sized
<1>4. z \in Seq(Int) /\ Len(z) = n
  <2>1. \A i \in 1..n : U!Size(s[i]) \in Int
    BY <1>3
  <2>2. [i \in 1..n |-> U!Size(s[i])] \in Seq(Int)
    BY <1>1, <2>1, IsASeq
  <2> QED BY <1>1, <1>2, <2>2
<1>5. \A j : U!Before(s, j) = U!SumTo(z, j - 1)
  BY <1>1, <1>2 DEF U!Before
<1>6. /\ U!SumTo(z, 0) = 0
      /\ \A i \in 1..n : U!SumTo(z, i) = U!SumTo(z, i - 1) + z[i]
  BY <1>4, SumTos
<1> DEFINE Bad == {j \in 1..n : U!SumTo(z, j - 1) # at[j]}
<1>7. Bad = {}
  <2> SUFFICES ASSUME Bad # {} PROVE FALSE
    OBVIOUS
  <2>1. PICK m \in Bad : \A x \in Bad : m <= x
    <3>1. Bad \in SUBSET Nat
      OBVIOUS
    <3> HIDE DEF Bad
    <3> QED BY <3>1, LeastNatural
  <2>2. m # 1
    BY <1>1, <1>6, <2>1
  <2>3. PICK k \in 1..n : k = m - 1 /\ k \notin Bad /\ k # n /\ k + 1 = m
    <3>1. m - 1 \in 1..n /\ m - 1 \notin Bad /\ m - 1 # n /\ (m - 1) + 1 = m
      BY <1>1, <2>1, <2>2
    <3> QED BY <3>1
  <2>4. U!SumTo(z, k - 1) = at[k] /\ U!SumTo(z, k) = U!SumTo(z, k - 1) + z[k] /\ z[k] = U!Size(s[k])
    BY <1>2, <1>6, <2>3
  <2>5. at[k] + U!Size(s[k]) = at[m]
    BY <1>3, <2>3
  <2>6. U!SumTo(z, m - 1) = at[m]
    BY <2>3, <2>4, <2>5
  <2> QED BY <2>1, <2>6
<1> QED BY <1>5, <1>7

-----------------------------------------------------------------------------
(* build_off_pat: the elements it returns encode the list of values.        *)

LEMMA DifferencesAre ==
  ASSUME NEW v \in Seq(Int), NEW n \in Nat, Len(v) = n + 1
  PROVE  /\ U!Differences(v) \in Seq(Int) /\ Len(U!Differences(v)) = n
         /\ \A i \in 1..n : /\ v[i] \in Int /\ v[i + 1] \in Int /\ U!Differences(v)[i] \in Int
                            /\ v[i + 1] = v[i] + U!Differences(v)[i]
<1>1. PICK d : d = [i \in 1..n |-> v[i + 1] - v[i]]
  OBVIOUS
<1>2. U!Differences(v) = d
  <2>1. Len(v) - 1 = n
    OBVIOUS
  <2> QED BY <1>1, <2>1 DEF U!Differences
<1>3. \A i \in 1..n : v[i] \in Int /\ v[i + 1] \in Int
  <2> TAKE i \in 1..n
  <2>1. i \in 1..Len(v) /\ i + 1 \in 1..Len(v)
    OBVIOUS
  <2> QED BY <2>1, ElementOfSeq
<1>4. \A i \in 1..n : v[i + 1] - v[i] \in Int
  BY <1>3
<1>5. d \in Seq(Int)
  <2>1. [i \in 1..n |-> v[i + 1] - v[i]] \in Seq(Int)
    BY <1>4, IsASeq
  <2> QED BY <1>1, <2>1
<1>6. Len(d) = n
  BY <1>1
<1>7. ASSUME NEW i \in 1..n PROVE d[i] \in Int /\ v[i + 1] = v[i] + d[i]
  <2>1. d[i] = v[i + 1] - v[i] /\ v[i] \in Int /\ v[i + 1] \in Int
    BY <1>1, <1>3
  <2> QED BY <2>1
<1> QED BY <1>2, <1>3, <1>5, <1>6, <1>7

(* What the scan has after a turn: a place, and a stack that encodes the    *)
(* differences before it.                                                   *)
Scans(d) == {t \in [iter : Nat, stack : Seq(Elem)] : t.iter <= Len(d) /\ Stacked(d, t.iter, t.stack)}

FirstTurn(d) == [iter |-> 1, stack |-> <<[seq |-> <<d[1]>>, cnt |-> 1]>>]

ScanAfter(d, t) == IF t.iter = Len(d) THEN t ELSE U!Turn(d, t)

LEMMA StackedIs ==
  ASSUME NEW d, NEW it, NEW s, Stacked(d, it, s)
  PROVE  s \in Seq(Elem)
BY DEF Stacked, StackedAt

LEMMA FirstTurnIs ==
  ASSUME NEW d \in Seq(Int), NEW n \in Nat \ {0}, Len(d) = n
  PROVE  FirstTurn(d) \in Scans(d) /\ FirstTurn(d).iter = 1
<1>1. PICK x \in Int, one \in Nat, zero \in Nat : x = d[1] /\ one = 1 /\ zero = 0
  <2>1. 1 \in 1..Len(d)
    OBVIOUS
  <2> QED BY <2>1, ElementOfSeq
<1>2. PICK e : e = [seq |-> <<x>>, cnt |-> one]
  OBVIOUS
<1>3. e \in Elem /\ e.seq = <<x>> /\ e.cnt = 1
  BY <1>1, <1>2 DEF Elem
<1>4. Stretch(d, zero, e, one)
  <2>1. zero + 1 = one /\ e.seq = <<d[zero + 1]>> /\ zero + 1 <= Len(d)
    BY <1>1, <1>3
  <2>2. Stretch(d, zero, e, zero + 1)
    BY <1>3, <2>1, FirstOn
  <2> QED BY <2>1, <2>2
<1>5. PICK s : s = <<e>>
  OBVIOUS
<1>6. s \in Seq(Elem) /\ Len(s) = one /\ s[1] = e
  BY <1>1, <1>3, <1>5
<1>7. PICK at : at = [j \in 1..one |-> zero]
  OBVIOUS
<1>8. at \in [1..one -> Nat] /\ at[1] = 0 /\ one \in Nat \ {0} /\ \A j \in 1..one : j = one /\ j = 1
  BY <1>1, <1>7
<1>9. \A j \in 1..one : Stretch(d, at[j], s[j], IF j = one THEN one ELSE at[j + 1])
  BY <1>1, <1>4, <1>6, <1>8
<1>10. StackedAt(d, one, s, at, one)
  BY <1>6, <1>8, <1>9 DEF StackedAt
<1>11. Stacked(d, one, s)
  BY <1>10 DEF Stacked
<1>12. FirstTurn(d) = [iter |-> one, stack |-> s]
  BY <1>1, <1>2, <1>5 DEF FirstTurn
<1>13. one <= Len(d)
  BY <1>1
<1>14. FirstTurn(d) \in [iter : Nat, stack : Seq(Elem)] /\ FirstTurn(d).iter = one /\ FirstTurn(d).stack = s
  BY <1>6, <1>12
<1> QED BY <1>1, <1>11, <1>13, <1>14 DEF Scans

LEMMA NextTurnIs ==
  ASSUME NEW d \in Seq(Int), NEW t \in Scans(d)
  PROVE  /\ t.iter \in Nat /\ t.iter <= Len(d)
         /\ ScanAfter(d, t) \in Scans(d)
         /\ IF t.iter = Len(d) THEN ScanAfter(d, t) = t ELSE t.iter < ScanAfter(d, t).iter
<1>1. t.iter \in Nat /\ t.iter <= Len(d) /\ Stacked(d, t.iter, t.stack) /\ Len(d) \in Nat
  BY LenProperties DEF Scans
<1>2. CASE t.iter = Len(d)
  BY <1>1, <1>2 DEF ScanAfter
<1>3. CASE t.iter # Len(d)
  <2>1. PICK it \in Nat : it = t.iter /\ it < Len(d)
    BY <1>1, <1>3
  <2>2. PICK u : u = U!Turn(d, t) /\ ScanAfter(d, t) = u
    BY <1>3 DEF ScanAfter
  <2>3. u.iter \in Nat /\ it < u.iter /\ u.iter <= Len(d) /\ Stacked(d, u.iter, u.stack)
    BY <1>1, <2>1, <2>2, TurnKept
  <2>4. u.stack \in Seq(Elem)
    BY <2>3, StackedIs
  <2>5. u = [iter |-> u.iter, stack |-> u.stack]
    BY <2>2 DEF U!Turn
  <2>6. u \in [iter : Nat, stack : Seq(Elem)]
    BY <2>3, <2>4, <2>5
  <2>7. u \in Scans(d)
    BY <2>3, <2>6 DEF Scans
  <2> QED BY <1>1, <1>3, <2>1, <2>2, <2>3, <2>7
<1> QED BY <1>2, <1>3

Turns(f, d) == f = [n \in 1..Len(d) |-> IF n = 1 THEN FirstTurn(d) ELSE ScanAfter(d, f[n - 1])]

LEMMA TurnsExist ==
  ASSUME NEW d \in Seq(Int), NEW n \in Nat \ {0}, Len(d) = n
  PROVE  \E f : Turns(f, d)
<1>1. PICK T : T = Scans(d)
  OBVIOUS
<1>2. PICK step : step = [i \in 1..n |-> [t \in T |-> ScanAfter(d, t)]]
  OBVIOUS
<1>3. \A t \in T : ScanAfter(d, t) \in T
  BY <1>1, NextTurnIs
<1>4. step \in [1..n -> [T -> T]] /\ \A i \in 1..n : \A t \in T : step[i][t] = ScanAfter(d, t)
  BY <1>2, <1>3
<1>5. PICK t1 \in T : t1 = FirstTurn(d)
  BY <1>1, FirstTurnIs
<1>6. PICK f \in [1..n -> T] : StepsFrom1(f, t1, n, step)
  <2>1. step \in [1..n -> [T -> T]] /\ n \in Nat \ {0} /\ t1 \in T
    BY <1>4
  <2> QED BY <2>1, StepsFromOne
<1>7. \A i \in 1..n : f[i] = IF i = 1 THEN FirstTurn(d) ELSE ScanAfter(d, f[i - 1])
  <2> TAKE i \in 1..n
  <2>1. CASE i = 1
    BY <1>5, <1>6, <2>1 DEF StepsFrom1
  <2>2. CASE i # 1
    <3>1. i \in 2..n /\ i - 1 \in 1..n
      BY <2>2
    <3>2. f[i] = step[i][f[i - 1]] /\ f[i - 1] \in T
      BY <1>6, <3>1 DEF StepsFrom1
    <3> QED BY <1>4, <2>2, <3>2
  <2> QED BY <2>1, <2>2
<1>8. f = [i \in 1..n |-> f[i]]
  OBVIOUS
<1>9. f = [i \in 1..n |-> IF i = 1 THEN FirstTurn(d) ELSE ScanAfter(d, f[i - 1])]
  BY <1>7, <1>8
<1> QED BY <1>9 DEF Turns

LEMMA TurnsEnd ==
  ASSUME NEW d \in Seq(Int), NEW n \in Nat \ {0}, Len(d) = n, NEW f, Turns(f, d)
  PROVE  Stacked(d, n, f[n].stack)
<1> DEFINE h(i) == IF i = 1 THEN FirstTurn(d) ELSE ScanAfter(d, f[i - 1])
<1>1. \A i \in 1..n : f[i] = h(i)
  <2>1. f = [i \in 1..n |-> h(i)]
    BY DEF Turns
  <2> HIDE DEF h
  <2> QED BY <2>1
<1> DEFINE Bad == {i \in 1..n : ~(f[i] \in Scans(d) /\ i <= f[i].iter)}
<1>2. Bad = {}
  <2> SUFFICES ASSUME Bad # {} PROVE FALSE
    OBVIOUS
  <2>1. PICK m \in Bad : \A x \in Bad : m <= x
    <3>1. Bad \in SUBSET Nat
      OBVIOUS
    <3> HIDE DEF Bad
    <3> QED BY <3>1, LeastNatural
  <2>2. m # 1
    <3>1. f[1] = FirstTurn(d)
      BY <1>1
    <3>2. f[1] \in Scans(d) /\ f[1].iter = 1
      BY <3>1, FirstTurnIs
    <3> QED BY <2>1, <3>2
  <2>3. PICK k \in 1..n : k = m - 1 /\ m = k + 1 /\ k \notin Bad
    <3>1. m - 1 \in 1..n /\ m = (m - 1) + 1 /\ m - 1 \notin Bad
      BY <2>1, <2>2
    <3> QED BY <3>1
  <2>4. PICK t \in Scans(d) : t = f[k] /\ k <= t.iter
    BY <2>3
  <2>5. f[m] = ScanAfter(d, t)
    BY <1>1, <2>1, <2>2, <2>3, <2>4
  <2>6. /\ t.iter \in Nat /\ t.iter <= n /\ f[m] \in Scans(d)
        /\ IF t.iter = n THEN f[m] = t ELSE t.iter < f[m].iter
    BY <2>5, NextTurnIs
  <2>7. f[m].iter \in Nat
    BY <2>6 DEF Scans
  <2>8. m <= f[m].iter
    <3>1. m <= n /\ m = k + 1
      BY <2>1, <2>3
    <3> QED BY <2>4, <2>6, <2>7, <3>1
  <2> QED BY <2>1, <2>6, <2>8
<1>3. n \in 1..n /\ n \notin Bad
  BY <1>2
<1>4. f[n] \in Scans(d) /\ n <= f[n].iter
  BY <1>3
<1>5. f[n].iter \in Nat /\ f[n].iter <= n /\ Stacked(d, f[n].iter, f[n].stack)
  BY <1>4 DEF Scans
<1>6. f[n].iter = n
  BY <1>4, <1>5
<1> QED BY <1>5, <1>6

(* Elements with their inits: together they encode the list v.              *)
Element == [init : Int, cnt : Nat, seq : Seq(Int)]

EncodesAt(es, v, at, n) ==
  /\ es \in Seq(Element) /\ n \in Nat \ {0} /\ Len(es) = n
  /\ at \in [1..n -> Nat] /\ at[1] = 0
  /\ \A j \in 1..n :
       /\ Stretch(U!Differences(v), at[j], es[j], IF j = n THEN Len(v) - 1 ELSE at[j + 1])
       /\ es[j].init = v[at[j] + 1]

Encodes(es, v) == \E at, n : EncodesAt(es, v, at, n)

LEMMA StretchOf ==
  ASSUME NEW d, NEW st, NEW e, NEW it, NEW f, f.seq = e.seq, f.cnt = e.cnt
  PROVE  Stretch(d, st, f, it) <=> Stretch(d, st, e, it)
<1>1. U!Size(f) = U!Size(e)
  BY DEF U!Size
<1>2. Run(f) <=> Run(e)
  BY DEF Run
<1>3. On(d, st, f) <=> On(d, st, e)
  BY DEF On
<1> QED BY <1>1, <1>2, <1>3 DEF Stretch

LEMMA EndsWithin ==
  ASSUME NEW d, NEW it \in Nat, NEW s, NEW at, NEW n, StackedAt(d, it, s, at, n)
  PROVE  \A j \in 1..n : at[j] < it
<1>1. n \in Nat \ {0} /\ at \in [1..n -> Nat]
  BY DEF StackedAt
<1>2. \A j \in 1..n : at[j] \in Nat /\ (IF j = n THEN at[j] < it ELSE at[j] < at[j + 1])
  <2> TAKE j \in 1..n
  <2>1. Stretch(d, at[j], s[j], IF j = n THEN it ELSE at[j + 1])
    BY DEF StackedAt
  <2>2. Run(s[j]) /\ at[j] + U!Size(s[j]) = IF j = n THEN it ELSE at[j + 1]
    BY <2>1 DEF Stretch
  <2>3. U!Size(s[j]) \in Nat \ {0}
    BY <2>2, RunParts
  <2>4. at[j] \in Nat
    BY <1>1
  <2> QED BY <2>2, <2>3, <2>4
<1> DEFINE Bad == {i \in 0..(n - 1) : ~(at[n - i] < it)}
<1>3. Bad = {}
  <2> SUFFICES ASSUME Bad # {} PROVE FALSE
    OBVIOUS
  <2>1. PICK m \in Bad : \A x \in Bad : m <= x
    <3>1. Bad \in SUBSET Nat
      OBVIOUS
    <3> HIDE DEF Bad
    <3> QED BY <3>1, LeastNatural
  <2>2. m # 0
    <3>1. n \in 1..n /\ n - 0 = n
      BY <1>1
    <3> QED BY <1>2, <2>1, <3>1
  <2>3. PICK j \in 1..n : j = n - m /\ j # n /\ j + 1 = n - (m - 1)
    <3>1. n - m \in 1..n /\ n - m # n /\ (n - m) + 1 = n - (m - 1)
      BY <1>1, <2>1, <2>2
    <3> QED BY <3>1
  <2>4. m - 1 \in 0..(n - 1) /\ m - 1 \notin Bad
    <3>1. m \in 0..(n - 1)
      BY <2>1
    <3>2. m \in Nat /\ n \in Nat /\ m <= n - 1 /\ m # 0
      BY <1>1, <2>2, <3>1
    <3>3. m - 1 \in 0..(n - 1) /\ ~(m <= m - 1)
      BY <3>2
    <3> HIDE DEF Bad
    <3> QED BY <2>1, <3>3
  <2>5. at[j + 1] < it
    BY <2>3, <2>4
  <2>6. at[j] < at[j + 1] /\ at[j] \in Nat /\ at[j + 1] \in Nat
    <3>1. j + 1 \in 1..n
      BY <1>1, <2>3
    <3> QED BY <1>2, <2>3, <3>1
  <2>7. at[n - m] < it
    BY <2>3, <2>5, <2>6
  <2> QED BY <2>1, <2>7
<1>4. \A j \in 1..n : n - j \in 0..(n - 1) /\ n - (n - j) = j
  BY <1>1
<1> QED BY <1>3, <1>4

LEMMA ScannedIs ==
  ASSUME NEW d, NEW f, f = CHOOSE g : Turns(g, d), NEW n, n = Len(d)
  PROVE  U!Scanned(d) = f[n].stack
BY DEF U!Scanned, Turns, FirstTurn, ScanAfter

LEMMA Built ==
  ASSUME NEW v \in Seq(Int), NEW n \in Nat \ {0}, Len(v) = n + 1
  PROVE  Encodes(U!build_off_pat(v), v)
<1>1. PICK d \in Seq(Int) : d = U!Differences(v) /\ Len(d) = n
  BY DifferencesAre
<1>2. PICK f : f = CHOOSE g : Turns(g, d)
  OBVIOUS
<1>3. Turns(f, d)
  BY <1>1, <1>2, TurnsExist
<1>4. PICK s : s = f[n].stack
  OBVIOUS
<1>5. Stacked(d, n, s)
  BY <1>1, <1>3, <1>4, TurnsEnd
<1>6. PICK at, m : StackedAt(d, n, s, at, m)
  BY <1>5 DEF Stacked
<1>7. s \in Seq(Elem) /\ m \in Nat \ {0} /\ Len(s) = m /\ at \in [1..m -> Nat] /\ at[1] = 0
  BY <1>6 DEF StackedAt
<1>8. PICK es : es = U!build_off_pat(v)
  OBVIOUS
<1>9. es = [j \in 1..Len(s) |->
              [init |-> v[U!Before(s, j) + 1], cnt |-> s[j].cnt, seq |-> s[j].seq]]
  <2>1. U!Scanned(d) = s
    BY <1>1, <1>2, <1>4, ScannedIs, SMTT(30)
  <2>2. U!Scanned(U!Differences(v)) = s
    BY <1>1, <2>1
  <2> QED BY <1>8, <2>2 DEF U!build_off_pat
<1>10. \A j \in 1..m : s[j] \in Elem /\ U!Before(s, j) = at[j] /\ at[j] < n /\ at[j] \in Nat
  <2>1. \A j \in 1..m : U!Before(s, j) = at[j]
    BY <1>6, SizedStack, BeforeIs
  <2>2. \A j \in 1..m : at[j] < n
    BY <1>6, EndsWithin
  <2>3. \A j \in 1..m : s[j] \in Elem
    BY <1>7, ElementOfSeq
  <2> QED BY <1>7, <2>1, <2>2, <2>3
<1>11. \A j \in 1..m : v[at[j] + 1] \in Int
  <2> TAKE j \in 1..m
  <2>1. at[j] + 1 \in 1..Len(v)
    BY <1>10
  <2> QED BY <2>1, ElementOfSeq
<1>12. \A j \in 1..m : es[j] = [init |-> v[at[j] + 1], cnt |-> s[j].cnt, seq |-> s[j].seq]
  BY <1>7, <1>9, <1>10
<1>13. \A j \in 1..m : es[j] \in Element /\ es[j].init = v[at[j] + 1] /\ es[j].cnt = s[j].cnt /\ es[j].seq = s[j].seq
  <2> TAKE j \in 1..m
  <2>1. v[at[j] + 1] \in Int /\ s[j].cnt \in Nat /\ s[j].seq \in Seq(Int)
    BY <1>10, <1>11 DEF Elem
  <2>2. PICK x \in Int, c \in Nat, q \in Seq(Int) : x = v[at[j] + 1] /\ c = s[j].cnt /\ q = s[j].seq
    BY <2>1
  <2>3. es[j] = [init |-> x, cnt |-> c, seq |-> q]
    BY <1>12, <2>2
  <2>4. es[j] \in Element
    BY <2>3 DEF Element
  <2> QED BY <2>2, <2>3, <2>4
<1>14. es \in Seq(Element) /\ Len(es) = m
  <2>1. \A j \in 1..m : [init |-> v[U!Before(s, j) + 1], cnt |-> s[j].cnt, seq |-> s[j].seq] \in Element
    BY <1>7, <1>9, <1>13
  <2>2. [j \in 1..m |->
              [init |-> v[U!Before(s, j) + 1], cnt |-> s[j].cnt, seq |-> s[j].seq]] \in Seq(Element)
    BY <1>7, <2>1, IsASeq
  <2>3. Len(es) = m
    BY <1>7, <1>9
  <2> QED BY <1>7, <1>9, <2>2, <2>3
<1>15. ASSUME NEW j \in 1..m
       PROVE  Stretch(d, at[j], es[j], IF j = m THEN Len(v) - 1 ELSE at[j + 1])
  <2>1. Stretch(d, at[j], s[j], IF j = m THEN n ELSE at[j + 1])
    BY <1>6 DEF StackedAt
  <2>2. Len(v) - 1 = n
    OBVIOUS
  <2>3. Stretch(d, at[j], es[j], IF j = m THEN n ELSE at[j + 1])
    BY <1>13, <2>1, StretchOf
  <2> QED BY <2>2, <2>3
<1>16. EncodesAt(es, v, at, m)
  BY <1>1, <1>7, <1>13, <1>14, <1>15 DEF EncodesAt
<1> QED BY <1>8, <1>16 DEF Encodes

-----------------------------------------------------------------------------
(* getValueByPos: the value at a position of an element.                    *)

(* Where a position stands in the turns of an element, and the next one.    *)
PlaceAs(p, n, a, k, r) ==
  /\ p = a * k + r /\ p \div a = k /\ p % a = r
  /\ r + 1 < a => n \div a = k /\ n % a = r + 1
  /\ r + 1 = a => n \div a = k + 1 /\ n % a = 0

LEMMA PlaceInTurns ==
  ASSUME NEW a \in Nat \ {0}, NEW c \in Nat, NEW z, z = a * c, NEW p \in Nat, p < z,
         NEW n \in Nat, n = p + 1
  PROVE  \E k \in 0..(c - 1), r \in 0..(a - 1) : PlaceAs(p, n, a, k, r)
<1>1. PICK k \in Nat, r \in 0..(a - 1) : k = p \div a /\ r = p % a /\ p = a * k + r
  BY Quotient
<1>2. k < c
  BY <1>1, QuotientBelow
<1>3. PICK w \in Nat : w = a * k
  BY Product
<1>4. ASSUME r + 1 < a PROVE n \div a = k /\ n % a = r + 1
  <2>1. PICK m \in 0..(a - 1) : m = r + 1
    BY <1>4
  <2>2. n = a * k + m
    BY <1>1, <1>3, <2>1
  <2>3. n \div a = k /\ n % a = m
    BY <2>2, QuotientIs
  <2> QED BY <2>1, <2>3
<1>5. ASSUME r + 1 = a PROVE n \div a = k + 1 /\ n % a = 0
  <2>1. PICK m \in 0..(a - 1), l \in Nat : m = 0 /\ l = k + 1
    BY <1>5
  <2>2. a * l = w + a
    BY <1>3, <2>1, NextTurn
  <2>3. n = a * l + m
    BY <1>1, <1>3, <1>5, <2>1, <2>2
  <2>4. n \div a = l /\ n % a = m
    BY <2>3, QuotientIs
  <2> QED BY <2>1, <2>4
<1>6. k \in 0..(c - 1)
  BY <1>2
<1>7. PlaceAs(p, n, a, k, r)
  BY <1>1, <1>4, <1>5 DEF PlaceAs
<1> QED BY <1>6, <1>7

LEMMA ValueByPosIs ==
  ASSUME NEW e, NEW p, p \in 0..U!Size(e)
  PROVE  U!getValueByPos(e, p) =
           e.init + U!SumTo(e.seq, Len(e.seq)) * (p \div Len(e.seq)) + U!SumTo(e.seq, p % Len(e.seq))
BY DEF U!getValueByPos, U!sumVecSeq

(* What an element says of its values.                                      *)
ValueIn(q, a, x, sum, p) == x + sum * (p \div a) + U!SumTo(q, p % a)

ElementAs(e, q, a, c, x, sum, z) ==
  /\ q = e.seq /\ Len(q) = a /\ c = e.cnt /\ U!Size(e) = z /\ z = a * c /\ x = e.init
  /\ sum = U!SumTo(q, a)
  /\ \A p \in Nat : p <= z => U!getValueByPos(e, p) = ValueIn(q, a, x, sum, p)

LEMMA ValueParts ==
  ASSUME NEW e \in Element, Run(e)
  PROVE  \E q \in Seq(Int), a \in Nat \ {0}, c \in Nat \ {0}, x \in Int, sum \in Int, z \in Nat :
           ElementAs(e, q, a, c, x, sum, z)
<1>1. PICK q \in Seq(Int), a \in Nat \ {0}, c \in Nat \ {0} :
        q = e.seq /\ Len(q) = a /\ c = e.cnt /\ U!Size(e) = a * c
  BY RunParts
<1>2. PICK z \in Nat : z = a * c
  BY Product
<1>3. PICK x : x = e.init
  OBVIOUS
<1>4. x \in Int
  BY <1>3 DEF Element
<1>5. PICK sum : sum = U!SumTo(q, a)
  OBVIOUS
<1>6. sum \in Int
  <2>1. a \in 0..Len(q)
    BY <1>1
  <2> QED BY <1>5, <2>1, SumTos
<1>7. ASSUME NEW p \in Nat, p <= z
      PROVE  U!getValueByPos(e, p) = ValueIn(q, a, x, sum, p)
  <2>1. p \in 0..U!Size(e)
    <3>1. p \in 0..z /\ z = U!Size(e)
      BY <1>1, <1>2, <1>7
    <3> QED BY <3>1
  <2>2. U!getValueByPos(e, p) =
          e.init + U!SumTo(e.seq, Len(e.seq)) * (p \div Len(e.seq)) + U!SumTo(e.seq, p % Len(e.seq))
    BY <2>1, ValueByPosIs
  <2>3. x = e.init /\ q = e.seq /\ a = Len(e.seq) /\ sum = U!SumTo(e.seq, Len(e.seq))
    BY <1>1, <1>3, <1>5
  <2>4. U!getValueByPos(e, p) = x + sum * (p \div a) + U!SumTo(q, p % a)
    BY ONLY <2>2, <2>3, Zenon
  <2> QED BY <2>4 DEF ValueIn
<1>8. ElementAs(e, q, a, c, x, sum, z)
  BY <1>1, <1>2, <1>3, <1>5, <1>7 DEF ElementAs
<1> QED BY <1>4, <1>6, <1>8

LEMMA ValueInTurn ==
  ASSUME NEW e \in Element, Run(e), NEW p \in Nat, p <= U!Size(e)
  PROVE  U!getValueByPos(e, p) \in Int
<1>1. PICK q \in Seq(Int), a \in Nat \ {0}, c \in Nat \ {0}, x \in Int, sum \in Int, z \in Nat :
        ElementAs(e, q, a, c, x, sum, z)
  BY ValueParts
<1>2. /\ Len(q) = a /\ U!getValueByPos(e, p) = ValueIn(q, a, x, sum, p)
  <2>1. p <= z
    BY <1>1 DEF ElementAs
  <2> QED BY <1>1, <2>1 DEF ElementAs
<1>3. p \div a \in Nat /\ p % a \in 0..Len(q)
  <2>1. p \div a \in Nat /\ p % a \in 0..(a - 1)
    BY Quotient
  <2> QED BY <1>2, <2>1
<1>4. PICK k \in Nat, y \in Int : k = p \div a /\ y = U!SumTo(q, p % a)
  <2>1. U!SumTo(q, p % a) \in Int
    BY <1>3, SumTos
  <2> QED BY <1>3, <2>1
<1>5. ValueIn(q, a, x, sum, p) = x + sum * k + y
  BY ONLY <1>4, Zenon DEF ValueIn
<1>6. PICK w \in Int : w = sum * k
  OBVIOUS
<1> QED BY <1>2, <1>5, <1>6

(* From a value to the next: the difference that the element has there.     *)
LEMMA NextValueOf ==
  ASSUME NEW e \in Element, Run(e), NEW p \in Nat, p < U!Size(e)
  PROVE  \E k \in 0..(e.cnt - 1), s \in 1..Len(e.seq) :
           /\ p + 1 = k * Len(e.seq) + s
           /\ e.seq[s] \in Int
           /\ U!getValueByPos(e, p + 1) = U!getValueByPos(e, p) + e.seq[s]
<1>1. PICK q \in Seq(Int), a \in Nat \ {0}, c \in Nat \ {0}, x \in Int, sum \in Int, z \in Nat :
        ElementAs(e, q, a, c, x, sum, z)
  BY ValueParts
<1>2. /\ q = e.seq /\ Len(q) = a /\ c = e.cnt /\ U!Size(e) = z /\ z = a * c /\ x = e.init
      /\ sum = U!SumTo(q, a)
  BY <1>1 DEF ElementAs
<1>3. PICK n \in Nat : n = p + 1 /\ p < z /\ p <= z /\ n <= z
  <2>1. p < z
    BY <1>2
  <2>2. p + 1 \in Nat /\ p <= z /\ p + 1 <= z
    BY <2>1
  <2> QED BY <2>1, <2>2
<1>4. /\ U!getValueByPos(e, p) = ValueIn(q, a, x, sum, p)
      /\ U!getValueByPos(e, n) = ValueIn(q, a, x, sum, n)
  BY <1>1, <1>3 DEF ElementAs
<1>5. PICK k \in 0..(c - 1), r \in 0..(a - 1) : PlaceAs(p, n, a, k, r)
  BY <1>2, <1>3, PlaceInTurns
<1>14. /\ p = a * k + r /\ p \div a = k /\ p % a = r
       /\ r + 1 < a => n \div a = k /\ n % a = r + 1
       /\ r + 1 = a => n \div a = k + 1 /\ n % a = 0
  BY <1>5 DEF PlaceAs
<1>6. PICK s \in 1..a : s = r + 1 /\ s - 1 = r
  BY <1>5
<1>7. q[s] \in Int /\ U!SumTo(q, r) \in Int /\ U!SumTo(q, s) = U!SumTo(q, r) + q[s] /\ U!SumTo(q, 0) = 0
  <2>1. s \in 1..Len(q) /\ r \in 0..Len(q)
    BY <1>2
  <2>2. q[s] \in Int
    BY <2>1, ElementOfSeq
  <2>3. U!SumTo(q, r) \in Int /\ U!SumTo(q, s) = U!SumTo(q, s - 1) + q[s] /\ U!SumTo(q, 0) = 0
    BY <2>1, SumTos
  <2> QED BY <1>6, <2>2, <2>3
<1>8. PICK w \in Int : w = sum * k
  OBVIOUS
<1>9. PICK y \in Int, dq \in Int : y = U!SumTo(q, r) /\ dq = q[s]
  BY <1>7
<1>10. U!getValueByPos(e, p) = x + w + y
  <2>1. k \in Nat /\ k = p \div a /\ y = U!SumTo(q, p % a)
    BY <1>9, <1>14, SMTT(30)
  <2>2. ValueIn(q, a, x, sum, p) = x + sum * k + y
    BY ONLY <2>1, Zenon DEF ValueIn
  <2> QED BY <1>4, <1>8, <2>2
<1>11. U!getValueByPos(e, n) = x + w + y + dq
  <2>1. CASE r + 1 < a
    <3>1. PICK yy \in Int : yy = U!SumTo(q, n % a) /\ yy = y + dq
      <4>1. n % a = s
        BY <1>6, <1>14, <2>1
      <4>2. U!SumTo(q, s) = y + dq /\ y + dq \in Int
        BY <1>7, <1>9
      <4> QED BY <4>1, <4>2
    <3>2. k \in Nat /\ k = n \div a
      BY <1>14, <2>1
    <3>3. ValueIn(q, a, x, sum, n) = x + sum * k + yy
      BY ONLY <3>1, <3>2, Zenon DEF ValueIn
    <3> QED BY <1>4, <1>8, <3>1, <3>3
  <2>2. CASE r + 1 = a
    <3>1. PICK yy \in Int : yy = U!SumTo(q, n % a) /\ yy = 0
      <4>1. n % a = 0
        BY <1>14, <2>2
      <4> QED BY <1>7, <4>1
    <3>2. PICK l \in Nat : l = n \div a /\ l = k + 1
      <4>1. n \div a = k + 1 /\ k + 1 \in Nat
        BY <1>14, <2>2
      <4> QED BY <4>1
    <3>3. ValueIn(q, a, x, sum, n) = x + sum * l + yy
      BY ONLY <3>1, <3>2, Zenon DEF ValueIn
    <3>4. sum = y + dq
      BY <1>2, <1>6, <1>7, <1>9, <2>2
    <3>5. PICK ww \in Int : ww = sum * l /\ ww = w + sum
      <4>1. sum * l \in Int /\ sum * l = w + sum
        BY <1>8, <3>2
      <4> QED BY <4>1
    <3>6. U!getValueByPos(e, n) = x + ww + 0
      BY <1>4, <3>1, <3>3, <3>5
    <3> QED BY <3>4, <3>5, <3>6
  <2>3. r + 1 < a \/ r + 1 = a
    BY <1>5
  <2> QED BY <2>1, <2>2, <2>3
<1>12. p + 1 = k * a + s
  <2>1. PICK u \in Nat : u = a * k /\ u = k * a
    BY Product
  <2> QED BY <1>6, <1>14, <2>1
<1>13. U!getValueByPos(e, p + 1) = U!getValueByPos(e, p) + q[s]
  BY <1>3, <1>9, <1>10, <1>11
<1> QED BY <1>2, <1>7, <1>12, <1>13

LEMMA ValueAtNone ==
  ASSUME NEW e \in Element, Run(e)
  PROVE  U!getValueByPos(e, 0) = e.init
<1>1. PICK q \in Seq(Int), a \in Nat \ {0}, c \in Nat \ {0}, x \in Int, sum \in Int, z \in Nat :
        ElementAs(e, q, a, c, x, sum, z)
  BY ValueParts
<1>2. PICK o \in Nat, m \in 0..(a - 1), y \in Int : o = 0 /\ m = 0 /\ y = 0 /\ o <= z
  OBVIOUS
<1>3. Len(q) = a /\ x = e.init /\ U!getValueByPos(e, o) = ValueIn(q, a, x, sum, o)
  BY <1>1, <1>2 DEF ElementAs
<1>4. o \div a = o /\ o % a = m
  <2>1. o = a * o + m
    BY <1>2
  <2> QED BY <2>1, QuotientIs
<1>5. y = U!SumTo(q, o % a)
  BY <1>2, <1>4, SumTos
<1>6. ValueIn(q, a, x, sum, o) = x + sum * o + y
  <2>1. o = o \div a
    BY <1>4
  <2> QED BY ONLY <1>5, <2>1, Zenon DEF ValueIn
<1>7. PICK w \in Int : w = sum * o /\ w = 0
  <2>1. sum * o = 0
    BY <1>2
  <2> QED BY <2>1
<1>8. U!getValueByPos(e, o) = x
  BY <1>2, <1>3, <1>6, <1>7
<1> QED BY <1>2, <1>3, <1>8

(* An element gives back the values of its stretch.                         *)
LEMMA ValuesOfStretch ==
  ASSUME NEW v \in Seq(Int), NEW n \in Nat, Len(v) = n + 1,
         NEW e \in Element, NEW st \in Nat, NEW to \in Nat,
         Stretch(U!Differences(v), st, e, to), to <= n, e.init = v[st + 1]
  PROVE  \A p \in 0..U!Size(e) : U!getValueByPos(e, p) = v[st + p + 1]
<1>1. Run(e) /\ On(U!Differences(v), st, e) /\ st + U!Size(e) = to
  BY DEF Stretch
<1>2. PICK z \in Nat : z = U!Size(e) /\ st + z = to
  BY <1>1, RunParts
<1> DEFINE Bad == {p \in 0..z : U!getValueByPos(e, p) # v[st + p + 1]}
<1>3. Bad = {}
  <2> SUFFICES ASSUME Bad # {} PROVE FALSE
    OBVIOUS
  <2>1. PICK m \in Bad : \A x \in Bad : m <= x
    <3>1. Bad \in SUBSET Nat
      OBVIOUS
    <3> HIDE DEF Bad
    <3> QED BY <3>1, LeastNatural
  <2>2. m \in 0..z
    BY <2>1
  <2>3. m # 0
    <3>1. st + 0 + 1 = st + 1
      OBVIOUS
    <3> QED BY <1>1, <2>1, <3>1, ValueAtNone
  <2>4. PICK p \in Nat : m = p + 1 /\ p < z /\ p \in 0..z /\ ~(m <= p)
    <3>1. m - 1 \in Nat /\ m = (m - 1) + 1 /\ m - 1 < z /\ m - 1 \in 0..z /\ ~(m <= m - 1)
      BY <2>2, <2>3
    <3> QED BY <3>1
  <2>5. U!getValueByPos(e, p) = v[st + p + 1]
    <3>1. p \notin Bad
      <4> HIDE DEF Bad
      <4> QED BY <2>1, <2>4
    <3> QED BY <2>4, <3>1
  <2>6. PICK k \in 0..(e.cnt - 1), s \in 1..Len(e.seq) :
           /\ p + 1 = k * Len(e.seq) + s
           /\ e.seq[s] \in Int
           /\ U!getValueByPos(e, p + 1) = U!getValueByPos(e, p) + e.seq[s]
    BY <1>1, <1>2, <2>4, NextValueOf
  <2>7. U!Differences(v)[st + k * Len(e.seq) + s] = e.seq[s]
    BY <1>1, <2>6 DEF On
  <2>8. PICK i \in 1..n : i = st + p + 1 /\ i = st + k * Len(e.seq) + s /\ i + 1 = st + m + 1
    <3>1. PICK y \in Nat, b \in Nat : y = k * Len(e.seq) /\ b = Len(e.seq)
      <4>1. Len(e.seq) \in Nat /\ e.cnt \in Nat
        BY <1>1 DEF Run
      <4>2. k \in Nat
        BY <4>1
      <4> QED BY <4>1, <4>2, Product
    <3>2. p + 1 = y + s /\ s \in Int
      BY <2>6, <3>1
    <3>3. st + p + 1 \in 1..n /\ st + p + 1 = st + y + s /\ st + p + 1 + 1 = st + m + 1
      BY <1>2, <2>4, <3>2
    <3> QED BY <3>1, <3>3
  <2>9. v[i + 1] = v[i] + U!Differences(v)[i]
    BY DifferencesAre
  <2>10. U!getValueByPos(e, m) = v[i + 1]
    BY <2>4, <2>5, <2>6, <2>7, <2>8, <2>9
  <2> QED BY <2>1, <2>8, <2>10
<1> HIDE DEF Bad
<1> QED BY <1>2, <1>3 DEF Bad

-----------------------------------------------------------------------------
(* The walk over the elements to a position.                                *)

(* What an int keeps of a number: all of it below the limit.                *)
LEMMA AsIntSmall ==
  ASSUME NEW k \in Nat, k < IntLimit
  PROVE  U!AsInt(k) = k
<1>1. PICK l \in Nat \ {0} : l = IntLimit
  BY IntLimitAssumption
<1>2. PICK x \in Nat, w \in Nat \ {0}, z \in Nat : x = k + l /\ w = 2 * l /\ z = 0 /\ x \in 0..(w - 1)
  <2>1. k + l \in Nat /\ 2 * l \in Nat \ {0} /\ k + l \in 0..(2 * l - 1)
    BY <1>1
  <2> QED BY <2>1
<1>3. x = w * z + x
  BY <1>2
<1>4. x % w = x
  BY <1>2, <1>3, QuotientIs
<1>5. U!AsInt(k) = (x % w) - l
  BY <1>1, <1>2 DEF U!AsInt
<1> QED BY <1>1, <1>2, <1>4, <1>5

LEMMA AsIntIs ==
  ASSUME NEW x \in Int
  PROVE  U!AsInt(x) \in Int
<1>1. PICK l \in Nat \ {0} : l = IntLimit
  BY IntLimitAssumption
<1>2. PICK y \in Int, w \in Nat \ {0} : y = x + l /\ w = 2 * l
  <2>1. x + l \in Int /\ 2 * l \in Nat \ {0}
    OBVIOUS
  <2> QED BY <2>1
<1>3. y % w \in Int
  OBVIOUS
<1>4. U!AsInt(x) = (y % w) - l
  BY <1>1, <1>2 DEF U!AsInt
<1> QED BY <1>1, <1>3, <1>4

(* The walk over the elements: what is left at each of them.                *)
LeftAfter(y, e) == IF y \in 0..U!Size(e) THEN y ELSE U!AsInt(y - U!Size(e))

LeftsAre(f, es, pos) ==
  f = [i \in 1..Len(es) |-> IF i = 1 THEN pos ELSE LeftAfter(f[i - 1], es[i - 1])]

LEMMA LeftsExist ==
  ASSUME NEW es, NEW n \in Nat \ {0}, Len(es) = n, NEW pos \in Int,
         \A i \in 1..n : U!Size(es[i]) \in Nat
  PROVE  \E f \in [1..n -> Int] : LeftsAre(f, es, pos)
<1>1. PICK step : step = [i \in 1..n |-> [y \in Int |-> IF i = 1 THEN y ELSE LeftAfter(y, es[i - 1])]]
  OBVIOUS
<1>2. \A i \in 1..n : \A y \in Int : (IF i = 1 THEN y ELSE LeftAfter(y, es[i - 1])) \in Int
  <2> TAKE i \in 1..n
  <2> TAKE y \in Int
  <2>1. CASE i # 1
    <3>1. i - 1 \in 1..n
      BY <2>1
    <3>2. U!Size(es[i - 1]) \in Nat
      BY <3>1
    <3>3. LeftAfter(y, es[i - 1]) \in Int
      <4>1. y - U!Size(es[i - 1]) \in Int
        BY <3>2
      <4>2. U!AsInt(y - U!Size(es[i - 1])) \in Int
        BY <4>1, AsIntIs
      <4> QED BY <4>2 DEF LeftAfter
    <3> QED BY <2>1, <3>3
  <2> QED BY <2>1
<1>3. step \in [1..n -> [Int -> Int]]
  BY <1>1, <1>2
<1>4. PICK f \in [1..n -> Int] : StepsFrom1(f, pos, n, step)
  <2>1. n \in Nat \ {0} /\ pos \in Int
    OBVIOUS
  <2> QED BY <1>3, <2>1, StepsFromOne
<1>5. \A i \in 1..n : f[i] = IF i = 1 THEN pos ELSE LeftAfter(f[i - 1], es[i - 1])
  <2> TAKE i \in 1..n
  <2>1. CASE i = 1
    BY <1>4, <2>1 DEF StepsFrom1
  <2>2. CASE i # 1
    <3>1. i \in 2..n /\ i - 1 \in 1..n
      BY <2>2
    <3>2. f[i] = step[i][f[i - 1]] /\ f[i - 1] \in Int
      BY <1>4, <3>1 DEF StepsFrom1
    <3>3. step[i][f[i - 1]] = LeftAfter(f[i - 1], es[i - 1])
      BY <1>1, <2>2, <3>2
    <3> QED BY <2>2, <3>2, <3>3
  <2> QED BY <2>1, <2>2
<1>6. f = [i \in 1..n |-> f[i]]
  OBVIOUS
<1>7. f = [i \in 1..n |-> IF i = 1 THEN pos ELSE LeftAfter(f[i - 1], es[i - 1])]
  BY <1>5, <1>6
<1> QED BY <1>7 DEF LeftsAre

LEMMA LeftsAt ==
  ASSUME NEW es, NEW n \in Nat \ {0}, Len(es) = n, NEW pos \in Int,
         \A i \in 1..n : U!Size(es[i]) \in Nat
  PROVE  /\ U!Lefts(es, pos)[1] = pos
         /\ \A i \in 2..n : U!Lefts(es, pos)[i] = LeftAfter(U!Lefts(es, pos)[i - 1], es[i - 1])
<1>1. PICK f : f = CHOOSE g : LeftsAre(g, es, pos)
  OBVIOUS
<1>2. LeftsAre(f, es, pos)
  BY <1>1, LeftsExist
<1>3. U!Lefts(es, pos) = f
  BY <1>1 DEF U!Lefts, LeftsAre, LeftAfter
<1> DEFINE h(i) == IF i = 1 THEN pos ELSE LeftAfter(f[i - 1], es[i - 1])
<1>4. f = [i \in 1..n |-> h(i)]
  BY <1>2 DEF LeftsAre
<1>5. \A i \in 1..n : f[i] = h(i)
  <2> HIDE DEF h
  <2> QED BY <1>4
<1>6. f[1] = pos
  BY <1>5
<1>7. \A i \in 2..n : f[i] = LeftAfter(f[i - 1], es[i - 1])
  BY <1>5
<1> HIDE DEF h
<1> QED BY <1>3, <1>6, <1>7

Covers(es, v, at, n, m) == EncodesAt(es, v, at, n) /\ m \in Nat /\ Len(v) = m + 1

LEMMA ElementOfStretch ==
  ASSUME NEW es, NEW v, NEW at, NEW n, NEW m, Covers(es, v, at, n, m), NEW j \in 1..n
  PROVE  /\ es[j] \in Element /\ Run(es[j]) /\ at[j] \in Nat /\ U!Size(es[j]) \in Nat \ {0}
         /\ j = n => at[j] + U!Size(es[j]) = m
         /\ j # n => j + 1 \in 1..n /\ at[j] + U!Size(es[j]) = at[j + 1]
         /\ es[j].init = v[at[j] + 1]
<1>1. es \in Seq(Element) /\ n \in Nat \ {0} /\ Len(es) = n /\ at \in [1..n -> Nat]
  BY DEF Covers, EncodesAt
<1>2. es[j] \in Element
  BY <1>1, ElementOfSeq
<1>3. /\ Stretch(U!Differences(v), at[j], es[j], IF j = n THEN Len(v) - 1 ELSE at[j + 1])
      /\ es[j].init = v[at[j] + 1]
  BY DEF Covers, EncodesAt
<1>4. Run(es[j]) /\ at[j] + U!Size(es[j]) = IF j = n THEN Len(v) - 1 ELSE at[j + 1]
  BY <1>3 DEF Stretch
<1>5. U!Size(es[j]) \in Nat \ {0}
  BY <1>4, RunParts
<1>6. at[j] \in Nat
  BY <1>1
<1>7. Len(v) - 1 = m
  BY DEF Covers
<1>8. j # n => j + 1 \in 1..n
  BY <1>1
<1>9. j = n => at[j] + U!Size(es[j]) = m
  BY <1>4, <1>7
<1>10. j # n => at[j] + U!Size(es[j]) = at[j + 1]
  BY <1>4
<1> QED BY <1>2, <1>3, <1>4, <1>5, <1>6, <1>8, <1>9, <1>10

(* An element's stretch ends within the list's.                             *)
LEMMA StretchWithin ==
  ASSUME NEW es, NEW v, NEW at, NEW n, NEW m, Covers(es, v, at, n, m)
  PROVE  \A j \in 1..n : at[j] + U!Size(es[j]) <= m
<1>0. n \in Nat \ {0} /\ m \in Nat
  BY DEF Covers, EncodesAt
<1>1. \A j \in 1..n : /\ at[j] \in Nat /\ U!Size(es[j]) \in Nat \ {0}
                      /\ j = n => at[j] + U!Size(es[j]) = m
                      /\ j # n => j + 1 \in 1..n /\ at[j] + U!Size(es[j]) = at[j + 1]
  BY ElementOfStretch
<1> DEFINE Bad == {i \in 0..(n - 1) : ~(at[n - i] + U!Size(es[n - i]) <= m)}
<1>2. Bad = {}
  <2> SUFFICES ASSUME Bad # {} PROVE FALSE
    OBVIOUS
  <2>1. PICK w \in Bad : \A x \in Bad : w <= x
    <3>1. Bad \in SUBSET Nat
      OBVIOUS
    <3> HIDE DEF Bad
    <3> QED BY <3>1, LeastNatural
  <2>2. w \in 0..(n - 1) /\ ~(at[n - w] + U!Size(es[n - w]) <= m)
    BY <2>1
  <2>3. PICK j \in 1..n : j = n - w
    BY <1>0, <2>2
  <2>4. j # n
    <3>1. n \in 1..n
      BY <1>0
    <3>2. at[n] + U!Size(es[n]) = m
      BY <1>1, <3>1
    <3>3. m <= m
      BY <1>0
    <3> QED BY <1>0, <2>2, <2>3, <3>2, <3>3
  <2>5. PICK i \in 0..(n - 1) : n - i = j + 1 /\ ~(w <= i)
    <3>1. w - 1 \in 0..(n - 1) /\ n - (w - 1) = j + 1 /\ ~(w <= w - 1)
      BY <1>0, <2>2, <2>3, <2>4
    <3> QED BY <3>1
  <2>6. i \notin Bad
    <3> HIDE DEF Bad
    <3> QED BY <2>1, <2>5
  <2>7. at[j + 1] + U!Size(es[j + 1]) <= m
    BY <2>5, <2>6
  <2>8. j + 1 \in 1..n /\ at[j] + U!Size(es[j]) = at[j + 1]
    BY <1>1, <2>4
  <2>9. PICK a \in Nat, b \in Nat : a = at[j + 1] /\ b = U!Size(es[j + 1])
    BY <1>1, <2>8
  <2>10. at[j] + U!Size(es[j]) <= m
    BY <1>0, <2>7, <2>8, <2>9
  <2> QED BY <2>2, <2>3, <2>10
<1>3. ASSUME NEW j \in 1..n PROVE at[j] + U!Size(es[j]) <= m
  <2>1. n - j \in 0..(n - 1) /\ n - (n - j) = j
    BY <1>0
  <2>2. n - j \notin Bad
    BY <1>2
  <2> QED BY <2>1, <2>2
<1> QED BY <1>3

LEMMA StillLeft ==
  \A y, z, p, a \in Nat : y = p - a /\ ~(y <= z) => y - z = p - (a + z) /\ y - z \in Nat
OBVIOUS

LEMMA WalkIs ==
  ASSUME NEW es, NEW pos, NEW at,
         LET here == {i \in 1..Len(es) : U!Lefts(es, pos)[i] \in 0..U!Size(es[i])}
         IN  here # {} /\ at = CHOOSE j \in here : \A k \in here : j <= k
  PROVE  U!Walk(es, pos) = [value |-> U!getValueByPos(es[at], U!Lefts(es, pos)[at]), left |-> U!Lefts(es, pos)[at]]
BY DEF U!Walk

(* To a position within the list it finds the element the position is in,   *)
(* and there the value.                                                     *)
LEMMA WalkFinds ==
  ASSUME NEW v \in Seq(Int), NEW m \in Nat, Len(v) = m + 1, NEW es, Encodes(es, v),
         NEW pos \in 0..m, pos < IntLimit
  PROVE  /\ U!Walk(es, pos).value = v[pos + 1]
         /\ U!Walk(es, pos).left \in 0..pos
<1>1. PICK at, n : EncodesAt(es, v, at, n)
  BY DEF Encodes
<1>18. Covers(es, v, at, n, m)
  BY <1>1 DEF Covers
<1>2. n \in Nat \ {0} /\ Len(es) = n /\ at[1] = 0
  BY <1>1 DEF EncodesAt
<1>3. \A j \in 1..n : /\ at[j] \in Nat /\ U!Size(es[j]) \in Nat \ {0}
                      /\ at[j] + U!Size(es[j]) <= m
                      /\ j = n => at[j] + U!Size(es[j]) = m
                      /\ j # n => j + 1 \in 1..n /\ at[j] + U!Size(es[j]) = at[j + 1]
  BY <1>18, ElementOfStretch, StretchWithin
<1>4. PICK f : f = U!Lefts(es, pos)
  OBVIOUS
<1>5. /\ f[1] = pos
      /\ \A i \in 2..n : f[i] = LeftAfter(f[i - 1], es[i - 1])
  <2>1. \A i \in 1..n : U!Size(es[i]) \in Nat
    BY <1>3
  <2>2. pos \in Int
    OBVIOUS
  <2>3. /\ U!Lefts(es, pos)[1] = pos
        /\ \A i \in 2..n : U!Lefts(es, pos)[i] = LeftAfter(U!Lefts(es, pos)[i - 1], es[i - 1])
    BY <1>2, <2>1, <2>2, LeftsAt
  <2> QED BY <1>4, <2>3
<1> DEFINE Here == {i \in 1..Len(es) : U!Lefts(es, pos)[i] \in 0..U!Size(es[i])}
<1>6. \A i \in 1..n : i \in Here <=> f[i] \in 0..U!Size(es[i])
  BY <1>2, <1>4
<1> DEFINE Bad == {i \in 1..n : (\A k \in 1..(i - 1) : k \notin Here) /\ ~(f[i] = pos - at[i] /\ f[i] \in Nat)}
<1> HIDE DEF Here
<1>7. Bad = {}
  <2> SUFFICES ASSUME Bad # {} PROVE FALSE
    OBVIOUS
  <2>1. PICK w \in Bad : \A x \in Bad : w <= x
    <3>1. Bad \in SUBSET Nat
      OBVIOUS
    <3> HIDE DEF Bad
    <3> QED BY <3>1, LeastNatural
  <2>2. w \in 1..n /\ (\A k \in 1..(w - 1) : k \notin Here) /\ ~(f[w] = pos - at[w] /\ f[w] \in Nat)
    BY <2>1
  <2>3. w # 1
    BY <1>2, <1>5, <2>2
  <2>4. PICK i \in 1..n : w = i + 1 /\ i = w - 1 /\ i # n /\ ~(w <= i) /\ \A k \in 1..(i - 1) : k \in 1..(w - 1)
    <3>1. w - 1 \in 1..n /\ w = (w - 1) + 1 /\ w - 1 # n /\ ~(w <= w - 1)
      BY <1>2, <2>2, <2>3
    <3>2. \A k \in 1..((w - 1) - 1) : k \in 1..(w - 1)
      BY <2>2
    <3> QED BY <3>1, <3>2
  <2>5. i \notin Bad
    <3> HIDE DEF Bad
    <3> QED BY <2>1, <2>4
  <2>6. f[i] = pos - at[i] /\ f[i] \in Nat
    BY <2>2, <2>4, <2>5
  <2>7. i \notin Here
    BY <2>2, <2>4
  <2>8. PICK y \in Nat, z \in Nat \ {0} : y = f[i] /\ z = U!Size(es[i]) /\ ~(y <= z)
    BY <1>3, <1>6, <2>6, <2>7
  <2>9. f[w] = U!AsInt(y - z)
    <3>1. w \in 2..n
      BY <2>2, <2>3
    <3>2. f[w] = LeftAfter(f[i], es[i])
      BY <1>5, <2>4, <3>1
    <3>3. ~(y \in 0..z)
      BY <2>8
    <3> QED BY <2>8, <3>2, <3>3 DEF LeftAfter
  <2>10. at[w] = at[i] + z /\ at[i] \in Nat
    BY <1>3, <2>4, <2>8
  <2>12. PICK a \in Nat : a = at[i] /\ y = pos - a /\ at[w] = a + z /\ pos \in Nat
    BY <2>6, <2>8, <2>10
  <2>13. y - z = pos - (a + z) /\ y - z \in Nat
    <3>1. y \in Nat /\ z \in Nat /\ pos \in Nat /\ a \in Nat
      BY <2>12
    <3>2. y = pos - a /\ ~(y <= z)
      BY <2>8, <2>12
    <3> QED BY ONLY <3>1, <3>2, StillLeft
  <2>14. U!AsInt(y - z) = y - z
    <3>1. PICK k \in Nat : k = y - z /\ k <= pos /\ pos \in Nat
      BY <2>8, <2>12, <2>13
    <3>2. k < IntLimit
      BY <3>1, IntLimitAssumption
    <3> QED BY <3>1, <3>2, AsIntSmall
  <2>11. f[w] = pos - at[w] /\ f[w] \in Nat
    BY <2>9, <2>12, <2>13, <2>14
  <2> QED BY <2>2, <2>11
<1>8. \A i \in 1..n : (\A k \in 1..(i - 1) : k \notin Here) => f[i] = pos - at[i] /\ f[i] \in Nat
  BY <1>7
<1> HIDE DEF Bad
<1>9. Here # {}
  <2> SUFFICES ASSUME Here = {} PROVE FALSE
    OBVIOUS
  <2>1. n \in 1..n /\ \A k \in 1..(n - 1) : k \notin Here
    BY <1>2
  <2>2. f[n] = pos - at[n] /\ at[n] \in Nat /\ at[n] + U!Size(es[n]) = m /\ U!Size(es[n]) \in Nat
    BY <1>3, <1>8, <2>1
  <2>3. f[n] \in 0..U!Size(es[n])
    <3>1. f[n] \in Nat
      BY <1>8, <2>1
    <3> QED BY <2>2, <3>1
  <2> QED BY <1>6, <2>1, <2>3
<1>10. PICK i : i = CHOOSE j \in Here : \A k \in Here : j <= k
  OBVIOUS
<1>11. i \in Here /\ \A k \in Here : i <= k
  <2>1. Here \in SUBSET Nat
    BY <1>2 DEF Here
  <2>2. \E j \in Here : \A k \in Here : j <= k
    BY <1>9, <2>1, LeastNatural
  <2> QED BY <1>10, <2>2
<1>12. i \in 1..n /\ f[i] \in 0..U!Size(es[i])
  <2>1. i \in 1..n
    BY <1>2, <1>11 DEF Here
  <2> QED BY <1>6, <1>11, <2>1
<1>13. \A k \in 1..(i - 1) : k \notin Here
  <2> TAKE k \in 1..(i - 1)
  <2>1. ~(i <= k)
    BY <1>12
  <2> QED BY <1>11, <2>1
<1>14. f[i] = pos - at[i] /\ f[i] \in Nat /\ at[i] \in Nat /\ U!Size(es[i]) \in Nat
  BY <1>3, <1>8, <1>12, <1>13
<1>15. U!Walk(es, pos) = [value |-> U!getValueByPos(es[i], f[i]), left |-> f[i]]
  BY <1>4, <1>9, <1>10, WalkIs DEF Here
<1>16. U!getValueByPos(es[i], f[i]) = v[pos + 1]
  <2>1. PICK e \in Element : e = es[i]
    BY <1>12, <1>18, ElementOfStretch
  <2>2. PICK st \in Nat, to \in Nat : st = at[i] /\ to = at[i] + U!Size(es[i])
    BY <1>3, <1>12
  <2>3. e.init = v[st + 1] /\ Run(e)
    BY <1>12, <1>18, <2>1, <2>2, ElementOfStretch
  <2>4. to <= m
    BY <1>3, <1>12, <2>2
  <2>5. Stretch(U!Differences(v), st, e, to)
    <3>1. Stretch(U!Differences(v), at[i], es[i], IF i = n THEN Len(v) - 1 ELSE at[i + 1])
      BY <1>1, <1>12 DEF EncodesAt
    <3>2. On(U!Differences(v), st, e)
      BY <2>1, <2>2, <3>1 DEF Stretch
    <3>3. st + U!Size(e) = to
      BY <2>1, <2>2
    <3> QED BY <2>3, <3>2, <3>3 DEF Stretch
  <2>6. \A p \in 0..U!Size(e) : U!getValueByPos(e, p) = v[st + p + 1]
    BY <2>3, <2>4, <2>5, ValuesOfStretch
  <2>7. PICK p \in 0..U!Size(e) : p = f[i] /\ st + p = pos
    BY <1>12, <1>14, <2>1, <2>2
  <2>8. U!getValueByPos(e, p) = v[st + p + 1]
    BY <2>6
  <2> QED BY <2>1, <2>7, <2>8
<1>17. f[i] \in 0..pos
  BY <1>14
<1> QED BY <1>15, <1>16, <1>17

-----------------------------------------------------------------------------
(* A single value, a single record, and what a unit has to encode.          *)

LEMMA CoversOf ==
  ASSUME NEW es, NEW v \in Seq(Int), NEW m \in Nat \ {0}, Len(v) = m + 1, Encodes(es, v)
  PROVE  \E at, n : Covers(es, v, at, n, m)
BY DEF Encodes, Covers

LEMMA CoversSized ==
  ASSUME NEW es, NEW v, NEW at, NEW n, NEW m, Covers(es, v, at, n, m)
  PROVE  Sized(es, at, n)
<1>1. n \in Nat \ {0} /\ Len(es) = n /\ at[1] = 0
  BY DEF Covers, EncodesAt
<1>2. \A j \in 1..n : /\ at[j] \in Nat /\ U!Size(es[j]) \in Nat \ {0}
                      /\ j # n => at[j] + U!Size(es[j]) = at[j + 1]
  BY ElementOfStretch
<1> QED BY <1>1, <1>2 DEF Sized

(* One element alone.                                                       *)
LEMMA EncodesOne ==
  ASSUME NEW v \in Seq(Int), NEW m \in Nat, Len(v) = m + 1, NEW e \in Element,
         NEW st \in Nat, st = 0, Stretch(U!Differences(v), st, e, m), e.init = v[1]
  PROVE  Encodes(<<e>>, v)
<1>8. PICK one \in Nat \ {0} : one = 1
  OBVIOUS
<1>9. PICK es : es = <<e>>
  OBVIOUS
<1>1. one = 1 /\ es = <<e>>
  BY <1>8, <1>9
<1>2. PICK at : at = [j \in 1..one |-> st]
  OBVIOUS
<1>3. es \in Seq(Element) /\ Len(es) = one /\ es[1] = e
  BY <1>1
<1>4. at \in [1..one -> Nat] /\ at[1] = 0 /\ \A j \in 1..one : j = one /\ j = 1
  BY <1>1, <1>2
<1>5. Len(v) - 1 = m /\ at[1] = st /\ at[1] + 1 = 1
  BY <1>4
<1>6. \A j \in 1..one :
       /\ Stretch(U!Differences(v), at[j], es[j], IF j = one THEN Len(v) - 1 ELSE at[j + 1])
       /\ es[j].init = v[at[j] + 1]
  <2> TAKE j \in 1..one
  <2>1. j = one /\ at[j] = st /\ es[j] = e /\ at[j] + 1 = 1
    BY <1>3, <1>4, <1>5
  <2>2. Stretch(U!Differences(v), at[j], es[j], IF j = one THEN Len(v) - 1 ELSE at[j + 1])
    BY <1>5, <2>1
  <2>3. es[j].init = v[at[j] + 1]
    BY <2>1
  <2> QED BY <2>2, <2>3
<1>7. EncodesAt(es, v, at, one)
  BY <1>3, <1>4, <1>6 DEF EncodesAt
<1> QED BY <1>1, <1>7 DEF Encodes

(* A single value, which counts as two.                                     *)
LEMMA SingleEncodes ==
  ASSUME NEW v \in Seq(Int), Len(v) = 2, v[1] = v[2]
  PROVE  Encodes(<<U!Single(v[1])>>, v)
<1>1. PICK one \in Nat, st \in Nat, x \in Int, zero \in Int : one = 1 /\ st = 0 /\ x = v[1] /\ zero = 0 /\ x = v[2]
  <2>1. 1 \in 1..Len(v)
    OBVIOUS
  <2>2. v[1] \in Int
    BY <2>1, ElementOfSeq
  <2> QED BY <2>2
<1>2. PICK e : e = U!Single(v[1])
  OBVIOUS
<1>3. e = [init |-> x, cnt |-> one, seq |-> <<zero>>]
  BY <1>1, <1>2 DEF U!Single
<1>4. e \in Element /\ e.init = x /\ e.cnt = one /\ e.seq = <<zero>>
  <2>1. <<zero>> \in Seq(Int)
    OBVIOUS
  <2> QED BY <1>3, <2>1 DEF Element
<1>5. PICK d \in Seq(Int) : d = U!Differences(v) /\ Len(d) = one /\ v[2] = v[1] + d[1] /\ d[1] \in Int
  <2>1. Len(v) = one + 1 /\ 1 \in 1..one /\ 1 + 1 = 2
    BY <1>1
  <2>2. /\ U!Differences(v) \in Seq(Int) /\ Len(U!Differences(v)) = one
        /\ \A i \in 1..one : v[i + 1] = v[i] + U!Differences(v)[i] /\ U!Differences(v)[i] \in Int
    BY <2>1, DifferencesAre
  <2>3. v[1 + 1] = v[1] + U!Differences(v)[1] /\ U!Differences(v)[1] \in Int
    BY <2>1, <2>2
  <2> QED BY <2>1, <2>2, <2>3
<1>6. d[1] = zero
  BY <1>1, <1>5
<1>7. Stretch(d, st, e, one)
  <2>1. st + 1 = one /\ e.seq = <<d[st + 1]>> /\ st + 1 <= Len(d)
    BY <1>1, <1>4, <1>5, <1>6
  <2>2. e.cnt = 1
    BY <1>1, <1>4
  <2>3. Stretch(d, st, e, st + 1)
    BY <2>1, <2>2, FirstOn
  <2> QED BY <2>1, <2>3
<1>8. Len(v) = one + 1
  BY <1>1
<1>9. e.init = v[1]
  BY <1>1, <1>4
<1>10. Encodes(<<e>>, v)
  BY <1>1, <1>4, <1>5, <1>7, <1>8, <1>9, EncodesOne
<1> QED BY <1>2, <1>10

(* The records of hostIndex, and what is taken from them.                   *)
E == H!Entry(Pids)

LEMMA EntryParts ==
  ASSUME NEW r \in E
  PROVE  r.id \in Pids /\ r.log \in Nat /\ r.len \in Nat /\ r.phy \in Nat
BY DEF E, H!Entry

LEMMA FieldsAre ==
  ASSUME NEW w \in Seq(E), NEW n \in Nat, Len(w) = n
  PROVE  /\ U!Logs(w) \in Seq(Int) /\ Len(U!Logs(w)) = n /\ \A i \in 1..n : U!Logs(w)[i] = w[i].log
         /\ U!Phys(w) \in Seq(Int) /\ Len(U!Phys(w)) = n /\ \A i \in 1..n : U!Phys(w)[i] = w[i].phy
         /\ U!Lens(w) \in Seq(Int) /\ Len(U!Lens(w)) = n /\ \A i \in 1..n : U!Lens(w)[i] = w[i].len
         /\ \A i \in 1..n : w[i] \in E
<1>1. \A i \in 1..n : w[i] \in E
  BY ElementOfSeq
<1>2. \A i \in 1..n : w[i].log \in Int /\ w[i].phy \in Int /\ w[i].len \in Int
  BY <1>1, EntryParts
<1>3. /\ U!Logs(w) = [i \in 1..n |-> w[i].log]
      /\ U!Phys(w) = [i \in 1..n |-> w[i].phy]
      /\ U!Lens(w) = [i \in 1..n |-> w[i].len]
  BY DEF U!Logs, U!Phys, U!Lens
<1>4. /\ [i \in 1..n |-> w[i].log] \in Seq(Int)
      /\ [i \in 1..n |-> w[i].phy] \in Seq(Int)
      /\ [i \in 1..n |-> w[i].len] \in Seq(Int)
  BY <1>2, IsASeq
<1>5. PICK a, b, c : /\ a = [i \in 1..n |-> w[i].log]
                     /\ b = [i \in 1..n |-> w[i].phy]
                     /\ c = [i \in 1..n |-> w[i].len]
  OBVIOUS
<1>6. /\ Len(a) = n /\ \A i \in 1..n : a[i] = w[i].log
      /\ Len(b) = n /\ \A i \in 1..n : b[i] = w[i].phy
      /\ Len(c) = n /\ \A i \in 1..n : c[i] = w[i].len
  BY <1>5
<1> QED BY <1>1, <1>3, <1>4, <1>5, <1>6

(* Unit u stands for the records w.                                         *)
IsUnit(u, w) ==
  /\ w \in Seq(E) /\ U!Size(u.off) \in Nat \ {0} /\ Len(w) = U!Size(u.off) + 1
  /\ u.off \in Element /\ Encodes(<<u.off>>, U!Logs(w))
  /\ Encodes(u.phy, U!Phys(w))
  /\ Encodes(u.len, U!Lens(w))

LEMMA SingleUnit ==
  ASSUME NEW r \in E
  PROVE  IsUnit([off |-> U!Single(r.log), phy |-> <<U!Single(r.phy)>>, len |-> <<U!Single(r.len)>>],
                <<r, r>>)
<1>12. PICK two \in Nat : two = 2
  OBVIOUS
<1>13. PICK w : w = <<r, r>>
  OBVIOUS
<1>1. w = <<r, r>> /\ two = 2
  BY <1>12, <1>13
<1>2. w \in Seq(E) /\ Len(w) = two /\ w[1] = r /\ w[2] = r
  BY <1>1
<1>3. PICK u : u = [off |-> U!Single(r.log), phy |-> <<U!Single(r.phy)>>, len |-> <<U!Single(r.len)>>]
  OBVIOUS
<1>4. 1 \in 1..two /\ 2 \in 1..two
  BY <1>1
<1>5. Encodes(<<U!Single(r.log)>>, U!Logs(w))
  <2>1. /\ U!Logs(w) \in Seq(Int) /\ Len(U!Logs(w)) = 2 /\ U!Logs(w)[1] = r.log /\ U!Logs(w)[2] = r.log
    BY <1>1, <1>2, <1>4, FieldsAre
  <2> QED BY <2>1, SingleEncodes
<1>6. Encodes(<<U!Single(r.phy)>>, U!Phys(w))
  <2>1. /\ U!Phys(w) \in Seq(Int) /\ Len(U!Phys(w)) = 2 /\ U!Phys(w)[1] = r.phy /\ U!Phys(w)[2] = r.phy
    BY <1>1, <1>2, <1>4, FieldsAre
  <2> QED BY <2>1, SingleEncodes
<1>7. Encodes(<<U!Single(r.len)>>, U!Lens(w))
  <2>1. /\ U!Lens(w) \in Seq(Int) /\ Len(U!Lens(w)) = 2 /\ U!Lens(w)[1] = r.len /\ U!Lens(w)[2] = r.len
    BY <1>1, <1>2, <1>4, FieldsAre
  <2> QED BY <2>1, SingleEncodes
<1>8. u.off = U!Single(r.log) /\ u.phy = <<U!Single(r.phy)>> /\ u.len = <<U!Single(r.len)>>
  BY <1>3
<1>9. u.off \in Element /\ U!Size(u.off) = 1
  <2>7. PICK x \in Int, one \in Nat, zero \in Int : x = r.log /\ one = 1 /\ zero = 0
    BY EntryParts
  <2>8. PICK e : e = U!Single(r.log)
    OBVIOUS
  <2>1. e = U!Single(r.log) /\ x = r.log /\ one = 1 /\ zero = 0
    BY <2>7, <2>8
  <2>2. e = [init |-> x, cnt |-> one, seq |-> <<zero>>]
    BY <2>1 DEF U!Single
  <2>3. <<zero>> \in Seq(Int)
    OBVIOUS
  <2>4. e \in Element
    BY <2>2, <2>3 DEF Element
  <2>5. U!Size(e) = Len(<<zero>>) * one
    BY <2>2 DEF U!Size
  <2>6. Len(<<zero>>) = 1
    OBVIOUS
  <2> QED BY <1>8, <2>1, <2>4, <2>5, <2>6
<1>10. U!Size(u.off) \in Nat \ {0} /\ Len(w) = U!Size(u.off) + 1
  BY <1>1, <1>2, <1>9
<1>11. IsUnit(u, w)
  BY <1>2, <1>5, <1>6, <1>7, <1>8, <1>9, <1>10 DEF IsUnit
<1> QED BY <1>1, <1>3, <1>11

-----------------------------------------------------------------------------
(* build_unit of the records that one element spans.                        *)

(* A window of a list of any kind.                                          *)
LEMMA WindowIn ==
  ASSUME NEW T, NEW d \in Seq(T), NEW i \in Nat, NEW k \in Nat \ {0}, i + k <= Len(d)
  PROVE  /\ SubSeq(d, i + 1, i + k) \in Seq(T) /\ Len(SubSeq(d, i + 1, i + k)) = k
         /\ \A j \in 1..k : SubSeq(d, i + 1, i + k)[j] = d[i + j] /\ d[i + j] \in T
<1>1. PICK lo \in Int, hi \in Int : lo = i + 1 /\ hi = i + k
  OBVIOUS
<1>2. \A j \in lo..hi : d[j] \in T
  <2>1. Len(d) \in Nat /\ \A j \in lo..hi : j \in 1..Len(d)
    BY <1>1, LenProperties
  <2> QED BY <2>1, ElementOfSeq
<1>3. /\ SubSeq(d, lo, hi) \in Seq(T)
      /\ Len(SubSeq(d, lo, hi)) = IF lo <= hi THEN hi - lo + 1 ELSE 0
      /\ \A j \in 1..(hi - lo + 1) : SubSeq(d, lo, hi)[j] = d[lo + j - 1]
  BY <1>2, SubSeqProperties, SMTT(30)
<1>4. lo <= hi /\ hi - lo + 1 = k /\ \A j \in 1..k : lo + j - 1 = i + j /\ i + j \in lo..hi
  BY <1>1
<1> QED BY <1>1, <1>2, <1>3, <1>4

(* A stretch of a list stands on the differences of its own window alone.   *)
LEMMA StretchMoved ==
  ASSUME NEW v \in Seq(Int), NEW m \in Nat, Len(v) = m + 1,
         NEW w \in Seq(Int), NEW z \in Nat, Len(w) = z + 1, NEW st \in Nat, st + z <= m,
         \A i \in 1..(z + 1) : w[i] = v[st + i],
         NEW e, NEW to, Stretch(U!Differences(v), st, e, to), U!Size(e) = z,
         NEW o \in Nat, o = 0
  PROVE  Stretch(U!Differences(w), o, e, z)
<1>1. Run(e) /\ On(U!Differences(v), st, e)
  BY DEF Stretch
<1>2. PICK q \in Seq(Int), a \in Nat \ {0}, c \in Nat \ {0} :
        q = e.seq /\ a = Len(e.seq) /\ Len(q) = a /\ c = e.cnt /\ U!Size(e) = a * c /\ a * c \in Nat \ {0}
  BY <1>1, RunParts
<1>3. ASSUME NEW i \in 1..z PROVE U!Differences(w)[i] = U!Differences(v)[st + i]
  <2>1. st + i \in 1..m /\ i \in 1..(z + 1) /\ i + 1 \in 1..(z + 1) /\ st + (i + 1) = (st + i) + 1
    OBVIOUS
  <2>2. PICK k \in 1..m : k = st + i
    BY <2>1
  <2>3. w[i] = v[k] /\ w[i + 1] = v[k + 1]
    BY <2>1, <2>2
  <2>4. w[i + 1] = w[i] + U!Differences(w)[i] /\ w[i] \in Int /\ U!Differences(w)[i] \in Int
    BY DifferencesAre
  <2>5. v[k + 1] = v[k] + U!Differences(v)[k] /\ U!Differences(v)[k] \in Int
    BY DifferencesAre
  <2>6. PICK x \in Int, y1 \in Int, y2 \in Int :
          x = w[i] /\ y1 = U!Differences(w)[i] /\ y2 = U!Differences(v)[k] /\ x + y1 = x + y2
    BY <2>3, <2>4, <2>5
  <2>7. y1 = y2
    <3>1. x \in Int /\ y1 \in Int /\ y2 \in Int /\ x + y1 = x + y2
      BY <2>6
    <3> QED BY ONLY <3>1
  <2> QED BY <2>2, <2>6, <2>7
<1>4. ASSUME NEW k \in 0..(c - 1), NEW s \in 1..a
      PROVE  U!Differences(w)[o + k * a + s] = q[s]
  <2>1. PICK i \in 1..z : i = k * a + s
    <3>1. k * a + s \in 1..(a * c)
      BY WithinTurns
    <3> QED BY <1>2, <3>1
  <2>2. U!Differences(v)[st + k * a + s] = q[s]
    BY <1>1, <1>2 DEF On
  <2>3. st + k * a + s = st + i /\ o + k * a + s = i
    <3>1. PICK y \in Nat : y = k * a
      <4>1. k \in Nat
        OBVIOUS
      <4> QED BY <4>1, Product
    <3>2. i = y + s
      BY <2>1, <3>1
    <3>3. st + y + s = st + i /\ o + y + s = i
      BY <3>2
    <3> QED BY <3>1, <3>3
  <2> QED BY <1>3, <2>1, <2>2, <2>3
<1>5. On(U!Differences(w), o, e)
  <2>1. \A k \in 0..(c - 1) : \A s \in 1..a : U!Differences(w)[o + k * a + s] = q[s]
    BY <1>4
  <2>2. q = e.seq /\ a = Len(e.seq) /\ c = e.cnt
    BY <1>2
  <2> QED BY ONLY <2>1, <2>2, Zenon DEF On
<1>6. o + U!Size(e) = z
  OBVIOUS
<1> QED BY <1>1, <1>5, <1>6 DEF Stretch

(* The units of a process: unit j stands for the records of its stretch and *)
(* the one after it.                                                        *)
RecSlice(rs, st, z) == SubSeq(rs, st + 1, st + z + 1)

LEMMA WindowUnit ==
  ASSUME NEW rs \in Seq(E), NEW m \in Nat \ {0}, Len(rs) = m + 1,
         NEW es, NEW at, NEW n, Covers(es, U!Logs(rs), at, n, m), NEW j \in 1..n
  PROVE  /\ at[j] \in Nat /\ U!Size(es[j]) \in Nat \ {0} /\ at[j] + U!Size(es[j]) <= m
         /\ \A i \in 1..(U!Size(es[j]) + 1) :
              RecSlice(rs, at[j], U!Size(es[j]))[i] = rs[at[j] + i] /\ rs[at[j] + i] \in E
         /\ IsUnit(U!build_unit(es[j], RecSlice(rs, at[j], U!Size(es[j]))),
                   RecSlice(rs, at[j], U!Size(es[j])))
<1>1. PICK st \in Nat, z \in Nat \ {0} : st = at[j] /\ z = U!Size(es[j]) /\ st + z <= m
  BY ElementOfStretch, StretchWithin
<1>2. PICK l \in Nat \ {0} : l = z + 1
  OBVIOUS
<1>3. PICK w : w = SubSeq(rs, st + 1, st + l)
  OBVIOUS
<1>4. w \in Seq(E) /\ Len(w) = l /\ \A i \in 1..l : w[i] = rs[st + i] /\ rs[st + i] \in E
  <2>1. st + l <= Len(rs)
    BY <1>1, <1>2
  <2> QED BY <1>3, <2>1, WindowIn
<1>5. st + l = st + z + 1
  BY <1>2
<1>6. RecSlice(rs, st, z) = w
  BY <1>3, <1>5 DEF RecSlice
<1>7. PICK e \in Element : e = es[j]
  BY ElementOfStretch
<1>8. e.init = U!Logs(rs)[st + 1]
  BY <1>1, <1>7, ElementOfStretch
<1>9. /\ U!Logs(w) \in Seq(Int) /\ Len(U!Logs(w)) = l /\ \A i \in 1..l : U!Logs(w)[i] = w[i].log
      /\ U!Phys(w) \in Seq(Int) /\ Len(U!Phys(w)) = l
      /\ U!Lens(w) \in Seq(Int) /\ Len(U!Lens(w)) = l
  BY <1>4, FieldsAre
<1>10. /\ U!Logs(rs) \in Seq(Int) /\ Len(U!Logs(rs)) = m + 1
       /\ \A i \in 1..(m + 1) : U!Logs(rs)[i] = rs[i].log
  BY FieldsAre
<1>11. \A i \in 1..(z + 1) : U!Logs(w)[i] = U!Logs(rs)[st + i]
  <2> TAKE i \in 1..(z + 1)
  <2>1. i \in 1..l /\ st + i \in 1..(m + 1)
    BY <1>1, <1>2
  <2> QED BY <1>4, <1>9, <1>10, <2>1
<1>12. Len(U!Logs(w)) = z + 1
  BY <1>2, <1>9
<1>13. PICK o \in Nat : o = 0
  OBVIOUS
<1>14. Stretch(U!Differences(U!Logs(w)), o, e, z)
  <2>1. Stretch(U!Differences(U!Logs(rs)), at[j], es[j], IF j = n THEN Len(U!Logs(rs)) - 1 ELSE at[j + 1])
    BY DEF Covers, EncodesAt
  <2>2. PICK to : Stretch(U!Differences(U!Logs(rs)), st, e, to)
    BY <1>1, <1>7, <2>1
  <2>3. U!Size(e) = z /\ z \in Nat
    BY <1>1, <1>7
  <2>4. PICK lw \in Seq(Int), lr \in Seq(Int) : lw = U!Logs(w) /\ lr = U!Logs(rs)
    BY <1>9, <1>10
  <2>5. Len(lw) = z + 1 /\ Len(lr) = m + 1 /\ \A i \in 1..(z + 1) : lw[i] = lr[st + i]
    BY <1>10, <1>11, <1>12, <2>4
  <2>6. Stretch(U!Differences(lr), st, e, to)
    BY <2>2, <2>4
  <2>7. Stretch(U!Differences(lw), o, e, z)
    BY <1>1, <1>13, <2>3, <2>5, <2>6, StretchMoved
  <2> QED BY <2>4, <2>7
<1>15. Encodes(<<e>>, U!Logs(w))
  <2>1. e.init = U!Logs(w)[1]
    <3>1. 1 \in 1..(z + 1)
      BY <1>2
    <3> QED BY <1>8, <1>11, <3>1
  <2> QED BY <1>9, <1>12, <1>13, <1>14, <2>1, EncodesOne
<1>16. Encodes(U!build_off_pat(U!Phys(w)), U!Phys(w))
  <2>1. Len(U!Phys(w)) = z + 1
    BY <1>2, <1>9
  <2> QED BY <1>9, <2>1, Built
<1>17. Encodes(U!build_off_pat(U!Lens(w)), U!Lens(w))
  <2>1. Len(U!Lens(w)) = z + 1
    BY <1>2, <1>9
  <2> QED BY <1>9, <2>1, Built
<1>18. PICK u : u = U!build_unit(e, w)
  OBVIOUS
<1>19. u.off = e /\ u.phy = U!build_off_pat(U!Phys(w)) /\ u.len = U!build_off_pat(U!Lens(w))
  BY <1>18 DEF U!build_unit
<1>20. U!Size(u.off) = z /\ Len(w) = U!Size(u.off) + 1
  BY <1>1, <1>2, <1>4, <1>7, <1>19
<1>21. IsUnit(u, w)
  BY <1>4, <1>15, <1>16, <1>17, <1>19, <1>20 DEF IsUnit
<1>22. \A i \in 1..(z + 1) : w[i] = rs[st + i] /\ rs[st + i] \in E
  BY <1>2, <1>4
<1> QED BY <1>1, <1>6, <1>7, <1>18, <1>21, <1>22

LEMMA EntryIs ==
  ASSUME NEW rs \in Seq(E), NEW m \in Nat \ {0}, Len(rs) = m + 1,
         NEW es, es = U!build_off_pat(U!Logs(rs)),
         NEW at, NEW n, Covers(es, U!Logs(rs), at, n, m)
  PROVE  /\ n \in Nat \ {0} /\ Len(U!pattern_by_pid(rs)) = n
         /\ \A j \in 1..n : U!pattern_by_pid(rs)[j] =
              U!build_unit(es[j], RecSlice(rs, at[j], U!Size(es[j])))
<1>1. n \in Nat \ {0} /\ Len(es) = n
  BY DEF Covers, EncodesAt
<1>2. \A j \in 1..n : U!Before(es, j) = at[j]
  BY CoversSized, BeforeIs
<1>3. Len(rs) # 1
  OBVIOUS
<1>4. U!pattern_by_pid(rs) = U!build_entry(rs)
  BY <1>3 DEF U!pattern_by_pid
<1>5. U!build_entry(rs) =
        [j \in 1..Len(es) |->
           U!build_unit(es[j], RecSlice(rs, U!Before(es, j), U!Size(es[j])))]
  BY DEF U!build_entry, RecSlice
<1>6. PICK f : f = [j \in 1..n |-> U!build_unit(es[j], RecSlice(rs, U!Before(es, j), U!Size(es[j])))]
  OBVIOUS
<1>7. Len(f) = n /\ \A j \in 1..n : f[j] = U!build_unit(es[j], RecSlice(rs, U!Before(es, j), U!Size(es[j])))
  BY <1>1, <1>6
<1>8. U!pattern_by_pid(rs) = f
  BY <1>1, <1>4, <1>5, <1>6
<1> QED BY <1>1, <1>2, <1>7, <1>8

-----------------------------------------------------------------------------
(* The ends of a unit.                                                      *)

(* The first element of a list, and the last.                               *)
LEMMA EndsOf ==
  ASSUME NEW es, NEW v \in Seq(Int), NEW m \in Nat \ {0}, Len(v) = m + 1, Encodes(es, v)
  PROVE  /\ es \in Seq(Element) /\ Len(es) \in Nat \ {0}
         /\ es[1].init = v[1]
         /\ U!getLastValue(U!Last(es)) = v[m + 1]
<1>1. PICK at, n : Covers(es, v, at, n, m)
  BY CoversOf
<1>2. n \in Nat \ {0} /\ es \in Seq(Element) /\ Len(es) = n /\ at[1] = 0
  BY <1>1 DEF Covers, EncodesAt
<1>3. es[1].init = v[1]
  <2>1. 1 \in 1..n /\ 0 + 1 = 1
    BY <1>2
  <2>2. es[1].init = v[at[1] + 1]
    BY <1>1, <2>1, ElementOfStretch
  <2> QED BY <1>2, <2>1, <2>2
<1>4. PICK e : e = U!Last(es)
  OBVIOUS
<1>5. e = es[n] /\ n \in 1..n
  BY <1>2, <1>4 DEF U!Last
<1>6. PICK st \in Nat, z \in Nat : st = at[n] /\ z = U!Size(e) /\ st + z = m
  <2>1. at[n] \in Nat /\ U!Size(es[n]) \in Nat \ {0} /\ at[n] + U!Size(es[n]) = m
    BY <1>1, <1>5, ElementOfStretch
  <2> QED BY <1>5, <2>1
<1>7. e \in Element /\ e.init = v[st + 1]
  <2>1. es[n].init = v[at[n] + 1]
    <3>1. PICK j \in 1..n : j = n
      BY <1>5
    <3>2. es[j].init = v[at[j] + 1]
      BY <1>1, ElementOfStretch
    <3> QED BY <3>1, <3>2
  <2>2. es[n] \in Element
    BY <1>1, <1>5, ElementOfStretch
  <2> QED BY <1>5, <1>6, <2>1, <2>2
<1>8. Stretch(U!Differences(v), st, e, m)
  <2>1. Stretch(U!Differences(v), at[n], es[n], IF n = n THEN Len(v) - 1 ELSE at[n + 1])
    BY <1>1, <1>5 DEF Covers, EncodesAt
  <2>2. Len(v) - 1 = m
    OBVIOUS
  <2> QED BY <1>5, <1>6, <2>1, <2>2
<1>9. U!getValueByPos(e, z) = v[m + 1]
  <2>1. m <= m
    OBVIOUS
  <2>2. \A p \in 0..U!Size(e) : U!getValueByPos(e, p) = v[st + p + 1]
    BY <1>7, <1>8, <2>1, ValuesOfStretch
  <2>3. z \in 0..U!Size(e) /\ st + z + 1 = m + 1
    BY <1>6
  <2> QED BY <2>2, <2>3
<1>10. U!getLastValue(e) = v[m + 1]
  BY <1>6, <1>9 DEF U!getLastValue
<1> QED BY <1>2, <1>3, <1>4, <1>10

Spans(v, n) == v \in Seq(Int) /\ n \in Nat /\ Len(v) = n + 1

LEMMA WholeStretch ==
  ASSUME NEW v, NEW n, Spans(v, n), NEW e \in Element, NEW st \in Nat,
         Stretch(U!Differences(v), st, e, n), e.init = v[st + 1]
  PROVE  \A p \in 0..U!Size(e) : U!getValueByPos(e, p) = v[st + p + 1]
<1>1. v \in Seq(Int) /\ n \in Nat /\ Len(v) = n + 1 /\ n <= n
  BY DEF Spans
<1> QED BY <1>1, ValuesOfStretch

(* What the three patterns of a unit say of its records.                    *)
LEMMA UnitParts ==
  ASSUME NEW u, NEW w, IsUnit(u, w)
  PROVE  \E n \in Nat \ {0} :
           /\ U!Size(u.off) = n /\ Len(w) = n + 1 /\ u.off \in Element /\ Run(u.off)
           /\ w \in Seq(E) /\ \A i \in 1..(n + 1) : w[i] \in E
           /\ u.off.init = w[1].log
           /\ \A p \in 0..n : U!getValueByPos(u.off, p) = w[p + 1].log
           /\ \A p \in 0..n : p < IntLimit =>
                /\ U!Walk(u.phy, p).value = w[p + 1].phy /\ U!Walk(u.phy, p).left \in 0..p
                /\ U!Walk(u.len, p).value = w[p + 1].len
           /\ u.phy \in Seq(Element) /\ Len(u.phy) \in Nat \ {0} /\ u.phy[1].init = w[1].phy
           /\ u.len \in Seq(Element) /\ Len(u.len) \in Nat \ {0} /\ u.len[1].init = w[1].len
           /\ U!getLastValue(u.off) = w[n + 1].log
           /\ U!getLastValue(U!Last(u.phy)) = w[n + 1].phy
           /\ U!getLastValue(U!Last(u.len)) = w[n + 1].len
<1>1. PICK n \in Nat \ {0} : n = U!Size(u.off) /\ Len(w) = n + 1 /\ w \in Seq(E) /\ u.off \in Element
  BY DEF IsUnit
<1>2. PICK l \in Nat : l = n + 1
  OBVIOUS
<1>3. /\ U!Logs(w) \in Seq(Int) /\ Len(U!Logs(w)) = l /\ \A i \in 1..l : U!Logs(w)[i] = w[i].log
      /\ U!Phys(w) \in Seq(Int) /\ Len(U!Phys(w)) = l /\ \A i \in 1..l : U!Phys(w)[i] = w[i].phy
      /\ U!Lens(w) \in Seq(Int) /\ Len(U!Lens(w)) = l /\ \A i \in 1..l : U!Lens(w)[i] = w[i].len
      /\ \A i \in 1..l : w[i] \in E
  BY <1>1, <1>2, FieldsAre
<1>4. PICK a \in Seq(Int), b \in Seq(Int), c \in Seq(Int) :
        /\ a = U!Logs(w) /\ Len(a) = n + 1 /\ \A i \in 1..(n + 1) : a[i] = w[i].log
        /\ b = U!Phys(w) /\ Len(b) = n + 1 /\ \A i \in 1..(n + 1) : b[i] = w[i].phy
        /\ c = U!Lens(w) /\ Len(c) = n + 1 /\ \A i \in 1..(n + 1) : c[i] = w[i].len
  BY <1>2, <1>3, SMTT(30)
<1>5. Encodes(<<u.off>>, a) /\ Encodes(u.phy, b) /\ Encodes(u.len, c)
  BY <1>4 DEF IsUnit
<1>6. 1 \in 1..(n + 1) /\ n + 1 \in 1..(n + 1)
  OBVIOUS
<1>7. /\ u.phy \in Seq(Element) /\ Len(u.phy) \in Nat \ {0} /\ u.phy[1].init = w[1].phy
      /\ U!getLastValue(U!Last(u.phy)) = w[n + 1].phy
  <2>1. /\ u.phy \in Seq(Element) /\ Len(u.phy) \in Nat \ {0} /\ u.phy[1].init = b[1]
        /\ U!getLastValue(U!Last(u.phy)) = b[n + 1]
    BY <1>4, <1>5, EndsOf
  <2> QED BY <1>4, <1>6, <2>1
<1>8. /\ u.len \in Seq(Element) /\ Len(u.len) \in Nat \ {0} /\ u.len[1].init = w[1].len
      /\ U!getLastValue(U!Last(u.len)) = w[n + 1].len
  <2>1. /\ u.len \in Seq(Element) /\ Len(u.len) \in Nat \ {0} /\ u.len[1].init = c[1]
        /\ U!getLastValue(U!Last(u.len)) = c[n + 1]
    BY <1>4, <1>5, EndsOf
  <2> QED BY <1>4, <1>6, <2>1
<1>9. u.off.init = w[1].log /\ U!getLastValue(u.off) = w[n + 1].log
  <2>1. PICK es : es = <<u.off>>
    OBVIOUS
  <2>2. es[1] = u.off /\ U!Last(es) = u.off
    BY <2>1 DEF U!Last
  <2>3. es[1].init = a[1] /\ U!getLastValue(U!Last(es)) = a[n + 1]
    BY <1>4, <1>5, <2>1, EndsOf
  <2> QED BY <1>4, <1>6, <2>2, <2>3
<1>10. ASSUME NEW p \in 0..n, p < IntLimit
       PROVE  /\ U!Walk(u.phy, p).value = w[p + 1].phy /\ U!Walk(u.phy, p).left \in 0..p
              /\ U!Walk(u.len, p).value = w[p + 1].len
  <2>1. p + 1 \in 1..(n + 1) /\ n \in Nat
    OBVIOUS
  <2>2. U!Walk(u.phy, p).value = b[p + 1] /\ U!Walk(u.phy, p).left \in 0..p
    BY <1>4, <1>5, <1>10, <2>1, WalkFinds
  <2>3. U!Walk(u.len, p).value = c[p + 1]
    BY <1>4, <1>5, <1>10, <2>1, WalkFinds
  <2> QED BY <1>4, <2>1, <2>2, <2>3
<1>11. Run(u.off) /\ \A p \in 0..n : U!getValueByPos(u.off, p) = w[p + 1].log
  <2>1. PICK es : es = <<u.off>>
    OBVIOUS
  <2>2. es[1] = u.off /\ Len(es) = 1
    BY <2>1
  <2>3. PICK at, k : Covers(es, a, at, k, n)
    BY <1>4, <1>5, <2>1, CoversOf
  <2>4. k = 1 /\ at[1] = 0 /\ 1 \in 1..k
    <3>1. EncodesAt(es, a, at, k)
      BY <2>3 DEF Covers
    <3>2. Len(es) = k /\ k \in Nat \ {0} /\ at[1] = 0
      BY <3>1 DEF EncodesAt
    <3>3. Len(es) = k
      BY <3>2
    <3>4. Len(es) = 1
      BY <2>2
    <3>5. k = 1
      BY ONLY <3>3, <3>4
    <3>6. at[1] = 0
      BY <3>2
    <3>7. 1 \in 1..k
      BY ONLY <3>5
    <3> QED BY <3>5, <3>6, <3>7
  <2>5. PICK st \in Nat : st = 0
    OBVIOUS
  <2>6. /\ Stretch(U!Differences(a), at[1], es[1], IF 1 = k THEN Len(a) - 1 ELSE at[1 + 1])
        /\ es[1].init = a[at[1] + 1]
    BY <2>3, <2>4 DEF Covers, EncodesAt
  <2>7. Len(a) - 1 = n /\ at[1] = st
    BY <1>4, <2>4, <2>5
  <2>8. Stretch(U!Differences(a), st, u.off, n) /\ u.off.init = a[st + 1]
    BY <2>2, <2>4, <2>6, <2>7
  <2>9. Run(u.off)
    BY <2>8 DEF Stretch
  <2>10. \A p \in 0..U!Size(u.off) : U!getValueByPos(u.off, p) = a[st + p + 1]
    <3>1. Spans(a, n)
      BY <1>4 DEF Spans
    <3>2. u.off \in Element /\ st \in Nat /\ n \in Nat
      BY <1>1
    <3> QED BY <2>8, <3>1, <3>2, WholeStretch
  <2>11. ASSUME NEW p \in 0..n PROVE U!getValueByPos(u.off, p) = w[p + 1].log
    <3>1. p \in 0..U!Size(u.off) /\ st + p + 1 = p + 1 /\ p + 1 \in 1..(n + 1)
      BY <1>1, <2>5
    <3> QED BY <1>4, <2>10, <3>1
  <2> QED BY <2>9, <2>11
<1>12. \A i \in 1..(n + 1) : w[i] \in E
  BY <1>2, <1>3
<1> QED BY <1>1, <1>7, <1>8, <1>9, <1>10, <1>11, <1>12

-----------------------------------------------------------------------------
(* Position: the column and row of the last value that is not past an       *)
(* offset.                                                                  *)

(* The place of a logical offset within the repetitions of an element.      *)
LEMMA PositionIs ==
  ASSUME NEW e, NEW q, NEW column,
         column = CHOOSE n \in 0..Len(e.seq) :
           /\ U!SumTo(e.seq, n) > U!AsInt((q - e.init) % U!sumVecSeq(e))
           /\ \A m \in 0..(n - 1) : U!SumTo(e.seq, m) <= U!AsInt((q - e.init) % U!sumVecSeq(e))
  PROVE  U!Position(e, q) =
           U!AsInt(column - 1 + U!AsInt((q - e.init) \div U!sumVecSeq(e)) * Len(e.seq))
BY DEF U!Position

LEMMA RowAndColumn ==
  ASSUME NEW sq \in Seq(Int), NEW a \in Nat \ {0}, Len(sq) = a, NEW col \in Nat, U!SumTo(sq, a) > col
  PROVE  \E n \in 0..a : U!SumTo(sq, n) > col /\ \A m \in 0..(n - 1) : U!SumTo(sq, m) <= col
<1> DEFINE C == {n \in 0..a : U!SumTo(sq, n) > col}
<1>1. a \in C /\ C \in SUBSET Nat
  OBVIOUS
<1>2. PICK n \in C : \A m \in C : n <= m
  <2> HIDE DEF C
  <2> QED BY <1>1, LeastNatural
<1>3. ASSUME NEW m \in 0..(n - 1) PROVE U!SumTo(sq, m) <= col
  <2>1. m \in 0..a /\ ~(n <= m)
    BY <1>2
  <2>2. m \notin C
    <3> HIDE DEF C
    <3> QED BY <1>2, <2>1
  <2>3. ~(U!SumTo(sq, m) > col)
    BY <2>1, <2>2
  <2>4. U!SumTo(sq, m) \in Int
    <3>1. m \in 0..Len(sq)
      BY <2>1
    <3> QED BY <3>1, SumTos
  <2> QED BY <2>3, <2>4
<1> QED BY <1>2, <1>3

LEMMA Below ==
  \A x, w, y, col, q \in Int : y <= col /\ q - x = w + col => x + w + y <= q
OBVIOUS

LEMMA Above ==
  \A x, w, y, col, q \in Int : y > col /\ q - x = w + col => q < x + w + y
OBVIOUS

LEMMA InsidePlace ==
  ASSUME NEW e \in Element, Run(e), NEW q \in Int, q >= e.init, U!sumVecSeq(e) > 0,
         ~((q - e.init) \div U!sumVecSeq(e) >= e.cnt),
         (q - e.init) \div U!sumVecSeq(e) < IntLimit, U!sumVecSeq(e) <= IntLimit,
         U!Size(e) < IntLimit
  PROVE  \E p \in Nat : /\ p = U!Position(e, q) /\ p < U!Size(e)
                        /\ U!getValueByPos(e, p) <= q
                        /\ q < U!getValueByPos(e, p + 1)
<1>1. PICK sq \in Seq(Int), a \in Nat \ {0}, c \in Nat \ {0}, x \in Int, sum \in Int, z \in Nat :
        ElementAs(e, sq, a, c, x, sum, z)
  BY ValueParts
<1>2. /\ sq = e.seq /\ Len(sq) = a /\ c = e.cnt /\ U!Size(e) = z /\ z = a * c /\ x = e.init
      /\ sum = U!SumTo(sq, a) /\ \A p \in Nat : p <= z => U!getValueByPos(e, p) = ValueIn(sq, a, x, sum, p)
  BY <1>1 DEF ElementAs
<1>3. sum = U!sumVecSeq(e)
  BY <1>2 DEF U!sumVecSeq
<1>4. PICK S \in Nat \ {0}, t \in Nat : S = sum /\ t = q - x
  <2>1. sum > 0 /\ q >= x
    BY <1>2, <1>3
  <2>2. sum \in Nat \ {0} /\ q - x \in Nat
    BY <2>1
  <2> QED BY <2>2
<1>5. PICK row \in Nat, col \in Nat : row = t \div S /\ col = t % S /\ col < S /\ t = S * row + col
  <2>1. t \div S \in Nat /\ t % S \in 0..(S - 1) /\ t = S * (t \div S) + (t % S)
    BY Quotient
  <2>2. t % S \in Nat /\ t % S < S
    BY <2>1
  <2> QED BY <2>1, <2>2
<1>6. row < c /\ row \in 0..(c - 1)
  <2>1. row = (q - e.init) \div U!sumVecSeq(e)
    BY <1>2, <1>3, <1>4, <1>5
  <2>2. ~(row >= c)
    BY <1>2, <2>1
  <2> QED BY <2>2
<1>21. U!AsInt(col) = col /\ U!AsInt(row) = row
  <2>1. row = (q - e.init) \div U!sumVecSeq(e) /\ S = U!sumVecSeq(e) /\ col < S
    BY <1>2, <1>3, <1>4, <1>5
  <2>2. row < IntLimit /\ S <= IntLimit
    BY ONLY <2>1, (q - e.init) \div U!sumVecSeq(e) < IntLimit, U!sumVecSeq(e) <= IntLimit
  <2>3. col < IntLimit
    BY <2>1, <2>2, IntLimitAssumption
  <2> QED BY <2>2, <2>3, AsIntSmall
<1>7. PICK column : column = CHOOSE n \in 0..a : U!SumTo(sq, n) > col /\ \A m \in 0..(n - 1) : U!SumTo(sq, m) <= col
  OBVIOUS
<1>8. column \in 1..a /\ U!SumTo(sq, column) > col /\ \A m \in 1..(column - 1) : U!SumTo(sq, m) <= col
  <2>1. U!SumTo(sq, a) > col
    BY <1>2, <1>4, <1>5
  <2>2. \E n \in 0..a : U!SumTo(sq, n) > col /\ \A m \in 0..(n - 1) : U!SumTo(sq, m) <= col
    BY <1>2, <2>1, RowAndColumn
  <2>3. column \in 0..a /\ U!SumTo(sq, column) > col /\ \A m \in 0..(column - 1) : U!SumTo(sq, m) <= col
    BY <1>7, <2>2
  <2>4. U!SumTo(sq, 0) = 0
    BY SumTos
  <2>5. column # 0
    BY <1>5, <2>3, <2>4
  <2>6. column \in 1..a /\ \A m \in 1..(column - 1) : m \in 0..(column - 1)
    BY <2>3, <2>5
  <2> QED BY <2>3, <2>6
<1>9. U!Position(e, q) = U!AsInt(column - 1 + row * a)
  <2>1. col = (q - e.init) % U!sumVecSeq(e) /\ row = (q - e.init) \div U!sumVecSeq(e)
    BY <1>2, <1>3, <1>4, <1>5
  <2>2. a = Len(e.seq) /\ sq = e.seq
    BY <1>2
  <2>5. col = U!AsInt((q - e.init) % U!sumVecSeq(e)) /\ row = U!AsInt((q - e.init) \div U!sumVecSeq(e))
    BY ONLY <1>21, <2>1, Zenon
  <2>3. column = CHOOSE n \in 0..Len(e.seq) :
           /\ U!SumTo(e.seq, n) > U!AsInt((q - e.init) % U!sumVecSeq(e))
           /\ \A m \in 0..(n - 1) : U!SumTo(e.seq, m) <= U!AsInt((q - e.init) % U!sumVecSeq(e))
    BY ONLY <1>7, <2>2, <2>5, Zenon
  <2>4. U!Position(e, q) =
          U!AsInt(column - 1 + U!AsInt((q - e.init) \div U!sumVecSeq(e)) * Len(e.seq))
    BY ONLY <2>3, PositionIs
  <2> QED BY ONLY <2>2, <2>4, <2>5, Zenon
<1>10. PICK r \in 0..(a - 1), s \in 1..a : r = column - 1 /\ s = column /\ s = r + 1
  BY <1>8
<1>11. PICK y \in Int, dq \in Int : /\ y = U!SumTo(sq, r) /\ dq = sq[s]
                                    /\ U!SumTo(sq, s) = y + dq /\ y <= col /\ y + dq > col
  <2>1. r \in 0..Len(sq) /\ s \in 1..Len(sq) /\ s - 1 = r
    BY <1>2, <1>10
  <2>2. U!SumTo(sq, r) \in Int /\ U!SumTo(sq, s) = U!SumTo(sq, r) + sq[s] /\ U!SumTo(sq, 0) = 0
    BY <2>1, SumTos
  <2>3. sq[s] \in Int
    BY <2>1, ElementOfSeq
  <2>4. U!SumTo(sq, r) <= col
    <3>1. CASE r = 0
      BY <1>5, <2>2, <3>1
    <3>2. CASE r # 0
      <4>1. r \in 1..(column - 1)
        BY <1>10, <3>2
      <4> QED BY <1>8, <4>1
    <3> QED BY <3>1, <3>2
  <2> QED BY <1>8, <1>10, <2>2, <2>3, <2>4
<1>12. PICK v \in Nat, p \in Nat : v = row * a /\ v = a * row /\ p = r + v /\ p = v + r
  <2>1. PICK v \in Nat : v = row * a /\ v = a * row
    BY Product
  <2>2. r + v \in Nat /\ r + v = v + r
    OBVIOUS
  <2> QED BY <2>1, <2>2
<1>14. p < z /\ p <= z
  <2>1. row * a + s \in 1..(a * c)
    BY <1>6, WithinTurns
  <2>2. v + s \in 1..z
    BY <1>2, <1>12, <2>1
  <2> QED BY <1>10, <1>12, <2>2
<1>13. p = U!Position(e, q)
  <2>1. column - 1 + row * a = p
    BY <1>10, <1>12
  <2>2. z < IntLimit
    BY ONLY <1>2, U!Size(e) < IntLimit
  <2>3. p < IntLimit
    BY <1>14, <2>2, IntLimitAssumption
  <2>4. U!AsInt(p) = p
    BY <2>3, AsIntSmall
  <2> QED BY ONLY <1>9, <2>1, <2>4, Zenon
<1>15. p \div a = row /\ p % a = r
  <2>1. p = a * row + r
    BY <1>12
  <2> QED BY <2>1, QuotientIs
<1>16. PICK w \in Int : w = sum * row /\ q - x = w + col
  <2>1. sum * row \in Int /\ q - x = sum * row + col
    BY <1>4, <1>5
  <2> QED BY <2>1
<1>17. U!getValueByPos(e, p) = x + w + y
  <2>1. U!getValueByPos(e, p) = ValueIn(sq, a, x, sum, p)
    BY <1>2, <1>14
  <2>2. row = p \div a /\ y = U!SumTo(sq, p % a)
    BY <1>11, <1>15
  <2>3. ValueIn(sq, a, x, sum, p) = x + sum * row + y
    BY ONLY <2>2, Zenon DEF ValueIn
  <2> QED BY <1>16, <2>1, <2>3
<1>18. U!getValueByPos(e, p) <= q
  <2>1. x \in Int /\ w \in Int /\ y \in Int /\ col \in Int /\ q \in Int /\ y <= col /\ q - x = w + col
    BY <1>11, <1>16
  <2>2. x + w + y <= q
    BY ONLY <2>1, Below
  <2> QED BY <1>17, <2>2
<1>19. U!getValueByPos(e, p + 1) = x + w + (y + dq)
  <2>1. p < U!Size(e)
    BY <1>2, <1>14
  <2>2. PICK k \in 0..(e.cnt - 1), i \in 1..Len(e.seq) :
           /\ p + 1 = k * Len(e.seq) + i
           /\ e.seq[i] \in Int
           /\ U!getValueByPos(e, p + 1) = U!getValueByPos(e, p) + e.seq[i]
    BY <2>1, NextValueOf
  <2>3. PICK b \in Nat, j \in 0..(a - 1) : b = k * a /\ b = a * k /\ j = i - 1 /\ i \in 1..a /\ k \in Nat
    <3>1. k \in Nat /\ i \in 1..a /\ i - 1 \in 0..(a - 1)
      BY <1>2
    <3>2. k * a \in Nat /\ k * a = a * k
      BY <3>1
    <3> QED BY <3>1, <3>2
  <2>4. p = a * k + j
    <3>1. p + 1 = b + i
      BY <1>2, <2>2, <2>3
    <3>2. p = b + j
      BY <2>3, <3>1
    <3> QED BY <2>3, <3>2
  <2>5. p % a = j
    BY <2>3, <2>4, QuotientIs
  <2>6. i = s
    BY <1>10, <1>15, <2>3, <2>5
  <2>7. U!getValueByPos(e, p + 1) = x + w + y + dq
    BY <1>2, <1>11, <1>17, <2>2, <2>6
  <2> QED BY <2>7
<1>20. q < U!getValueByPos(e, p + 1)
  <2>1. x \in Int /\ w \in Int /\ y + dq \in Int /\ col \in Int /\ q \in Int /\ y + dq > col /\ q - x = w + col
    BY <1>11, <1>16
  <2>2. q < x + w + (y + dq)
    BY ONLY <2>1, Above
  <2> QED BY <1>19, <2>2
<1> QED BY <1>2, <1>13, <1>14, <1>18, <1>20

(* Past the last repetition of a pattern that leads up, q is past the last  *)
(* value.                                                                   *)
LEMMA PastTheEnd ==
  ASSUME NEW e \in Element, Run(e), NEW q \in Int, q >= e.init, U!sumVecSeq(e) > 0,
         (q - e.init) \div U!sumVecSeq(e) >= e.cnt
  PROVE  U!getLastValue(e) <= q
<1>1. PICK sq \in Seq(Int), a \in Nat \ {0}, c \in Nat \ {0}, x \in Int, sum \in Int, z \in Nat :
        ElementAs(e, sq, a, c, x, sum, z)
  BY ValueParts
<1>2. /\ sq = e.seq /\ Len(sq) = a /\ c = e.cnt /\ U!Size(e) = z /\ z = a * c /\ x = e.init
      /\ sum = U!SumTo(sq, a) /\ \A p \in Nat : p <= z => U!getValueByPos(e, p) = ValueIn(sq, a, x, sum, p)
  BY <1>1 DEF ElementAs
<1>3. sum = U!sumVecSeq(e)
  BY <1>2 DEF U!sumVecSeq
<1>4. PICK S \in Nat \ {0}, t \in Nat : S = sum /\ t = q - x
  <2>1. sum > 0 /\ q >= x
    BY <1>2, <1>3
  <2>2. sum \in Nat \ {0} /\ q - x \in Nat
    BY <2>1
  <2> QED BY <2>2
<1>5. PICK row \in Nat, col \in Nat : row = t \div S /\ t = S * row + col
  <2>1. t \div S \in Nat /\ t % S \in 0..(S - 1) /\ t = S * (t \div S) + (t % S)
    BY Quotient
  <2>2. t % S \in Nat
    BY <2>1
  <2> QED BY <2>1, <2>2
<1>6. c <= row
  <2>1. row = (q - e.init) \div U!sumVecSeq(e)
    BY <1>2, <1>3, <1>4, <1>5
  <2> QED BY <1>2, <2>1
<1>7. PICK w \in Nat, v \in Nat : w = sum * c /\ v = S * row /\ w <= v
  <2>1. c * S <= row * S
    BY <1>6, ProductGrows
  <2>2. PICK w \in Nat, v \in Nat : w = c * S /\ v = row * S
    BY Product
  <2>3. w = sum * c /\ v = S * row
    BY <1>4, <2>2
  <2> QED BY <2>1, <2>2, <2>3
<1>8. U!getLastValue(e) = x + w + 0
  <2>1. PICK k \in Nat, r \in 0..(a - 1), y \in Int : k = c /\ r = 0 /\ y = 0
    OBVIOUS
  <2>2. z = a * k + r
    BY <1>2, <2>1
  <2>3. z \div a = k /\ z % a = r
    BY <2>2, QuotientIs
  <2>4. y = U!SumTo(sq, z % a)
    BY <2>1, <2>3, SumTos
  <2>5. U!getValueByPos(e, z) = ValueIn(sq, a, x, sum, z)
    <3>1. z <= z
      OBVIOUS
    <3> QED BY <1>2, <3>1
  <2>6. k = z \div a
    BY <2>3
  <2>7. ValueIn(sq, a, x, sum, z) = x + sum * k + y
    BY ONLY <2>4, <2>6, Zenon DEF ValueIn
  <2>8. U!getLastValue(e) = x + sum * k + y
    BY <1>2, <2>5, <2>7 DEF U!getLastValue
  <2> QED BY <1>7, <2>1, <2>8
<1>9. q - x = v + col
  BY <1>4, <1>5, <1>7
<1> QED BY <1>7, <1>8, <1>9

-----------------------------------------------------------------------------
(* What look_up finds in a unit.                                            *)

(* What unit u, that stands for w, finds for q: record i, and the length of *)
(* record k.                                                                *)
Finds(w, n, i, k, q, a) ==
  /\ a = U!Answer(q, w[i].log, w[i].phy, w[k].len) /\ w[i].log <= q
  /\ i = n + 1 \/ (i <= n /\ q < w[i + 1].log) \/ (i = 1 /\ (n <= 1 \/ q = w[1].log))

LEMMA FoundInside ==
  ASSUME NEW u, NEW w, NEW n \in Nat \ {0}, IsUnit(u, w), Len(w) = n + 1, NEW q \in Int,
         q >= u.off.init, U!sumVecSeq(u.off) > 0, n < IntLimit, InRange(u, q),
         ~((q - u.off.init) \div U!sumVecSeq(u.off) >= u.off.cnt)
  PROVE  \E i, k \in 1..(n + 1) : Finds(w, n, i, k, q, U!AnswerInside(u, q))
<1>1. /\ U!Size(u.off) = n /\ u.off \in Element /\ Run(u.off)
      /\ \A p \in 0..n : U!getValueByPos(u.off, p) = w[p + 1].log
      /\ \A p \in 0..n : p < IntLimit =>
           /\ U!Walk(u.phy, p).value = w[p + 1].phy /\ U!Walk(u.phy, p).left \in 0..p
           /\ U!Walk(u.len, p).value = w[p + 1].len
  <2>1. PICK m \in Nat \ {0} :
           /\ U!Size(u.off) = m /\ Len(w) = m + 1 /\ u.off \in Element /\ Run(u.off)
           /\ \A p \in 0..m : U!getValueByPos(u.off, p) = w[p + 1].log
           /\ \A p \in 0..m : p < IntLimit =>
                /\ U!Walk(u.phy, p).value = w[p + 1].phy /\ U!Walk(u.phy, p).left \in 0..p
                /\ U!Walk(u.len, p).value = w[p + 1].len
    BY UnitParts
  <2>2. m = n
    BY <2>1
  <2> QED BY <2>1, <2>2
<1>8. /\ (q - u.off.init) \div U!sumVecSeq(u.off) < IntLimit
      /\ U!sumVecSeq(u.off) <= IntLimit /\ U!Size(u.off) < IntLimit
  BY <1>1 DEF InRange
<1>2. PICK p \in Nat : /\ p = U!Position(u.off, q) /\ p < n
                       /\ U!getValueByPos(u.off, p) <= q
                       /\ q < U!getValueByPos(u.off, p + 1)
  BY <1>1, <1>8, InsidePlace
<1>3. PICK l \in 0..p : /\ l = U!Walk(u.phy, p).left /\ p \in 0..n /\ p + 1 \in 0..n /\ l \in 0..n
                        /\ p < IntLimit /\ l < IntLimit
  <2>1. p \in 0..n /\ p + 1 \in 0..n /\ p < IntLimit
    BY <1>2, IntLimitAssumption
  <2>2. U!Walk(u.phy, p).left \in 0..p
    BY <1>1, <2>1
  <2>3. U!Walk(u.phy, p).left \in 0..n /\ U!Walk(u.phy, p).left < IntLimit
    BY <2>1, <2>2, IntLimitAssumption
  <2> QED BY <2>1, <2>2, <2>3
<1>4. PICK i \in 1..(n + 1), k \in 1..(n + 1) : i = p + 1 /\ k = l + 1 /\ i <= n /\ p + 1 + 1 = i + 1
  BY <1>2, <1>3
<1>5. U!AnswerInside(u, q) =
        U!Answer(q, U!getValueByPos(u.off, p), U!Walk(u.phy, p).value, U!Walk(u.len, l).value)
  BY <1>2, <1>3 DEF U!AnswerInside
<1>6. /\ U!getValueByPos(u.off, p) = w[i].log /\ U!Walk(u.phy, p).value = w[i].phy
      /\ U!Walk(u.len, l).value = w[k].len
      /\ U!getValueByPos(u.off, p + 1) = w[i + 1].log
  BY <1>1, <1>3, <1>4
<1>7. Finds(w, n, i, k, q, U!AnswerInside(u, q))
  BY <1>2, <1>4, <1>5, <1>6 DEF Finds
<1> QED BY <1>7

LEMMA FoundAtEnd ==
  ASSUME NEW u, NEW w, NEW n \in Nat \ {0}, IsUnit(u, w), Len(w) = n + 1, NEW q \in Int,
         q >= u.off.init, U!sumVecSeq(u.off) > 0,
         (q - u.off.init) \div U!sumVecSeq(u.off) >= u.off.cnt
  PROVE  \E i, k \in 1..(n + 1) : Finds(w, n, i, k, q, U!AnswerAtEnd(u, q))
<1>1. /\ u.off \in Element /\ Run(u.off)
      /\ U!getLastValue(u.off) = w[n + 1].log
      /\ U!getLastValue(U!Last(u.phy)) = w[n + 1].phy
      /\ U!getLastValue(U!Last(u.len)) = w[n + 1].len
  <2>1. PICK m \in Nat \ {0} :
           /\ Len(w) = m + 1 /\ u.off \in Element /\ Run(u.off)
           /\ U!getLastValue(u.off) = w[m + 1].log
           /\ U!getLastValue(U!Last(u.phy)) = w[m + 1].phy
           /\ U!getLastValue(U!Last(u.len)) = w[m + 1].len
    BY UnitParts
  <2>2. m = n
    BY <2>1
  <2> QED BY <2>1, <2>2
<1>2. w[n + 1].log <= q
  BY <1>1, PastTheEnd
<1>3. U!AnswerAtEnd(u, q) = U!Answer(q, w[n + 1].log, w[n + 1].phy, w[n + 1].len)
  BY <1>1 DEF U!AnswerAtEnd
<1>4. PICK i \in 1..(n + 1) : i = n + 1
  OBVIOUS
<1>5. Finds(w, n, i, i, q, U!AnswerAtEnd(u, q))
  BY <1>2, <1>3, <1>4 DEF Finds
<1> QED BY <1>5

(* A unit answers with one of its records, or with nothing: only before its *)
(* first, or if its pattern leads nowhere.                                  *)
LEMMA UnitFinds ==
  ASSUME NEW u, NEW w, NEW n \in Nat \ {0}, IsUnit(u, w), Len(w) = n + 1, NEW q \in Int,
         n < IntLimit, InRange(u, q)
  PROVE  \/ /\ U!UnitAnswer(u, q) = U!Missing
            /\ q < w[1].log \/ (n > 1 /\ U!sumVecSeq(u.off) <= 0)
         \/ \E i, k \in 1..(n + 1) : Finds(w, n, i, k, q, U!UnitAnswer(u, q))
<1>1. /\ U!Size(u.off) = n /\ u.off \in Element /\ Run(u.off) /\ w[1] \in E
      /\ u.off.init = w[1].log /\ u.phy[1].init = w[1].phy /\ u.len[1].init = w[1].len
  <2>1. PICK m \in Nat \ {0} :
           /\ U!Size(u.off) = m /\ Len(w) = m + 1 /\ u.off \in Element /\ Run(u.off)
           /\ u.off.init = w[1].log /\ u.phy[1].init = w[1].phy /\ u.len[1].init = w[1].len
           /\ \A i \in 1..(m + 1) : w[i] \in E
    BY UnitParts
  <2>2. m = n /\ 1 \in 1..(m + 1)
    BY <2>1
  <2> QED BY <2>1, <2>2
<1>2. PICK x \in Nat : x = w[1].log /\ x = u.off.init
  BY <1>1, EntryParts
<1>3. CASE q < x
  <2>1. U!UnitAnswer(u, q) = U!Missing
    BY <1>2, <1>3 DEF U!UnitAnswer
  <2> QED BY <1>2, <1>3, <2>1
<1>4. CASE q >= x /\ (n <= 1 \/ q = x)
  <2>1. U!UnitAnswer(u, q) = U!Answer(q, u.off.init, u.phy[1].init, u.len[1].init)
    BY <1>1, <1>2, <1>4 DEF U!UnitAnswer
  <2>2. U!UnitAnswer(u, q) = U!Answer(q, w[1].log, w[1].phy, w[1].len)
    BY <1>1, <2>1
  <2>3. PICK i \in 1..(n + 1) : i = 1
    OBVIOUS
  <2>4. w[i].log <= q /\ (n <= 1 \/ q = w[1].log)
    BY <1>2, <1>4, <2>3
  <2>5. Finds(w, n, i, i, q, U!UnitAnswer(u, q))
    BY <2>2, <2>3, <2>4 DEF Finds
  <2> QED BY <2>5
<1>5. CASE q >= x /\ ~(n <= 1 \/ q = x)
  <2>1. U!Size(u.off) > 1 /\ q > u.off.init /\ ~(q < u.off.init) /\ q >= u.off.init
        /\ ~(U!Size(u.off) <= 1 \/ q = u.off.init) /\ n > 1
    BY <1>1, <1>2, <1>5
  <2>2. U!UnitAnswer(u, q) =
          IF U!sumVecSeq(u.off) <= 0 THEN U!Missing
          ELSE IF U!AsInt((q - u.off.init) \div U!sumVecSeq(u.off)) >= u.off.cnt THEN U!AnswerAtEnd(u, q)
          ELSE U!AnswerInside(u, q)
    BY <2>1 DEF U!UnitAnswer
  <2>3. CASE U!sumVecSeq(u.off) <= 0
    BY <2>1, <2>2, <2>3
  <2>4. CASE ~(U!sumVecSeq(u.off) <= 0)
    <3>1. U!sumVecSeq(u.off) \in Int
      <4>1. u.off.seq \in Seq(Int) /\ Len(u.off.seq) \in 0..Len(u.off.seq)
        BY <1>1 DEF Run
      <4> QED BY <4>1, SumTos DEF U!sumVecSeq
    <3>2. U!sumVecSeq(u.off) > 0
      BY <2>4, <3>1
    <3>5. U!AsInt((q - u.off.init) \div U!sumVecSeq(u.off)) = (q - u.off.init) \div U!sumVecSeq(u.off)
      <4>1. PICK t \in Nat, S \in Nat \ {0} : t = q - u.off.init /\ S = U!sumVecSeq(u.off)
        <5>1. q - u.off.init \in Nat
          BY <1>2, <1>5
        <5>2. U!sumVecSeq(u.off) \in Nat \ {0}
          BY <3>1, <3>2
        <5> QED BY <5>1, <5>2
      <4>2. t \div S \in Nat
        BY Quotient
      <4>3. t \div S < IntLimit
        BY <3>2, <4>1 DEF InRange
      <4> QED BY <4>1, <4>2, <4>3, AsIntSmall
    <3>3. CASE (q - u.off.init) \div U!sumVecSeq(u.off) >= u.off.cnt
      <4>1. U!UnitAnswer(u, q) = U!AnswerAtEnd(u, q)
        BY <2>2, <2>4, <3>3, <3>5
      <4>2. \E i, k \in 1..(n + 1) : Finds(w, n, i, k, q, U!AnswerAtEnd(u, q))
        BY <2>1, <3>2, <3>3, FoundAtEnd
      <4> QED BY <4>1, <4>2
    <3>4. CASE ~((q - u.off.init) \div U!sumVecSeq(u.off) >= u.off.cnt)
      <4>1. U!UnitAnswer(u, q) = U!AnswerInside(u, q)
        BY <2>2, <2>4, <3>4, <3>5
      <4>2. \E i, k \in 1..(n + 1) : Finds(w, n, i, k, q, U!AnswerInside(u, q))
        BY <2>1, <3>2, <3>4, FoundInside
      <4> QED BY <4>1, <4>2
    <3> QED BY <3>3, <3>4
  <2> QED BY <2>3, <2>4
<1>6. q < x \/ (q >= x /\ (n <= 1 \/ q = x)) \/ (q >= x /\ ~(n <= 1 \/ q = x))
  BY <1>2
<1> QED BY <1>3, <1>4, <1>5, <1>6

(* A narrowed unit answers with the first of its records.                   *)
LEMMA NarrowedFinds ==
  ASSUME NEW u, NEW w, IsUnit(u, w), U!Narrow(u), NEW q \in Int
  PROVE  \/ U!UnitAnswer(U!Narrowed(u), q) = U!Missing
         \/ /\ w[1].log <= q
            /\ U!UnitAnswer(U!Narrowed(u), q) = U!Answer(q, w[1].log, w[1].phy, w[1].len)
<1>1. PICK m \in Nat \ {0} :
           /\ Len(w) = m + 1 /\ u.off \in Element
           /\ u.off.init = w[1].log /\ u.phy[1].init = w[1].phy /\ u.len[1].init = w[1].len
           /\ \A i \in 1..(m + 1) : w[i] \in E
           /\ u.phy \in Seq(Element) /\ Len(u.phy) \in Nat \ {0}
           /\ u.len \in Seq(Element) /\ Len(u.len) \in Nat \ {0}
  BY UnitParts
<1>2. PICK n : n = U!Narrowed(u)
  OBVIOUS
<1>3. n = [off |-> [u.off EXCEPT !.seq = <<0>>],
           phy |-> [u.phy EXCEPT ![1] = [@ EXCEPT !.cnt = 1, !.seq = <<0>>]],
           len |-> [u.len EXCEPT ![1] = [@ EXCEPT !.cnt = 1, !.seq = <<0>>]]]
  BY <1>2 DEF U!Narrowed
<1>4. u.off.cnt = 1
  BY DEF U!Narrow
<1>5. n.off.init = u.off.init /\ U!Size(n.off) = 1
  <2>1. n.off = [u.off EXCEPT !.seq = <<0>>]
    BY <1>3
  <2>2. n.off.init = u.off.init /\ n.off.cnt = u.off.cnt /\ n.off.seq = <<0>>
    BY <1>1, <2>1 DEF Element
  <2>3. Len(<<0>>) = 1 /\ 1 * 1 = 1
    OBVIOUS
  <2> QED BY <1>4, <2>2, <2>3 DEF U!Size
<1>6. n.phy[1].init = u.phy[1].init
  <2>1. PICK f \in Seq(Element) : f = u.phy /\ Len(f) \in Nat \ {0}
    BY <1>1
  <2>2. f[1] \in Element /\ 1 \in DOMAIN f
    <3>1. 1 \in 1..Len(f)
      BY <2>1
    <3> QED BY <3>1, ElementOfSeq, LenProperties
  <2>3. n.phy[1] = [f[1] EXCEPT !.cnt = 1, !.seq = <<0>>]
    BY <1>3, <2>1, <2>2
  <2> QED BY <2>1, <2>2, <2>3 DEF Element
<1>7. n.len[1].init = u.len[1].init
  <2>1. PICK f \in Seq(Element) : f = u.len /\ Len(f) \in Nat \ {0}
    BY <1>1
  <2>2. f[1] \in Element /\ 1 \in DOMAIN f
    <3>1. 1 \in 1..Len(f)
      BY <2>1
    <3> QED BY <3>1, ElementOfSeq, LenProperties
  <2>3. n.len[1] = [f[1] EXCEPT !.cnt = 1, !.seq = <<0>>]
    BY <1>3, <2>1, <2>2
  <2> QED BY <2>1, <2>2, <2>3 DEF Element
<1>8. PICK x \in Nat : x = w[1].log /\ x = n.off.init
  <2>1. 1 \in 1..(m + 1)
    OBVIOUS
  <2>2. w[1].log \in Nat
    BY <1>1, <2>1, EntryParts
  <2> QED BY <1>1, <1>5, <2>2
<1>9. CASE q < x
  BY <1>2, <1>8, <1>9 DEF U!UnitAnswer
<1>10. CASE ~(q < x)
  <2>1. q >= n.off.init /\ U!Size(n.off) <= 1 /\ ~(q < n.off.init) /\ ~(U!Size(n.off) > 1)
    BY <1>5, <1>8, <1>10
  <2>2. U!UnitAnswer(n, q) = U!Answer(q, n.off.init, n.phy[1].init, n.len[1].init)
    BY <2>1 DEF U!UnitAnswer
  <2>3. w[1].log <= q
    BY <1>8, <1>10
  <2> QED BY <1>1, <1>2, <1>6, <1>7, <1>8, <2>2, <2>3
<1> QED BY <1>9, <1>10

(* Whatever is made of the other patterns of a unit, and of a position in   *)
(* it, the offset it answers with is one of its records'.                   *)
LEMMA AnyPosition ==
  ASSUME NEW u, NEW w, IsUnit(u, w), NEW pos
  PROVE  \E i \in 1..Len(w) : U!getValueByPos(u.off, pos) = w[i].log
<1>1. PICK n \in Nat \ {0} : /\ U!Size(u.off) = n /\ Len(w) = n + 1
                              /\ \A p \in 0..n : U!getValueByPos(u.off, p) = w[p + 1].log
  BY UnitParts
<1>2. PICK p \in 0..n : p = IF pos \in 0..n THEN pos ELSE n
  OBVIOUS
<1>3. U!getValueByPos(u.off, pos) = U!getValueByPos(u.off, p)
  BY <1>1, <1>2 DEF U!getValueByPos
<1>4. p + 1 \in 1..Len(w)
  BY <1>1
<1> QED BY <1>1, <1>3, <1>4

LEMMA AnswerLog ==
  ASSUME NEW q, NEW l, NEW p, NEW n, U!Answer(q, l, p, n).exist
  PROVE  U!Answer(q, l, p, n).log = l
BY DEF U!Answer, U!Missing

LEMMA AnyAnswer ==
  ASSUME NEW u, NEW w, IsUnit(u, w), NEW v, v.off = u.off, NEW q \in Int, U!UnitAnswer(v, q).exist
  PROVE  \E i \in 1..Len(w) : U!UnitAnswer(v, q).log = w[i].log
<1>1. /\ 1 \in 1..Len(w) /\ u.off.init = w[1].log
      /\ U!getLastValue(u.off) = U!getValueByPos(u.off, U!Size(u.off))
  <2>1. PICK n \in Nat \ {0} : Len(w) = n + 1 /\ u.off.init = w[1].log
    BY UnitParts
  <2> QED BY <2>1 DEF U!getLastValue
<1>2. ~U!Missing.exist
  BY DEF U!Missing
<1>3. PICK a : a = U!UnitAnswer(v, q)
  OBVIOUS
<1>4. \/ a = U!Missing
      \/ \E l, p, n : a = U!Answer(q, l, p, n) /\ (l = u.off.init \/ \E x : l = U!getValueByPos(u.off, x))
  <2>1. PICK x \in Int, z \in Nat : x = u.off.init /\ z = U!Size(u.off) /\ x = v.off.init /\ z = U!Size(v.off)
    <3>1. PICK n \in Nat \ {0} : U!Size(u.off) = n /\ u.off \in Element
      BY UnitParts
    <3> QED BY <3>1 DEF Element
  <2>2. U!AnswerAtEnd(v, q) = U!Answer(q, U!getValueByPos(u.off, U!Size(u.off)),
          U!getLastValue(U!Last(v.phy)), U!getLastValue(U!Last(v.len)))
    BY <1>1 DEF U!AnswerAtEnd
  <2>3. \E l, p, n : U!AnswerInside(v, q) = U!Answer(q, l, p, n) /\ \E y : l = U!getValueByPos(u.off, y)
    BY DEF U!AnswerInside
  <2>4. CASE q < x
    BY <1>3, <2>1, <2>4 DEF U!UnitAnswer
  <2>5. CASE ~(q < x) /\ (z <= 1 \/ q = x)
    <3>1. a = U!Answer(q, x, v.phy[1].init, v.len[1].init)
      <4>1. q >= x /\ ~(q < x) /\ ~(q > x /\ z > 1)
        BY <2>1, <2>5
      <4> QED BY <1>3, <2>1, <2>5, <4>1 DEF U!UnitAnswer
    <3> QED BY <2>1, <3>1
  <2>6. CASE ~(q < x) /\ ~(z <= 1 \/ q = x)
    <3>1. q > x /\ z > 1 /\ ~(q >= x /\ (z <= 1 \/ q = x))
      BY <2>1, <2>6
    <3>2. a = U!Missing \/ a = U!AnswerAtEnd(v, q) \/ a = U!AnswerInside(v, q)
      BY <1>3, <2>1, <2>6, <3>1 DEF U!UnitAnswer
    <3> QED BY <2>2, <2>3, <3>2
  <2> QED BY <2>4, <2>5, <2>6
<1>5. PICK l, p, n : a = U!Answer(q, l, p, n) /\ (l = u.off.init \/ \E x : l = U!getValueByPos(u.off, x))
  BY <1>2, <1>3, <1>4
<1>6. a.log = l
  BY <1>3, <1>5, AnswerLog
<1> QED BY <1>1, <1>3, <1>5, <1>6, AnyPosition

(* So it is of a unit whose physical elements are cut short, whose lengths  *)
(* are others, or which is narrowed.                                        *)
LEMMA LookUpLog ==
  ASSUME NEW u, NEW w, IsUnit(u, w), NEW q \in Int, NEW a \in U!look_up(u, q), a.exist
  PROVE  \E i \in 1..Len(w) : a.log = w[i].log
<1>1. ~U!Missing.exist /\ ~U!Died.exist
  BY DEF U!Missing, U!Died
<1>2. PICK v : v \in U!get_ibuf_unit(u) /\ a = U!UnitAnswer(U!Narrowed(v), q)
  BY <1>1 DEF U!look_up
<1>3. v.off = u.off
  BY <1>2 DEF U!get_ibuf_unit, U!Cut
<1>4. CASE ~U!Narrow(v)
  <2>1. U!Narrowed(v) = v
    BY <1>4 DEF U!Narrowed
  <2> QED BY <1>2, <1>3, <2>1, AnyAnswer
<1>5. CASE U!Narrow(v)
  <2>1. PICK n : n = U!Narrowed(v)
    OBVIOUS
  <2>2. n.off = [u.off EXCEPT !.seq = <<0>>]
    BY <1>3, <1>5, <2>1 DEF U!Narrowed
  <2>3. PICK m \in Nat \ {0} : /\ Len(w) = m + 1 /\ u.off \in Element /\ u.off.init = w[1].log
                                /\ \A i \in 1..(m + 1) : w[i] \in E
    BY UnitParts
  <2>4. n.off.init = w[1].log /\ U!Size(n.off) = 1
    <3>1. n.off.init = u.off.init /\ n.off.cnt = u.off.cnt /\ n.off.seq = <<0>>
      BY <2>2, <2>3 DEF Element
    <3>2. u.off.cnt = 1
      BY <1>3, <1>5 DEF U!Narrow
    <3>3. Len(<<0>>) = 1 /\ 1 * 1 = 1
      OBVIOUS
    <3> QED BY <2>3, <3>1, <3>2, <3>3 DEF U!Size
  <2>5. PICK x \in Nat : x = w[1].log /\ 1 \in 1..Len(w)
    <3>1. 1 \in 1..(m + 1)
      OBVIOUS
    <3> QED BY <2>3, <3>1, EntryParts
  <2>6. ~(q < x)
    BY <1>1, <1>2, <2>1, <2>4, <2>5 DEF U!UnitAnswer
  <2>7. q >= n.off.init /\ U!Size(n.off) <= 1 /\ ~(q < n.off.init) /\ ~(U!Size(n.off) > 1)
    BY <2>4, <2>5, <2>6
  <2>8. a = U!Answer(q, n.off.init, n.phy[1].init, n.len[1].init)
    BY <1>2, <2>1, <2>7 DEF U!UnitAnswer
  <2>9. a.log = n.off.init
    BY <2>8, AnswerLog
  <2> QED BY <2>4, <2>5, <2>9
<1> QED BY <1>4, <1>5

-----------------------------------------------------------------------------
(* Joined lists, and what is picked of a list.                              *)

(* Lists joined to one list: the lists are Laid from at[j] on.              *)
LEMMA FlatJoined ==
  ASSUME NEW ss, NEW n \in Nat \ {0}, Len(ss) = n
  PROVE  \E f : U!FlattenSeq(ss) = f[n] /\ Joined(f, n, ss)
<1>1. PICK g : g = CHOOSE f : Joined(f, n, ss)
  OBVIOUS
<1>2. Joined(g, n, ss)
  BY <1>1, JoinedExists
<1>3. U!FlattenSeq(ss) = g[n]
  BY <1>1 DEF U!FlattenSeq, Joined
<1> QED BY <1>2, <1>3

Laid(ss, at, n, T) ==
  /\ n \in Nat \ {0} /\ Len(ss) = n /\ at[1] = 0
  /\ \A j \in 1..n : /\ ss[j] \in Seq(T) /\ at[j] \in Nat
                     /\ j # n => at[j] + Len(ss[j]) = at[j + 1]

(* The first i of them joined.                                              *)
JoinedUpTo(f, i, ss, at, T) ==
  /\ f[i] \in Seq(T) /\ Len(f[i]) = at[i] + Len(ss[i])
  /\ \A j \in 1..i : \A k \in 1..Len(ss[j]) : at[j] + k \in 1..Len(f[i]) /\ f[i][at[j] + k] = ss[j][k]

LEMMA ListParts ==
  ASSUME NEW T, NEW s \in Seq(T), NEW t \in Seq(T), NEW a \in Nat, a = Len(s), NEW b \in Nat, b = Len(t)
  PROVE  /\ s \o t \in Seq(T) /\ Len(s \o t) = a + b
         /\ \A k \in 1..a : (s \o t)[k] = s[k]
         /\ \A k \in 1..b : (s \o t)[a + k] = t[k]
<1>1. s \o t \in Seq(T) /\ Len(s \o t) = a + b
  BY ConcatProperties
<1>2. \A k \in 1..(a + b) : (s \o t)[k] = IF k <= a THEN s[k] ELSE t[k - a]
  BY ConcatProperties
<1>3. ASSUME NEW k \in 1..a PROVE (s \o t)[k] = s[k]
  <2>1. k \in 1..(a + b) /\ k <= a
    OBVIOUS
  <2> QED BY <1>2, <2>1
<1>4. ASSUME NEW k \in 1..b PROVE (s \o t)[a + k] = t[k]
  <2>1. a + k \in 1..(a + b) /\ ~(a + k <= a) /\ (a + k) - a = k
    OBVIOUS
  <2> QED BY <1>2, <2>1
<1> QED BY <1>1, <1>3, <1>4

LEMMA FirstJoined ==
  ASSUME NEW ss, NEW at, NEW n, NEW T, Laid(ss, at, n, T), NEW f, Joined(f, n, ss)
  PROVE  JoinedUpTo(f, 1, ss, at, T)
<1>1. n \in Nat \ {0} /\ at[1] = 0 /\ 1 \in 1..n /\ ss[1] \in Seq(T)
  BY DEF Laid
<1>2. f[1] = ss[1]
  BY <1>1, JoinedAt
<1>3. PICK a \in Nat : a = Len(ss[1])
  BY <1>1, LenProperties
<1>4. ASSUME NEW j \in 1..1, NEW k \in 1..Len(ss[j])
      PROVE  at[j] + k \in 1..Len(f[1]) /\ f[1][at[j] + k] = ss[j][k]
  <2>1. j = 1
    OBVIOUS
  <2>2. k \in 1..a /\ at[j] = 0
    BY <1>1, <1>3, <2>1
  <2>3. at[j] + k = k
    BY <2>2
  <2> QED BY <1>2, <1>3, <2>1, <2>2, <2>3
<1>5. Len(f[1]) = at[1] + Len(ss[1])
  BY <1>1, <1>2, <1>3
<1> QED BY <1>1, <1>2, <1>4, <1>5 DEF JoinedUpTo

LEMMA NextJoined ==
  ASSUME NEW ss, NEW at, NEW n, NEW T, Laid(ss, at, n, T), NEW f, Joined(f, n, ss),
         NEW i \in 1..n, i # n, JoinedUpTo(f, i, ss, at, T)
  PROVE  JoinedUpTo(f, i + 1, ss, at, T)
<1>1. PICK l \in 1..n : l = i + 1 /\ l # 1 /\ l - 1 = i
  <2>1. n \in Nat \ {0}
    BY DEF Laid
  <2>2. i + 1 \in 1..n /\ i + 1 # 1 /\ (i + 1) - 1 = i
    BY <2>1
  <2> QED BY <2>2
<1>2. PICK s \in Seq(T), t \in Seq(T) : s = f[i] /\ t = ss[l]
  BY DEF Laid, JoinedUpTo
<1>3. f[l] = s \o t
  <2>1. f[l] = f[l - 1] \o ss[l]
    <3>1. n \in Nat
      BY DEF Laid
    <3>2. \A k \in 1..n : f[k] = IF k = 1 THEN ss[k] ELSE f[k - 1] \o ss[k]
      BY <3>1, JoinedAt
    <3> QED BY <1>1, <3>2
  <2> QED BY <1>1, <1>2, <2>1
<1>4. PICK a \in Nat, b \in Nat : a = Len(s) /\ b = Len(t) /\ a = at[l]
  <2>1. Len(s) \in Nat /\ Len(t) \in Nat
    BY LenProperties
  <2>2. at[i] + Len(ss[i]) = at[i + 1] /\ Len(f[i]) = at[i] + Len(ss[i])
    BY DEF Laid, JoinedUpTo
  <2> QED BY <1>1, <1>2, <2>1, <2>2
<1>5. PICK g : g = s \o t
  OBVIOUS
<1>6. /\ g \in Seq(T) /\ Len(g) = a + b
      /\ \A k \in 1..a : g[k] = s[k]
      /\ \A k \in 1..b : g[a + k] = t[k]
  <2>1. a = Len(s) /\ b = Len(t)
    BY <1>4
  <2>2. /\ s \o t \in Seq(T) /\ Len(s \o t) = a + b
        /\ \A k \in 1..a : (s \o t)[k] = s[k]
        /\ \A k \in 1..b : (s \o t)[a + k] = t[k]
    BY <2>1, ListParts
  <2> QED BY <1>5, <2>2
<1>7. ASSUME NEW j \in 1..l, NEW k \in 1..Len(ss[j])
      PROVE  at[j] + k \in 1..Len(g) /\ g[at[j] + k] = ss[j][k]
  <2>1. CASE j = l
    <3>1. k \in 1..b /\ at[j] = a /\ ss[j] = t
      BY <1>2, <1>4, <2>1
    <3>2. a + k \in 1..(a + b)
      BY <3>1
    <3> QED BY <1>6, <3>1, <3>2
  <2>2. CASE j # l
    <3>1. j \in 1..i
      BY <1>1, <2>2
    <3>2. at[j] + k \in 1..Len(f[i]) /\ f[i][at[j] + k] = ss[j][k]
      BY <3>1 DEF JoinedUpTo
    <3>3. PICK y \in 1..a : y = at[j] + k /\ s[y] = ss[j][k]
      BY <1>2, <1>4, <3>2
    <3>4. y \in 1..(a + b) /\ g[y] = s[y]
      BY <1>6
    <3> QED BY <1>6, <3>3, <3>4
  <2> QED BY <2>1, <2>2
<1>8. Len(g) = at[l] + Len(ss[l])
  BY <1>2, <1>4, <1>6
<1>9. f[l] = g
  BY <1>3, <1>5
<1>10. JoinedUpTo(f, l, ss, at, T)
  BY <1>6, <1>7, <1>8, <1>9 DEF JoinedUpTo
<1> QED BY <1>1, <1>10

(* What is where in the one list.                                           *)
LEMMA FlatAt ==
  ASSUME NEW ss, NEW at, NEW n, NEW T, Laid(ss, at, n, T)
  PROVE  /\ U!FlattenSeq(ss) \in Seq(T) /\ Len(U!FlattenSeq(ss)) = at[n] + Len(ss[n])
         /\ \A j \in 1..n : \A k \in 1..Len(ss[j]) :
              at[j] + k \in 1..Len(U!FlattenSeq(ss)) /\ U!FlattenSeq(ss)[at[j] + k] = ss[j][k]
<1>1. n \in Nat \ {0} /\ Len(ss) = n
  BY DEF Laid
<1>2. PICK f : U!FlattenSeq(ss) = f[n] /\ Joined(f, n, ss)
  BY <1>1, FlatJoined
<1> DEFINE Bad == {i \in 1..n : ~JoinedUpTo(f, i, ss, at, T)}
<1>3. Bad = {}
  <2> SUFFICES ASSUME Bad # {} PROVE FALSE
    OBVIOUS
  <2>1. PICK m \in Bad : \A x \in Bad : m <= x
    <3>1. Bad \in SUBSET Nat
      OBVIOUS
    <3> HIDE DEF Bad
    <3> QED BY <3>1, LeastNatural
  <2>2. m \in 1..n /\ ~JoinedUpTo(f, m, ss, at, T)
    BY <2>1
  <2>3. m # 1
    BY <1>2, <2>2, FirstJoined
  <2>4. PICK i \in 1..n : i + 1 = m /\ i # n /\ ~(m <= i)
    <3>1. m - 1 \in 1..n /\ (m - 1) + 1 = m /\ m - 1 # n /\ ~(m <= m - 1)
      BY <1>1, <2>2, <2>3
    <3> QED BY <3>1
  <2>5. i \notin Bad
    <3> HIDE DEF Bad
    <3> QED BY <2>1, <2>4
  <2>6. JoinedUpTo(f, i, ss, at, T)
    BY <2>5
  <2>7. JoinedUpTo(f, i + 1, ss, at, T)
    <3> HIDE DEF Bad
    <3> QED BY <1>2, <2>4, <2>6, NextJoined
  <2> QED BY <2>2, <2>4, <2>7
<1>4. JoinedUpTo(f, n, ss, at, T)
  <2>1. n \in 1..n
    BY <1>1
  <2> QED BY <1>3, <2>1
<1> HIDE DEF Bad
<1> QED BY <1>2, <1>4 DEF JoinedUpTo

(* Lists of a set's elements joined are a list of the set's elements.       *)
LEMMA FlatOf ==
  ASSUME NEW T, NEW ss, NEW n \in Nat \ {0}, Len(ss) = n, \A j \in 1..n : ss[j] \in Seq(T)
  PROVE  U!FlattenSeq(ss) \in Seq(T)
<1>1. PICK f : U!FlattenSeq(ss) = f[n] /\ Joined(f, n, ss)
  BY FlatJoined
<1>2. \A i \in 1..n : f[i] = IF i = 1 THEN ss[i] ELSE f[i - 1] \o ss[i]
  BY <1>1, JoinedAt
<1> DEFINE Bad == {i \in 1..n : f[i] \notin Seq(T)}
<1>3. Bad = {}
  <2> SUFFICES ASSUME Bad # {} PROVE FALSE
    OBVIOUS
  <2>1. PICK m \in Bad : \A x \in Bad : m <= x
    <3>1. Bad \in SUBSET Nat
      OBVIOUS
    <3> HIDE DEF Bad
    <3> QED BY <3>1, LeastNatural
  <2>2. m \in 1..n /\ f[m] \notin Seq(T)
    BY <2>1
  <2>3. m # 1
    BY <1>2, <2>2
  <2>4. PICK i \in 1..n : i = m - 1 /\ ~(m <= i)
    <3>1. m - 1 \in 1..n /\ ~(m <= m - 1)
      BY <2>2, <2>3
    <3> QED BY <3>1
  <2>5. i \notin Bad
    <3> HIDE DEF Bad
    <3> QED BY <2>1, <2>4
  <2>6. PICK s \in Seq(T), t \in Seq(T) : s = f[i] /\ t = ss[m]
    BY <2>2, <2>5
  <2>7. f[m] = s \o t
    BY <1>2, <2>2, <2>3, <2>4, <2>6
  <2>8. s \o t \in Seq(T)
    BY ConcatProperties
  <2> QED BY <2>2, <2>7, <2>8
<1>4. n \in 1..n
  OBVIOUS
<1> QED BY <1>1, <1>3, <1>4

(* The places of a list that are chosen.                                    *)
LEMMA CountIs == \A S : U!Cardinality(S) = Cardinality(S)
BY DEF U!Cardinality, Cardinality

LEMMA NumbersU ==
  ASSUME NEW S \in SUBSET Nat, IsFiniteSet(S)
  PROVE  /\ Cardinality(S) \in Nat
         /\ \A i \in 1..Cardinality(S) : U!Nth(S, i) \in S /\ Cardinality(UpTo(S, U!Nth(S, i))) = i
         /\ \A s \in S : Cardinality(UpTo(S, s)) \in 1..Cardinality(S)
         /\ \A s \in S : U!Nth(S, Cardinality(UpTo(S, s))) = s
         /\ \A s \in S : \E i \in 1..Cardinality(S) : U!Nth(S, i) = s
<1>1. /\ Cardinality(S) \in Nat
      /\ \A i \in 1..Cardinality(S) : Nth(S, i) \in S /\ Cardinality(UpTo(S, Nth(S, i))) = i
      /\ \A s \in S : Nth(S, Cardinality(UpTo(S, s))) = s
      /\ \A s \in S : Cardinality(UpTo(S, s)) \in 1..Cardinality(S)
  BY Numbers, UpToParts
<1>2. \A i : U!Nth(S, i) = CHOOSE n \in S : U!Cardinality(UpTo(S, n)) = i
  BY DEF U!Nth, UpTo
<1>3. ASSUME NEW i \in 1..Cardinality(S)
      PROVE  U!Nth(S, i) \in S /\ Cardinality(UpTo(S, U!Nth(S, i))) = i
  <2>1. \E n \in S : U!Cardinality(UpTo(S, n)) = i
    BY <1>1, CountIs
  <2>2. U!Nth(S, i) \in S /\ U!Cardinality(UpTo(S, U!Nth(S, i))) = i
    BY <1>2, <2>1
  <2> QED BY <2>2, CountIs
<1>4. ASSUME NEW s \in S
      PROVE  U!Nth(S, Cardinality(UpTo(S, s))) = s
  <2>1. PICK i \in 1..Cardinality(S) : i = Cardinality(UpTo(S, s))
    BY <1>1
  <2>2. PICK t \in S : t = U!Nth(S, i) /\ Cardinality(UpTo(S, t)) = i
    BY <1>3
  <2>3. Nth(S, i) = t /\ Nth(S, i) = s
    BY <1>1, <2>1, <2>2
  <2> QED BY <2>1, <2>2, <2>3
<1>5. \A s \in S : \E i \in 1..Cardinality(S) : U!Nth(S, i) = s
  BY <1>1, <1>4
<1> QED BY <1>1, <1>3, <1>4, <1>5

LEMMA PickedParts ==
  ASSUME NEW T, NEW list \in Seq(T), NEW P \in SUBSET (1..Len(list))
  PROVE  /\ IsFiniteSet(P) /\ P \in SUBSET Nat /\ Cardinality(P) \in Nat
         /\ U!Picked(list, P) \in Seq(T) /\ Len(U!Picked(list, P)) = Cardinality(P)
         /\ \A i \in 1..Cardinality(P) : U!Nth(P, i) \in P /\ U!Picked(list, P)[i] = list[U!Nth(P, i)]
<1>1. PICK l \in Nat : l = Len(list)
  BY LenProperties
<1>2. P \in SUBSET Nat
  BY <1>1
<1>3. IsFiniteSet(P)
  <2>1. IsFiniteSet(1..l)
    BY FS_Interval
  <2> QED BY <1>1, <2>1, FS_Subset
<1>4. PICK n \in Nat : n = Cardinality(P) /\ \A i \in 1..n : U!Nth(P, i) \in P
  BY <1>2, <1>3, NumbersU
<1>5. U!Picked(list, P) = [i \in 1..n |-> list[U!Nth(P, i)]]
  <2>1. U!Cardinality(P) = n
    BY <1>4, CountIs
  <2> QED BY <2>1 DEF U!Picked
<1>6. \A i \in 1..n : list[U!Nth(P, i)] \in T
  <2> TAKE i \in 1..n
  <2>1. U!Nth(P, i) \in 1..Len(list)
    BY <1>4
  <2> QED BY <2>1, ElementOfSeq
<1>7. PICK f : f = [i \in 1..n |-> list[U!Nth(P, i)]]
  OBVIOUS
<1>8. f \in Seq(T)
  <2>1. [i \in 1..n |-> list[U!Nth(P, i)]] \in Seq(T)
    BY <1>6, IsASeq
  <2> QED BY <1>7, <2>1
<1>9. Len(f) = n /\ \A i \in 1..n : f[i] = list[U!Nth(P, i)]
  BY <1>7
<1> QED BY <1>2, <1>3, <1>4, <1>5, <1>7, <1>8, <1>9

-----------------------------------------------------------------------------
(* The entries of one flush: a unit for each part of a process's records.   *)

(* The processes of a list of records.                                      *)
IdsOf(rs) == {rs[i].id : i \in 1..Len(rs)}

(* The records of one process in a list of records.                         *)
LEMMA OfParts ==
  ASSUME NEW rs \in Seq(E), NEW id \in IdsOf(rs)
  PROVE  /\ U!Of(rs, id) \in Seq(E)
         /\ Len(U!Of(rs, id)) \in Nat \ {0} /\ Len(U!Of(rs, id)) <= Len(rs)
         /\ \A i \in 1..Len(U!Of(rs, id)) :
              \E j \in 1..Len(rs) : U!Of(rs, id)[i] = rs[j] /\ rs[j].id = id
<1>1. PICK P : P = {i \in 1..Len(rs) : rs[i].id = id}
  OBVIOUS
<1>2. P \in SUBSET (1..Len(rs)) /\ P # {}
  BY <1>1 DEF IdsOf
<1>3. U!Of(rs, id) = U!Picked(rs, P)
  BY <1>1 DEF U!Of
<1>4. /\ IsFiniteSet(P) /\ P \in SUBSET Nat /\ Cardinality(P) \in Nat
      /\ U!Picked(rs, P) \in Seq(E) /\ Len(U!Picked(rs, P)) = Cardinality(P)
      /\ \A i \in 1..Cardinality(P) : U!Nth(P, i) \in P /\ U!Picked(rs, P)[i] = rs[U!Nth(P, i)]
  BY <1>2, PickedParts
<1>5. Cardinality(P) # 0
  BY <1>2, <1>4, FS_EmptySet
<1>6. ASSUME NEW i \in 1..Cardinality(P)
      PROVE  \E j \in 1..Len(rs) : U!Picked(rs, P)[i] = rs[j] /\ rs[j].id = id
  <2>1. U!Nth(P, i) \in P /\ U!Picked(rs, P)[i] = rs[U!Nth(P, i)]
    BY <1>4
  <2>2. U!Nth(P, i) \in 1..Len(rs) /\ rs[U!Nth(P, i)].id = id
    BY <1>1, <2>1
  <2> QED BY <2>1, <2>2
<1>7. Cardinality(P) <= Len(rs)
  <2>1. PICK l \in Nat : l = Len(rs)
    BY LenProperties
  <2>2. IsFiniteSet(1..l) /\ Cardinality(1..l) = l
    BY FS_Interval
  <2>3. P \in SUBSET (1..l)
    BY <1>2, <2>1
  <2>4. Cardinality(P) <= Cardinality(1..l)
    BY <2>2, <2>3, FS_Subset
  <2> QED BY <2>1, <2>2, <2>4
<1> QED BY <1>3, <1>4, <1>5, <1>6, <1>7

(* Unit u stands for some of the records rs.                                *)
StandsFor(u, rs) ==
  \E w : /\ IsUnit(u, w) /\ Len(w) <= Len(rs) + 1
         /\ \A i \in 1..Len(w) : \E k \in 1..Len(rs) : w[i] = rs[k]

LEMMA UnitsStand ==
  ASSUME NEW rs \in Seq(E), NEW m \in Nat, Len(rs) = m + 1
  PROVE  /\ Len(U!pattern_by_pid(rs)) \in Nat \ {0}
         /\ DOMAIN U!pattern_by_pid(rs) = 1..Len(U!pattern_by_pid(rs))
         /\ \A j \in 1..Len(U!pattern_by_pid(rs)) : StandsFor(U!pattern_by_pid(rs)[j], rs)
<1>1. CASE m = 0
  <2>1. PICK r \in E : r = rs[1] /\ 1 \in 1..Len(rs)
    <3>1. 1 \in 1..Len(rs)
      BY <1>1
    <3> QED BY <3>1, ElementOfSeq
  <2>2. PICK u : u = [off |-> U!Single(r.log), phy |-> <<U!Single(r.phy)>>, len |-> <<U!Single(r.len)>>]
    OBVIOUS
  <2>3. U!pattern_by_pid(rs) = <<u>>
    <3>1. Len(rs) = 1
      BY <1>1
    <3> QED BY <2>1, <2>2, <3>1 DEF U!pattern_by_pid
  <2>4. IsUnit(u, <<r, r>>)
    BY <2>2, SingleUnit
  <2>5. PICK w : w = <<r, r>>
    OBVIOUS
  <2>6. Len(w) = 2 /\ Len(w) <= Len(rs) + 1 /\ \A i \in 1..Len(w) : w[i] = r
    BY <1>1, <2>5
  <2>7. StandsFor(u, rs)
    BY <2>1, <2>4, <2>5, <2>6 DEF StandsFor
  <2>8. PICK us : us = <<u>>
    OBVIOUS
  <2>9. Len(us) = 1 /\ DOMAIN us = 1..1 /\ us[1] = u
    BY <2>8
  <2>10. 1 \in Nat \ {0} /\ \A j \in 1..1 : j = 1
    OBVIOUS
  <2> QED BY <2>3, <2>7, <2>8, <2>9, <2>10
<1>2. CASE m # 0
  <2>1. m \in Nat \ {0}
    BY <1>2
  <2>2. PICK es : es = U!build_off_pat(U!Logs(rs))
    OBVIOUS
  <2>3. PICK at, n : Covers(es, U!Logs(rs), at, n, m)
    <3>1. PICK v \in Seq(Int) : v = U!Logs(rs) /\ Len(v) = m + 1
      <4>1. m + 1 \in Nat
        OBVIOUS
      <4> QED BY <4>1, FieldsAre
    <3>2. Encodes(es, v)
      BY <2>1, <2>2, <3>1, Built
    <3>3. \E at, n : Covers(es, v, at, n, m)
      BY <2>1, <3>1, <3>2, CoversOf
    <3> QED BY <3>1, <3>3
  <2>4. /\ n \in Nat \ {0} /\ Len(U!pattern_by_pid(rs)) = n
        /\ \A j \in 1..n : U!pattern_by_pid(rs)[j] =
             U!build_unit(es[j], RecSlice(rs, at[j], U!Size(es[j])))
    BY <2>1, <2>2, <2>3, EntryIs
  <2>5. ASSUME NEW j \in 1..n PROVE StandsFor(U!pattern_by_pid(rs)[j], rs)
    <3>1. PICK st \in Nat, z \in Nat \ {0} : st = at[j] /\ z = U!Size(es[j]) /\ st + z <= m
      BY <2>1, <2>3, WindowUnit
    <3>2. PICK w : w = RecSlice(rs, st, z)
      OBVIOUS
    <3>3. /\ \A i \in 1..(z + 1) : w[i] = rs[st + i]
          /\ IsUnit(U!build_unit(es[j], w), w)
      BY <2>1, <2>3, <3>1, <3>2, WindowUnit
    <3>4. Len(w) = z + 1
      <4>1. PICK u : u = U!build_unit(es[j], w)
        OBVIOUS
      <4>2. u.off = es[j]
        BY <4>1 DEF U!build_unit
      <4> QED BY <3>1, <3>3, <4>1, <4>2 DEF IsUnit
    <3>5. \A i \in 1..(z + 1) : st + i \in 1..Len(rs)
      BY <3>1
    <3>6. U!pattern_by_pid(rs)[j] = U!build_unit(es[j], w)
      BY <2>4, <3>1, <3>2
    <3>7. \A i \in 1..Len(w) : \E k \in 1..Len(rs) : w[i] = rs[k]
      <4>1. \A i \in 1..(z + 1) : \E k \in 1..Len(rs) : w[i] = rs[k]
        BY <3>3, <3>5
      <4> QED BY <3>4, <4>1
    <3>8. PICK u : u = U!pattern_by_pid(rs)[j]
      OBVIOUS
    <3>9. IsUnit(u, w)
      BY <3>3, <3>6, <3>8
    <3>11. Len(w) <= Len(rs) + 1
      BY <3>1, <3>4
    <3>10. StandsFor(u, rs)
      BY <3>7, <3>9, <3>11 DEF StandsFor
    <3> QED BY <3>8, <3>10
  <2>6. DOMAIN U!pattern_by_pid(rs) = 1..n
    <3>1. U!pattern_by_pid(rs) = U!build_entry(rs)
      <4>1. Len(rs) # 1
        BY <2>1
      <4> QED BY <4>1 DEF U!pattern_by_pid
    <3>2. DOMAIN U!build_entry(rs) = 1..Len(es)
      BY <2>2 DEF U!build_entry
    <3>3. Len(es) = n
      BY <2>3 DEF Covers, EncodesAt
    <3> QED BY <3>1, <3>2, <3>3
  <2> QED BY <2>4, <2>5, <2>6
<1> QED BY <1>1, <1>2

LEMMA IdsAre ==
  ASSUME NEW rs \in Seq(E)
  PROVE  IdsOf(rs) \in SUBSET Nat /\ IdsOf(rs) \in SUBSET Pids /\ IsFiniteSet(IdsOf(rs))
<1>1. PICK n \in Nat : n = Len(rs) /\ \A i \in 1..n : rs[i] \in E
  BY LenProperties, ElementOfSeq
<1>2. \A i \in 1..n : rs[i].id \in Pids
  BY <1>1, EntryParts
<1>3. IsFiniteSet({rs[i].id : i \in 1..n})
  <2>1. IsFiniteSet(1..n)
    BY FS_Interval
  <2>2. PICK f, T : f = [i \in 1..n |-> rs[i].id] /\ T = {rs[i].id : i \in 1..n}
    OBVIOUS
  <2>3. f \in Surjection(1..n, T)
    BY <2>2 DEF Surjection
  <2> QED BY <2>1, <2>2, <2>3, FS_Surjection
<1> QED BY <1>1, <1>2, <1>3, PidsAssumption DEF IdsOf

LEMMA EncodedParts ==
  ASSUME NEW rs \in Seq(E), NEW n, n = Cardinality(IdsOf(rs))
  PROVE  /\ n \in Nat /\ Len(U!Encoded(rs)) = n /\ DOMAIN U!Encoded(rs) = 1..n
         /\ rs # << >> => n # 0
         /\ \A i \in 1..n :
              /\ U!Encoded(rs)[i].id \in IdsOf(rs)
              /\ U!Encoded(rs)[i].entry = U!pattern_by_pid(U!Of(rs, U!Encoded(rs)[i].id))
<1>1. PICK S : S = IdsOf(rs)
  OBVIOUS
<1>2. /\ n \in Nat /\ IsFiniteSet(S) /\ S \in SUBSET Nat
      /\ \A i \in 1..n : U!Nth(S, i) \in S
  BY <1>1, IdsAre, NumbersU
<1>3. U!PidOrder(rs) = [i \in 1..n |-> U!Nth(S, i)]
  <2>1. U!Cardinality(S) = n
    BY <1>1, CountIs
  <2> QED BY <1>1, <2>1 DEF U!PidOrder, IdsOf
<1>4. PICK pids : pids = U!PidOrder(rs)
  OBVIOUS
<1>5. Len(pids) = n /\ \A i \in 1..n : pids[i] \in S
  BY <1>2, <1>3, <1>4
<1>6. U!Encoded(rs) = [i \in 1..n |-> [id |-> pids[i], entry |-> U!pattern_by_pid(U!Of(rs, pids[i]))]]
  BY <1>4, <1>5 DEF U!Encoded
<1>7. PICK es : es = U!Encoded(rs)
  OBVIOUS
<1>8. /\ Len(es) = n /\ DOMAIN es = 1..n
      /\ \A i \in 1..n : es[i].id \in S /\ es[i].entry = U!pattern_by_pid(U!Of(rs, es[i].id))
  BY <1>2, <1>5, <1>6, <1>7
<1>9. ASSUME rs # << >> PROVE n # 0
  <2>1. 1 \in 1..Len(rs)
    BY <1>9, LenProperties, EmptySeq
  <2>2. rs[1].id \in S
    BY <1>1, <2>1 DEF IdsOf
  <2> QED BY <1>1, <1>2, <2>2, FS_EmptySet
<1> QED BY <1>1, <1>2, <1>7, <1>8, <1>9

-----------------------------------------------------------------------------
(* dese_map: the units by the offsets they start at.                        *)

(* A list of units of records of rs, each with its process.                 *)
UnitOf(x, rs) == x.id \in IdsOf(rs) /\ StandsFor(x.unit, U!Of(rs, x.id))

LEMMA UnitsListed ==
  ASSUME NEW rs \in Seq(E), rs # << >>, NEW xs, xs = U!UnitsOf(U!Encoded(rs))
  PROVE  \E n \in Nat : DOMAIN xs = 1..n /\ \A i \in 1..n : UnitOf(xs[i], rs)
<1>1. PICK list : list = U!Encoded(rs)
  OBVIOUS
<1>2. PICK n \in Nat \ {0} :
        /\ Len(list) = n
        /\ \A i \in 1..n : /\ list[i].id \in IdsOf(rs)
                           /\ list[i].entry = U!pattern_by_pid(U!Of(rs, list[i].id))
  BY <1>1, EncodedParts
<1> DEFINE T == {x \in UNION {{[id |-> list[i].id, unit |-> list[i].entry[j]] :
                                 j \in DOMAIN list[i].entry} : i \in 1..n} : UnitOf(x, rs)}
<1>3. ASSUME NEW i \in 1..n
      PROVE  [j \in 1..Len(list[i].entry) |-> [id |-> list[i].id, unit |-> list[i].entry[j]]] \in Seq(T)
  <2>1. PICK id : id = list[i].id
    OBVIOUS
  <2>2. id \in IdsOf(rs)
    BY <1>2, <2>1
  <2>3. PICK r : r = U!Of(rs, id)
    OBVIOUS
  <2>4. r \in Seq(E) /\ Len(r) \in Nat \ {0}
    BY <2>2, <2>3, OfParts
  <2>5. PICK es : es = U!pattern_by_pid(r)
    OBVIOUS
  <2>6. es = list[i].entry
    BY <1>2, <2>1, <2>3, <2>5
  <2>7. PICK m \in Nat : Len(r) = m + 1
    <3>1. Len(r) - 1 \in Nat /\ Len(r) = (Len(r) - 1) + 1
      BY <2>4
    <3> QED BY <3>1
  <2>8. PICK l \in Nat : l = Len(es) /\ DOMAIN es = 1..l /\ \A j \in 1..l : StandsFor(es[j], r)
    BY <2>4, <2>5, <2>7, UnitsStand
  <2>9. ASSUME NEW j \in 1..l PROVE [id |-> id, unit |-> es[j]] \in T
    <3>1. PICK x : x = [id |-> id, unit |-> es[j]]
      OBVIOUS
    <3>2. x.id = id /\ x.unit = es[j]
      BY <3>1
    <3>3. UnitOf(x, rs)
      BY <1>2, <2>1, <2>3, <2>8, <3>2 DEF UnitOf
    <3>4. x = [id |-> list[i].id, unit |-> list[i].entry[j]] /\ j \in DOMAIN list[i].entry
      BY <2>1, <2>6, <2>8, <3>1
    <3> QED BY <3>1, <3>3, <3>4
  <2> HIDE DEF T
  <2>10. [j \in 1..l |-> [id |-> id, unit |-> es[j]]] \in Seq(T)
    BY <2>9, IsASeq
  <2> QED BY <2>1, <2>6, <2>8, <2>10
<1> HIDE DEF T
<1> DEFINE units(i) == [j \in 1..Len(list[i].entry) |-> [id |-> list[i].id, unit |-> list[i].entry[j]]]
<1>4. PICK ss : ss = [i \in 1..Len(list) |-> units(i)]
  OBVIOUS
<1>5. Len(ss) = n /\ \A i \in 1..n : ss[i] \in Seq(T)
  <2>1. \A i \in 1..n : units(i) \in Seq(T)
    BY <1>3
  <2> HIDE DEF units
  <2> QED BY <1>2, <1>4, <2>1
<1>6. xs = U!FlattenSeq(ss)
  BY <1>1, <1>4 DEF U!UnitsOf
<1>7. xs \in Seq(T)
  BY <1>5, <1>6, FlatOf
<1>8. PICK l \in Nat : l = Len(xs) /\ DOMAIN xs = 1..l
  BY <1>7, LenProperties
<1>9. \A i \in 1..l : xs[i] \in T
  BY <1>7, <1>8, ElementOfSeq
<1>10. \A x \in T : UnitOf(x, rs)
  BY DEF T
<1> QED BY <1>8, <1>9, <1>10

(* A reader's units: each at its start, and of records of its process.      *)
MapOf(m, rs) ==
  /\ IsFiniteSet(DOMAIN m) /\ DOMAIN m \in SUBSET Nat
  /\ \A o \in DOMAIN m : U!StartOf(m[o]) = o /\ UnitOf(m[o], rs)

LEMMA StartsAre ==
  ASSUME NEW rs \in Seq(E), NEW x, UnitOf(x, rs)
  PROVE  U!StartOf(x) \in Nat /\ x.id \in Pids
<1>1. PICK w : IsUnit(x.unit, w)
  BY DEF UnitOf, StandsFor
<1>2. PICK n \in Nat \ {0} : w[1] \in E /\ x.unit.off.init = w[1].log
  <2>1. PICK n \in Nat \ {0} : /\ \A i \in 1..(n + 1) : w[i] \in E
                               /\ x.unit.off.init = w[1].log
    BY <1>1, UnitParts
  <2>2. 1 \in 1..(n + 1)
    OBVIOUS
  <2> QED BY <2>1, <2>2
<1>3. w[1].log \in Nat
  BY <1>2, EntryParts
<1> QED BY <1>2, <1>3, IdsAre DEF UnitOf, U!StartOf

LEMMA InsertedIs ==
  ASSUME NEW xs, NEW n \in Nat, DOMAIN xs = 1..n, NEW k \in 1..n, NEW o, o = U!StartOf(xs[k])
  PROVE  U!Inserted(xs, o) \in 1..n /\ U!StartOf(xs[U!Inserted(xs, o)]) = o
<1> DEFINE S == {i \in 1..n : U!StartOf(xs[i]) = o}
<1>1. PICK i \in S : \A j \in S : i <= j
  <2>1. S \in SUBSET Nat /\ S # {}
    OBVIOUS
  <2> HIDE DEF S
  <2> QED BY <2>1, LeastNatural
<1>2. i \in DOMAIN xs /\ U!StartOf(xs[i]) = o
  BY <1>1
<1>3. ASSUME NEW j \in 1..(i - 1) PROVE U!StartOf(xs[j]) # o
  <2>1. j \in 1..n /\ ~(i <= j)
    BY <1>1
  <2>2. j \notin S
    <3> HIDE DEF S
    <3> QED BY <1>1, <2>1
  <2> QED BY <2>1, <2>2
<1>4. U!Inserted(xs, o) \in DOMAIN xs /\ U!StartOf(xs[U!Inserted(xs, o)]) = o
  <2> HIDE DEF S
  <2> QED BY <1>2, <1>3 DEF U!Inserted
<1> QED BY <1>4

LEMMA MapIs ==
  ASSUME NEW rs \in Seq(E), rs # << >>
  PROVE  MapOf(U!Pattern_DeSe(U!Encoded(rs)), rs)
<1>1. PICK xs : xs = U!UnitsOf(U!Encoded(rs))
  OBVIOUS
<1>2. PICK n \in Nat : DOMAIN xs = 1..n /\ \A i \in 1..n : UnitOf(xs[i], rs)
  BY <1>1, UnitsListed
<1>3. PICK S : S = {U!StartOf(xs[i]) : i \in 1..n}
  OBVIOUS
<1>4. PICK m : m = U!Pattern_DeSe(U!Encoded(rs))
  OBVIOUS
<1>5. m = [o \in S |-> xs[U!Inserted(xs, o)]]
  BY <1>1, <1>2, <1>3, <1>4 DEF U!Pattern_DeSe
<1>6. S \in SUBSET Nat
  BY <1>2, <1>3, StartsAre
<1>7. IsFiniteSet(S)
  <2>1. IsFiniteSet(1..n)
    BY FS_Interval
  <2>2. PICK f : f = [i \in 1..n |-> U!StartOf(xs[i])]
    OBVIOUS
  <2>3. f \in Surjection(1..n, S)
    BY <1>3, <2>2 DEF Surjection
  <2> QED BY <2>1, <2>3, FS_Surjection
<1>8. ASSUME NEW o \in S PROVE U!StartOf(m[o]) = o /\ UnitOf(m[o], rs)
  <2>1. PICK k \in 1..n : o = U!StartOf(xs[k])
    BY <1>3
  <2>2. U!Inserted(xs, o) \in 1..n /\ U!StartOf(xs[U!Inserted(xs, o)]) = o
    BY <1>2, <2>1, InsertedIs
  <2>3. m[o] = xs[U!Inserted(xs, o)]
    BY <1>5
  <2> QED BY <1>2, <2>2, <2>3
<1>9. DOMAIN m = S
  BY <1>5
<1> QED BY <1>4, <1>6, <1>7, <1>8, <1>9 DEF MapOf

LEMMA EmptyMap == DOMAIN U!Pattern_DeSe(<< >>) = {}
<1>1. PICK none : none = << >>
  OBVIOUS
<1>2. Len(none) = 0 /\ DOMAIN none = {}
  BY <1>1
<1>3. PICK ss : ss = [i \in 1..Len(none) |->
        [j \in 1..Len(none[i].entry) |-> [id |-> none[i].id, unit |-> none[i].entry[j]]]]
  OBVIOUS
<1>4. Len(ss) = 0 /\ DOMAIN ss = {}
  BY <1>2, <1>3
<1>5. U!UnitsOf(none) = ss
  <2>1. U!UnitsOf(none) = U!FlattenSeq(ss)
    BY <1>3 DEF U!UnitsOf
  <2>2. U!FlattenSeq(ss) = ss
    BY <1>4 DEF U!FlattenSeq
  <2> QED BY <2>1, <2>2
<1>6. PICK m : m = U!Pattern_DeSe(none)
  OBVIOUS
<1>7. m = [o \in {U!StartOf(ss[i]) : i \in DOMAIN ss} |-> ss[U!Inserted(ss, o)]]
  BY <1>5, <1>6 DEF U!Pattern_DeSe
<1>8. {U!StartOf(ss[i]) : i \in DOMAIN ss} = {}
  BY <1>4
<1> QED BY <1>1, <1>6, <1>7, <1>8

(* The unit a lookup asks.                                                  *)
LEMMA AskedIs ==
  ASSUME NEW m, IsFiniteSet(DOMAIN m), DOMAIN m \in SUBSET Nat, NEW q \in Int,
         NEW x \in DOMAIN m, x <= q
  PROVE  /\ U!Asked(m, q) \in DOMAIN m /\ U!Asked(m, q) <= q
         /\ \A p \in DOMAIN m : p <= q => p <= U!Asked(m, q)
<1>1. PICK b \in Nat : b = q
  OBVIOUS
<1> DEFINE S == {d \in Nat : \E o \in DOMAIN m : o <= q /\ o + d = b}
<1>2. PICK d \in S : \A e \in S : d <= e
  <2>1. b - x \in Nat /\ x + (b - x) = b
    BY <1>1
  <2>2. S \in SUBSET Nat /\ b - x \in S
    BY <2>1
  <2> HIDE DEF S
  <2> QED BY <2>2, LeastNatural
<1>3. PICK o \in DOMAIN m : o <= q /\ o + d = b
  BY <1>2
<1>4. ASSUME NEW p \in DOMAIN m, p <= q PROVE p <= o
  <2>1. b - p \in Nat /\ p + (b - p) = b
    BY <1>1, <1>4
  <2>2. b - p \in S
    BY <1>4, <2>1
  <2>3. d <= b - p
    <3> HIDE DEF S
    <3> QED BY <1>2, <2>2
  <2>4. d \in Nat /\ p \in Nat /\ o \in Nat
    BY <1>2
  <2> QED BY <1>3, <2>3, <2>4
<1> HIDE DEF S
<1> QED BY <1>3, <1>4 DEF U!Asked

-----------------------------------------------------------------------------
(* The life of a dropping.                                                  *)

(* hostIndex between two operations: its records are in the slots before    *)
(* the next, and those of a process follow each other in its data dropping, *)
(* of which the next byte is at physical_offsets.                           *)
Rising(h, n) ==
  \A j, k \in 1..n : j < k /\ h[j].id = h[k].id => h[j].phy < h[k].phy

HostInv(h, po, slot) ==
  /\ slot \in Nat \ {0} /\ h \in [1..(slot - 1) -> E]
  /\ po \in [Pids -> Nat]
  /\ \A k \in 1..(slot - 1) : h[k].phy < po[h[k].id]
  /\ Rising(h, slot - 1)

LEMMA GrownKept ==
  ASSUME NEW h, NEW po, NEW slot, HostInv(h, po, slot), NEW k \in 1..(slot - 1), NEW n \in Nat
  PROVE  HostInv(H!Grown(h, k, n), po, slot)
<1>1. PICK g : g = H!Grown(h, k, n)
  OBVIOUS
<1>2. slot \in Nat \ {0} /\ h \in [1..(slot - 1) -> E] /\ po \in [Pids -> Nat]
  BY DEF HostInv
<1>3. g = [h EXCEPT ![k] = [h[k] EXCEPT !.len = h[k].len + n]]
  BY <1>1 DEF H!Grown, H!Longer
<1>4. ASSUME NEW j \in 1..(slot - 1) PROVE g[j] \in E /\ g[j].id = h[j].id /\ g[j].phy = h[j].phy
  <2>1. h[j] \in E
    BY <1>2
  <2>2. CASE j = k
    <3>1. g[j] = [h[j] EXCEPT !.len = h[j].len + n]
      BY <1>2, <1>3, <2>2
    <3> QED BY <2>1, <3>1 DEF E, H!Entry
  <2>3. CASE j # k
    BY <1>2, <1>3, <2>1, <2>3
  <2> QED BY <2>2, <2>3
<1>5. g \in [1..(slot - 1) -> E]
  <2>1. DOMAIN g = 1..(slot - 1) /\ g = [j \in 1..(slot - 1) |-> g[j]]
    BY <1>2, <1>3
  <2> QED BY <1>4, <2>1
<1>6. \A j \in 1..(slot - 1) : g[j].phy < po[g[j].id]
  BY <1>4 DEF HostInv
<1>7. Rising(g, slot - 1)
  BY <1>4 DEF HostInv, Rising
<1> QED BY <1>1, <1>2, <1>5, <1>6, <1>7 DEF HostInv

LEMMA WritePushed ==
  ASSUME NEW h, NEW po, NEW slot, HostInv(h, po, slot), NEW p \in Pids, NEW off \in Nat,
         NEW n \in Nat \ {0}
  PROVE  HostInv(H!Pushed(h, slot, [id |-> p, log |-> off, len |-> n, phy |-> po[p]]),
                 [po EXCEPT ![p] = @ + n], slot + 1)
<1>1. slot \in Nat \ {0} /\ h \in [1..(slot - 1) -> E] /\ po \in [Pids -> Nat] /\ po[p] \in Nat
  BY DEF HostInv
<1>2. PICK e \in E : /\ e = [id |-> p, log |-> off, len |-> n, phy |-> po[p]]
                     /\ e.id = p /\ e.phy = po[p]
  <2>1. [id |-> p, log |-> off, len |-> n, phy |-> po[p]] \in E
    BY <1>1 DEF E, H!Entry
  <2> QED BY <2>1
<1>3. PICK g, qo : g = H!Pushed(h, slot, e) /\ qo = [po EXCEPT ![p] = @ + n]
  OBVIOUS
<1>4. PICK s \in Nat \ {0} : s = slot + 1 /\ s - 1 = slot /\ 1..(s - 1) = (1..(slot - 1)) \cup {slot}
  BY <1>1
<1>5. g = [k \in 1..(s - 1) |-> IF k = slot THEN e ELSE h[k]]
  <2>1. DOMAIN h = 1..(slot - 1)
    BY <1>1
  <2> QED BY <1>3, <1>4, <2>1 DEF H!Pushed
<1>6. qo \in [Pids -> Nat] /\ qo[p] = po[p] + n /\ \A q \in Pids : po[q] <= qo[q]
  BY <1>1, <1>3
<1>7. /\ g[slot] = e
      /\ \A k \in 1..(slot - 1) : g[k] = h[k] /\ h[k] \in E /\ h[k].id \in Pids /\ h[k].phy \in Nat
  <2>1. \A k \in 1..(slot - 1) : k # slot /\ k \in 1..(s - 1)
    BY <1>1, <1>4
  <2>2. slot \in 1..(s - 1)
    BY <1>4
  <2> QED BY <1>1, <1>5, <2>1, <2>2, EntryParts
<1>8. g \in [1..(s - 1) -> E]
  BY <1>1, <1>4, <1>5
<1>9. ASSUME NEW k \in 1..(s - 1) PROVE g[k].phy < qo[g[k].id]
  <2>1. CASE k = slot
    BY <1>1, <1>2, <1>6, <1>7, <2>1
  <2>2. CASE k # slot
    <3>1. k \in 1..(slot - 1)
      BY <1>4, <2>2
    <3>2. h[k].phy < po[h[k].id]
      BY <3>1 DEF HostInv
    <3>3. po[h[k].id] \in Nat /\ qo[h[k].id] \in Nat /\ po[h[k].id] <= qo[h[k].id]
      BY <1>1, <1>6, <1>7, <3>1
    <3> QED BY <1>7, <3>1, <3>2, <3>3
  <2> QED BY <2>1, <2>2
<1>10. ASSUME NEW j \in 1..(s - 1), NEW k \in 1..(s - 1), j < k, g[j].id = g[k].id
       PROVE  g[j].phy < g[k].phy
  <2>1. j \in 1..(slot - 1)
    BY <1>1, <1>4, <1>10
  <2>2. CASE k = slot
    <3>1. g[k].phy = po[p] /\ g[k].id = p /\ h[j].id = p
      BY <1>2, <1>7, <1>10, <2>1, <2>2
    <3>2. h[j].phy < po[h[j].id]
      BY <2>1 DEF HostInv
    <3> QED BY <1>7, <2>1, <3>1, <3>2
  <2>3. CASE k # slot
    <3>1. k \in 1..(slot - 1)
      BY <1>4, <2>3
    <3>2. h[j].id = h[k].id
      BY <1>7, <1>10, <2>1, <3>1
    <3>3. h[j].phy < h[k].phy
      BY <1>10, <2>1, <3>1, <3>2 DEF HostInv, Rising
    <3> QED BY <1>7, <2>1, <3>1, <3>3
  <2> QED BY <2>2, <2>3
<1>11. Rising(g, s - 1)
  BY <1>10 DEF Rising
<1>12. HostInv(g, qo, s)
  BY <1>6, <1>8, <1>9, <1>11 DEF HostInv
<1> QED BY <1>2, <1>3, <1>4, <1>12

LEMMA AddWriteKept ==
  ASSUME NEW h, NEW po, NEW slot, HostInv(h, po, slot), NEW p \in Pids, NEW off \in Nat,
         NEW n \in Nat \ {0}
  PROVE  HostInv(H!IndexAfter(h, po, slot, off, n, p), H!OffsetsAfter(h, po, off, n, p),
                 H!SlotAfter(h, slot, off, p))
<1>1. CASE H!Continued(h, off, p)
  <2>1. PICK k : k = CHOOSE j \in DOMAIN h : H!Continues(h, j, off, p)
    OBVIOUS
  <2>2. k \in DOMAIN h
    BY <1>1, <2>1 DEF H!Continued
  <2>3. k \in 1..(slot - 1)
    BY <2>2 DEF HostInv
  <2>4. HostInv(H!Grown(h, k, n), po, slot)
    BY <2>3, GrownKept
  <2> QED BY <1>1, <2>1, <2>4 DEF H!IndexAfter, H!OffsetsAfter, H!SlotAfter
<1>2. CASE ~H!Continued(h, off, p)
  <2>1. HostInv(H!Pushed(h, slot, [id |-> p, log |-> off, len |-> n, phy |-> po[p]]),
                [po EXCEPT ![p] = @ + n], slot + 1)
    BY WritePushed
  <2> QED BY <1>2, <2>1 DEF H!IndexAfter, H!OffsetsAfter, H!SlotAfter
<1> QED BY <1>1, <1>2

(* The invariant of a dropping's life: every list in it encodes the records *)
(* of one flush, and an open reader's units are those of the only list.     *)
Writes == [id : Pids, off : Nat, len : Nat \ {0}]

Patterns == {U!Encoded(rs) : rs \in Seq(E)}

OneFlush(list, rs) ==
  rs # << >> /\ list = U!Encoded(rs) /\ Rising(rs, Len(rs)) /\ Len(rs) < IntLimit

LookupInv ==
  /\ HostInv(hostIndex, physical_offsets, next_slot)
  /\ script \in Seq(Writes) /\ Len(script) + next_slot <= IntLimit
  /\ dropping \in Seq(Patterns) /\ flushed \in Seq(Seq(E))
  /\ Len(dropping) = Len(flushed) /\ Len(flushed) <= MaxFlushes
  /\ \A n \in 1..Len(flushed) : OneFlush(dropping[n], flushed[n])
  /\ reader \in {"none", "open", "died"}
  /\ reader = "open" =>
       /\ Len(dropping) <= 1
       /\ dese_map = U!Pattern_DeSe(IF dropping = << >> THEN << >> ELSE dropping[1])
  /\ reader # "open" => DOMAIN dese_map = {}

LEMMA BufferedIs ==
  ASSUME LookupInv
  PROVE  /\ Buffered \in Seq(E) /\ Rising(Buffered, Len(Buffered)) /\ Len(Buffered) < IntLimit
         /\ DOMAIN hostIndex # {} => Buffered # << >>
<1>1. PICK n \in Nat : n = next_slot - 1 /\ hostIndex \in [1..n -> E] /\ Rising(hostIndex, n)
  BY DEF LookupInv, HostInv
<1>2. Cardinality(DOMAIN hostIndex) = n
  <2>1. DOMAIN hostIndex = 1..n
    BY <1>1
  <2> QED BY <1>1, <2>1, FS_Interval
<1>3. Buffered = [i \in 1..n |-> hostIndex[i]]
  BY <1>2 DEF Buffered
<1>4. Buffered \in Seq(E)
  BY <1>1, <1>3, IsASeq
<1>5. PICK b : b = Buffered
  OBVIOUS
<1>6. Len(b) = n /\ \A i \in 1..n : b[i] = hostIndex[i]
  BY <1>1, <1>3, <1>5
<1>7. Rising(b, Len(b))
  BY <1>1, <1>6 DEF Rising
<1>8. ASSUME DOMAIN hostIndex # {} PROVE b # << >>
  <2>1. n # 0
    BY <1>1, <1>8
  <2> QED BY <1>6, <2>1
<1>9. n < IntLimit
  <2>1. Len(script) + next_slot <= IntLimit /\ Len(script) \in Nat
    BY LenProperties DEF LookupInv
  <2>2. next_slot \in Nat
    BY DEF LookupInv, HostInv
  <2> QED BY <1>1, <2>1, <2>2, IntLimitAssumption
<1> QED BY <1>4, <1>5, <1>6, <1>7, <1>8, <1>9

LEMMA LookupInvStarts == LookupInit => LookupInv
<1> SUFFICES ASSUME LookupInit PROVE LookupInv
  OBVIOUS
<1>1. HostInv(hostIndex, physical_offsets, next_slot)
  <2>1. hostIndex = [k \in {} |-> 0] /\ next_slot = 1 /\ physical_offsets = [p \in Pids |-> 0]
    BY DEF LookupInit, H!NoEntries
  <2>2. 1..(next_slot - 1) = {} /\ next_slot \in Nat \ {0}
    BY <2>1
  <2>3. hostIndex \in [1..(next_slot - 1) -> E]
    BY <2>1, <2>2
  <2>4. physical_offsets \in [Pids -> Nat]
    BY <2>1
  <2> QED BY <2>2, <2>3, <2>4 DEF HostInv, Rising
<1>2. script \in Seq(Writes) /\ Len(script) + next_slot <= IntLimit
  <2>1. script \in Seq(Writes) /\ Len(script) < IntLimit /\ next_slot = 1
    BY ScriptsAssumption DEF LookupInit, Writes
  <2>2. Len(script) \in Nat
    BY <2>1, LenProperties
  <2> QED BY <2>1, <2>2, IntLimitAssumption
<1>3. dropping = << >> /\ flushed = << >> /\ reader = "none" /\ DOMAIN dese_map = {}
  BY DEF LookupInit, U!NoUnits
<1>4. Len(flushed) = 0 /\ Len(dropping) = 0 /\ 0 <= MaxFlushes /\ 1..0 = {}
  BY <1>3, FlushesAssumption
<1>5. dropping \in Seq(Patterns) /\ flushed \in Seq(Seq(E))
  BY <1>3
<1> QED BY <1>1, <1>2, <1>3, <1>4, <1>5 DEF LookupInv

LEMMA WriteKeeps == LookupInv /\ Write => LookupInv'
<1> SUFFICES ASSUME LookupInv, Write PROVE LookupInv'
  OBVIOUS
<1>1. PICK w : w = Head(script)
  OBVIOUS
<1>2. script \in Seq(Writes) /\ script # << >>
  BY DEF LookupInv, Write
<1>3. w \in Writes /\ Tail(script) \in Seq(Writes)
  BY <1>1, <1>2, HeadTailProperties
<1>4. w.id \in Pids /\ w.off \in Nat /\ w.len \in Nat \ {0}
  BY <1>3 DEF Writes
<1>5. HostInv(H!IndexAfter(hostIndex, physical_offsets, next_slot, w.off, w.len, w.id),
              H!OffsetsAfter(hostIndex, physical_offsets, w.off, w.len, w.id),
              H!SlotAfter(hostIndex, next_slot, w.off, w.id))
  BY <1>4, AddWriteKept DEF LookupInv
<1>6. /\ hostIndex' = H!IndexAfter(hostIndex, physical_offsets, next_slot, w.off, w.len, w.id)
      /\ physical_offsets' = H!OffsetsAfter(hostIndex, physical_offsets, w.off, w.len, w.id)
      /\ next_slot' = H!SlotAfter(hostIndex, next_slot, w.off, w.id)
      /\ script' = Tail(script)
      /\ UNCHANGED <<dropping, flushed, dese_map, reader>>
  BY <1>1 DEF Write
<1>7. HostInv(hostIndex', physical_offsets', next_slot')
  BY <1>5, <1>6
<1>8. script' \in Seq(Writes) /\ Len(script') + next_slot' <= IntLimit
  <2>1. Len(Tail(script)) = Len(script) - 1 /\ Len(script) \in Nat
    BY <1>2, HeadTailProperties, LenProperties
  <2>2. next_slot' = next_slot \/ next_slot' = next_slot + 1
    BY <1>6 DEF H!SlotAfter
  <2>3. Len(script) + next_slot <= IntLimit /\ next_slot \in Nat
    BY DEF LookupInv, HostInv
  <2>4. Len(Tail(script)) + next_slot' <= IntLimit
    BY <2>1, <2>2, <2>3, IntLimitAssumption
  <2> QED BY <1>3, <1>6, <2>4
<1> QED BY <1>6, <1>7, <1>8 DEF LookupInv

LEMMA FlushKeeps == LookupInv /\ Flush => LookupInv'
<1> SUFFICES ASSUME LookupInv, Flush PROVE LookupInv'
  OBVIOUS
<1>1. PICK b \in Seq(E) : b = Buffered /\ Rising(b, Len(b)) /\ b # << >> /\ Len(b) < IntLimit
  BY BufferedIs DEF Flush
<1>2. PICK e \in Patterns : e = U!Encoded(b)
  BY DEF Patterns
<1>3. PICK k \in Nat : k = Len(flushed) /\ k = Len(dropping)
  <2>1. flushed \in Seq(Seq(E)) /\ Len(dropping) = Len(flushed)
    BY DEF LookupInv
  <2> QED BY <2>1, LenProperties
<1>4. /\ dropping' = Append(dropping, e) /\ flushed' = Append(flushed, b)
      /\ hostIndex' = H!NoEntries /\ next_slot' = 1
      /\ UNCHANGED <<script, physical_offsets, dese_map, reader>>
      /\ reader = "none" /\ Len(dropping) < MaxFlushes
  BY <1>1, <1>2 DEF Flush
<1>5. HostInv(hostIndex', physical_offsets', next_slot')
  <2>1. hostIndex' = [i \in {} |-> 0]
    BY <1>4 DEF H!NoEntries
  <2>2. 1..(next_slot' - 1) = {} /\ next_slot' \in Nat \ {0}
    BY <1>4
  <2>3. hostIndex' \in [1..(next_slot' - 1) -> E]
    BY <2>1, <2>2
  <2>4. physical_offsets' \in [Pids -> Nat]
    BY <1>4 DEF LookupInv, HostInv
  <2> QED BY <2>2, <2>3, <2>4 DEF HostInv, Rising
<1>6. /\ dropping' \in Seq(Patterns) /\ Len(dropping') = k + 1 /\ dropping'[k + 1] = e
      /\ \A n \in 1..k : dropping'[n] = dropping[n]
  <2>1. dropping \in Seq(Patterns)
    BY DEF LookupInv
  <2> QED BY <1>3, <1>4, <2>1, AppendProperties
<1>7. /\ flushed' \in Seq(Seq(E)) /\ Len(flushed') = k + 1 /\ flushed'[k + 1] = b
      /\ \A n \in 1..k : flushed'[n] = flushed[n]
  <2>1. PICK T : T = Seq(E)
    OBVIOUS
  <2>2. flushed \in Seq(T) /\ b \in T
    BY <1>1, <2>1 DEF LookupInv
  <2>3. PICK f, g : f = flushed /\ g = Append(f, b)
    OBVIOUS
  <2>4. f \in Seq(T) /\ b \in T /\ Len(f) = k
    BY <1>3, <2>2, <2>3
  <2>5. /\ g \in Seq(T) /\ Len(g) = k + 1 /\ g[k + 1] = b
        /\ \A n \in 1..k : g[n] = f[n]
    BY <2>3, <2>4, AppendProperties
  <2>6. flushed' = g
    BY <1>4, <2>3
  <2> QED BY <2>1, <2>3, <2>5, <2>6
<1>11. PICK ds, fs : ds = dropping' /\ fs = flushed'
  OBVIOUS
<1>8. ASSUME NEW n \in 1..(k + 1) PROVE OneFlush(ds[n], fs[n])
  <2>1. CASE n = k + 1
    BY <1>1, <1>2, <1>6, <1>7, <1>11, <2>1 DEF OneFlush
  <2>2. CASE n # k + 1
    <3>1. n \in 1..k
      BY <2>2
    <3> QED BY <1>3, <1>6, <1>7, <1>11, <3>1 DEF LookupInv
  <2> QED BY <2>1, <2>2
<1>9. k + 1 <= MaxFlushes
  BY <1>3, <1>4, FlushesAssumption
<1>10. /\ script' \in Seq(Writes) /\ Len(script') + next_slot' <= IntLimit
       /\ reader' = "none" /\ DOMAIN dese_map' = {}
  <2>1. Len(script) + next_slot <= IntLimit /\ next_slot \in Nat \ {0} /\ Len(script) \in Nat
    BY LenProperties DEF LookupInv, HostInv
  <2>2. Len(script) + 1 <= IntLimit
    BY <2>1, IntLimitAssumption
  <2> QED BY <1>4, <2>2 DEF LookupInv
<1>12. \A n \in 1..Len(flushed') : OneFlush(dropping[n], flushed[n])'
  BY <1>7, <1>8, <1>11 DEF OneFlush
<1> QED BY <1>5, <1>6, <1>7, <1>9, <1>10, <1>12 DEF LookupInv

LEMMA ReadKeeps == LookupInv /\ Read => LookupInv'
<1> SUFFICES ASSUME LookupInv, Read PROVE LookupInv'
  OBVIOUS
<1>1. UNCHANGED <<script, hostIndex, next_slot, physical_offsets, dropping, flushed>>
  BY DEF Read
<1>2. \/ /\ reader' = "open" /\ Len(dropping) <= 1
         /\ dese_map' = U!Pattern_DeSe(IF dropping = << >> THEN << >> ELSE dropping[1])
      \/ reader' = "died" /\ DOMAIN dese_map' = {}
  BY DEF Read, LookupInv
<1> QED BY <1>1, <1>2 DEF LookupInv

(* The invariant holds: of Index::addWrite, Index::flush and               *)
(* Index::readIndex, only flush moves records to the dropping, and it moves *)
(* all of them.                                                            *)
THEOREM LookupInvHolds == LookupSpec => []LookupInv
<1>1. LookupInit => LookupInv
  BY LookupInvStarts
<1>2. LookupInv /\ [LookupNext]_lookupVars => LookupInv'
  <2> SUFFICES ASSUME LookupInv, [LookupNext]_lookupVars PROVE LookupInv'
    OBVIOUS
  <2>1. CASE Write
    BY <2>1, WriteKeeps
  <2>2. CASE Flush
    BY <2>2, FlushKeeps
  <2>3. CASE Read
    BY <2>3, ReadKeeps
  <2>4. CASE UNCHANGED lookupVars
    BY <2>4 DEF LookupInv, lookupVars
  <2> QED BY <2>1, <2>2, <2>3, <2>4 DEF LookupNext
<1> QED BY <1>1, <1>2, PTL DEF LookupSpec

-----------------------------------------------------------------------------
(* The answers of globalLookup are records.                                 *)

(* An open reader has the units of the records of the only flush, if any.   *)
LEMMA ReaderHas ==
  ASSUME LookupInv, reader = "open", DOMAIN dese_map # {}
  PROVE  \E rs \in Seq(E) :
           /\ MapOf(dese_map, rs) /\ Len(flushed) = 1 /\ flushed[1] = rs
           /\ dropping[1] = U!Encoded(rs) /\ rs # << >> /\ Rising(rs, Len(rs))
           /\ \A k \in 1..Len(rs) : rs[k] \in Records
           /\ Len(rs) < IntLimit
<1>1. /\ Len(dropping) <= 1
      /\ dese_map = U!Pattern_DeSe(IF dropping = << >> THEN << >> ELSE dropping[1])
  BY DEF LookupInv
<1>2. dropping # << >>
  BY <1>1, EmptyMap
<1>3. Len(dropping) = 1 /\ Len(flushed) = 1
  <2>1. dropping \in Seq(Patterns) /\ Len(dropping) = Len(flushed)
    BY DEF LookupInv
  <2>2. Len(dropping) \in Nat /\ Len(dropping) # 0
    BY <1>2, <2>1, LenProperties, EmptySeq
  <2> QED BY <1>1, <2>1, <2>2
<1>4. PICK rs \in Seq(E) : rs = flushed[1] /\ 1 \in DOMAIN flushed
  <2>1. flushed \in Seq(Seq(E)) /\ 1 \in 1..Len(flushed)
    BY <1>3 DEF LookupInv
  <2>2. PICK T : T = Seq(E)
    OBVIOUS
  <2>3. flushed \in Seq(T)
    BY <2>1, <2>2
  <2>4. flushed[1] \in T /\ DOMAIN flushed = 1..Len(flushed)
    BY <2>1, <2>3, ElementOfSeq, LenProperties
  <2> QED BY <2>1, <2>2, <2>4
<1>5. rs # << >> /\ dropping[1] = U!Encoded(rs) /\ Rising(rs, Len(rs)) /\ Len(rs) < IntLimit
  <2>1. OneFlush(dropping[1], flushed[1])
    <3>1. 1 \in 1..Len(flushed)
      BY <1>3
    <3> QED BY <3>1 DEF LookupInv
  <2> QED BY <1>4, <2>1 DEF OneFlush
<1>6. MapOf(dese_map, rs)
  <2>1. dese_map = U!Pattern_DeSe(U!Encoded(rs))
    BY <1>1, <1>2, <1>5
  <2>2. PICK m : m = U!Pattern_DeSe(U!Encoded(rs))
    OBVIOUS
  <2>3. MapOf(m, rs)
    BY <1>5, <2>2, MapIs
  <2> QED BY <2>1, <2>2, <2>3
<1>7. ASSUME NEW k \in 1..Len(rs) PROVE rs[k] \in Records
  <2>1. k \in DOMAIN flushed[1] /\ flushed[1][k] = rs[k]
    BY <1>4, LenProperties
  <2> QED BY <1>4, <2>1 DEF Records
<1> QED BY <1>3, <1>4, <1>5, <1>6, <1>7

AmongOf(w, rs, id) == \A i \in 1..Len(w) : \E j \in 1..Len(rs) : w[i] = rs[j] /\ rs[j].id = id

(* The records a unit stands for are records of its process.                *)
LEMMA UnitRecords ==
  ASSUME NEW rs \in Seq(E), NEW id \in IdsOf(rs), NEW u, StandsFor(u, U!Of(rs, id))
  PROVE  \E w : IsUnit(u, w) /\ AmongOf(w, rs, id) /\ Len(w) <= Len(rs) + 1
<1>2. \A i \in 1..Len(U!Of(rs, id)) : \E j \in 1..Len(rs) : U!Of(rs, id)[i] = rs[j] /\ rs[j].id = id
  <2>1. /\ U!Of(rs, id) \in Seq(E)
        /\ Len(U!Of(rs, id)) \in Nat \ {0}
        /\ \A i \in 1..Len(U!Of(rs, id)) :
             \E j \in 1..Len(rs) : U!Of(rs, id)[i] = rs[j] /\ rs[j].id = id
    BY OfParts
  <2> QED BY <2>1
<1>3. PICK w : /\ IsUnit(u, w) /\ Len(w) <= Len(U!Of(rs, id)) + 1
               /\ \A i \in 1..Len(w) : \E k \in 1..Len(U!Of(rs, id)) : w[i] = U!Of(rs, id)[k]
  BY DEF StandsFor
<1>5. Len(w) <= Len(rs) + 1
  <2>1. Len(U!Of(rs, id)) \in Nat /\ Len(U!Of(rs, id)) <= Len(rs)
    BY OfParts
  <2>2. Len(w) \in Nat /\ Len(rs) \in Nat
    BY <1>3, LenProperties DEF IsUnit
  <2> QED BY <1>3, <2>1, <2>2
<1>4. ASSUME NEW i \in 1..Len(w) PROVE \E j \in 1..Len(rs) : w[i] = rs[j] /\ rs[j].id = id
  <2>1. PICK l \in 1..Len(U!Of(rs, id)) : w[i] = U!Of(rs, id)[l]
    BY <1>3
  <2> QED BY <1>2, <2>1
<1> QED BY <1>3, <1>4, <1>5 DEF AmongOf

(* A unit that is read right answers, in the range of its positions, with   *)
(* what two of its records say.                                             *)
LEMMA LookUpIs ==
  ASSUME NEW u, NEW w, IsUnit(u, w), Len(w) <= IntLimit, NEW q \in Int, ~U!Misread(u),
         InRange(u, q), NEW a \in U!look_up(u, q)
  PROVE  \/ a = U!Missing
         \/ \E i, k \in 1..Len(w) :
              w[i].log <= q /\ a = U!Answer(q, w[i].log, w[i].phy, w[k].len)
<1>1. PICK n \in Nat \ {0} : Len(w) = n + 1
  BY UnitParts
<1>2. a = U!UnitAnswer(U!Narrowed(u), q)
  BY DEF U!look_up, U!get_ibuf_unit
<1>3. CASE U!Narrow(u)
  <2>2. \/ U!UnitAnswer(U!Narrowed(u), q) = U!Missing
        \/ /\ w[1].log <= q
           /\ U!UnitAnswer(U!Narrowed(u), q) = U!Answer(q, w[1].log, w[1].phy, w[1].len)
    BY <1>3, NarrowedFinds
  <2>3. 1 \in 1..Len(w)
    BY <1>1
  <2> QED BY <1>2, <2>2, <2>3
<1>4. CASE ~U!Narrow(u)
  <2>1. U!Narrowed(u) = u
    BY <1>4 DEF U!Narrowed
  <2>3. n < IntLimit
    BY <1>1, IntLimitAssumption
  <2>2. \/ U!UnitAnswer(u, q) = U!Missing
        \/ \E i, k \in 1..(n + 1) : Finds(w, n, i, k, q, U!UnitAnswer(u, q))
    BY <1>1, <2>3, UnitFinds
  <2> QED BY <1>1, <1>2, <2>1, <2>2 DEF Finds
<1> QED BY <1>3, <1>4

LEMMA AnswerIs ==
  ASSUME NEW q, NEW l, NEW p, NEW n, NEW a, a = U!Answer(q, l, p, n), a.exist
  PROVE  q - l < n /\ a.log = l /\ a.phy = p /\ a.len = n /\ ~a.died
BY DEF U!Answer, U!Missing

LEMMA NothingFound == ~U!Missing.exist /\ ~U!Died.exist
BY DEF U!Missing, U!Died

LEMMA LookupAsks ==
  ASSUME NEW m, IsFiniteSet(DOMAIN m), DOMAIN m \in SUBSET Nat, NEW q \in Int,
         NEW a \in U!dese_map_look_up(m, q), a.exist
  PROVE  /\ DOMAIN m # {} /\ U!Asked(m, q) \in DOMAIN m
         /\ a \in U!look_up(m[U!Asked(m, q)].unit, q)
<1>1. DOMAIN m # {}
  BY NothingFound DEF U!dese_map_look_up
<1>2. PICK o \in DOMAIN m : ~(o > q)
  BY <1>1, NothingFound DEF U!dese_map_look_up
<1>3. a \in U!look_up(m[U!Asked(m, q)].unit, q)
  BY <1>1, <1>2 DEF U!dese_map_look_up
<1>4. o <= q
  BY <1>2
<1> QED BY <1>1, <1>3, <1>4, AskedIs

(* What a finds of record r in the unit x of a reader.                      *)
FoundAs(r, x, q, a) ==
  /\ r.id = x.id /\ r.log = a.log
  /\ ~U!Misread(x.unit) /\ InRange(x.unit, q) =>
       /\ r.phy = a.phy
       /\ EqualLengths(r.id) => r.len = a.len /\ r.log <= q /\ q < r.log + r.len

LEMMA LookupInvAnswers == LookupInv => AnswersAreRecords
<1> SUFFICES ASSUME LookupInv, reader = "open", NEW q \in Offsets, NEW a \in globalLookup(q), a.exist
             PROVE  \E r \in Records : FoundAs(r, dese_map[U!Asked(dese_map, q)], q, a)
  BY DEF AnswersAreRecords, FoundAs
<1>1. q \in Int
  BY DEF Offsets
<1>2. DOMAIN dese_map # {}
  BY NothingFound DEF globalLookup, U!dese_map_look_up
<1>3. PICK rs \in Seq(E) : MapOf(dese_map, rs) /\ Len(rs) < IntLimit /\ \A k \in 1..Len(rs) : rs[k] \in Records
  BY <1>2, ReaderHas
<1>4. PICK o : o = U!Asked(dese_map, q)
  OBVIOUS
<1>5. o \in DOMAIN dese_map /\ a \in U!look_up(dese_map[o].unit, q)
  <2>1. a \in U!dese_map_look_up(dese_map, q)
    BY DEF globalLookup
  <2>2. IsFiniteSet(DOMAIN dese_map) /\ DOMAIN dese_map \in SUBSET Nat
    BY <1>3 DEF MapOf
  <2> QED BY <1>1, <1>4, <2>1, <2>2, LookupAsks
<1>6. PICK x, id, u : x = dese_map[o] /\ id = x.id /\ u = x.unit
  OBVIOUS
<1>7. id \in IdsOf(rs) /\ StandsFor(u, U!Of(rs, id))
  BY <1>3, <1>5, <1>6 DEF MapOf, UnitOf
<1>8. PICK w : IsUnit(u, w) /\ AmongOf(w, rs, id) /\ Len(w) <= Len(rs) + 1
  BY <1>7, UnitRecords
<1>9. \A i \in 1..Len(w) : w[i] \in Records /\ w[i].id = id /\ w[i] \in E
  <2> TAKE i \in 1..Len(w)
  <2>1. PICK j \in 1..Len(rs) : w[i] = rs[j] /\ rs[j].id = id
    BY <1>8 DEF AmongOf
  <2> QED BY <1>3, <2>1, ElementOfSeq
<1>14. a \in U!look_up(u, q)
  BY <1>5, <1>6
<1>15. Len(w) <= IntLimit
  <2>1. Len(w) \in Nat /\ Len(rs) \in Nat
    BY <1>8, LenProperties DEF IsUnit
  <2> QED BY <1>3, <1>8, <2>1, IntLimitAssumption
<1>16. CASE U!Misread(u) \/ ~InRange(u, q)
  <2>1. PICK i \in 1..Len(w) : a.log = w[i].log
    BY <1>1, <1>8, <1>14, LookUpLog
  <2>2. w[i] \in Records /\ w[i].id = id
    BY <1>9
  <2>3. FoundAs(w[i], x, q, a)
    BY <1>6, <1>16, <2>1, <2>2 DEF FoundAs
  <2> QED BY <1>4, <1>6, <2>2, <2>3
<1>17. CASE ~U!Misread(u) /\ InRange(u, q)
  <2>1. PICK i \in 1..Len(w), k \in 1..Len(w) :
           w[i].log <= q /\ a = U!Answer(q, w[i].log, w[i].phy, w[k].len)
    BY <1>1, <1>8, <1>14, <1>15, <1>17, LookUpIs, NothingFound
  <2>2. q - w[i].log < w[k].len /\ a.log = w[i].log /\ a.phy = w[i].phy /\ a.len = w[k].len
    BY <2>1, AnswerIs
  <2>3. ASSUME EqualLengths(w[i].id)
        PROVE  w[i].len = a.len /\ w[i].log <= q /\ q < w[i].log + w[i].len
    <3>1. w[i].len = w[k].len
      BY <1>9, <2>3 DEF EqualLengths
    <3>2. w[i].log \in Nat /\ w[i].len \in Nat
      BY <1>9, EntryParts
    <3>3. PICK y \in Nat, z \in Nat : y = w[i].log /\ z = w[i].len /\ q - y < z
      BY <2>2, <3>1, <3>2
    <3>4. q < y + z
      BY <1>1, <3>3
    <3> QED BY <2>1, <2>2, <3>1, <3>3, <3>4
  <2>4. w[i] \in Records /\ w[i].id = id
    BY <1>9
  <2>5. FoundAs(w[i], x, q, a)
    BY <1>6, <2>2, <2>3, <2>4 DEF FoundAs
  <2> QED BY <1>4, <1>6, <2>4, <2>5
<1> QED BY <1>16, <1>17

(* What Index::globalLookup finds is at the offset of a record of the       *)
(* process it names that was flushed, however build_off_pat's window cut    *)
(* the records into patterns, whatever get_ibuf_unit makes of the unit and  *)
(* whatever overflows.  If the unit was read right and the ints of look_up  *)
(* can hold its positions, it has the record's place in the data dropping,  *)
(* and the record holds the byte if those of its process are of one length. *)
THEOREM AnswersHold == LookupSpec => []AnswersAreRecords
<1>1. LookupInv => AnswersAreRecords
  BY LookupInvAnswers
<1> QED BY <1>1, LookupInvHolds, PTL

-----------------------------------------------------------------------------
(* The values of a list of elements, one after another.                     *)

(* Each place of lists joined to one is a place of one of them.             *)
LEMMA LaidPlace ==
  ASSUME NEW ss, NEW at, NEW n, NEW T, Laid(ss, at, n, T), NEW i \in Nat \ {0},
         i <= at[n] + Len(ss[n])
  PROVE  \E j \in 1..n : \E k \in 1..Len(ss[j]) : i = at[j] + k
<1>1. n \in Nat \ {0} /\ at[1] = 0
  BY DEF Laid
<1>2. \A j \in 1..n : at[j] \in Nat /\ Len(ss[j]) \in Nat
  BY LenProperties DEF Laid
<1> DEFINE S == {j \in 1..n : i <= at[j] + Len(ss[j])}
<1>3. PICK j \in S : \A x \in S : j <= x
  <2>1. S \in SUBSET Nat /\ n \in S
    BY <1>1
  <2> HIDE DEF S
  <2> QED BY <2>1, LeastNatural
<1>4. j \in 1..n /\ i <= at[j] + Len(ss[j])
  BY <1>3
<1>5. at[j] < i
  <2>1. CASE j = 1
    BY <1>1, <2>1
  <2>2. CASE j # 1
    <3>1. PICK x \in 1..n : j = x + 1 /\ x # n /\ ~(j <= x)
      <4>1. j - 1 \in 1..n /\ j = (j - 1) + 1 /\ j - 1 # n /\ ~(j <= j - 1)
        BY <1>1, <1>4, <2>2
      <4> QED BY <4>1
    <3>2. x \notin S
      <4> HIDE DEF S
      <4> QED BY <1>3, <3>1
    <3>3. ~(i <= at[x] + Len(ss[x]))
      BY <3>2
    <3>4. at[x] + Len(ss[x]) = at[j]
      BY <3>1 DEF Laid
    <3> QED BY <1>2, <1>4, <3>3, <3>4
  <2> QED BY <2>1, <2>2
<1>6. PICK x \in Nat, y \in Nat : x = at[j] /\ y = Len(ss[j])
  BY <1>2, <1>4
<1>7. i - x \in 1..y /\ i = x + (i - x)
  BY <1>4, <1>5, <1>6
<1> QED BY <1>4, <1>6, <1>7

(* An element's differences, written out.                                   *)
Repeated(e) == U!FlattenSeq([k \in 1..e.cnt |-> e.seq])

LEMMA RepeatedIs ==
  ASSUME NEW e, Run(e), NEW d, NEW st \in Nat, On(d, st, e)
  PROVE  /\ Repeated(e) \in Seq(Int) /\ Len(Repeated(e)) = U!Size(e)
         /\ \A i \in 1..U!Size(e) : Repeated(e)[i] = d[st + i]
<1>1. PICK q \in Seq(Int), a \in Nat \ {0}, c \in Nat \ {0} :
        q = e.seq /\ a = Len(e.seq) /\ Len(q) = a /\ c = e.cnt /\ U!Size(e) = a * c /\ a * c \in Nat \ {0}
  BY RunParts
<1>2. PICK ss, at : ss = [k \in 1..c |-> q] /\ at = [k \in 1..c |-> (k - 1) * a]
  OBVIOUS
<1>3. ASSUME NEW k \in 1..c
      PROVE  at[k] = (k - 1) * a /\ at[k] \in Nat /\ at[k] + a = a * k
  <2>1. PICK x \in Nat : x = k - 1 /\ k = x + 1
    <3>1. k - 1 \in Nat /\ k = (k - 1) + 1
      OBVIOUS
    <3> QED BY <3>1
  <2>2. at[k] = x * a
    BY <1>2, <2>1
  <2>3. x * a \in Nat /\ (x + 1) * a = x * a + a /\ a * (x + 1) = a * x + a
    BY Product, NextTurn
  <2>4. x * a = a * x
    OBVIOUS
  <2> QED BY <2>1, <2>2, <2>3, <2>4
<1>4. Laid(ss, at, c, Int)
  <2>1. Len(ss) = c /\ \A k \in 1..c : ss[k] = q
    BY <1>2
  <2>2. at[1] = 0
    <3>1. 1 \in 1..c /\ (1 - 1) * a = 0
      OBVIOUS
    <3> QED BY <1>2, <3>1
  <2>3. ASSUME NEW k \in 1..c, k # c PROVE at[k] + Len(ss[k]) = at[k + 1]
    <3>1. PICK y \in 1..c : y = k + 1 /\ y - 1 = k
      <4>1. k + 1 \in 1..c /\ (k + 1) - 1 = k
        BY <2>3
      <4> QED BY <4>1
    <3>2. at[y] = (y - 1) * a
      BY <1>3
    <3>3. at[y] = k * a
      BY <3>1, <3>2
    <3>4. k * a = a * k
      OBVIOUS
    <3> QED BY <1>1, <1>3, <2>1, <3>1, <3>3, <3>4
  <2> QED BY <1>3, <2>1, <2>2, <2>3 DEF Laid
<1>5. PICK r : r = Repeated(e)
  OBVIOUS
<1>6. r = U!FlattenSeq(ss)
  BY <1>1, <1>2, <1>5 DEF Repeated
<1>7. c \in 1..c /\ ss[c] = q
  BY <1>2
<1>8. at[c] + Len(ss[c]) = a * c
  BY <1>1, <1>3, <1>7
<1>9. /\ r \in Seq(Int) /\ Len(r) = a * c
      /\ \A j \in 1..c : \A k \in 1..Len(ss[j]) : r[at[j] + k] = ss[j][k]
  <2>1. /\ U!FlattenSeq(ss) \in Seq(Int) /\ Len(U!FlattenSeq(ss)) = at[c] + Len(ss[c])
        /\ \A j \in 1..c : \A k \in 1..Len(ss[j]) :
             at[j] + k \in 1..Len(U!FlattenSeq(ss)) /\ U!FlattenSeq(ss)[at[j] + k] = ss[j][k]
    BY <1>4, FlatAt, SMTT(30)
  <2> QED BY <1>6, <1>8, <2>1
<1>10. PICK z \in Nat : z = a * c
  BY <1>1
<1>11. ASSUME NEW i \in 1..z PROVE r[i] = d[st + i]
  <2>1. i \in Nat \ {0} /\ i <= at[c] + Len(ss[c])
    BY <1>8, <1>10
  <2>2. PICK j \in 1..c : \E k \in 1..Len(ss[j]) : i = at[j] + k
    BY <1>4, <2>1, LaidPlace
  <2>9. PICK k \in 1..Len(ss[j]) : i = at[j] + k
    BY <2>2
  <2>3. ss[j] = q /\ k \in 1..a
    BY <1>1, <1>2, <2>9
  <2>4. r[i] = q[k]
    BY <1>9, <2>9, <2>3
  <2>5. PICK x \in 0..(c - 1) : x = j - 1
    <3>1. j - 1 \in 0..(c - 1)
      OBVIOUS
    <3> QED BY <3>1
  <2>6. d[st + x * a + k] = q[k]
    BY <1>1, <2>3, <2>5 DEF On
  <2>7. x * a = at[j]
    BY <1>3, <2>5
  <2>8. st + x * a + k = st + i
    <3>1. PICK y \in Nat : y = at[j]
      BY <1>3
    <3>2. x * a = y /\ i = y + k /\ k \in Nat
      BY <2>9, <2>3, <2>7, <3>1
    <3>3. st + y + k = st + (y + k)
      BY <3>2
    <3> QED BY <3>2, <3>3
  <2> QED BY <2>4, <2>6, <2>8
<1> QED BY <1>1, <1>5, <1>9, <1>10, <1>11

(* The differences of the elements of a list, written out, are those of the *)
(* values they encode.                                                      *)
AllRepeated(es) ==
  U!FlattenSeq([j \in 1..Len(es) |-> U!FlattenSeq([k \in 1..es[j].cnt |-> es[j].seq])])

LEMMA AllRepeatedIs ==
  ASSUME NEW es, NEW v \in Seq(Int), NEW at, NEW n, NEW m, Covers(es, v, at, n, m)
  PROVE  AllRepeated(es) = U!Differences(v)
<1>1. n \in Nat \ {0} /\ Len(es) = n /\ m \in Nat /\ Len(v) = m + 1 /\ at[1] = 0
  BY DEF Covers, EncodesAt
<1>2. PICK d \in Seq(Int) : d = U!Differences(v) /\ Len(d) = m
  BY <1>1, DifferencesAre
<1>3. PICK ss : ss = [j \in 1..n |-> Repeated(es[j])]
  OBVIOUS
<1>4. ASSUME NEW j \in 1..n
      PROVE  /\ ss[j] \in Seq(Int) /\ Len(ss[j]) = U!Size(es[j]) /\ at[j] \in Nat
             /\ \A i \in 1..Len(ss[j]) : ss[j][i] = d[at[j] + i]
  <2>1. Stretch(U!Differences(v), at[j], es[j], IF j = n THEN Len(v) - 1 ELSE at[j + 1])
    BY DEF Covers, EncodesAt
  <2>2. PICK st \in Nat : st = at[j]
    BY ElementOfStretch
  <2>3. Run(es[j]) /\ On(d, st, es[j])
    BY <1>2, <2>1, <2>2 DEF Stretch
  <2>4. /\ Repeated(es[j]) \in Seq(Int) /\ Len(Repeated(es[j])) = U!Size(es[j])
        /\ \A i \in 1..U!Size(es[j]) : Repeated(es[j])[i] = d[st + i]
    BY <2>3, RepeatedIs
  <2>5. ss[j] = Repeated(es[j])
    BY <1>3
  <2> QED BY <2>2, <2>4, <2>5
<1>5. Laid(ss, at, n, Int)
  <2>1. Len(ss) = n
    BY <1>1, <1>3
  <2>2. ASSUME NEW j \in 1..n, j # n PROVE at[j] + Len(ss[j]) = at[j + 1]
    BY <1>4, <2>2, ElementOfStretch
  <2> QED BY <1>1, <1>4, <2>1, <2>2 DEF Laid
<1>6. PICK f : f = U!FlattenSeq(ss)
  OBVIOUS
<1>7. AllRepeated(es) = f
  BY <1>1, <1>3, <1>6 DEF AllRepeated, Repeated
<1>8. PICK l \in 1..n : l = n
  BY <1>1
<1>9. at[n] + Len(ss[n]) = m
  <2>1. at[l] + U!Size(es[l]) = m
    BY <1>8, ElementOfStretch
  <2> QED BY <1>4, <1>8, <2>1
<1>10. /\ f \in Seq(Int) /\ Len(f) = m
       /\ \A j \in 1..n : \A k \in 1..Len(ss[j]) : f[at[j] + k] = ss[j][k]
  <2>1. /\ U!FlattenSeq(ss) \in Seq(Int) /\ Len(U!FlattenSeq(ss)) = at[n] + Len(ss[n])
        /\ \A j \in 1..n : \A k \in 1..Len(ss[j]) :
             at[j] + k \in 1..Len(U!FlattenSeq(ss)) /\ U!FlattenSeq(ss)[at[j] + k] = ss[j][k]
    BY <1>5, FlatAt
  <2> QED BY <1>6, <1>9, <2>1
<1>11. ASSUME NEW i \in 1..m PROVE f[i] = d[i]
  <2>1. i \in Nat \ {0} /\ i <= at[n] + Len(ss[n])
    BY <1>1, <1>9
  <2>2. PICK j \in 1..n : \E k \in 1..Len(ss[j]) : i = at[j] + k
    BY <1>5, <2>1, LaidPlace
  <2>9. PICK k \in 1..Len(ss[j]) : i = at[j] + k
    BY <2>2
  <2>3. f[i] = ss[j][k] /\ ss[j][k] = d[i]
    BY <1>4, <1>10, <2>9
  <2> QED BY <2>3
<1>12. f = d
  BY <1>2, <1>10, <1>11, SeqEqual
<1> QED BY <1>2, <1>7, <1>12

LEMMA DifferencesSum ==
  ASSUME NEW v \in Seq(Int), NEW m \in Nat, Len(v) = m + 1
  PROVE  \A i \in 0..m : v[1] + U!SumTo(U!Differences(v), i) = v[i + 1]
<1>1. /\ U!Differences(v) \in Seq(Int) /\ Len(U!Differences(v)) = m
      /\ \A i \in 1..m : /\ v[i] \in Int /\ v[i + 1] \in Int /\ U!Differences(v)[i] \in Int
                         /\ v[i + 1] = v[i] + U!Differences(v)[i]
  BY DifferencesAre
<1>2. PICK d \in Seq(Int) : d = U!Differences(v) /\ Len(d) = m
  BY <1>1
<1>3. /\ U!SumTo(d, 0) = 0 /\ \A n \in 0..m : U!SumTo(d, n) \in Int
      /\ \A n \in 1..m : U!SumTo(d, n) = U!SumTo(d, n - 1) + d[n]
  BY <1>2, SumTos
<1>4. PICK x \in Int : x = v[1]
  <2>1. 1 \in 1..Len(v)
    OBVIOUS
  <2> QED BY <2>1, ElementOfSeq
<1> DEFINE Bad == {i \in 0..m : v[1] + U!SumTo(d, i) # v[i + 1]}
<1>5. Bad = {}
  <2> SUFFICES ASSUME Bad # {} PROVE FALSE
    OBVIOUS
  <2>1. PICK i \in Bad : \A b \in Bad : i <= b
    <3>1. Bad \in SUBSET Nat
      OBVIOUS
    <3> HIDE DEF Bad
    <3> QED BY <3>1, LeastNatural
  <2>2. i \in 0..m /\ x + U!SumTo(d, i) # v[i + 1]
    BY <1>4, <2>1
  <2>3. i # 0
    <3>1. v[0 + 1] = x /\ x + 0 = x
      BY <1>4
    <3> QED BY <1>3, <2>2, <3>1
  <2>4. PICK p \in 0..m : p = i - 1 /\ ~(i <= p) /\ p + 1 = i
    <3>1. i - 1 \in 0..m /\ ~(i <= i - 1) /\ (i - 1) + 1 = i
      BY <2>2, <2>3
    <3> QED BY <3>1
  <2>5. p \notin Bad
    <3> HIDE DEF Bad
    <3> QED BY <2>1, <2>4
  <2>6. x + U!SumTo(d, p) = v[p + 1]
    BY <1>4, <2>5
  <2>7. PICK j \in 1..m : j = i
    BY <2>2, <2>3
  <2>8. v[j + 1] = v[j] + d[j] /\ U!SumTo(d, j) = U!SumTo(d, j - 1) + d[j] /\ d[j] \in Int
    BY <1>1, <1>2, <1>3
  <2>9. PICK s \in Int, y \in Int : s = U!SumTo(d, p) /\ y = d[j]
    BY <1>3, <2>8
  <2>10. x + s = v[j] /\ U!SumTo(d, j) = s + y /\ v[j + 1] = v[j] + y
    BY <2>4, <2>6, <2>7, <2>8, <2>9
  <2>11. x + (s + y) = (x + s) + y
    OBVIOUS
  <2> QED BY <2>2, <2>7, <2>10, <2>11
<1>6. \A i \in 0..m : v[1] + U!SumTo(d, i) = v[i + 1]
  BY <1>5
<1> QED BY <1>2, <1>6

(* So decoding what encodes a list gives the list.                          *)
LEMMA ValuesAlongIs ==
  ASSUME NEW es, NEW v \in Seq(Int), NEW m \in Nat \ {0}, Len(v) = m + 1, Encodes(es, v)
  PROVE  U!ValuesAlong(es) = v
<1>1. PICK at, n : Covers(es, v, at, n, m)
  BY CoversOf
<1>2. PICK d : d = U!Differences(v)
  OBVIOUS
<1>3. d = AllRepeated(es) /\ Len(d) = m
  <2>1. m \in Nat
    OBVIOUS
  <2> QED BY <1>1, <1>2, <2>1, AllRepeatedIs, DifferencesAre
<1>4. es[1].init = v[1]
  BY EndsOf
<1>5. U!ValuesAlong(es) = [i \in 1..(Len(d) + 1) |-> es[1].init + U!SumTo(d, i - 1)]
  BY <1>3 DEF U!ValuesAlong, AllRepeated
<1>6. PICK l \in Nat : l = m + 1 /\ Len(v) = l
  OBVIOUS
<1>7. \A i \in 1..l : es[1].init + U!SumTo(d, i - 1) = v[i]
  <2> TAKE i \in 1..l
  <2>1. PICK p \in 0..m : p = i - 1 /\ p + 1 = i
    <3>1. i - 1 \in 0..m /\ (i - 1) + 1 = i
      BY <1>6
    <3> QED BY <3>1
  <2>2. m \in Nat
    OBVIOUS
  <2>3. v[1] + U!SumTo(d, p) = v[p + 1]
    BY <1>2, <2>2, DifferencesSum
  <2> QED BY <1>4, <2>1, <2>3
<1>8. U!ValuesAlong(es) = [i \in 1..l |-> v[i]]
  BY <1>3, <1>5, <1>6, <1>7
<1>9. v = [i \in 1..l |-> v[i]]
  BY <1>6, LenProperties
<1> QED BY <1>8, <1>9

-----------------------------------------------------------------------------
(* analyze_unit: the records of a unit.                                     *)

(* Of records that differ from the next none is left out.                   *)
LEMMA NthOfAll ==
  ASSUME NEW l \in Nat, NEW i \in 1..l
  PROVE  U!Nth(1..l, i) = i
<1>1. PICK S : S = 1..l
  OBVIOUS
<1>2. S \in SUBSET Nat /\ IsFiniteSet(S) /\ i \in S
  BY <1>1, FS_Interval
<1>3. UpTo(S, i) = 1..i
  BY <1>1 DEF UpTo
<1>4. Cardinality(UpTo(S, i)) = i
  BY <1>3, FS_Interval
<1>5. U!Nth(S, Cardinality(UpTo(S, i))) = i
  BY <1>2, NumbersU
<1> QED BY <1>1, <1>4, <1>5

LEMMA NothingRepeated ==
  ASSUME NEW T, NEW w \in Seq(T), \A i \in 1..Len(w) : i < Len(w) => w[i] # w[i + 1]
  PROVE  U!arrange_queryList(w) = w
<1>1. PICK l \in Nat : l = Len(w)
  BY LenProperties
<1>2. PICK P : P = 1..l
  OBVIOUS
<1>3. U!arrange_queryList(w) = U!Picked(w, P)
  <2>1. {i \in 1..Len(w) : i < Len(w) => w[i] # w[i + 1]} = P
    BY <1>1, <1>2
  <2> QED BY <2>1 DEF U!arrange_queryList
<1>4. Cardinality(P) = l
  BY <1>2, FS_Interval
<1>5. PICK f : f = U!Picked(w, P)
  OBVIOUS
<1>6. /\ f \in Seq(T) /\ Len(f) = l
      /\ \A i \in 1..l : f[i] = w[U!Nth(P, i)]
  <2>1. P \in SUBSET (1..Len(w))
    BY <1>1, <1>2
  <2>2. /\ U!Picked(w, P) \in Seq(T) /\ Len(U!Picked(w, P)) = Cardinality(P)
        /\ \A i \in 1..Cardinality(P) : U!Picked(w, P)[i] = w[U!Nth(P, i)]
    BY <2>1, PickedParts
  <2> QED BY <1>4, <1>5, <2>2
<1>7. \A i \in 1..l : f[i] = w[i]
  BY <1>2, <1>6, NthOfAll
<1>8. f = w
  BY <1>1, <1>6, <1>7, SeqEqual
<1> QED BY <1>3, <1>5, <1>8

LEMMA TwiceOne ==
  ASSUME NEW T, NEW r \in T, NEW w, w = <<r, r>>
  PROVE  U!arrange_queryList(w) = <<r>>
<1>1. w \in Seq(T) /\ Len(w) = 2 /\ w[1] = r /\ w[2] = r /\ w[1 + 1] = r
  BY IsASeq
<1>2. PICK P : P = {2}
  OBVIOUS
<1>3. P \in SUBSET (1..Len(w)) /\ Cardinality(P) = 1
  BY <1>1, <1>2, FS_Singleton
<1>4. U!arrange_queryList(w) = U!Picked(w, P)
  <2>1. {i \in 1..Len(w) : i < Len(w) => w[i] # w[i + 1]} = P
    <3>1. 1..Len(w) = {1, 2} /\ 1 < Len(w) /\ ~(2 < Len(w))
      BY <1>1
    <3> QED BY <1>1, <1>2, <3>1
  <2> QED BY <2>1 DEF U!arrange_queryList
<1>5. PICK f : f = U!Picked(w, P)
  OBVIOUS
<1>6. f \in Seq(T) /\ Len(f) = 1 /\ U!Nth(P, 1) \in P /\ f[1] = w[U!Nth(P, 1)]
  <2>1. 1 \in 1..Cardinality(P)
    BY <1>3
  <2>2. /\ U!Picked(w, P) \in Seq(T) /\ Len(U!Picked(w, P)) = Cardinality(P)
        /\ \A i \in 1..Cardinality(P) : U!Nth(P, i) \in P /\ U!Picked(w, P)[i] = w[U!Nth(P, i)]
    BY <1>1, <1>3, PickedParts
  <2> QED BY <1>3, <1>5, <2>1, <2>2
<1>7. f[1] = r
  BY <1>1, <1>2, <1>6
<1>8. f = <<r>>
  <2>1. PICK g : g = <<r>>
    OBVIOUS
  <2>2. g \in Seq(T) /\ Len(g) = 1 /\ g[1] = r
    BY <2>1
  <2>3. \A i \in 1..Len(f) : f[i] = g[i]
    BY <1>6, <1>7, <2>2
  <2>4. f = g
    BY <1>6, <2>2, <2>3, SeqEqual
  <2> QED BY <2>1, <2>4
<1> QED BY <1>4, <1>5, <1>8

(* The three patterns of a unit, decoded, are its records.                  *)
AllOf(w, id) == \A i \in 1..Len(w) : w[i].id = id

LEMMA UnitAnalyzed ==
  ASSUME NEW u, NEW w, IsUnit(u, w), NEW id, AllOf(w, id)
  PROVE  /\ U!analyze_unit(id, u) = U!arrange_queryList(w)
         /\ U!ValuesAlong(<<u.off>>) = U!Logs(w)
         /\ Len(U!ValuesAlong(u.phy)) = U!Size(u.off) + 1
         /\ Len(U!ValuesAlong(u.len)) = U!Size(u.off) + 1
<1>1. PICK n \in Nat \ {0} : U!Size(u.off) = n /\ Len(w) = n + 1 /\ w \in Seq(E)
  BY UnitParts
<1>2. PICK l \in Nat : l = n + 1
  OBVIOUS
<1>3. /\ U!Logs(w) \in Seq(Int) /\ Len(U!Logs(w)) = l /\ \A i \in 1..l : U!Logs(w)[i] = w[i].log
      /\ U!Phys(w) \in Seq(Int) /\ Len(U!Phys(w)) = l /\ \A i \in 1..l : U!Phys(w)[i] = w[i].phy
      /\ U!Lens(w) \in Seq(Int) /\ Len(U!Lens(w)) = l /\ \A i \in 1..l : U!Lens(w)[i] = w[i].len
      /\ \A i \in 1..l : w[i] \in E
  BY <1>1, <1>2, FieldsAre
<1>4. PICK a \in Seq(Int), b \in Seq(Int), c \in Seq(Int) :
        /\ a = U!Logs(w) /\ Len(a) = n + 1
        /\ b = U!Phys(w) /\ Len(b) = n + 1
        /\ c = U!Lens(w) /\ Len(c) = n + 1
  BY <1>2, <1>3
<1>5. Encodes(<<u.off>>, a) /\ Encodes(u.phy, b) /\ Encodes(u.len, c)
  BY <1>4 DEF IsUnit
<1>6. U!ValuesAlong(<<u.off>>) = a
  BY <1>4, <1>5, ValuesAlongIs
<1>7. U!ValuesAlong(u.phy) = b
  BY <1>4, <1>5, ValuesAlongIs
<1>8. U!ValuesAlong(u.len) = c
  BY <1>4, <1>5, ValuesAlongIs
<1>9. ASSUME NEW i \in 1..l
      PROVE  [id |-> id, log |-> a[i], len |-> c[i], phy |-> b[i]] = w[i]
  <2>1. w[i] \in E /\ w[i].id = id
    BY <1>1, <1>2, <1>3 DEF AllOf
  <2>2. w[i] = [id |-> w[i].id, log |-> w[i].log, len |-> w[i].len, phy |-> w[i].phy]
    BY <2>1 DEF E, H!Entry
  <2> QED BY <1>3, <1>4, <2>1, <2>2
<1>10. [i \in 1..Len(a) |-> [id |-> id, log |-> a[i], len |-> c[i], phy |-> b[i]]] = w
  <2>1. Len(a) = l /\ Len(w) = l
    BY <1>1, <1>2, <1>4
  <2>2. w = [i \in 1..l |-> w[i]]
    BY <1>1, <2>1, LenProperties
  <2>3. [i \in 1..l |-> [id |-> id, log |-> a[i], len |-> c[i], phy |-> b[i]]] = [i \in 1..l |-> w[i]]
    BY <1>9
  <2> QED BY <2>1, <2>2, <2>3
<1>11. U!analyze_unit(id, u) = U!arrange_queryList(w)
  BY <1>6, <1>7, <1>8, <1>10 DEF U!analyze_unit
<1> QED BY <1>1, <1>4, <1>6, <1>7, <1>8, <1>11

(* The records of one process are in the order they have among all.         *)
LEMMA OfRising ==
  ASSUME NEW rs \in Seq(E), Rising(rs, Len(rs)), NEW id
  PROVE  \A i, j \in 1..Len(U!Of(rs, id)) : i < j => U!Of(rs, id)[i].phy < U!Of(rs, id)[j].phy
<1>1. PICK P : P = {i \in 1..Len(rs) : rs[i].id = id}
  OBVIOUS
<1>2. P \in SUBSET (1..Len(rs))
  BY <1>1
<1>3. U!Of(rs, id) = U!Picked(rs, P)
  BY <1>1 DEF U!Of
<1>4. PICK n, f : n \in Nat /\ n = Cardinality(P) /\ f = U!Picked(rs, P)
  <2>1. Cardinality(P) \in Nat
    BY <1>2, PickedParts
  <2> QED BY <2>1
<1>5. /\ IsFiniteSet(P) /\ P \in SUBSET Nat /\ Len(f) = n
      /\ \A i \in 1..n : U!Nth(P, i) \in P /\ f[i] = rs[U!Nth(P, i)]
  <2>1. /\ IsFiniteSet(P) /\ P \in SUBSET Nat
        /\ Len(U!Picked(rs, P)) = Cardinality(P)
        /\ \A i \in 1..Cardinality(P) : U!Nth(P, i) \in P /\ U!Picked(rs, P)[i] = rs[U!Nth(P, i)]
    BY <1>2, PickedParts
  <2> QED BY <1>4, <2>1
<1>6. ASSUME NEW i \in 1..n, NEW j \in 1..n, i < j PROVE f[i].phy < f[j].phy
  <2>1. PICK x \in P, y \in P : x = U!Nth(P, i) /\ y = U!Nth(P, j) /\ f[i] = rs[x] /\ f[j] = rs[y]
    BY <1>5
  <2>2. Cardinality(UpTo(P, x)) = i /\ Cardinality(UpTo(P, y)) = j
    BY <1>4, <1>5, <2>1, NumbersU
  <2>3. x \in Nat /\ y \in Nat
    BY <1>5
  <2>4. ~(y < x)
    <3>1. y < x => j < i
      BY <1>5, <2>2, UpToParts
    <3> QED BY <1>6, <3>1
  <2>5. x # y
    BY <1>6, <2>2
  <2>6. x < y
    BY <2>3, <2>4, <2>5
  <2>7. x \in 1..Len(rs) /\ y \in 1..Len(rs) /\ rs[x].id = rs[y].id
    BY <1>1
  <2> QED BY <2>1, <2>6, <2>7 DEF Rising
<1> QED BY <1>3, <1>4, <1>5, <1>6

(* A unit whose pattern goes up everywhere is of ascending records.         *)
Upward(f, n) == \A i, j \in 1..n : i < j => f[i] < f[j]

LEMMA StepByStep ==
  ASSUME NEW f, NEW n \in Nat, \A i \in 1..n : f[i] \in Int,
         \A i \in 1..n : i < n => f[i] < f[i + 1]
  PROVE  Upward(f, n)
<1> SUFFICES ASSUME NEW i \in 1..n PROVE \A j \in 1..n : i < j => f[i] < f[j]
  BY DEF Upward
<1> DEFINE Bad == {j \in 1..n : i < j /\ ~(f[i] < f[j])}
<1>1. Bad = {}
  <2> SUFFICES ASSUME Bad # {} PROVE FALSE
    OBVIOUS
  <2>1. PICK j \in Bad : \A b \in Bad : j <= b
    <3>1. Bad \in SUBSET Nat
      OBVIOUS
    <3> HIDE DEF Bad
    <3> QED BY <3>1, LeastNatural
  <2>2. j \in 1..n /\ i < j /\ ~(f[i] < f[j])
    BY <2>1
  <2>3. PICK p \in 1..n : p + 1 = j /\ p < n /\ i <= p /\ ~(j <= p)
    <3>1. j - 1 \in 1..n /\ (j - 1) + 1 = j /\ j - 1 < n /\ i <= j - 1 /\ ~(j <= j - 1)
      BY <2>2
    <3> QED BY <3>1
  <2>4. p \notin Bad
    <3> HIDE DEF Bad
    <3> QED BY <2>1, <2>3
  <2>5. f[p] < f[j] /\ f[p] \in Int /\ f[j] \in Int /\ f[i] \in Int
    BY <2>2, <2>3
  <2>6. CASE i = p
    BY <2>2, <2>5, <2>6
  <2>7. CASE i # p
    <3>1. f[i] < f[p]
      BY <2>3, <2>4, <2>7
    <3> QED BY <2>2, <2>5, <3>1
  <2> QED BY <2>6, <2>7
<1> QED BY <1>1

LEMMA SumUpward ==
  ASSUME NEW s \in Seq(Int), Len(s) # 0, \A i \in 1..Len(s) : s[i] > 0
  PROVE  U!SumTo(s, Len(s)) > 0
<1>1. PICK n \in Nat \ {0} : n = Len(s)
  BY LenProperties
<1>2. /\ U!SumTo(s, 0) = 0
      /\ \A i \in 0..n : U!SumTo(s, i) \in Int
      /\ \A i \in 1..n : U!SumTo(s, i) = U!SumTo(s, i - 1) + s[i]
      /\ \A i \in 1..n : s[i] \in Int /\ s[i] > 0
  BY <1>1, SumTos, ElementOfSeq
<1> DEFINE Bad == {i \in 1..n : ~(U!SumTo(s, i) > 0)}
<1>3. Bad = {}
  <2> SUFFICES ASSUME Bad # {} PROVE FALSE
    OBVIOUS
  <2>1. PICK j \in Bad : \A b \in Bad : j <= b
    <3>1. Bad \in SUBSET Nat
      OBVIOUS
    <3> HIDE DEF Bad
    <3> QED BY <3>1, LeastNatural
  <2>2. j \in 1..n /\ ~(U!SumTo(s, j) > 0)
    BY <2>1
  <2>3. PICK p \in 0..n : p = j - 1 /\ ~(j <= p)
    <3>1. j - 1 \in 0..n /\ ~(j <= j - 1)
      BY <2>2
    <3> QED BY <3>1
  <2>4. p \notin Bad
    <3> HIDE DEF Bad
    <3> QED BY <2>1, <2>3
  <2>5. PICK x \in Int, y \in Int : x = U!SumTo(s, p) /\ y = s[j] /\ U!SumTo(s, j) = x + y /\ y > 0
    BY <1>2, <2>2, <2>3
  <2>6. x >= 0
    <3>1. CASE p = 0
      BY <1>2, <2>5, <3>1
    <3>2. CASE p # 0
      BY <2>4, <2>5, <3>2
    <3> QED BY <3>1, <3>2
  <2> QED BY <2>2, <2>5, <2>6
<1>4. n \in 1..n
  OBVIOUS
<1> QED BY <1>1, <1>3, <1>4

LEMMA LogsUpward ==
  ASSUME NEW u, NEW w, IsUnit(u, w), \A s \in 1..Len(u.off.seq) : u.off.seq[s] > 0
  PROVE  /\ Upward(U!Logs(w), Len(w))
         /\ U!sumVecSeq(u.off) > 0
<1>1. PICK n \in Nat \ {0} :
        /\ U!Size(u.off) = n /\ Len(w) = n + 1 /\ u.off \in Element /\ Run(u.off) /\ w \in Seq(E)
        /\ \A p \in 0..n : U!getValueByPos(u.off, p) = w[p + 1].log
  BY UnitParts
<1>2. PICK l \in Nat : l = n + 1
  OBVIOUS
<1>3. U!Logs(w) \in Seq(Int) /\ Len(U!Logs(w)) = l /\ \A i \in 1..l : U!Logs(w)[i] = w[i].log
  BY <1>1, <1>2, FieldsAre
<1>4. PICK a \in Seq(Int) : a = U!Logs(w)
  BY <1>3
<1>5. \A i \in 1..l : a[i] \in Int /\ a[i] = w[i].log
  BY <1>3, <1>4, ElementOfSeq
<1>6. ASSUME NEW i \in 1..l, i < l PROVE a[i] < a[i + 1]
  <2>1. PICK p \in 0..n : i = p + 1 /\ p < n /\ p \in Nat /\ p + 1 \in 0..n /\ i + 1 \in 1..l
    <3>1. i - 1 \in 0..n /\ i = (i - 1) + 1 /\ i - 1 < n /\ i - 1 \in Nat /\ (i - 1) + 1 \in 0..n /\ i + 1 \in 1..l
      BY <1>2, <1>6
    <3> QED BY <3>1
  <2>2. PICK k \in 0..(u.off.cnt - 1), s \in 1..Len(u.off.seq) :
          /\ u.off.seq[s] \in Int
          /\ U!getValueByPos(u.off, p + 1) = U!getValueByPos(u.off, p) + u.off.seq[s]
    BY <1>1, <2>1, NextValueOf
  <2>3. U!getValueByPos(u.off, p) = a[i] /\ U!getValueByPos(u.off, p + 1) = a[i + 1]
    BY <1>1, <1>5, <2>1
  <2>4. PICK x \in Int, y \in Int : x = a[i] /\ y = u.off.seq[s] /\ y > 0
    BY <1>5, <2>2
  <2> QED BY <2>2, <2>3, <2>4, SMTT(30)
<1>7. Upward(a, l)
  BY <1>5, <1>6, StepByStep
<1>8. U!sumVecSeq(u.off) > 0
  <2>1. PICK q \in Seq(Int) : q = u.off.seq /\ Len(q) # 0
    BY <1>1 DEF Run
  <2>2. U!SumTo(q, Len(q)) > 0
    BY <2>1, SumUpward
  <2> QED BY <2>1, <2>2 DEF U!sumVecSeq
<1> QED BY <1>1, <1>2, <1>4, <1>7, <1>8

-----------------------------------------------------------------------------
(* Units into which no other starts.                                        *)

(* A unit of ascending records at least three of them answers with the last *)
(* that starts before the byte.                                             *)
LEMMA UpwardFinds ==
  ASSUME NEW u, NEW w, NEW n \in Nat, n > 1, IsUnit(u, w), Len(w) = n + 1, ~U!Misread(u),
         \A s \in 1..Len(u.off.seq) : u.off.seq[s] > 0,
         NEW i \in 1..(n + 1), NEW q \in Int, w[i].log <= q,
         i = n + 1 \/ q < w[i + 1].log, n < IntLimit, InRange(u, q)
  PROVE  \A b \in U!look_up(u, q) :
           \E k \in 1..(n + 1) : b = U!Answer(q, w[i].log, w[i].phy, w[k].len)
<1>1. PICK m \in Nat \ {0} : m = n /\ u.off \in Element /\ Run(u.off) /\ w \in Seq(E)
  <2>1. n \in Nat \ {0}
    OBVIOUS
  <2> QED BY <2>1, UnitParts
<1>2. PICK l \in Nat : l = n + 1
  OBVIOUS
<1>3. Upward(U!Logs(w), Len(w)) /\ U!sumVecSeq(u.off) > 0
  BY LogsUpward
<1>4. U!Logs(w) \in Seq(Int) /\ Len(U!Logs(w)) = l /\ \A j \in 1..l : U!Logs(w)[j] = w[j].log
  BY <1>1, <1>2, FieldsAre
<1>5. PICK a \in Seq(Int) : a = U!Logs(w)
  BY <1>4
<1>6. /\ \A j \in 1..l : a[j] \in Int /\ a[j] = w[j].log
      /\ \A j, k \in 1..l : j < k => a[j] < a[k]
  BY <1>2, <1>3, <1>4, <1>5, ElementOfSeq DEF Upward
<1>7. ~U!Narrow(u)
  <2> SUFFICES ASSUME U!Narrow(u) PROVE FALSE
    OBVIOUS
  <2>1. Len(u.off.seq) = 2 /\ u.off.seq[1] = 0
    BY DEF U!Narrow
  <2>2. u.off.seq[1] > 0
    BY <2>1
  <2> QED BY <2>1, <2>2
<1>8. \A b \in U!look_up(u, q) : b = U!UnitAnswer(u, q)
  BY <1>7 DEF U!look_up, U!get_ibuf_unit, U!Narrowed
<1>9. /\ 1 \in 1..l /\ i \in 1..l /\ a[1] \in Int /\ a[i] \in Int /\ a[i] <= q /\ a[1] <= q
  <2>1. 1 \in 1..l /\ i \in 1..l
    BY <1>2
  <2>2. i = 1 \/ 1 < i
    OBVIOUS
  <2> QED BY <1>6, <2>1, <2>2
<1>10. ~(q < w[1].log) /\ ~(U!sumVecSeq(u.off) <= 0)
  <2>1. U!sumVecSeq(u.off) \in Int
    <3>1. u.off.seq \in Seq(Int) /\ Len(u.off.seq) \in 0..Len(u.off.seq)
      BY <1>1 DEF Run
    <3> QED BY <3>1, SumTos DEF U!sumVecSeq
  <2> QED BY <1>3, <1>6, <1>9, <2>1
<1>11. PICK j \in 1..(n + 1), k \in 1..(n + 1) : Finds(w, n, j, k, q, U!UnitAnswer(u, q))
  <2>1. n \in Nat \ {0}
    OBVIOUS
  <2> QED BY <1>10, <2>1, UnitFinds
<1>12. /\ U!UnitAnswer(u, q) = U!Answer(q, w[j].log, w[j].phy, w[k].len) /\ w[j].log <= q
       /\ j = n + 1 \/ (j <= n /\ q < w[j + 1].log) \/ (j = 1 /\ (n <= 1 \/ q = w[1].log))
  BY <1>11 DEF Finds
<1>13. j \in 1..l /\ a[j] \in Int /\ a[j] <= q
  BY <1>2, <1>6, <1>12
<1>14. j = l \/ (j + 1 \in 1..l /\ q < a[j + 1])
  <2>1. CASE j = n + 1
    BY <1>2, <2>1
  <2>2. CASE j <= n /\ q < w[j + 1].log
    <3>1. j + 1 \in 1..l
      BY <1>2, <2>2
    <3> QED BY <1>6, <2>2, <3>1
  <2>3. CASE j = 1 /\ (n <= 1 \/ q = w[1].log)
    <3>1. q = a[1] /\ 2 \in 1..l /\ 1 < 2 /\ j + 1 = 2
      BY <1>2, <1>6, <1>9, <2>3
    <3>2. a[1] < a[2]
      BY <1>6, <1>9, <3>1
    <3> QED BY <3>1, <3>2
  <2> QED BY <1>12, <2>1, <2>2, <2>3
<1>15. i = l \/ (i + 1 \in 1..l /\ q < a[i + 1])
  <2>1. CASE i = n + 1
    BY <1>2, <2>1
  <2>2. CASE i # n + 1
    <3>1. i + 1 \in 1..l /\ q < w[i + 1].log
      BY <1>2, <2>2
    <3> QED BY <1>6, <3>1
  <2> QED BY <2>1, <2>2
<1>16. ~(i < j)
  <2> SUFFICES ASSUME i < j PROVE FALSE
    OBVIOUS
  <2>1. PICK x \in 1..l : x = i + 1 /\ q < a[x] /\ x <= j
    BY <1>9, <1>13, <1>15
  <2>2. a[x] <= a[j]
    <3>1. x = j \/ x < j
      BY <1>13, <2>1
    <3> QED BY <1>6, <1>13, <2>1, <3>1
  <2>3. a[x] \in Int
    BY <1>6
  <2> QED BY <1>13, <2>1, <2>2, <2>3
<1>17. ~(j < i)
  <2> SUFFICES ASSUME j < i PROVE FALSE
    OBVIOUS
  <2>1. PICK x \in 1..l : x = j + 1 /\ q < a[x] /\ x <= i
    BY <1>9, <1>13, <1>14
  <2>2. a[x] <= a[i]
    <3>1. x = i \/ x < i
      BY <1>9, <2>1
    <3> QED BY <1>6, <1>9, <2>1, <3>1
  <2>3. a[x] \in Int
    BY <1>6
  <2> QED BY <1>9, <2>1, <2>2, <2>3
<1>18. i = j
  BY <1>16, <1>17
<1> QED BY <1>8, <1>12, <1>18

(* The records of an undisturbed unit, and where the other units start.     *)
UndisturbedAs(o, w, n) ==
  /\ n \in Nat /\ n > 1 /\ n < IntLimit
  /\ IsUnit(dese_map[o].unit, w) /\ Len(w) = n + 1 /\ w \in Seq(E)
  /\ U!analyze_unit(dese_map[o].id, dese_map[o].unit) = w
  /\ o = w[1].log
  /\ Upward(U!Logs(w), n + 1)
  /\ \A i, j \in 1..(n + 1) : w[i].len = w[j].len
  /\ \A p \in DOMAIN dese_map : p <= o \/ p >= w[n + 1].log + w[1].len

LEMMA UndisturbedIs ==
  ASSUME LookupInv, reader = "open", NEW o \in DOMAIN dese_map, Undisturbed(o)
  PROVE  \E w, n : UndisturbedAs(o, w, n)
<1>1. PICK rs \in Seq(E) : MapOf(dese_map, rs) /\ Len(rs) < IntLimit /\ \A k \in 1..Len(rs) : rs[k] \in Records
  BY ReaderHas
<1>2. PICK id, u : id = dese_map[o].id /\ u = dese_map[o].unit
  OBVIOUS
<1>3. id \in IdsOf(rs) /\ StandsFor(u, U!Of(rs, id)) /\ u.off.init = o
  BY <1>1, <1>2 DEF MapOf, UnitOf, U!StartOf
<1>4. PICK w : IsUnit(u, w) /\ AmongOf(w, rs, id) /\ Len(w) <= Len(rs) + 1
  BY <1>3, UnitRecords
<1>5. \A i \in 1..Len(w) : w[i] \in Records /\ w[i].id = id
  BY <1>1, <1>4 DEF AmongOf
<1>6. /\ U!Size(u.off) >= 2 /\ EqualLengths(id)
      /\ \A i \in DOMAIN u.off.seq : u.off.seq[i] > 0
      /\ \A p \in DOMAIN dese_map : p <= o \/ p >= U!Last(U!ValuesAlong(<<u.off>>)) + u.len[1].init
  BY <1>2 DEF Undisturbed
<1>7. PICK n \in Nat \ {0} :
        /\ U!Size(u.off) = n /\ Len(w) = n + 1 /\ w \in Seq(E) /\ Run(u.off)
        /\ u.off.init = w[1].log /\ u.len[1].init = w[1].len
  BY <1>4, UnitParts
<1>8. \A s \in 1..Len(u.off.seq) : u.off.seq[s] > 0
  <2>1. u.off.seq \in Seq(Int)
    BY <1>7 DEF Run
  <2> QED BY <1>6, <2>1, LenProperties
<1>9. Upward(U!Logs(w), n + 1)
  BY <1>4, <1>7, <1>8, LogsUpward
<1>10. PICK l \in Nat : l = n + 1
  OBVIOUS
<1>11. U!Logs(w) \in Seq(Int) /\ Len(U!Logs(w)) = l /\ \A i \in 1..l : U!Logs(w)[i] = w[i].log
  BY <1>7, <1>10, FieldsAre
<1>12. PICK a \in Seq(Int) : a = U!Logs(w) /\ Len(a) = l /\ \A i \in 1..l : a[i] = w[i].log /\ a[i] \in Int
  BY <1>11, ElementOfSeq
<1>13. U!arrange_queryList(w) = w
  <2>1. ASSUME NEW i \in 1..Len(w), i < Len(w) PROVE w[i] # w[i + 1]
    <3>1. i \in 1..l /\ i + 1 \in 1..l /\ i < i + 1
      BY <1>7, <1>10, <2>1
    <3>2. a[i] < a[i + 1]
      BY <1>9, <1>10, <1>12, <3>1 DEF Upward
    <3>3. a[i] # a[i + 1]
      BY <1>12, <3>1, <3>2
    <3> QED BY <1>12, <3>1, <3>3
  <2> QED BY <1>7, <2>1, NothingRepeated
<1>14. U!analyze_unit(id, u) = w /\ U!ValuesAlong(<<u.off>>) = a
  <2>1. AllOf(w, id)
    BY <1>5 DEF AllOf
  <2> QED BY <1>4, <1>12, <1>13, <2>1, UnitAnalyzed
<1>15. U!Last(a) = w[n + 1].log
  BY <1>10, <1>12 DEF U!Last
<1>16. \A i, j \in 1..(n + 1) : w[i].len = w[j].len
  BY <1>5, <1>6, <1>7 DEF EqualLengths
<1>17. n > 1
  BY <1>6, <1>7
<1>18. \A p \in DOMAIN dese_map : p <= o \/ p >= w[n + 1].log + w[1].len
  BY <1>6, <1>7, <1>14, <1>15
<1>20. n < IntLimit
  <2>1. Len(rs) \in Nat
    BY LenProperties
  <2> QED BY <1>1, <1>4, <1>7, <2>1, IntLimitAssumption
<1>19. UndisturbedAs(o, w, n)
  BY <1>2, <1>3, <1>4, <1>7, <1>9, <1>14, <1>16, <1>17, <1>18, <1>20 DEF UndisturbedAs
<1> QED BY <1>19

LEMMA AnswerTo ==
  ASSUME NEW q, NEW l, NEW p, NEW n, q - l < n, NEW a, a = U!Answer(q, l, p, n)
  PROVE  a.exist /\ a.log = l /\ a.phy = p /\ a.len = n
BY DEF U!Answer

LEMMA LookupInvUndisturbed == LookupInv => UndisturbedUnitsAnswer
<1> SUFFICES ASSUME LookupInv, reader = "open", NEW o \in DOMAIN dese_map, Undisturbed(o), NEW rs,
                    rs = U!analyze_unit(dese_map[o].id, dese_map[o].unit),
                    NEW i \in DOMAIN rs, NEW q \in rs[i].log..(rs[i].log + rs[i].len - 1),
                    i = Len(rs) \/ q < rs[i + 1].log, InRange(dese_map[o].unit, q),
                    NEW a \in globalLookup(q)
             PROVE  a.exist /\ a.log = rs[i].log /\ a.phy = rs[i].phy /\ a.len = rs[i].len
  BY DEF UndisturbedUnitsAnswer
<1>1. PICK w, n :
           /\ n \in Nat /\ n > 1 /\ n < IntLimit /\ IsUnit(dese_map[o].unit, w) /\ Len(w) = n + 1 /\ w \in Seq(E)
           /\ U!analyze_unit(dese_map[o].id, dese_map[o].unit) = w
           /\ o = w[1].log
           /\ Upward(U!Logs(w), n + 1)
           /\ \A k, j \in 1..(n + 1) : w[k].len = w[j].len
           /\ \A p \in DOMAIN dese_map : p <= o \/ p >= w[n + 1].log + w[1].len
  BY UndisturbedIs DEF UndisturbedAs
<1>2. rs = w
  BY <1>1
<1>3. PICK l \in Nat : l = n + 1 /\ n \in Nat
  BY <1>1
<1>4. i \in 1..l
  BY <1>1, <1>2, <1>3, LenProperties
<1>5. U!Logs(w) \in Seq(Int) /\ Len(U!Logs(w)) = l /\ \A k \in 1..l : U!Logs(w)[k] = w[k].log /\ w[k] \in E
  BY <1>1, <1>3, FieldsAre
<1>6. \A k \in 1..l : w[k].log \in Nat /\ w[k].len \in Nat
  BY <1>5, EntryParts
<1>7. PICK x \in Nat, y \in Nat, z \in Nat, f \in Nat :
        x = w[i].log /\ y = w[i].len /\ z = w[n + 1].log /\ f = w[1].log /\ y = w[1].len
  <2>1. 1 \in 1..l /\ n + 1 \in 1..l
    BY <1>3
  <2>2. w[i].len = w[1].len
    BY <1>1, <1>3, <1>4, <2>1
  <2> QED BY <1>4, <1>6, <2>1, <2>2
<1>8. f <= x /\ x <= z
  <2>1. \A j, k \in 1..l : j < k => w[j].log < w[k].log
    BY <1>1, <1>3, <1>5 DEF Upward
  <2>2. 1 \in 1..l /\ n + 1 \in 1..l /\ (1 = i \/ 1 < i) /\ (i = n + 1 \/ i < n + 1)
    BY <1>3, <1>4
  <2> QED BY <1>4, <1>7, <2>1, <2>2, SMTT(30)
<1>9. q \in Int /\ x <= q /\ q < x + y
  <2>1. q \in x..(x + y - 1)
    BY <1>2, <1>7
  <2> QED BY <2>1
<1>10. PICK mp : mp = dese_map
  OBVIOUS
<1>11. IsFiniteSet(DOMAIN mp) /\ DOMAIN mp \in SUBSET Nat
  <2>1. PICK recs \in Seq(E) : MapOf(dese_map, recs)
    BY ReaderHas
  <2> QED BY <1>10, <2>1 DEF MapOf
<1>12. U!Asked(mp, q) = o
  <2>1. o \in DOMAIN mp /\ o <= q /\ o \in Nat
    BY <1>1, <1>7, <1>8, <1>9, <1>10
  <2>2. PICK b : b = U!Asked(mp, q)
    OBVIOUS
  <2>3. b \in DOMAIN mp /\ b <= q /\ o <= b
    BY <1>9, <1>11, <2>1, <2>2, AskedIs
  <2>4. b \in Nat /\ (b <= o \/ b >= z + y)
    BY <1>1, <1>7, <1>10, <1>11, <2>3
  <2>5. b <= o
    BY <1>8, <1>9, <2>3, <2>4
  <2> QED BY <2>1, <2>2, <2>3, <2>4, <2>5
<1>13. PICK u : u = dese_map[o].unit
  OBVIOUS
<1>14. a \in U!look_up(u, q) /\ InRange(u, q)
  <2>1. o \in DOMAIN mp /\ ~(o > q)
    BY <1>1, <1>7, <1>8, <1>9, <1>10
  <2>2. U!dese_map_look_up(mp, q) = U!look_up(mp[U!Asked(mp, q)].unit, q)
    BY <2>1 DEF U!dese_map_look_up
  <2>3. a \in U!dese_map_look_up(mp, q)
    BY <1>10 DEF globalLookup
  <2> QED BY <1>10, <1>12, <1>13, <2>2, <2>3
<1>15. ~U!Misread(u) /\ \A s \in 1..Len(u.off.seq) : u.off.seq[s] > 0
  <2>1. ~U!Misread(u) /\ \A s \in DOMAIN u.off.seq : u.off.seq[s] > 0
    BY <1>13 DEF Undisturbed
  <2>2. u.off.seq \in Seq(Int)
    <3>1. Run(u.off)
      BY <1>1, <1>13, UnitParts
    <3> QED BY <3>1 DEF Run
  <2> QED BY <2>1, <2>2, LenProperties
<1>16. i = n + 1 \/ q < w[i + 1].log
  BY <1>1, <1>2
<1>17. PICK k \in 1..(n + 1) : a = U!Answer(q, w[i].log, w[i].phy, w[k].len)
  <2>1. n > 1 /\ n < IntLimit /\ IsUnit(u, w) /\ Len(w) = n + 1 /\ w[i].log <= q /\ i \in 1..(n + 1) /\ n \in Nat /\ q \in Int
    BY <1>1, <1>3, <1>4, <1>7, <1>9, <1>13
  <2>2. \A b \in U!look_up(u, q) : \E k \in 1..(n + 1) : b = U!Answer(q, w[i].log, w[i].phy, w[k].len)
    BY <1>14, <1>15, <1>16, <2>1, UpwardFinds, SMTT(120)
  <2> QED BY <1>14, <2>2
<1>18. w[k].len = y
  BY <1>1, <1>3, <1>4, <1>7
<1>19. q - w[i].log < y
  <2>1. q - x < y
    BY <1>9
  <2> QED BY <1>7, <2>1
<1>20. a.exist /\ a.log = w[i].log /\ a.phy = w[i].phy /\ a.len = y
  BY <1>17, <1>18, <1>19, AnswerTo
<1> QED BY <1>2, <1>7, <1>20

(* PatternUnit::look_up finds every byte of the records of a unit of three  *)
(* or more at ascending offsets, all of one length, into which no other     *)
(* unit starts and which get_ibuf_unit reads right, and gives the last of   *)
(* them to start before the byte, if the ints it computes positions with    *)
(* can hold the byte's.                                                     *)
THEOREM UndisturbedHolds == LookupSpec => []UndisturbedUnitsAnswer
<1>1. LookupInv => UndisturbedUnitsAnswer
  BY LookupInvUndisturbed
<1> QED BY <1>1, LookupInvHolds, PTL

-----------------------------------------------------------------------------
(* The records of the units of an entry, joined.                            *)

(* The records that the units of an entry decode to: all of the first's,    *)
(* and all but the first of each other's.                                   *)
JoinedUnits(units, n) == units[1] \o U!FlattenSeq([j \in 1..(n - 1) |-> Tail(units[j + 1])])

Decodes(id, entry) ==
  JoinedUnits([j \in DOMAIN entry |-> U!analyze_unit(id, entry[j])], Len(entry))

SameLengths(entry) ==
  \A j \in DOMAIN entry :
    /\ Len(U!ValuesAlong(entry[j].phy)) = U!Size(entry[j].off) + 1
    /\ Len(U!ValuesAlong(entry[j].len)) = U!Size(entry[j].off) + 1

OfOne(rs, id) ==
  /\ AllOf(rs, id)
  /\ \A i, j \in 1..Len(rs) : i < j => rs[i].phy < rs[j].phy

LEMMA NoneJoined == U!FlattenSeq([j \in 1..0 |-> 0]) = << >>
<1>1. PICK ss : ss = [j \in 1..0 |-> 0]
  OBVIOUS
<1>2. Len(ss) = 0 /\ ss = << >>
  BY <1>1
<1>3. U!FlattenSeq(ss) = ss
  BY <1>2 DEF U!FlattenSeq
<1> QED BY <1>1, <1>2, <1>3

LEMMA OneUnit ==
  ASSUME NEW T, NEW id, NEW entry, Len(entry) = 1, DOMAIN entry = 1..1, NEW w \in Seq(T),
         U!analyze_unit(id, entry[1]) = w
  PROVE  Decodes(id, entry) = w
<1>1. PICK units : units = [j \in DOMAIN entry |-> U!analyze_unit(id, entry[j])]
  OBVIOUS
<1>2. units[1] = w
  BY <1>1
<1>3. [j \in 1..(Len(entry) - 1) |-> Tail(units[j + 1])] = [j \in 1..0 |-> 0]
  <2>1. 1..(Len(entry) - 1) = {} /\ 1..0 = {}
    OBVIOUS
  <2> QED BY <2>1
<1>4. Decodes(id, entry) = w \o << >>
  BY <1>1, <1>2, <1>3, NoneJoined DEF Decodes, JoinedUnits
<1>5. w \o << >> = w
  BY ConcatEmptySeq
<1> QED BY <1>4, <1>5

LEMMA SingleDecodes ==
  ASSUME NEW rs \in Seq(E), Len(rs) = 1, NEW id, OfOne(rs, id)
  PROVE  /\ SameLengths(U!pattern_by_pid(rs))
         /\ Decodes(id, U!pattern_by_pid(rs)) = rs
<1>1. PICK r \in E : r = rs[1] /\ r.id = id
  <2>1. 1 \in 1..Len(rs)
    OBVIOUS
  <2> QED BY <2>1, ElementOfSeq DEF OfOne, AllOf
<1>2. PICK u, w : /\ u = [off |-> U!Single(r.log), phy |-> <<U!Single(r.phy)>>, len |-> <<U!Single(r.len)>>]
                  /\ w = <<r, r>>
  OBVIOUS
<1>3. PICK entry : entry = <<u>>
  OBVIOUS
<1>4. U!pattern_by_pid(rs) = entry
  BY <1>1, <1>2, <1>3 DEF U!pattern_by_pid
<1>5. Len(entry) = 1 /\ DOMAIN entry = 1..1 /\ entry[1] = u
  BY <1>3
<1>6. IsUnit(u, w)
  BY <1>2, SingleUnit
<1>7. AllOf(w, id)
  <2>1. \A i \in 1..Len(w) : w[i] = r
    BY <1>2
  <2> QED BY <1>1, <2>1 DEF AllOf
<1>8. /\ U!analyze_unit(id, u) = U!arrange_queryList(w)
      /\ Len(U!ValuesAlong(u.phy)) = U!Size(u.off) + 1
      /\ Len(U!ValuesAlong(u.len)) = U!Size(u.off) + 1
  BY <1>6, <1>7, UnitAnalyzed
<1>9. U!arrange_queryList(w) = <<r>>
  BY <1>2, TwiceOne
<1>10. <<r>> = rs
  <2>1. PICK s : s = <<r>>
    OBVIOUS
  <2>2. s \in Seq(E) /\ Len(s) = 1 /\ s[1] = r
    BY <2>1
  <2>3. \A i \in 1..Len(s) : s[i] = rs[i]
    BY <1>1, <2>2
  <2>4. s = rs
    BY <2>2, <2>3, SeqEqual
  <2> QED BY <2>1, <2>4
<1>11. U!analyze_unit(id, entry[1]) = rs
  BY <1>5, <1>8, <1>9, <1>10
<1>12. Decodes(id, entry) = rs
  BY <1>5, <1>11, OneUnit
<1>13. SameLengths(entry)
  BY <1>5, <1>8 DEF SameLengths
<1> QED BY <1>4, <1>12, <1>13

(* Unit u is built of the z + 1 records w of rs that start behind place st,  *)
(* where element j of the pattern es lies.                                   *)
BuiltAt(rs, es, at, n, m, j, st, z, w, u) ==
  /\ m \in Nat \ {0} /\ Len(rs) = m + 1 /\ Covers(es, U!Logs(rs), at, n, m) /\ j \in 1..n
  /\ st = at[j] /\ z = U!Size(es[j])
  /\ w = RecSlice(rs, st, z) /\ u = U!build_unit(es[j], w)

(* These are z + 1 records of rs, and u decodes to them.                    *)
DecodedAt(rs, id, m, st, z, w, u) ==
  /\ st \in Nat /\ z \in Nat \ {0} /\ st + z <= m
  /\ w \in Seq(E) /\ Len(w) = z + 1 /\ \A i \in 1..(z + 1) : w[i] = rs[st + i]
  /\ U!analyze_unit(id, u) = w
  /\ Len(U!ValuesAlong(u.phy)) = U!Size(u.off) + 1
  /\ Len(U!ValuesAlong(u.len)) = U!Size(u.off) + 1

(* A stretch of ascending records decodes to itself.                        *)
LEMMA WindowDecodes ==
  ASSUME NEW rs \in Seq(E), NEW m, NEW id, OfOne(rs, id), NEW es, NEW at, NEW n, NEW j,
         NEW st, NEW z, NEW w, NEW u, BuiltAt(rs, es, at, n, m, j, st, z, w, u)
  PROVE  DecodedAt(rs, id, m, st, z, w, u)
<1>0. /\ m \in Nat \ {0} /\ Len(rs) = m + 1 /\ Covers(es, U!Logs(rs), at, n, m) /\ j \in 1..n
      /\ st = at[j] /\ z = U!Size(es[j])
      /\ w = RecSlice(rs, st, z) /\ u = U!build_unit(es[j], w)
  BY DEF BuiltAt
<1>1. /\ st \in Nat /\ z \in Nat \ {0} /\ st + z <= m
      /\ \A i \in 1..(z + 1) : w[i] = rs[st + i]
      /\ IsUnit(u, w)
  BY <1>0, WindowUnit
<1>2. w \in Seq(E) /\ Len(w) = z + 1
  <2>1. u.off = es[j]
    BY <1>0 DEF U!build_unit
  <2> QED BY <1>0, <1>1, <2>1 DEF IsUnit
<1>3. PICK l \in Nat : l = z + 1
  BY <1>1
<1>4. \A i \in 1..l : w[i] = rs[st + i] /\ st + i \in 1..Len(rs)
  BY <1>0, <1>1, <1>3
<1>5. AllOf(w, id)
  BY <1>2, <1>3, <1>4 DEF OfOne, AllOf
<1>6. ASSUME NEW i \in 1..Len(w), i < Len(w) PROVE w[i] # w[i + 1]
  <2>1. i \in 1..l /\ i + 1 \in 1..l
    BY <1>2, <1>3, <1>6
  <2>2. PICK x \in 1..Len(rs), y \in 1..Len(rs) : x = st + i /\ y = st + (i + 1) /\ w[i] = rs[x] /\ w[i + 1] = rs[y]
    BY <1>4, <2>1
  <2>3. x < y
    BY <1>1, <2>2
  <2>4. rs[x].phy < rs[y].phy
    BY <2>3 DEF OfOne
  <2>5. rs[x].phy \in Nat
    BY ElementOfSeq, EntryParts
  <2>6. rs[x].phy # rs[y].phy
    BY <2>4, <2>5
  <2> QED BY <2>2, <2>6
<1>7. U!arrange_queryList(w) = w
  BY <1>2, <1>6, NothingRepeated
<1>8. /\ U!analyze_unit(id, u) = U!arrange_queryList(w)
      /\ Len(U!ValuesAlong(u.phy)) = U!Size(u.off) + 1
      /\ Len(U!ValuesAlong(u.len)) = U!Size(u.off) + 1
  BY <1>1, <1>5, UnitAnalyzed
<1> QED BY <1>1, <1>2, <1>7, <1>8 DEF DecodedAt

(* Windows joined, each without the first record but for the first window.  *)
Window(w, rs, st, z) ==
  /\ st \in Nat /\ z \in Nat \ {0} /\ w \in Seq(E) /\ Len(w) = z + 1
  /\ \A i \in 1..(z + 1) : w[i] = rs[st + i]

LEMMA TailOfWindow ==
  ASSUME NEW w, NEW rs, NEW st, NEW z, Window(w, rs, st, z)
  PROVE  /\ Tail(w) \in Seq(E) /\ Len(Tail(w)) = z
         /\ \A i \in 1..z : Tail(w)[i] = rs[st + 1 + i]
<1>1. /\ st \in Nat /\ z \in Nat \ {0} /\ w \in Seq(E) /\ Len(w) = z + 1
      /\ \A i \in 1..(z + 1) : w[i] = rs[st + i]
  BY DEF Window
<1>2. w # << >>
  BY <1>1
<1>3. PICK t : t = Tail(w)
  OBVIOUS
<1>4. t \in Seq(E) /\ Len(t) = z /\ \A i \in 1..z : t[i] = w[i + 1]
  <2>1. t \in Seq(E) /\ Len(t) = Len(w) - 1 /\ \A i \in 1..Len(t) : t[i] = w[i + 1]
    BY <1>1, <1>2, <1>3, HeadTailProperties
  <2>2. Len(t) = z
    BY <1>1, <2>1
  <2> QED BY <2>1, <2>2
<1>5. ASSUME NEW i \in 1..z PROVE t[i] = rs[st + 1 + i]
  <2>1. i + 1 \in 1..(z + 1) /\ st + (i + 1) = st + 1 + i
    BY <1>1
  <2> QED BY <1>1, <1>4, <2>1
<1> QED BY <1>3, <1>4, <1>5

(* The windows of list ws lie one after the other in rs.                    *)
WindowRow(ws, rs, at, n, m) ==
  /\ n \in Nat \ {0} /\ m \in Nat /\ at[1] = 0 /\ rs \in Seq(E) /\ Len(rs) = m + 1
  /\ \A j \in 1..n : \E z : /\ Window(ws[j], rs, at[j], z)
                            /\ IF j = n THEN at[j] + z = m ELSE at[j] + z = at[j + 1]

LEMMA Cancelled == \A a, b, c, d \in Nat : (a + c) + b = d + c => a + b = d
OBVIOUS

LEMMA WindowsJoined ==
  ASSUME NEW ws, NEW rs, NEW at, NEW n, NEW m, WindowRow(ws, rs, at, n, m), n # 1
  PROVE  ws[1] \o U!FlattenSeq([j \in 1..(n - 1) |-> Tail(ws[j + 1])]) = rs
<1>1. PICK k \in Nat \ {0} : k = n - 1 /\ n = k + 1
  <2>1. n - 1 \in Nat \ {0} /\ n = (n - 1) + 1
    BY DEF WindowRow
  <2> QED BY <2>1
<1>2. m \in Nat /\ at[1] = 0 /\ rs \in Seq(E) /\ Len(rs) = m + 1
  BY DEF WindowRow
<1>3. PICK z : Window(ws[1], rs, at[1], z) /\ at[1] + z = at[2]
  <2>1. 1 \in 1..n /\ 1 # n /\ 1 + 1 = 2
    BY <1>1
  <2> QED BY <2>1 DEF WindowRow
<1>4. z \in Nat \ {0} /\ ws[1] \in Seq(E) /\ Len(ws[1]) = z + 1 /\ at[2] = z
      /\ \A i \in 1..(z + 1) : ws[1][i] = rs[i]
  <2>1. /\ z \in Nat \ {0} /\ ws[1] \in Seq(E) /\ Len(ws[1]) = z + 1
        /\ \A i \in 1..(z + 1) : ws[1][i] = rs[at[1] + i]
    BY <1>3 DEF Window
  <2>2. \A i \in 1..(z + 1) : at[1] + i = i
    BY <1>2
  <2> QED BY <1>2, <1>3, <2>1, <2>2
<1> DEFINE tail(j) == Tail(ws[j + 1])
<1>5. PICK ss, pos : /\ ss = [j \in 1..k |-> tail(j)]
                     /\ pos = [j \in 1..k |-> at[j + 1] - z]
  OBVIOUS
<1>6. ASSUME NEW j \in 1..k
      PROVE  /\ ss[j] \in Seq(E)
             /\ \A i \in 1..Len(ss[j]) : ss[j][i] = rs[at[j + 1] + 1 + i]
             /\ at[j + 1] \in Nat /\ Len(ss[j]) \in Nat
             /\ IF j = k THEN at[j + 1] + Len(ss[j]) = m ELSE at[j + 1] + Len(ss[j]) = at[(j + 1) + 1]
  <2>1. PICK l \in 1..n : l = j + 1 /\ (l = n <=> j = k)
    <3>1. j + 1 \in 1..n /\ (j + 1 = n <=> j = k)
      BY <1>1
    <3> QED BY <3>1
  <2>2. PICK y : /\ Window(ws[l], rs, at[l], y)
                 /\ IF l = n THEN at[l] + y = m ELSE at[l] + y = at[l + 1]
    BY DEF WindowRow
  <2>3. y \in Nat /\ at[l] \in Nat
    BY <2>2 DEF Window
  <2>4. /\ Tail(ws[l]) \in Seq(E) /\ Len(Tail(ws[l])) = y
        /\ \A i \in 1..y : Tail(ws[l])[i] = rs[at[l] + 1 + i]
    BY <2>2, TailOfWindow
  <2>5. ss[j] = Tail(ws[l])
    BY <1>5, <2>1
  <2> QED BY <2>1, <2>2, <2>3, <2>4, <2>5
<1> HIDE DEF tail
<1>7. Len(ss) = k
  BY <1>5
<1> DEFINE Late == {j \in 1..k : ~(z <= at[j + 1])}
<1>8. Late = {}
  <2> SUFFICES ASSUME Late # {} PROVE FALSE
    OBVIOUS
  <2>1. PICK j \in Late : \A b \in Late : j <= b
    <3>1. Late \in SUBSET Nat
      OBVIOUS
    <3> HIDE DEF Late
    <3> QED BY <3>1, LeastNatural
  <2>2. j \in 1..k /\ ~(z <= at[j + 1])
    BY <2>1
  <2>3. j # 1
    <3>1. 1 + 1 = 2 /\ z <= z
      BY <1>4
    <3> QED BY <1>4, <2>2, <3>1
  <2>4. PICK p \in 1..k : p + 1 = j /\ p # k /\ ~(j <= p)
    <3>1. j - 1 \in 1..k /\ (j - 1) + 1 = j /\ j - 1 # k /\ ~(j <= j - 1)
      BY <2>2, <2>3
    <3> QED BY <3>1
  <2>5. p \notin Late
    <3> HIDE DEF Late
    <3> QED BY <2>1, <2>4
  <2>6. z <= at[p + 1]
    BY <2>5
  <2>7. at[p + 1] + Len(ss[p]) = at[(p + 1) + 1] /\ at[p + 1] \in Nat /\ Len(ss[p]) \in Nat
    BY <1>6, <2>4
  <2> QED BY <1>4, <2>2, <2>4, <2>6, <2>7
<1>9. ASSUME NEW j \in 1..k PROVE pos[j] \in Nat /\ pos[j] + z = at[j + 1]
  <2>1. z <= at[j + 1] /\ at[j + 1] \in Nat
    BY <1>6, <1>8
  <2>2. pos[j] = at[j + 1] - z
    BY <1>5
  <2> QED BY <1>4, <2>1, <2>2
<1> HIDE DEF Late
<1>10. Laid(ss, pos, k, E)
  <2>1. pos[1] = 0
    <3>1. 1 \in 1..k /\ 1 + 1 = 2
      OBVIOUS
    <3>2. pos[1] + z = z /\ pos[1] \in Nat
      BY <1>4, <1>9, <3>1
    <3> QED BY <1>4, <3>2
  <2>2. ASSUME NEW j \in 1..k, j # k PROVE pos[j] + Len(ss[j]) = pos[j + 1]
    <3>1. PICK l \in 1..k : l = j + 1
      <4>1. j + 1 \in 1..k
        BY <2>2
      <4> QED BY <4>1
    <3>2. at[j + 1] + Len(ss[j]) = at[l + 1] /\ Len(ss[j]) \in Nat
      BY <1>6, <2>2, <3>1
    <3>3. pos[j] \in Nat /\ pos[l] \in Nat /\ pos[j] + z = at[j + 1] /\ pos[l] + z = at[l + 1]
      BY <1>9
    <3>4. PICK p1 \in Nat, p2 \in Nat, y \in Nat, c \in Nat :
            p1 = pos[j] /\ p2 = pos[l] /\ y = Len(ss[j]) /\ c = z /\ (p1 + c) + y = p2 + c
      BY <1>4, <3>2, <3>3, SMTT(30)
    <3>6. p1 \in Nat /\ p2 \in Nat /\ y \in Nat /\ c \in Nat /\ (p1 + c) + y = p2 + c
      BY <3>4
    <3>5. p1 + y = p2
      BY ONLY <3>6, Cancelled
    <3> QED BY <3>1, <3>4, <3>5
  <2> QED BY <1>6, <1>7, <1>9, <2>1, <2>2 DEF Laid
<1>11. PICK f : f = U!FlattenSeq(ss)
  OBVIOUS
<1>12. /\ f \in Seq(E) /\ Len(f) = pos[k] + Len(ss[k])
       /\ \A j \in 1..k : \A i \in 1..Len(ss[j]) : f[pos[j] + i] = ss[j][i]
  <2>1. /\ U!FlattenSeq(ss) \in Seq(E) /\ Len(U!FlattenSeq(ss)) = pos[k] + Len(ss[k])
        /\ \A j \in 1..k : \A i \in 1..Len(ss[j]) :
             pos[j] + i \in 1..Len(U!FlattenSeq(ss)) /\ U!FlattenSeq(ss)[pos[j] + i] = ss[j][i]
    BY <1>10, FlatAt
  <2> QED BY <1>11, <2>1
<1>13. PICK y \in Nat : y = Len(f) /\ y + z = m
  <2>1. k \in 1..k
    OBVIOUS
  <2>2. at[k + 1] + Len(ss[k]) = m /\ Len(ss[k]) \in Nat
    BY <1>6, <2>1
  <2>3. pos[k] \in Nat /\ pos[k] + z = at[k + 1]
    BY <1>9, <2>1
  <2>4. (pos[k] + Len(ss[k])) + z = m
    BY <1>4, <2>2, <2>3
  <2> QED BY <1>12, <2>2, <2>3, <2>4
<1>14. ASSUME NEW i \in 1..y PROVE f[i] = rs[(z + 1) + i]
  <2>1. i \in Nat \ {0} /\ i <= pos[k] + Len(ss[k])
    BY <1>12, <1>13
  <2>2. \E j \in 1..k : \E x \in 1..Len(ss[j]) : i = pos[j] + x
    BY <1>10, <2>1, LaidPlace
  <2>3. PICK j \in 1..k : \E x \in 1..Len(ss[j]) : i = pos[j] + x
    BY <2>2
  <2>4. PICK x \in 1..Len(ss[j]) : i = pos[j] + x
    BY <2>3
  <2>5. f[i] = ss[j][x] /\ ss[j][x] = rs[at[j + 1] + 1 + x]
    BY <1>6, <1>12, <2>4
  <2>6. at[j + 1] + 1 + x = (z + 1) + i
    <3>1. pos[j] \in Nat /\ pos[j] + z = at[j + 1] /\ x \in Nat
      BY <1>6, <1>9
    <3>2. PICK p \in Nat, v \in Nat, c \in Nat : p = pos[j] /\ v = x /\ c = z /\ at[j + 1] = p + c
      BY <1>4, <3>1
    <3>3. (p + c) + 1 + v = (c + 1) + (p + v)
      OBVIOUS
    <3> QED BY <2>4, <3>2, <3>3
  <2> QED BY <2>5, <2>6
<1>15. PICK b \in Nat, s \in Seq(E) : b = z + 1 /\ s = ws[1] /\ Len(s) = b /\ \A i \in 1..b : s[i] = rs[i]
  BY <1>4
<1>16. PICK g : g = s \o f
  OBVIOUS
<1>17. /\ g \in Seq(E) /\ Len(g) = b + y
       /\ \A i \in 1..b : g[i] = s[i]
       /\ \A i \in 1..y : g[b + i] = f[i]
  <2>1. /\ s \o f \in Seq(E) /\ Len(s \o f) = b + y
        /\ \A i \in 1..b : (s \o f)[i] = s[i]
        /\ \A i \in 1..y : (s \o f)[b + i] = f[i]
    <3>1. s \in Seq(E) /\ f \in Seq(E) /\ b \in Nat /\ y \in Nat /\ b = Len(s) /\ y = Len(f)
      BY <1>12, <1>13, <1>15
    <3> QED BY ONLY <3>1, ListParts
  <2> QED BY <1>16, <2>1
<1>18. ASSUME NEW i \in 1..Len(g) PROVE g[i] = rs[i]
  <2>1. CASE i <= b
    <3>1. i \in 1..b
      BY <1>17, <2>1
    <3> QED BY <1>15, <1>17, <3>1
  <2>2. CASE ~(i <= b)
    <3>1. PICK x \in 1..y : i = b + x
      <4>1. i - b \in 1..y /\ i = b + (i - b)
        BY <1>17, <2>2
      <4> QED BY <4>1
    <3> QED BY <1>14, <1>15, <1>17, <3>1
  <2> QED BY <2>1, <2>2
<1>19. Len(g) = Len(rs)
  <2>1. b + y = m + 1
    BY <1>4, <1>13, <1>15
  <2> QED BY <1>2, <1>17, <2>1
<1>20. g = rs
  BY <1>2, <1>17, <1>18, <1>19, SeqEqual
<1>21. [j \in 1..(n - 1) |-> Tail(ws[j + 1])] = ss
  BY <1>1, <1>5 DEF tail
<1> QED BY <1>11, <1>15, <1>16, <1>20, <1>21

-----------------------------------------------------------------------------
(* What was flushed is decoded.                                             *)

LEMMA ManyDecode ==
  ASSUME NEW rs \in Seq(E), NEW m \in Nat \ {0}, Len(rs) = m + 1, NEW id, OfOne(rs, id)
  PROVE  /\ SameLengths(U!pattern_by_pid(rs))
         /\ Decodes(id, U!pattern_by_pid(rs)) = rs
<1>1. PICK es : es = U!build_off_pat(U!Logs(rs))
  OBVIOUS
<1>2. PICK at, n : Covers(es, U!Logs(rs), at, n, m)
  <2>1. PICK v \in Seq(Int) : v = U!Logs(rs) /\ Len(v) = m + 1
    <3>1. m + 1 \in Nat
      OBVIOUS
    <3> QED BY <3>1, FieldsAre
  <2>2. Encodes(es, v)
    BY <1>1, <2>1, Built
  <2>3. \E at, n : Covers(es, v, at, n, m)
    BY <2>1, <2>2, CoversOf
  <2> QED BY <2>1, <2>3
<1>3. PICK entry : entry = U!pattern_by_pid(rs)
  OBVIOUS
<1>4. /\ n \in Nat \ {0} /\ Len(entry) = n /\ DOMAIN entry = 1..n
      /\ \A j \in 1..n : entry[j] = U!build_unit(es[j], RecSlice(rs, at[j], U!Size(es[j])))
  <2>1. /\ n \in Nat \ {0} /\ Len(U!pattern_by_pid(rs)) = n
        /\ \A j \in 1..n : U!pattern_by_pid(rs)[j] =
             U!build_unit(es[j], RecSlice(rs, at[j], U!Size(es[j])))
    BY <1>1, <1>2, EntryIs
  <2>2. DOMAIN U!pattern_by_pid(rs) = 1..Len(U!pattern_by_pid(rs))
    <3>1. m \in Nat
      OBVIOUS
    <3> QED BY <3>1, UnitsStand
  <2> QED BY <1>3, <2>1, <2>2
<1>5. PICK units : units = [j \in DOMAIN entry |-> U!analyze_unit(id, entry[j])]
  OBVIOUS
<1>6. ASSUME NEW j \in 1..n
      PROVE  /\ Window(units[j], rs, at[j], U!Size(es[j]))
             /\ Len(U!ValuesAlong(entry[j].phy)) = U!Size(entry[j].off) + 1
             /\ Len(U!ValuesAlong(entry[j].len)) = U!Size(entry[j].off) + 1
  <2>1. PICK st, z : st = at[j] /\ z = U!Size(es[j])
    OBVIOUS
  <2>2. PICK w : w = RecSlice(rs, st, z)
    OBVIOUS
  <2>3. PICK u : u = U!build_unit(es[j], w)
    OBVIOUS
  <2>4. /\ st \in Nat /\ z \in Nat \ {0} /\ st + z <= m
        /\ w \in Seq(E) /\ Len(w) = z + 1 /\ \A i \in 1..(z + 1) : w[i] = rs[st + i]
        /\ U!analyze_unit(id, u) = w
        /\ Len(U!ValuesAlong(u.phy)) = U!Size(u.off) + 1
        /\ Len(U!ValuesAlong(u.len)) = U!Size(u.off) + 1
    <3>1. BuiltAt(rs, es, at, n, m, j, st, z, w, u)
      BY <1>2, <2>1, <2>2, <2>3 DEF BuiltAt
    <3>2. DecodedAt(rs, id, m, st, z, w, u)
      BY <3>1, WindowDecodes
    <3> QED BY <3>2 DEF DecodedAt
  <2>5. entry[j] = u
    BY <1>4, <2>1, <2>2, <2>3
  <2>6. units[j] = w
    BY <1>4, <1>5, <2>4, <2>5
  <2>7. Window(w, rs, st, z)
    BY <2>4 DEF Window
  <2> QED BY <2>1, <2>4, <2>5, <2>6, <2>7
<1>7. SameLengths(entry)
  BY <1>4, <1>6 DEF SameLengths
<1>8. at[1] = 0
  BY <1>2 DEF Covers, EncodesAt
<1>9. CASE n = 1
  <2>1. PICK j \in 1..n : j = 1 /\ j = n
    BY <1>9
  <2>2. PICK z : z = U!Size(es[j])
    OBVIOUS
  <2>3. Window(units[1], rs, at[1], z)
    BY <1>6, <2>1, <2>2
  <2>4. at[1] + z = m /\ z \in Nat
    BY <1>2, <2>1, <2>2, ElementOfStretch
  <2>5. z = m
    BY <1>8, <2>4
  <2>6. PICK w \in Seq(E) : w = units[1] /\ Len(w) = m + 1 /\ \A i \in 1..(m + 1) : w[i] = rs[at[1] + i]
    BY <2>3, <2>5 DEF Window
  <2>7. \A i \in 1..Len(w) : w[i] = rs[i]
    <3>1. \A i \in 1..(m + 1) : at[1] + i = i
      BY <1>8
    <3> QED BY <2>6, <3>1
  <2>8. w = rs
    BY <2>6, <2>7, SeqEqual
  <2>9. U!analyze_unit(id, entry[1]) = rs
    BY <1>4, <1>5, <1>9, <2>6, <2>8
  <2>10. Len(entry) = 1 /\ DOMAIN entry = 1..1
    BY <1>4, <1>9
  <2>11. Decodes(id, entry) = rs
    BY <2>9, <2>10, OneUnit
  <2> QED BY <1>3, <1>7, <2>11
<1>10. CASE n # 1
  <2>1. ASSUME NEW j \in 1..n
        PROVE  \E z : /\ Window(units[j], rs, at[j], z)
                      /\ IF j = n THEN at[j] + z = m ELSE at[j] + z = at[j + 1]
    <3>1. Window(units[j], rs, at[j], U!Size(es[j]))
      BY <1>6
    <3>2. IF j = n THEN at[j] + U!Size(es[j]) = m ELSE at[j] + U!Size(es[j]) = at[j + 1]
      BY <1>2, ElementOfStretch
    <3> QED BY <3>1, <3>2
  <2>2. WindowRow(units, rs, at, n, m)
    BY <1>4, <1>8, <2>1 DEF WindowRow
  <2>3. units[1] \o U!FlattenSeq([j \in 1..(n - 1) |-> Tail(units[j + 1])]) = rs
    BY <1>10, <2>2, WindowsJoined
  <2>4. JoinedUnits(units, n) = rs
    BY <2>3 DEF JoinedUnits
  <2>5. Decodes(id, entry) = JoinedUnits(units, n)
    BY <1>4, <1>5 DEF Decodes
  <2> QED BY <1>3, <1>7, <2>4, <2>5
<1> QED BY <1>9, <1>10

LEMMA EntryDecodes ==
  ASSUME LookupInv, NEW n \in DOMAIN flushed, NEW i \in DOMAIN dropping[n]
  PROVE  /\ SameLengths(dropping[n][i].entry)
         /\ U!Of(flushed[n], dropping[n][i].id) =
              Decodes(dropping[n][i].id, dropping[n][i].entry)
<1>0. PICK id, entry : id = dropping[n][i].id /\ entry = dropping[n][i].entry
  OBVIOUS
<1>1. PICK rs \in Seq(E) : rs = flushed[n] /\ n \in 1..Len(flushed)
  <2>1. PICK T : T = Seq(E)
    OBVIOUS
  <2>2. flushed \in Seq(T)
    BY <2>1 DEF LookupInv
  <2>3. n \in 1..Len(flushed)
    BY <2>2, LenProperties
  <2>4. flushed[n] \in T
    BY <2>2, <2>3, ElementOfSeq
  <2> QED BY <2>1, <2>3, <2>4
<1>2. rs # << >> /\ dropping[n] = U!Encoded(rs) /\ Rising(rs, Len(rs))
  BY <1>1 DEF LookupInv, OneFlush
<1>3. id \in IdsOf(rs) /\ entry = U!pattern_by_pid(U!Of(rs, id))
  <2>1. PICK es : es = U!Encoded(rs)
    OBVIOUS
  <2>2. PICK k : DOMAIN es = 1..k /\ \A j \in 1..k :
           es[j].id \in IdsOf(rs) /\ es[j].entry = U!pattern_by_pid(U!Of(rs, es[j].id))
    BY <2>1, EncodedParts
  <2>3. i \in 1..k /\ id = es[i].id /\ entry = es[i].entry
    BY <1>0, <1>2, <2>1, <2>2
  <2> QED BY <2>2, <2>3
<1>4. PICK recs : recs = U!Of(rs, id)
  OBVIOUS
<1>5. /\ recs \in Seq(E) /\ Len(recs) \in Nat \ {0}
      /\ \A k \in 1..Len(recs) : recs[k].id = id
  <2>1. /\ U!Of(rs, id) \in Seq(E) /\ Len(U!Of(rs, id)) \in Nat \ {0}
        /\ \A k \in 1..Len(U!Of(rs, id)) :
              \E j \in 1..Len(rs) : U!Of(rs, id)[k] = rs[j] /\ rs[j].id = id
    BY <1>3, OfParts
  <2> QED BY <1>4, <2>1
<1>6. OfOne(recs, id)
  <2>1. \A k, j \in 1..Len(recs) : k < j => recs[k].phy < recs[j].phy
    BY <1>2, <1>4, OfRising
  <2> QED BY <1>5, <2>1 DEF OfOne, AllOf
<1>7. SameLengths(U!pattern_by_pid(recs)) /\ Decodes(id, U!pattern_by_pid(recs)) = recs
  <2>1. CASE Len(recs) = 1
    BY <1>5, <1>6, <2>1, SingleDecodes
  <2>2. CASE Len(recs) # 1
    <3>1. PICK m \in Nat \ {0} : Len(recs) = m + 1
      <4>1. Len(recs) - 1 \in Nat \ {0} /\ Len(recs) = (Len(recs) - 1) + 1
        BY <1>5, <2>2
      <4> QED BY <4>1
    <3> QED BY <1>5, <1>6, <3>1, ManyDecode
  <2> QED BY <2>1, <2>2
<1> QED BY <1>0, <1>1, <1>3, <1>4, <1>7

LEMMA LookupInvLossless == LookupInv => EncodingIsLossless
<1> SUFFICES ASSUME LookupInv PROVE EncodingIsLossless
  OBVIOUS
<1>1. \A n \in DOMAIN flushed : \A i \in DOMAIN dropping[n] :
        /\ SameLengths(dropping[n][i].entry)
        /\ U!Of(flushed[n], dropping[n][i].id) =
             Decodes(dropping[n][i].id, dropping[n][i].entry)
  BY EntryDecodes
<1> QED BY <1>1 DEF EncodingIsLossless, SameLengths, Decodes, JoinedUnits

(* PatternIndex::pattern_detection loses no record of a flush and invents   *)
(* none: analyze_unit's records of the units of a process, one unit after   *)
(* another, are those it wrote, in their order, and the three patterns of a *)
(* unit have the same number of values.                                     *)
THEOREM NoRecordLost == LookupSpec => []EncodingIsLossless
<1>1. LookupInv => EncodingIsLossless
  BY LookupInvLossless
<1> QED BY <1>1, LookupInvHolds, PTL

LEMMA LookupInvTypes == LookupInv => LookupTypeOK
<1> SUFFICES ASSUME LookupInv PROVE LookupTypeOK
  OBVIOUS
<1>1. H!IsIndex(Pids, hostIndex, next_slot) /\ physical_offsets \in [Pids -> Nat]
  <2>1. /\ next_slot \in Nat \ {0} /\ hostIndex \in [1..(next_slot - 1) -> E]
        /\ physical_offsets \in [Pids -> Nat]
    BY DEF LookupInv, HostInv
  <2>2. 1..(next_slot - 1) \subseteq 1..next_slot
    BY <2>1
  <2> QED BY <2>1, <2>2 DEF H!IsIndex, H!Entries, E
<1>2. ASSUME NEW n \in DOMAIN flushed
      PROVE  flushed[n] # << >> /\ \A i \in DOMAIN flushed[n] : flushed[n][i] \in H!Entry(Pids)
  <2>1. PICK T : T = Seq(E)
    OBVIOUS
  <2>2. flushed \in Seq(T)
    BY <2>1 DEF LookupInv
  <2>3. n \in 1..Len(flushed)
    BY <2>2, LenProperties
  <2>4. flushed[n] \in T
    BY <2>2, <2>3, ElementOfSeq
  <2>5. flushed[n] # << >>
    BY <2>3 DEF LookupInv, OneFlush
  <2>6. \A i \in DOMAIN flushed[n] : flushed[n][i] \in E
    BY <2>1, <2>4, LenProperties, ElementOfSeq
  <2> QED BY <2>5, <2>6 DEF E
<1>3. ASSUME NEW o \in DOMAIN dese_map
      PROVE  U!StartOf(dese_map[o]) = o /\ dese_map[o].id \in Pids
  <2>1. reader = "open" /\ DOMAIN dese_map # {}
    BY DEF LookupInv
  <2>2. PICK rs \in Seq(E) : MapOf(dese_map, rs)
    BY <2>1, ReaderHas
  <2>3. U!StartOf(dese_map[o]) = o /\ UnitOf(dese_map[o], rs)
    BY <2>2 DEF MapOf
  <2>4. PICK x : x = dese_map[o]
    OBVIOUS
  <2>5. x.id \in Pids
    BY <2>3, <2>4, StartsAre
  <2> QED BY <2>3, <2>4, <2>5
<1>4. /\ Len(dropping) = Len(flushed) /\ Len(flushed) <= MaxFlushes
      /\ reader \in {"none", "open", "died"}
  BY DEF LookupInv
<1> QED BY <1>1, <1>2, <1>3, <1>4 DEF LookupTypeOK

(* hostIndex, the records flushed and the reader's dese_map are of their    *)
(* types in every state of a dropping's life.                               *)
THEOREM LookupTypeCorrect == LookupSpec => []LookupTypeOK
<1>1. LookupInv => LookupTypeOK
  BY LookupInvTypes
<1> QED BY <1>1, LookupInvHolds, PTL

=============================================================================
