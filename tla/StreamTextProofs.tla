--------------------------- MODULE StreamTextProofs ---------------------------
(***************************************************************************)
(* Theorems about what a streaming client is sent, for every answer, every *)
(* list of stop sequences and every way the pipe cuts the text.            *)
(*                                                                         *)
(* All texts of the stream are slices of two: of the answer and of what    *)
(* the worker writes after its greeting.  So the state is a few positions  *)
(* in these, and where a needle lies in a slice is where it lies in them.  *)
(***************************************************************************)
EXTENDS StreamText, SequenceTheorems, WellFoundedInduction, TLAPS

(* The least and the greatest. *)

LEMMA Least ==
  ASSUME NEW T \in SUBSET Nat, T # {}
  PROVE  /\ Min(T) \in T
         /\ \A i \in T : Min(T) <= i
<1>1. PICK x \in T : \A y \in T : <<y, x>> \notin OpToRel(<, Nat)
  BY NatLessThanWellFounded, WFMin
<1>2. \A y \in Nat : y < x => <<y, x>> \in OpToRel(<, Nat)
  BY DEF OpToRel
<1>3. \A y \in T : x <= y
  <2>1. \A y \in T : ~(y < x)
    BY <1>1, <1>2, Zenon
  <2> QED
    BY <2>1
<1> QED
  BY <1>3 DEF Min

LEMMA SafeLength ==
  ASSUME NEW n \in Nat, NEW keep \in Nat
  PROVE  Max({0, n - keep}) = IF keep <= n THEN n - keep ELSE 0
<1>1. \E x \in {0, n - keep} : \A y \in {0, n - keep} : x >= y
  OBVIOUS
<1>2. /\ Max({0, n - keep}) \in {0, n - keep}
      /\ \A y \in {0, n - keep} : Max({0, n - keep}) >= y
  BY <1>1 DEF Max
<1> QED
  BY <1>2

\* The texts of a finite set are of bounded length.
LEMMA Bounded ==
  ASSUME NEW S, NEW needles \in SUBSET Seq(S), IsFiniteSet(needles)
  PROVE  \E b \in Nat : \A s \in needles : Len(s) <= b
<1>1. PICK list \in Seq(needles) : \A s \in needles : \E i \in 1..Len(list) : list[i] = s
  BY DEF IsFiniteSet
<1> DEFINE Below(n) == \E b \in Nat : \A i \in 1..n : Len(list[i]) <= b
           Bad == {n \in 0..Len(list) : ~Below(n)}
<1>2. Len(list) \in Nat /\ \A i \in 1..Len(list) : list[i] \in needles
  BY <1>1, LenProperties, ElementOfSeq
<1>3. Below(0)
  <2>1. \A k \in 1..0 : Len(list[k]) <= 0
    OBVIOUS
  <2> QED
    BY <2>1
<1>4. ASSUME NEW n \in 1..Len(list), Below(n - 1) PROVE Below(n)
  <2>1. PICK b \in Nat : \A i \in 1..n - 1 : Len(list[i]) <= b
    BY <1>4
  <2>2. \A i \in 1..n : Len(list[i]) \in Nat
    BY <1>2, LenProperties
  <2>3. b + Len(list[n]) \in Nat
    BY <2>2
  <2>4. \A i \in 1..n : Len(list[i]) <= b + Len(list[n])
    BY <2>1, <2>2
  <2> QED
    BY <2>3, <2>4
<1>5. Bad = {}
  <2>1. SUFFICES ASSUME Bad # {} PROVE FALSE
    OBVIOUS
  <2>2. Bad \in SUBSET Nat
    BY <1>2
  <2>3. PICK n \in Bad : \A k \in Bad : n <= k
    <3> HIDE DEF Bad
    <3> QED
      BY <2>1, <2>2, Least
  <2>4. n \in 0..Len(list) /\ ~Below(n)
    OBVIOUS
  <2>5. n # 0 /\ n - 1 \in 0..Len(list) /\ n - 1 \notin Bad
    <3> HIDE DEF Bad, Below
    <3> QED
      BY <1>2, <1>3, <2>2, <2>3, <2>4
  <2>6. Below(n - 1)
    BY <2>5
  <2> QED
    <3> HIDE DEF Bad, Below
    <3> QED
      BY <1>2, <1>4, <2>4, <2>5, <2>6
<1>6. Below(Len(list))
  <2>1. Len(list) \in 0..Len(list)
    BY <1>2
  <2> HIDE DEF Below
  <2> QED
    BY <1>5, <2>1
<1> QED
  BY <1>1, <1>6

\* HoldBack covers every beginning of a needle but the whole of it.
LEMMA HoldBackCovers ==
  ASSUME NEW S, NEW needles \in SUBSET Seq(S), IsFiniteSet(needles)
  PROVE  /\ HoldBack(needles) \in Nat
         /\ \A s \in needles : Len(s) <= HoldBack(needles) + 1
<1> DEFINE Lens == {Len(s) : s \in needles} \cup {1}
           Bounds == {b \in Nat : \A n \in Lens : n <= b}
<1>1. Lens \subseteq Nat
  BY LenProperties
<1>2. PICK b \in Nat : \A s \in needles : Len(s) <= b
  BY Bounded
<1>3. b + 1 \in Bounds
  BY <1>2, LenProperties
<1>4. PICK m \in Bounds : \A k \in Bounds : m <= k
  <2>1. Bounds \in SUBSET Nat /\ Bounds # {}
    BY <1>3
  <2> QED
    BY <2>1, Least
<1>5. m \in Lens
  <2>1. SUFFICES ASSUME m \notin Lens PROVE FALSE
    OBVIOUS
  <2>2. m # 1 /\ m >= 1 /\ m \in Nat
    BY <1>4, <2>1
  <2>3. m - 1 \in Bounds
    BY <1>1, <1>4, <2>1, <2>2
  <2> QED
    BY <1>4, <2>2, <2>3
<1>6. \E x \in Lens : \A y \in Lens : x >= y
  BY <1>1, <1>4, <1>5
<1>7. Max(Lens) \in Lens /\ \A y \in Lens : Max(Lens) >= y
  BY <1>6 DEF Max
<1>8. 1 \in Lens /\ \A s \in needles : Len(s) \in Lens
  OBVIOUS
<1>9. Max(Lens) \in Nat /\ Max(Lens) >= 1 /\ \A s \in needles : Max(Lens) >= Len(s)
  BY <1>1, <1>7, <1>8
<1>10. HoldBack(needles) = Max(Lens) - 1
  BY DEF HoldBack
<1>11. \A s \in needles : Len(s) \in Nat
  BY <1>1, <1>8
<1> HIDE DEF Lens
<1> QED
  BY <1>9, <1>10, <1>11
-----------------------------------------------------------------------------
(* Slices of a text, and where a needle lies in them. *)

LEMMA Slice ==
  ASSUME NEW S, NEW text \in Seq(S), NEW a \in 1..Len(text) + 1, NEW b \in a - 1..Len(text)
  PROVE  /\ SubSeq(text, a, b) \in Seq(S)
         /\ Len(SubSeq(text, a, b)) = b - a + 1
         /\ \A i \in 1..b - a + 1 : SubSeq(text, a, b)[i] = text[a + i - 1]
<1>1. Len(text) \in Nat /\ a \in Int /\ b \in Int
  BY LenProperties
<1>2. \A i \in a..b : text[i] \in S
  BY <1>1, ElementOfSeq
<1> QED
  BY <1>1, <1>2, SubSeqProperties

LEMMA SliceOfSlice ==
  ASSUME NEW S, NEW text \in Seq(S), NEW a \in 1..Len(text) + 1, NEW b \in a - 1..Len(text),
         NEW c \in 1..b - a + 2, NEW d \in c - 1..b - a + 1
  PROVE  SubSeq(SubSeq(text, a, b), c, d) = SubSeq(text, a + c - 1, a + d - 1)
<1> DEFINE outer == SubSeq(text, a, b)
           inner == SubSeq(outer, c, d)
           direct == SubSeq(text, a + c - 1, a + d - 1)
<1>1. Len(text) \in Nat /\ a \in Nat /\ b \in Nat /\ c \in Nat /\ d \in Nat
  BY LenProperties
<1>2. /\ outer \in Seq(S) /\ Len(outer) = b - a + 1
      /\ \A i \in 1..b - a + 1 : outer[i] = text[a + i - 1]
  BY Slice
<1>3. /\ inner \in Seq(S) /\ Len(inner) = d - c + 1
      /\ \A i \in 1..d - c + 1 : inner[i] = outer[c + i - 1]
  <2>1. c \in 1..Len(outer) + 1 /\ d \in c - 1..Len(outer)
    BY <1>1, <1>2
  <2> HIDE DEF outer
  <2> QED
    BY <1>2, <2>1, Slice
<1>4. /\ direct \in Seq(S) /\ Len(direct) = d - c + 1
      /\ \A i \in 1..d - c + 1 : direct[i] = text[a + c - 1 + i - 1]
  <2>1. a + c - 1 \in 1..Len(text) + 1 /\ a + d - 1 \in a + c - 1 - 1..Len(text)
    BY <1>1
  <2>2. a + d - 1 - (a + c - 1) + 1 = d - c + 1
    BY <1>1
  <2> QED
    BY <2>1, <2>2, Slice
<1>5. \A i \in 1..Len(inner) : inner[i] = direct[i]
  <2> HIDE DEF outer, inner, direct
  <2> SUFFICES ASSUME NEW i \in 1..d - c + 1 PROVE inner[i] = direct[i]
    BY <1>3
  <2>1. c + i - 1 \in 1..b - a + 1 /\ a + (c + i - 1) - 1 = a + c - 1 + i - 1
    BY <1>1
  <2> QED
    BY <1>2, <1>3, <1>4, <2>1
<1> HIDE DEF outer, inner, direct
<1>6. inner = direct
  BY <1>3, <1>4, <1>5, SeqEqual
<1> QED
  BY <1>6 DEF outer, inner, direct

\* needle lies in text at position i, and ends at the latest at e.
LiesAt(needle, text, i, e) ==
  /\ i + Len(needle) - 1 <= e
  /\ \A j \in 1..Len(needle) : text[i + j - 1] = needle[j]

LEMMA PrefixLies ==
  ASSUME NEW S, NEW s \in Seq(S), NEW t \in Seq(S)
  PROVE  IsPrefix(s, t) <=> LiesAt(s, t, 1, Len(t))
<1>1. Len(s) \in Nat /\ Len(t) \in Nat
  BY LenProperties
<1>2. CASE Len(s) <= Len(t)
  <2>1. /\ SubSeq(t, 1, Len(s)) \in Seq(S) /\ Len(SubSeq(t, 1, Len(s))) = Len(s)
        /\ \A i \in 1..Len(s) : SubSeq(t, 1, Len(s))[i] = t[i]
    BY <1>1, <1>2, Slice
  <2>2. SubSeq(s, 1, Len(s)) = s
    BY SubSeqFull
  <2>3. s = SubSeq(t, 1, Len(s)) <=> \A i \in 1..Len(s) : t[i] = s[i]
    BY <2>1, SeqEqual
  <2>4. 1 + Len(s) - 1 <= Len(t) /\ \A j \in 1..Len(s) : 1 + j - 1 = j
    BY <1>1, <1>2
  <2> QED
    BY <1>2, <2>2, <2>3, <2>4 DEF IsPrefix, LiesAt
<1>3. CASE ~(Len(s) <= Len(t))
  BY <1>1, <1>3 DEF IsPrefix, LiesAt
<1> QED
  BY <1>2, <1>3

\* A needle lies in a slice where it lies in the text.
LEMMA LiesInSlice ==
  ASSUME NEW S, NEW s \in Seq(S), NEW text \in Seq(S),
         NEW a \in 1..Len(text) + 1, NEW b \in a - 1..Len(text), NEW i \in Nat \ {0}
  PROVE  LiesAt(s, SubSeq(text, a, b), i, b - a + 1) <=> LiesAt(s, text, a + i - 1, b)
<1>1. Len(s) \in Nat /\ Len(text) \in Nat /\ a \in Nat /\ b \in Nat
  BY LenProperties
<1>2. \A k \in 1..b - a + 1 : SubSeq(text, a, b)[k] = text[a + k - 1]
  BY Slice
<1>3. i + Len(s) - 1 <= b - a + 1 <=> a + i - 1 + Len(s) - 1 <= b
  BY <1>1
<1>4. ASSUME i + Len(s) - 1 <= b - a + 1, NEW j \in 1..Len(s)
      PROVE  SubSeq(text, a, b)[i + j - 1] = text[a + i - 1 + j - 1]
  <2>1. i + j - 1 \in 1..b - a + 1 /\ a + (i + j - 1) - 1 = a + i - 1 + j - 1
    BY <1>1, <1>4
  <2> QED
    BY <1>2, <2>1
<1> QED
  BY <1>3, <1>4 DEF LiesAt

LEMMA StartsAreLies ==
  ASSUME NEW S, NEW needles \in SUBSET Seq(S), NEW text \in Seq(S)
  PROVE  /\ Starts(needles, text) \subseteq 1..Len(text)
         /\ \A i \in 1..Len(text) :
              i \in Starts(needles, text) <=> \E s \in needles : LiesAt(s, text, i, Len(text))
<1>1. SUFFICES ASSUME NEW i \in 1..Len(text), NEW s \in needles
               PROVE  IsPrefix(s, SubSeq(text, i, Len(text))) <=> LiesAt(s, text, i, Len(text))
  BY DEF Starts
<1>2. Len(text) \in Nat /\ i \in Nat /\ Len(s) \in Nat /\ s \in Seq(S)
  BY LenProperties
<1>3. /\ SubSeq(text, i, Len(text)) \in Seq(S)
      /\ Len(SubSeq(text, i, Len(text))) = Len(text) - i + 1
  BY <1>2, Slice
<1>4. IsPrefix(s, SubSeq(text, i, Len(text)))
        <=> LiesAt(s, SubSeq(text, i, Len(text)), 1, Len(text) - i + 1)
  BY <1>2, <1>3, PrefixLies
<1>5. LiesAt(s, SubSeq(text, i, Len(text)), 1, Len(text) - i + 1)
        <=> LiesAt(s, text, i + 1 - 1, Len(text))
  <2>1. /\ i \in 1..Len(text) + 1 /\ Len(text) \in i - 1..Len(text)
        /\ 1 \in Nat \ {0}
    BY <1>2
  <2> QED
    BY <1>2, <2>1, LiesInSlice
<1>6. i + 1 - 1 = i
  BY <1>2
<1> QED
  BY <1>4, <1>5, <1>6

Texts == Seq(Characters)

LEMMA StartsOfSlice ==
  ASSUME NEW needles \in SUBSET Texts, NEW text \in Texts,
         NEW a \in 1..Len(text) + 1, NEW b \in a - 1..Len(text)
  PROVE  /\ Starts(needles, SubSeq(text, a, b)) \subseteq 1..b - a + 1
         /\ \A i \in 1..b - a + 1 :
              i \in Starts(needles, SubSeq(text, a, b))
                <=> \E s \in needles : LiesAt(s, text, a + i - 1, b)
<1> DEFINE slice == SubSeq(text, a, b)
<1>1. slice \in Texts /\ Len(slice) = b - a + 1
  BY Slice DEF Texts
<1>2. \A i \in 1..b - a + 1 : \A s \in needles :
        LiesAt(s, slice, i, b - a + 1) <=> LiesAt(s, text, a + i - 1, b)
  <2>1. Len(text) \in Nat
    BY LenProperties DEF Texts
  <2>2. \A i \in 1..b - a + 1 : i \in Nat \ {0}
    BY <2>1
  <2> QED
    BY <2>2, LiesInSlice DEF Texts
<1> HIDE DEF slice
<1>3. /\ Starts(needles, slice) \subseteq 1..Len(slice)
      /\ \A i \in 1..Len(slice) :
           i \in Starts(needles, slice) <=> \E s \in needles : LiesAt(s, slice, i, Len(slice))
  BY <1>1, StartsAreLies DEF Texts
<1> QED
  BY <1>1, <1>2, <1>3 DEF slice

\* In text from a to b, the first needle is at p.
FirstFrom(needles, text, a, p, b) ==
  /\ p \in a..b
  /\ \E s \in needles : LiesAt(s, text, p, b)
  /\ \A q \in a..p - 1 : \A s \in needles : ~LiesAt(s, text, q, b)

\* The first needle in a slice, and the slice before it.
LEMMA FirstInSlice ==
  ASSUME NEW needles \in SUBSET Texts, NEW text \in Texts,
         NEW a \in 1..Len(text) + 1, NEW b \in a - 1..Len(text),
         Found(needles, SubSeq(text, a, b))
  PROVE  \E p \in a..b :
           /\ FirstFrom(needles, text, a, p, b)
           /\ Before(needles, SubSeq(text, a, b)) = SubSeq(text, a, p - 1)
<1> DEFINE T == Starts(needles, SubSeq(text, a, b))
<1>1. /\ T \subseteq 1..b - a + 1
      /\ \A i \in 1..b - a + 1 :
           i \in T <=> \E s \in needles : LiesAt(s, text, a + i - 1, b)
  BY StartsOfSlice
<1>2. Len(text) \in Nat /\ a \in Nat /\ b \in Nat
  BY LenProperties DEF Texts
<1>3. T \in SUBSET Nat /\ T # {}
  BY <1>1, <1>2 DEF Found
<1> HIDE DEF T
<1>4. Min(T) \in T /\ \A i \in T : Min(T) <= i
  BY <1>3, Least
<1>5. Min(T) \in 1..b - a + 1 /\ \E s \in needles : LiesAt(s, text, a + Min(T) - 1, b)
  BY <1>1, <1>4
<1> DEFINE p == a + Min(T) - 1
<1>6. p \in a..b
  BY <1>2, <1>5
<1>7. ASSUME NEW q \in a..p - 1, NEW s \in needles PROVE ~LiesAt(s, text, q, b)
  <2>1. q - a + 1 \in 1..b - a + 1 /\ a + (q - a + 1) - 1 = q /\ ~(Min(T) <= q - a + 1)
    BY <1>2, <1>5
  <2> QED
    BY <1>1, <1>4, <2>1
<1>8. Before(needles, SubSeq(text, a, b)) = SubSeq(text, a, p - 1)
  <2>1. 1 \in 1..b - a + 2 /\ Min(T) - 1 \in 1 - 1..b - a + 1
        /\ a + 1 - 1 = a /\ a + (Min(T) - 1) - 1 = p - 1
    BY <1>2, <1>5
  <2>2. SubSeq(SubSeq(text, a, b), 1, Min(T) - 1) = SubSeq(text, a + 1 - 1, a + (Min(T) - 1) - 1)
    BY <2>1, SliceOfSlice DEF Texts
  <2> QED
    BY <2>1, <2>2 DEF Before, T
<1> HIDE DEF p
<1> QED
  BY <1>5, <1>6, <1>7, <1>8 DEF p, FirstFrom

\* In text up to b, and past its first k characters, the first needle is at p.
FirstAt(needles, text, k, p, b) == FirstFrom(needles, text, k + 1, p, b)

\* The same of what follows the first k characters of a text.
LEMMA FirstAfter ==
  ASSUME NEW needles \in SUBSET Texts, NEW text \in Texts,
         NEW k \in 0..Len(text), NEW b \in k..Len(text),
         Found(needles, SubSeq(text, k + 1, b))
  PROVE  \E p \in k + 1..b :
           /\ FirstAt(needles, text, k, p, b)
           /\ Before(needles, SubSeq(text, k + 1, b)) = SubSeq(text, k + 1, p - 1)
<1>1. PICK a : a = k + 1
  OBVIOUS
<1>2. a \in 1..Len(text) + 1 /\ b \in a - 1..Len(text) /\ Found(needles, SubSeq(text, a, b))
  BY <1>1, LenProperties DEF Texts
<1>3. \E p \in a..b : /\ FirstFrom(needles, text, a, p, b)
                     /\ Before(needles, SubSeq(text, a, b)) = SubSeq(text, a, p - 1)
  BY <1>2, FirstInSlice
<1> QED
  BY <1>1, <1>3 DEF FirstAt

LEMMA NoneAfter ==
  ASSUME NEW needles \in SUBSET Texts, NEW text \in Texts,
         NEW k \in 0..Len(text), NEW b \in k..Len(text),
         ~Found(needles, SubSeq(text, k + 1, b))
  PROVE  \A q \in k + 1..b : \A s \in needles : ~LiesAt(s, text, q, b)
<1>1. SUFFICES ASSUME NEW q \in k + 1..b, NEW s \in needles, LiesAt(s, text, q, b) PROVE FALSE
  OBVIOUS
<1>2. /\ k + 1 \in 1..Len(text) + 1 /\ b \in k + 1 - 1..Len(text) /\ k \in Nat /\ b \in Nat
      /\ b - (k + 1) + 1 = b - k
  BY LenProperties DEF Texts
<1>3. PICK slice : slice = SubSeq(text, k + 1, b)
  OBVIOUS
<1>4. /\ slice \in Texts /\ Len(slice) = b - k
      /\ \A i \in 1..b - k : slice[i] = text[k + 1 + i - 1]
  BY <1>2, <1>3, Slice DEF Texts
<1>5. PICK i \in 1..b - k : i = q - k
  <2>1. q - k \in 1..b - k
    BY <1>2
  <2> QED
    BY <2>1
<1>6. LiesAt(s, slice, i, b - k)
  <2>1. /\ Len(s) \in Nat /\ q + Len(s) - 1 <= b
        /\ \A j \in 1..Len(s) : text[q + j - 1] = s[j]
    BY <1>1, LenProperties DEF LiesAt, Texts
  <2>2. i + Len(s) - 1 <= b - k
    BY <1>2, <1>5, <2>1
  <2>3. \A j \in 1..Len(s) : i + j - 1 \in 1..b - k /\ k + 1 + (i + j - 1) - 1 = q + j - 1
    BY <1>2, <1>5, <2>1, <2>2
  <2>4. \A j \in 1..Len(s) : slice[i + j - 1] = s[j]
    BY <1>4, <2>1, <2>3
  <2> QED
    BY <2>2, <2>4 DEF LiesAt
<1>7. \A p \in 1..Len(slice) :
        p \in Starts(needles, slice) <=> \E t \in needles : LiesAt(t, slice, p, Len(slice))
  BY <1>4, StartsAreLies DEF Texts
<1>8. i \in Starts(needles, slice)
  BY <1>4, <1>6, <1>7
<1> QED
  BY <1>3, <1>8 DEF Found

\* Slices side by side, and a slice of what follows the first k characters.
LEMMA Adjacent ==
  ASSUME NEW text \in Texts, NEW k \in 0..Len(text), NEW b \in k..Len(text),
         NEW c \in b..Len(text)
  PROVE  SubSeq(text, k + 1, b) \o SubSeq(text, b + 1, c) = SubSeq(text, k + 1, c)
<1>1. k + 1 \in 1..Len(text) + 1 /\ b \in k + 1 - 1..Len(text)
  BY LenProperties DEF Texts
<1> QED
  BY <1>1, ConcatAdjacentSubSeq DEF Texts

LEMMA Initial ==
  ASSUME NEW text \in Texts, NEW b \in 0..Len(text), NEW c \in b..Len(text)
  PROVE  SubSeq(text, 1, b) \o SubSeq(text, b + 1, c) = SubSeq(text, 1, c)
<1>1. 0 \in 0..Len(text) /\ b \in 0..Len(text) /\ 0 + 1 = 1
  BY LenProperties DEF Texts
<1> QED
  BY <1>1, Adjacent

LEMMA SliceAfter ==
  ASSUME NEW text \in Texts, NEW k \in 0..Len(text), NEW b \in k..Len(text),
         NEW n \in 0..b - k
  PROVE  /\ Len(SubSeq(text, k + 1, b)) = b - k
         /\ SubSeq(SubSeq(text, k + 1, b), 1, n) = SubSeq(text, k + 1, k + n)
         /\ SubSeq(SubSeq(text, k + 1, b), n + 1, b - k) = SubSeq(text, k + n + 1, b)
<1>1. k + 1 \in 1..Len(text) + 1 /\ b \in k + 1 - 1..Len(text) /\ k \in Nat /\ b \in Nat
      /\ b - (k + 1) + 1 = b - k
  BY LenProperties DEF Texts
<1>2. Len(SubSeq(text, k + 1, b)) = b - (k + 1) + 1
  BY <1>1, Slice DEF Texts
<1>3. /\ 1 \in 1..b - (k + 1) + 2 /\ n \in 1 - 1..b - (k + 1) + 1
      /\ n + 1 \in 1..b - (k + 1) + 2 /\ b - k \in n + 1 - 1..b - (k + 1) + 1
      /\ k + 1 + 1 - 1 = k + 1 /\ k + 1 + n - 1 = k + n
      /\ k + 1 + (n + 1) - 1 = k + n + 1 /\ k + 1 + (b - k) - 1 = b
  BY <1>1
<1>4. SubSeq(SubSeq(text, k + 1, b), 1, n) = SubSeq(text, k + 1 + 1 - 1, k + 1 + n - 1)
  BY <1>1, <1>3, SliceOfSlice DEF Texts
<1>5. SubSeq(SubSeq(text, k + 1, b), n + 1, b - k)
        = SubSeq(text, k + 1 + (n + 1) - 1, k + 1 + (b - k) - 1)
  BY <1>1, <1>3, SliceOfSlice DEF Texts
<1> QED
  BY <1>1, <1>2, <1>3, <1>4, <1>5
-----------------------------------------------------------------------------
(* The inductive invariant, in positions of the answer and of what the      *)
(* worker writes after its greeting.                                        *)

\* A text that no end marker can cut short when the worker writes it.
IsTold(told) ==
  /\ told \in Texts
  /\ \A marker \in EndMarkers : \A i \in Starts(EndMarkers, told \o marker \o Prompt) :
       i > Len(told)

Written(told, marker) == told \o marker \o Prompt

\* No stop sequence lies in the first n characters of the answer, from a
\* character before the i-th on.
StopFree(told, i, n) == \A s \in stops : \A q \in 1..i - 1 : ~LiesAt(s, told, q, n)

\* The stop filter was given the first n characters of the answer: it has sent
\* those up to k and holds the others back, as many as it may have to.
Filtered(told, n, k) ==
  /\ k \in 0..n
  /\ sent = SubSeq(told, 1, k)
  /\ heldStop = SubSeq(told, k + 1, n)
  /\ k = 0 \/ n - k = HoldBack(stops)
  /\ StopFree(told, n + 1, n)

ClientHas(told, n) == n \in 0..Len(told) /\ \E k \in 0..n : Filtered(told, n, k)

\* The filter has found a stop sequence at i, when it was given n characters.
StoppedAt(told, i, n) ==
  /\ i \in 1..n
  /\ sent = SubSeq(told, 1, i - 1)
  /\ \E s \in stops : LiesAt(s, told, i, n)
  /\ StopFree(told, i, n)

ClientStopped(told) == \E n \in 0..Len(told) : \E i \in 1..n : StoppedAt(told, i, n)

\* The reader has handed on the first n characters of the answer and holds back
\* those up to k of what the worker writes.
PipeHas(told, n) ==
  \E marker \in EndMarkers : \E k \in n..Len(Written(told, marker)) :
    /\ pending = SubSeq(Written(told, marker), n + 1, k)
    /\ unread = SubSeq(Written(told, marker), k + 1, Len(Written(told, marker)))

\* Nothing of the greeting has been read but white space before it.
Untouched ==
  /\ pending = <<>> /\ heldStop = <<>> /\ sent = <<>> /\ stopped = FALSE
  /\ \E lead \in Leads, marker \in EndMarkers :
       unread = (lead \o Greeting) \o Written(content, marker)

\* The greeting is off, and to the client the answer is told.
Greeted(told) ==
  /\ stopped => ClientStopped(told)
  /\ phase = "reading" /\ ~stopped => \E n \in Nat : ClientHas(told, n) /\ PipeHas(told, n)
  /\ phase = "flushing" /\ ~stopped => ClientHas(told, Len(told))
  /\ phase = "done" /\ ~stopped => sent = told /\ StopFree(told, Len(told) + 1, Len(told))
  /\ phase = "failed" /\ ~stopped => \E n \in Nat : ClientHas(told, n)

IInv ==
  /\ content \in Answers /\ stops \in StopLists /\ stopped \in BOOLEAN
  /\ phase \in {"reading", "flushing", "done", "failed"}
  /\ phase = "reading" /\ ~prefixDone => Untouched
  /\ ~(phase = "reading" /\ ~prefixDone) => \E told \in Told : Greeted(told)

LEMMA ContentTypes ==
  ASSUME NEW told, IsTold(told), stops \in StopLists
  PROVE  /\ told \in Texts /\ Len(told) \in Nat
         /\ stops \in SUBSET Texts /\ IsFiniteSet(stops)
         /\ HoldBack(stops) \in Nat
         /\ \A s \in stops : /\ s \in Texts /\ Len(s) \in Nat \ {0}
                             /\ Len(s) <= HoldBack(stops) + 1
<1>1. told \in Texts /\ stops \in SUBSET Texts /\ IsFiniteSet(stops)
      /\ \A s \in stops : s \in Texts /\ s # <<>>
  BY TextsAssumption DEF Texts, IsTold
<1>2. Len(told) \in Nat /\ \A s \in stops : Len(s) \in Nat \ {0}
  BY <1>1, LenProperties, EmptySeq DEF Texts
<1>3. HoldBack(stops) \in Nat /\ \A s \in stops : Len(s) <= HoldBack(stops) + 1
  BY <1>1, HoldBackCovers DEF Texts
<1> QED
  BY <1>1, <1>2, <1>3

\* What is sent and what is held back hold no stop sequence; neither do they
\* with what comes now, but for one that begins in what was held back.
LEMMA StopsBeginLate ==
  ASSUME NEW told, IsTold(told), stops \in StopLists,
         NEW n \in 0..Len(told), NEW k \in 0..n, Filtered(told, n, k), NEW g \in n..Len(told),
         NEW i \in 1..Len(told) + 1,
         \A s \in stops : \A q \in k + 1..i - 1 : ~LiesAt(s, told, q, g)
  PROVE  StopFree(told, i, g)
<1>1. SUFFICES ASSUME NEW s \in stops, NEW q \in 1..i - 1, q <= k, LiesAt(s, told, q, g)
               PROVE  FALSE
  <2>1. \A q \in 1..i - 1 : q <= k \/ q \in k + 1..i - 1
    BY ContentTypes
  <2> QED
    BY <1>1, <2>1 DEF StopFree
<1>2. /\ Len(told) \in Nat /\ Len(s) \in Nat \ {0} /\ HoldBack(stops) \in Nat
      /\ Len(s) <= HoldBack(stops) + 1
  BY ContentTypes
<1>3. n - k = HoldBack(stops) /\ q \in 1..n
  BY <1>1, <1>2 DEF Filtered
<1>4. q + Len(s) - 1 <= n
  BY <1>1, <1>2, <1>3
<1>5. LiesAt(s, told, q, n)
  BY <1>1, <1>4 DEF LiesAt
<1>6. q \in 1..n + 1 - 1
  BY <1>2, <1>3
<1> QED
  BY <1>5, <1>6 DEF Filtered, StopFree

LEMMA FilterStep ==
  ASSUME NEW told, IsTold(told), stops \in StopLists, stopped = FALSE, UNCHANGED stops,
         NEW n \in 0..Len(told), ClientHas(told, n), NEW g \in n..Len(told),
         FilterStreamDelta(SubSeq(told, n + 1, g))
  PROVE  \/ stopped' = TRUE /\ ClientStopped(told)'
         \/ stopped' = FALSE /\ ClientHas(told, g)'
<1> DEFINE text == heldStop \o SubSeq(told, n + 1, g)
<1>1. PICK k \in 0..n : Filtered(told, n, k)
  BY DEF ClientHas
<1>2. /\ told \in Texts /\ Len(told) \in Nat /\ n \in Nat /\ g \in Nat /\ k \in Nat
      /\ stops \in SUBSET Texts /\ HoldBack(stops) \in Nat
  BY ContentTypes
<1>3. k \in 0..Len(told) /\ n \in k..Len(told) /\ g \in k..Len(told)
      /\ g \in 0..Len(told)
  BY <1>2
<1>4. text = SubSeq(told, k + 1, g)
  BY <1>1, <1>2, <1>3, Adjacent DEF Filtered
<1>5. Len(text) = g - k
  <2>1. 0 \in 0..g - k
    BY <1>2
  <2>2. Len(SubSeq(told, k + 1, g)) = g - k
    BY <1>2, <1>3, <2>1, SliceAfter
  <2> HIDE DEF text
  <2> QED
    BY <1>4, <2>2
<1> HIDE DEF text
<1>6. CASE Found(stops, text)
  <2>1. PICK p \in k + 1..g :
          /\ FirstAt(stops, told, k, p, g)
          /\ Before(stops, text) = SubSeq(told, k + 1, p - 1)
    BY <1>2, <1>3, <1>4, <1>6, FirstAfter
  <2>2. /\ sent' = sent \o Before(stops, text)
        /\ stopped' = TRUE
    BY <1>6 DEF FilterStreamDelta, text
  <2>3. /\ p \in 1..Len(told) + 1 /\ p \in 1..g
        /\ k \in 0..Len(told) /\ p - 1 \in k..Len(told)
    BY <1>2
  <2>4. sent' = SubSeq(told, 1, p - 1)
    BY <1>1, <1>2, <2>1, <2>2, <2>3, Initial DEF Filtered
  <2>5. StopFree(told, p, g)
    BY <1>1, <2>1, <2>3, StopsBeginLate DEF FirstAt, FirstFrom
  <2>6. StoppedAt(told, p, g)'
    BY <2>1, <2>3, <2>4, <2>5 DEF StoppedAt, StopFree, FirstAt, FirstFrom
  <2> QED
    BY <1>3, <2>2, <2>3, <2>6 DEF ClientStopped
<1>7. CASE ~Found(stops, text)
  <2>1. PICK safe \in 0..g - k :
          /\ safe = IF HoldBack(stops) <= g - k THEN g - k - HoldBack(stops) ELSE 0
          /\ safe = Max({0, Len(text) - HoldBack(stops)})
    <3>1. g - k \in Nat
      BY <1>2
    <3>2. Max({0, Len(text) - HoldBack(stops)})
            = IF HoldBack(stops) <= g - k THEN g - k - HoldBack(stops) ELSE 0
      BY <1>2, <1>5, <3>1, SafeLength
    <3> QED
      BY <1>2, <3>1, <3>2
  <2>2. /\ sent' = sent \o SubSeq(text, 1, safe)
        /\ heldStop' = SubSeq(text, safe + 1, Len(text))
        /\ stopped' = FALSE
    BY <1>7, <2>1 DEF FilterStreamDelta, text
  <2>3. /\ SubSeq(text, 1, safe) = SubSeq(told, k + 1, k + safe)
        /\ heldStop' = SubSeq(told, k + safe + 1, g)
    BY <1>2, <1>3, <1>4, <1>5, <2>2, SliceAfter
  <2>4. k + safe \in k..Len(told) /\ k + safe \in 0..g
    BY <1>2
  <2>5. sent' = SubSeq(told, 1, k + safe)
    BY <1>1, <1>2, <1>3, <2>2, <2>3, <2>4, Initial DEF Filtered
  <2>6. StopFree(told, g + 1, g)
    <3>1. g + 1 \in 1..Len(told) + 1 /\ g + 1 - 1 = g
      BY <1>2
    <3>2. \A s \in stops : \A q \in k + 1..g + 1 - 1 : ~LiesAt(s, told, q, g)
      BY <1>2, <1>3, <1>4, <1>7, <3>1, NoneAfter
    <3> QED
      BY <1>1, <3>1, <3>2, StopsBeginLate
  <2>7. k + safe = 0 \/ g - (k + safe) = HoldBack(stops)
    BY <1>1, <1>2, <2>1 DEF Filtered
  <2>8. Filtered(told, g, k + safe)'
    BY <2>3, <2>4, <2>5, <2>6, <2>7 DEF Filtered, StopFree, HoldBack
  <2>9. ClientHas(told, g)'
    BY <1>3, <2>4, <2>8 DEF ClientHas
  <2> QED
    BY <2>2, <2>9
<1> QED
  BY <1>6, <1>7
-----------------------------------------------------------------------------
(* What the reader hands on. *)

LEMMA TakeStep ==
  ASSUME NEW told, IsTold(told), stops \in StopLists, stopped = FALSE, UNCHANGED stops,
         NEW n \in 0..Len(told), ClientHas(told, n), NEW g \in n..Len(told),
         Take(SubSeq(told, n + 1, g))
  PROVE  \/ stopped' = TRUE /\ ClientStopped(told)'
         \/ stopped' = FALSE /\ ClientHas(told, g)'
<1>1. CASE SubSeq(told, n + 1, g) = <<>>
  <2>1. told \in Texts /\ Len(told) \in Nat /\ n \in 0..Len(told) /\ 0 \in 0..g - n
    BY ContentTypes
  <2>2. Len(SubSeq(told, n + 1, g)) = g - n
    BY <2>1, SliceAfter
  <2>3. g = n
    BY <1>1, <2>1, <2>2
  <2>4. UNCHANGED <<sent, heldStop, stopped>>
    BY <1>1 DEF Take
  <2> QED
    BY <2>3, <2>4 DEF ClientHas, Filtered, StopFree, HoldBack
<1>2. CASE SubSeq(told, n + 1, g) # <<>>
  BY <1>2, FilterStep DEF Take
<1> QED
  BY <1>1, <1>2

\* After a match the client's side stands still.
LEMMA StoppedStep ==
  ASSUME NEW told, stopped = TRUE, ClientStopped(told), UNCHANGED <<stops, sent, stopped>>
  PROVE  stopped' = TRUE /\ ClientStopped(told)'
BY DEF ClientStopped, StoppedAt, StopFree

LEMMA WrittenTypes ==
  ASSUME NEW told, IsTold(told), NEW marker \in EndMarkers
  PROVE  /\ told \in Texts /\ Len(told) \in Nat
         /\ marker \in Texts /\ Len(marker) \in Nat \ {0}
         /\ Len(marker) <= HoldBack(EndMarkers) + 1
         /\ HoldBack(EndMarkers) \in Nat /\ EndMarkers \in SUBSET Texts
         /\ Written(told, marker) \in Texts /\ Len(Written(told, marker)) \in Nat
         /\ Len(Written(told, marker)) >= Len(told) + Len(marker)
         /\ \A i \in 1..Len(told) : Written(told, marker)[i] = told[i]
         /\ \A i \in 1..Len(marker) : Written(told, marker)[Len(told) + i] = marker[i]
<1>1. /\ told \in Texts /\ marker \in Texts /\ marker # <<>> /\ Prompt \in Texts
      /\ IsFiniteSet(EndMarkers) /\ EndMarkers \in SUBSET Texts
  BY TextsAssumption DEF Texts, IsTold
<1>2. Len(told) \in Nat /\ Len(marker) \in Nat \ {0} /\ Len(Prompt) \in Nat
  BY <1>1, LenProperties, EmptySeq DEF Texts
<1>3. HoldBack(EndMarkers) \in Nat /\ Len(marker) <= HoldBack(EndMarkers) + 1
  BY <1>1, HoldBackCovers DEF Texts
<1>4. /\ told \o marker \in Texts /\ Len(told \o marker) = Len(told) + Len(marker)
      /\ \A i \in 1..Len(told) + Len(marker) : (told \o marker)[i] =
           IF i <= Len(told) THEN told[i] ELSE marker[i - Len(told)]
  BY <1>1, ConcatProperties DEF Texts
<1> DEFINE both == told \o marker
<1> HIDE DEF both
<1>5. /\ both \o Prompt \in Texts /\ Len(both \o Prompt) = Len(both) + Len(Prompt)
      /\ \A i \in 1..Len(both) + Len(Prompt) : (both \o Prompt)[i] =
           IF i <= Len(both) THEN both[i] ELSE Prompt[i - Len(both)]
  BY <1>1, <1>4, ConcatProperties DEF Texts, both
<1>6. both \o Prompt = Written(told, marker)
  BY DEF both, Written
<1>7. /\ Written(told, marker) \in Texts
      /\ Len(Written(told, marker)) = Len(told) + Len(marker) + Len(Prompt)
      /\ \A i \in 1..Len(told) + Len(marker) : Written(told, marker)[i] =
           IF i <= Len(told) THEN told[i] ELSE marker[i - Len(told)]
  BY <1>2, <1>4, <1>5, <1>6 DEF both
<1>8. \A i \in 1..Len(told) : Written(told, marker)[i] = told[i]
  BY <1>2, <1>7
<1>9. ASSUME NEW i \in 1..Len(marker) PROVE Written(told, marker)[Len(told) + i] = marker[i]
  <2>1. Len(told) + i \in 1..Len(told) + Len(marker) /\ ~(Len(told) + i <= Len(told))
        /\ Len(told) + i - Len(told) = i
    BY <1>2
  <2> QED
    BY <1>7, <2>1
<1> QED
  BY <1>1, <1>2, <1>3, <1>7, <1>8, <1>9

LEMMA SliceOfAnswer ==
  ASSUME NEW told, IsTold(told), NEW marker \in EndMarkers,
         NEW n \in 0..Len(told), NEW g \in n..Len(told)
  PROVE  SubSeq(Written(told, marker), n + 1, g) = SubSeq(told, n + 1, g)
<1> DEFINE W == Written(told, marker)
<1>1. /\ told \in Texts /\ Len(told) \in Nat /\ W \in Texts /\ Len(W) \in Nat
      /\ Len(W) >= Len(told) /\ n \in Nat /\ g \in Nat
      /\ \A i \in 1..Len(told) : W[i] = told[i]
  BY WrittenTypes
<1> HIDE DEF W
<1>2. /\ n + 1 \in 1..Len(told) + 1 /\ g \in n + 1 - 1..Len(told)
      /\ n + 1 \in 1..Len(W) + 1 /\ g \in n + 1 - 1..Len(W)
  BY <1>1
<1>3. /\ SubSeq(W, n + 1, g) \in Seq(Characters)
      /\ Len(SubSeq(W, n + 1, g)) = g - (n + 1) + 1
      /\ \A i \in 1..g - (n + 1) + 1 : SubSeq(W, n + 1, g)[i] = W[n + 1 + i - 1]
  BY <1>1, <1>2, Slice DEF Texts
<1>4. /\ SubSeq(told, n + 1, g) \in Seq(Characters)
      /\ Len(SubSeq(told, n + 1, g)) = g - (n + 1) + 1
      /\ \A i \in 1..g - (n + 1) + 1 : SubSeq(told, n + 1, g)[i] = told[n + 1 + i - 1]
  BY <1>1, <1>2, Slice DEF Texts
<1>5. \A i \in 1..g - (n + 1) + 1 : n + 1 + i - 1 \in 1..Len(told)
  BY <1>1
<1>6. SubSeq(W, n + 1, g) = SubSeq(told, n + 1, g)
  BY <1>1, <1>3, <1>4, <1>5, SeqEqual
<1> QED
  BY <1>6 DEF W

\* The worker's end marker is where the answer ends.
LEMMA MarkerLies ==
  ASSUME NEW told, IsTold(told), NEW marker \in EndMarkers,
         NEW e \in Len(told) + Len(marker)..Len(Written(told, marker))
  PROVE  LiesAt(marker, Written(told, marker), Len(told) + 1, e)
<1>1. /\ Len(told) \in Nat /\ Len(marker) \in Nat
      /\ \A i \in 1..Len(marker) : Written(told, marker)[Len(told) + i] = marker[i]
      /\ Len(Written(told, marker)) \in Nat
  BY WrittenTypes
<1>2. \A j \in 1..Len(marker) : Len(told) + 1 + j - 1 = Len(told) + j
  BY <1>1
<1> QED
  BY <1>1, <1>2 DEF LiesAt

\* No end marker begins before that, and none ends before that one ends.
LEMMA NoneBefore ==
  ASSUME NEW told, IsTold(told), NEW marker \in EndMarkers,
         NEW e \in 0..Len(Written(told, marker)), NEW p \in 1..e, NEW s \in EndMarkers,
         LiesAt(s, Written(told, marker), p, e)
  PROVE  p > Len(told) /\ e >= Len(told) + Len(marker)
<1> DEFINE W == Written(told, marker)
           c == Len(told)
           m == Len(marker)
<1>1. /\ c \in Nat /\ m \in Nat \ {0} /\ marker \in Texts /\ W \in Texts /\ Len(W) \in Nat
      /\ EndMarkers \in SUBSET Texts /\ \A i \in 1..m : W[c + i] = marker[i]
  BY WrittenTypes
<1>2. s \in Texts /\ Len(s) \in Nat
  BY <1>1, LenProperties DEF Texts
<1>3. p > c
  <2>1. p \in 1..Len(W) /\ LiesAt(s, W, p, Len(W))
    BY <1>1, <1>2 DEF LiesAt
  <2>2. p \in Starts(EndMarkers, W)
    <3> HIDE DEF W
    <3> QED
      BY <1>1, <2>1, StartsAreLies DEF Texts
  <2> QED
    BY <2>2 DEF Written, IsTold
<1>4. SUFFICES ASSUME ~(e >= c + m) PROVE FALSE
  BY <1>3
<1> HIDE DEF W, c, m
<1>5. p - c \in 1..m - 1 /\ p - c + Len(s) - 1 <= m - 1
  BY <1>1, <1>2, <1>3, <1>4 DEF LiesAt, W
<1>6. \A j \in 1..Len(s) : marker[p - c + j - 1] = s[j]
  <2>1. \A j \in 1..Len(s) : W[p + j - 1] = s[j]
    BY DEF LiesAt, W
  <2>2. \A j \in 1..Len(s) : p - c + j - 1 \in 1..m /\ c + (p - c + j - 1) = p + j - 1
    BY <1>1, <1>2, <1>5
  <2> QED
    BY <1>1, <2>1, <2>2
<1>7. LiesAt(s, marker, p - c, m - 1)
  BY <1>5, <1>6 DEF LiesAt
<1>8. /\ 0 \in 0..Len(marker) /\ m - 1 \in 0..Len(marker) /\ 0 + 1 = 1
      /\ ~Found(EndMarkers, SubSeq(marker, 1, m - 1))
  BY <1>1, MarkersAssumption DEF m
<1>9. \A q \in 0 + 1..m - 1 : \A t \in EndMarkers : ~LiesAt(t, marker, q, m - 1)
  BY <1>1, <1>8, NoneAfter
<1> QED
  BY <1>5, <1>7, <1>8, <1>9

\* The reader has handed on n characters and has the text up to k: it hands on
\* some more, and holds back as much as an end marker may need.
LEMMA AnswerStep ==
  ASSUME NEW told, IsTold(told), stops \in StopLists, stopped = FALSE, UNCHANGED stops,
         NEW marker \in EndMarkers, NEW n \in 0..Len(told), ClientHas(told, n),
         NEW k \in n..Len(Written(told, marker)),
         NEW text, text = SubSeq(Written(told, marker), n + 1, k),
         unread' = SubSeq(Written(told, marker), k + 1, Len(Written(told, marker))),
         NEW safe, safe = Max({0, Len(text) - HoldBack(EndMarkers)}),
         \/ /\ Found(EndMarkers, text)
            /\ Take(Before(EndMarkers, text))
            /\ phase' = "flushing"
         \/ /\ ~Found(EndMarkers, text)
            /\ Take(SubSeq(text, 1, safe))
            /\ pending' = SubSeq(text, safe + 1, Len(text))
            /\ UNCHANGED phase
  PROVE  \/ stopped' = TRUE /\ ClientStopped(told)'
         \/ /\ stopped' = FALSE /\ phase' = "flushing"
            /\ ClientHas(told, Len(told))'
         \/ /\ stopped' = FALSE /\ phase' = phase
            /\ \E h \in Nat : ClientHas(told, h)' /\ PipeHas(told, h)'
<1>1. /\ told \in Texts /\ Len(told) \in Nat
      /\ marker \in Texts /\ Len(marker) \in Nat \ {0}
      /\ Len(marker) <= HoldBack(EndMarkers) + 1
      /\ HoldBack(EndMarkers) \in Nat /\ EndMarkers \in SUBSET Texts
      /\ Written(told, marker) \in Texts /\ Len(Written(told, marker)) \in Nat
      /\ Len(Written(told, marker)) >= Len(told) + Len(marker)
  BY WrittenTypes
<1>2. /\ n \in 0..Len(Written(told, marker)) /\ k \in n..Len(Written(told, marker))
      /\ n \in Nat /\ k \in Nat /\ k \in 0..Len(Written(told, marker))
  BY <1>1
<1>3. Len(text) = k - n
  <2>1. 0 \in 0..k - n
    BY <1>2
  <2> QED
    BY <1>1, <1>2, <2>1, SliceAfter
<1>4. CASE Found(EndMarkers, text)
  <2>1. PICK p \in n + 1..k :
          /\ FirstAt(EndMarkers, Written(told, marker), n, p, k)
          /\ Before(EndMarkers, text) = SubSeq(Written(told, marker), n + 1, p - 1)
    <3>1. Found(EndMarkers, SubSeq(Written(told, marker), n + 1, k))
      BY <1>4
    <3>2. \E p \in n + 1..k :
            /\ FirstAt(EndMarkers, Written(told, marker), n, p, k)
            /\ Before(EndMarkers, SubSeq(Written(told, marker), n + 1, k))
                 = SubSeq(Written(told, marker), n + 1, p - 1)
      BY <1>1, <1>2, <3>1, FirstAfter
    <3> QED
      BY <3>2
  <2>2. PICK s \in EndMarkers : LiesAt(s, Written(told, marker), p, k)
    BY <2>1 DEF FirstAt, FirstFrom
  <2>3. p \in 1..k
    BY <1>2
  <2>4. p > Len(told) /\ k >= Len(told) + Len(marker)
    BY <1>2, <2>2, <2>3, NoneBefore
  <2>5. k \in Len(told) + Len(marker)..Len(Written(told, marker))
    BY <1>1, <1>2, <2>4
  <2>6. LiesAt(marker, Written(told, marker), Len(told) + 1, k)
    BY <2>5, MarkerLies
  <2>7. ~(Len(told) + 1 \in n + 1..p - 1)
    BY <2>1, <2>6 DEF FirstAt, FirstFrom
  <2>8. p - 1 = Len(told)
    BY <1>1, <1>2, <2>4, <2>7
  <2>9. Len(told) \in n..Len(told)
    BY <1>1
  <2>10. Before(EndMarkers, text) = SubSeq(told, n + 1, Len(told))
    BY <2>1, <2>8, <2>9, SliceOfAnswer
  <2>11. Take(SubSeq(told, n + 1, Len(told))) /\ phase' = "flushing"
    BY <1>4, <2>10
  <2>12. \/ stopped' = TRUE /\ ClientStopped(told)'
         \/ stopped' = FALSE /\ ClientHas(told, Len(told))'
    <3>1. PICK c \in n..Len(told) : c = Len(told)
      BY <2>9
    <3>2. Len(told)' = c
      BY <3>1
    <3> QED
      BY <2>11, <3>1, <3>2, TakeStep DEF ClientHas
  <2> QED
    BY <2>11, <2>12
<1>5. CASE ~Found(EndMarkers, text)
  <2>1. /\ Take(SubSeq(text, 1, safe))
        /\ pending' = SubSeq(text, safe + 1, Len(text))
        /\ UNCHANGED phase
    BY <1>5
  <2>2. k < Len(told) + Len(marker)
    <3>1. SUFFICES ASSUME k >= Len(told) + Len(marker) PROVE FALSE
      BY <1>1, <1>2
    <3>2. k \in Len(told) + Len(marker)..Len(Written(told, marker))
          /\ Len(told) + 1 \in n + 1..k
      BY <1>1, <1>2, <3>1
    <3>3. LiesAt(marker, Written(told, marker), Len(told) + 1, k)
      BY <3>2, MarkerLies
    <3>4. \A q \in n + 1..k : \A s \in EndMarkers : ~LiesAt(s, Written(told, marker), q, k)
      BY <1>1, <1>2, <1>5, NoneAfter
    <3> QED
      BY <3>2, <3>3, <3>4
  <2>3. safe = IF HoldBack(EndMarkers) <= k - n THEN k - n - HoldBack(EndMarkers) ELSE 0
    <3>1. k - n \in Nat
      BY <1>2
    <3> QED
      BY <1>1, <1>3, <3>1, SafeLength
  <2>4. /\ safe \in 0..k - n /\ n + safe \in n..Len(told)
        /\ n + safe \in Nat /\ k \in n + safe..Len(Written(told, marker))
    <3>1. CASE HoldBack(EndMarkers) <= k - n
      <4>1. safe = k - n - HoldBack(EndMarkers)
        BY <2>3, <3>1
      <4>2. safe \in Nat /\ safe <= k - n /\ n + safe <= Len(told)
        BY <1>1, <1>2, <2>2, <3>1, <4>1
      <4> QED
        BY <1>1, <1>2, <4>2
    <3>2. CASE ~(HoldBack(EndMarkers) <= k - n)
      BY <1>1, <1>2, <2>3, <3>2
    <3> QED
      BY <3>1, <3>2
  <2>5. /\ SubSeq(text, 1, safe) = SubSeq(Written(told, marker), n + 1, n + safe)
        /\ pending' = SubSeq(Written(told, marker), n + safe + 1, k)
    <3>1. /\ SubSeq(SubSeq(Written(told, marker), n + 1, k), 1, safe)
               = SubSeq(Written(told, marker), n + 1, n + safe)
          /\ SubSeq(SubSeq(Written(told, marker), n + 1, k), safe + 1, k - n)
               = SubSeq(Written(told, marker), n + safe + 1, k)
      BY <1>1, <1>2, <2>4, SliceAfter
    <3> QED
      BY <1>3, <2>1, <3>1
  <2>6. SubSeq(text, 1, safe) = SubSeq(told, n + 1, n + safe)
    <3>1. PICK g \in n..Len(told) : g = n + safe
      BY <2>4
    <3>2. SubSeq(Written(told, marker), n + 1, g) = SubSeq(told, n + 1, g)
      BY SliceOfAnswer
    <3> QED
      BY <2>5, <3>1, <3>2
  <2>7. \/ stopped' = TRUE /\ ClientStopped(told)'
        \/ stopped' = FALSE /\ ClientHas(told, n + safe)'
    BY <2>1, <2>4, <2>6, TakeStep
  <2>8. PipeHas(told, n + safe)'
    <3>1. Written(told, marker)' = Written(told, marker)
      BY DEF Written
    <3> QED
      BY <2>4, <2>5, <3>1 DEF PipeHas
  <2> QED
    BY <2>1, <2>4, <2>7, <2>8
<1> QED
  BY <1>4, <1>5
-----------------------------------------------------------------------------
(* The greeting and what comes before it. *)

\* A slice of two texts that begins in the second one.
LEMMA SliceOfConcat ==
  ASSUME NEW head \in Texts, NEW tail \in Texts,
         NEW k \in 0..Len(tail), NEW m \in k..Len(tail)
  PROVE  /\ head \o tail \in Texts /\ Len(head \o tail) = Len(head) + Len(tail)
         /\ SubSeq(head \o tail, Len(head) + k + 1, Len(head) + m) = SubSeq(tail, k + 1, m)
<1> DEFINE both == head \o tail
<1>1. /\ both \in Seq(Characters) /\ Len(both) = Len(head) + Len(tail)
      /\ \A i \in 1..Len(head) + Len(tail) :
           both[i] = IF i <= Len(head) THEN head[i] ELSE tail[i - Len(head)]
  BY ConcatProperties DEF Texts
<1>2. Len(head) \in Nat /\ Len(tail) \in Nat /\ k \in Nat /\ m \in Nat
  BY LenProperties DEF Texts
<1> HIDE DEF both
<1>3. PICK a \in 1..Len(both) + 1, b \in 0..Len(both) :
        a = Len(head) + k + 1 /\ b = Len(head) + m /\ b \in a - 1..Len(both)
  <2>1. /\ Len(head) + k + 1 \in 1..Len(both) + 1 /\ Len(head) + m \in 0..Len(both)
        /\ Len(head) + m \in Len(head) + k + 1 - 1..Len(both)
    BY <1>1, <1>2
  <2> QED
    BY <2>1
<1>4. PICK c \in 1..Len(tail) + 1 : c = k + 1
  BY <1>2
<1>5. m \in c - 1..Len(tail) /\ b - a + 1 = m - c + 1
  BY <1>2, <1>3, <1>4
<1>6. /\ SubSeq(both, a, b) \in Seq(Characters)
      /\ Len(SubSeq(both, a, b)) = b - a + 1
      /\ \A i \in 1..b - a + 1 : SubSeq(both, a, b)[i] = both[a + i - 1]
  BY <1>1, <1>3, Slice
<1>7. /\ SubSeq(tail, c, m) \in Seq(Characters)
      /\ Len(SubSeq(tail, c, m)) = m - c + 1
      /\ \A i \in 1..m - c + 1 : SubSeq(tail, c, m)[i] = tail[c + i - 1]
  BY <1>5, Slice DEF Texts
<1>8. ASSUME NEW i \in 1..m - c + 1 PROVE both[a + i - 1] = tail[c + i - 1]
  <2>1. PICK j \in 1..Len(head) + Len(tail) : j = a + i - 1
    BY <1>1, <1>2, <1>3, <1>5
  <2>2. ~(j <= Len(head)) /\ j - Len(head) = c + i - 1
    BY <1>2, <1>3, <1>4, <1>5, <2>1
  <2> QED
    BY <1>1, <2>1, <2>2
<1>9. \A i \in 1..Len(SubSeq(both, a, b)) : SubSeq(both, a, b)[i] = SubSeq(tail, c, m)[i]
  BY <1>5, <1>6, <1>7, <1>8
<1>10. SubSeq(both, a, b) = SubSeq(tail, c, m)
  BY <1>5, <1>6, <1>7, <1>9, SeqEqual
<1> QED
  BY <1>1, <1>3, <1>4, <1>10 DEF both, Texts

\* The first b characters of a text.
LEMMA InitialSlice ==
  ASSUME NEW text \in Texts, NEW b \in 0..Len(text)
  PROVE  /\ SubSeq(text, 1, b) \in Texts /\ Len(SubSeq(text, 1, b)) = b
         /\ \A i \in 1..b : SubSeq(text, 1, b)[i] = text[i]
         /\ \A n \in 0..b : SubSeq(SubSeq(text, 1, b), n + 1, b) = SubSeq(text, n + 1, b)
<1>1. /\ Len(text) \in Nat /\ 1 \in 1..Len(text) + 1 /\ b \in 1 - 1..Len(text)
      /\ b - 1 + 1 = b /\ \A i \in 1..b : 1 + i - 1 = i
  BY LenProperties DEF Texts
<1>2. /\ SubSeq(text, 1, b) \in Seq(Characters)
      /\ Len(SubSeq(text, 1, b)) = b - 1 + 1
      /\ \A i \in 1..b - 1 + 1 : SubSeq(text, 1, b)[i] = text[1 + i - 1]
  BY <1>1, Slice DEF Texts
<1>3. ASSUME NEW n \in 0..b
      PROVE  SubSeq(SubSeq(text, 1, b), n + 1, b) = SubSeq(text, n + 1, b)
  <2>1. 0 \in 0..Len(text) /\ b \in 0..Len(text) /\ n \in 0..b - 0 /\ 0 + 1 = 1 /\ b - 0 = b
        /\ 0 + n + 1 = n + 1
    BY <1>1
  <2>2. SubSeq(SubSeq(text, 0 + 1, b), n + 1, b - 0) = SubSeq(text, 0 + n + 1, b)
    BY <2>1, SliceAfter
  <2> QED
    BY <2>1, <2>2
<1> QED
  BY <1>1, <1>2, <1>3 DEF Texts

\* What remains of a text that begins with d characters of white space.
LEMMA StrippedRest ==
  ASSUME NEW text \in Texts, NEW d \in 0..Len(text),
         \A i \in 1..d : text[i] \in White,
         d < Len(text) => text[d + 1] \notin White
  PROVE  Stripped(text) = SubSeq(text, d + 1, Len(text))
<1> DEFINE solid == {i \in 1..Len(text) : text[i] \notin White}
<1>1. Len(text) \in Nat /\ d \in Nat
  BY LenProperties DEF Texts
<1>2. CASE d < Len(text)
  <2>1. d + 1 \in solid
    BY <1>1, <1>2
  <2>2. \A i \in solid : i \in Nat /\ d + 1 <= i
    BY <1>1
  <2>3. Min(solid) = d + 1
    <3>1. solid \in SUBSET Nat /\ solid # {}
      BY <2>1
    <3> HIDE DEF solid
    <3>2. Min(solid) \in solid /\ Min(solid) <= d + 1
      BY <2>1, <3>1, Least
    <3> QED
      BY <1>1, <2>2, <3>2
  <2>4. solid # {}
    BY <2>1
  <2> QED
    BY <2>3, <2>4 DEF Stripped
<1>3. CASE d = Len(text)
  <2>1. solid = {}
    BY <1>1, <1>3
  <2>2. Stripped(text) = <<>>
    BY <2>1 DEF Stripped
  <2>3. PICK b \in 0..Len(text) : b = d
    OBVIOUS
  <2>4. b + 1 \in 1..Len(text) + 1 /\ b \in b + 1 - 1..Len(text) /\ b - (b + 1) + 1 = 0
    BY <1>1
  <2>5. SubSeq(text, b + 1, b) \in Seq(Characters) /\ Len(SubSeq(text, b + 1, b)) = b - (b + 1) + 1
    BY <2>4, Slice DEF Texts
  <2>6. SubSeq(text, b + 1, b) = <<>>
    BY <2>4, <2>5, EmptySeq
  <2> QED
    BY <1>3, <2>2, <2>3, <2>6
<1> QED
  BY <1>1, <1>2, <1>3

LEMMA LeadTypes ==
  ASSUME NEW lead \in Leads
  PROVE  lead \in Texts /\ Len(lead) \in {0, 1} /\ \A i \in 1..Len(lead) : lead[i] \in White
<1>1. White \subseteq Characters
  BY TextsAssumption
<1>2. CASE lead = <<>>
  BY <1>2 DEF Texts
<1>3. CASE lead \in {<<w>> : w \in White}
  <2>1. PICK w \in White : lead = <<w>>
    BY <1>3
  <2>2. w \in Characters
    BY <1>1
  <2>3. lead \in Texts /\ Len(lead) = 1 /\ lead[1] = w
    BY <2>1, <2>2 DEF Texts
  <2> QED
    BY <2>3
<1> QED
  BY <1>2, <1>3 DEF Leads

\* Stripped takes off what comes before the greeting, and no more.
LEMMA StrippedText ==
  ASSUME NEW lead \in Leads, NEW text \in Texts, Len(text) >= 1, text[1] \notin White,
         NEW n \in 1..Len(lead) + Len(text)
  PROVE  /\ n - Len(lead) \in 0..Len(text)
         /\ Stripped(SubSeq(lead \o text, 1, n)) = SubSeq(text, 1, n - Len(lead))
<1> DEFINE all == lead \o text
           arrived == SubSeq(all, 1, n)
<1>1. PICK l \in {0, 1} : Len(lead) = l
  BY LeadTypes
<1>2. Len(text) \in Nat /\ lead \in Texts /\ \A i \in 1..l : lead[i] \in White
  BY <1>1, LeadTypes, LenProperties DEF Texts
<1>3. /\ all \in Texts /\ Len(all) = l + Len(text)
      /\ \A i \in 1..l + Len(text) : all[i] = IF i <= l THEN lead[i] ELSE text[i - l]
  BY <1>1, <1>2, ConcatProperties DEF Texts
<1> HIDE DEF all
<1>4. n \in Nat /\ n >= l /\ n - l \in 0..Len(text) /\ n \in 0..Len(all) /\ n \in 1..l + Len(text)
  BY <1>1, <1>2, <1>3
<1>5. /\ arrived \in Texts /\ Len(arrived) = n
      /\ \A i \in 1..n : arrived[i] = all[i]
      /\ \A k \in 0..n : SubSeq(arrived, k + 1, n) = SubSeq(all, k + 1, n)
  BY <1>3, <1>4, InitialSlice
<1> HIDE DEF arrived
<1>6. \A i \in 1..l : arrived[i] \in White
  <2>1. \A i \in 1..l : i \in 1..n /\ i \in 1..l + Len(text) /\ i <= l
    BY <1>1, <1>4
  <2> QED
    BY <1>2, <1>3, <1>5, <2>1
<1>7. l < n => arrived[l + 1] \notin White
  <2>1. SUFFICES ASSUME l < n PROVE arrived[l + 1] = text[1]
    OBVIOUS
  <2>2. PICK j \in 1..n : j = l + 1
    BY <1>4, <2>1
  <2>3. j \in 1..l + Len(text) /\ ~(j <= l) /\ j - l = 1
    BY <1>4, <2>2
  <2>4. all[j] = text[1]
    BY <1>3, <2>3
  <2> QED
    BY <1>5, <2>2, <2>4
<1>8. Stripped(arrived) = SubSeq(arrived, l + 1, n)
  <2>1. l \in 0..Len(arrived)
    BY <1>4, <1>5
  <2> QED
    BY <1>5, <1>6, <1>7, <2>1, StrippedRest
<1>9. SubSeq(arrived, l + 1, n) = SubSeq(all, l + 1, n)
  <2>1. l \in 0..n
    BY <1>4
  <2> QED
    BY <1>5, <2>1
<1>10. SubSeq(all, l + 1, n) = SubSeq(text, 1, n - l)
  <2>1. /\ 0 \in 0..Len(text) /\ n - l \in 0..Len(text)
        /\ l + 0 + 1 = l + 1 /\ l + (n - l) = n /\ 0 + 1 = 1
    BY <1>2, <1>4
  <2>2. SubSeq(lead \o text, l + 0 + 1, l + (n - l)) = SubSeq(text, 0 + 1, n - l)
    BY <1>1, <1>2, <2>1, SliceOfConcat
  <2> QED
    BY <2>1, <2>2 DEF all
<1> QED
  BY <1>1, <1>4, <1>8, <1>9, <1>10 DEF arrived, all

\* The same, from one position to another.
LEMMA TailSlice ==
  ASSUME NEW head \in Texts, NEW tail \in Texts, NEW h \in Nat, h = Len(head),
         NEW a \in h + 1..h + Len(tail) + 1, NEW b \in a - 1..h + Len(tail)
  PROVE  SubSeq(head \o tail, a, b) = SubSeq(tail, a - h, b - h)
<1>1. Len(tail) \in Nat
  BY LenProperties DEF Texts
<1>2. PICK k \in 0..Len(tail) : k = a - h - 1
  <2>1. a - h - 1 \in 0..Len(tail)
    BY <1>1
  <2> QED
    BY <2>1
<1>3. PICK m \in k..Len(tail) : m = b - h
  <2>1. b - h \in k..Len(tail)
    BY <1>1, <1>2
  <2> QED
    BY <2>1
<1>4. h + k + 1 = a /\ h + m = b /\ k + 1 = a - h
  BY <1>1, <1>2, <1>3
<1>5. SubSeq(head \o tail, h + k + 1, h + m) = SubSeq(tail, k + 1, m)
  BY SliceOfConcat
<1> QED
  BY <1>3, <1>4, <1>5

\* The second of two texts from one of its positions on.
LEMMA FromTail ==
  ASSUME NEW head \in Texts, NEW tail \in Texts, NEW h \in Nat, h = Len(head),
         NEW k \in 0..Len(tail)
  PROVE  SubSeq(head \o tail, h + k + 1, h + Len(tail)) = SubSeq(tail, k + 1, Len(tail))
<1>1. PICK m \in k..Len(tail) : m = Len(tail)
  BY LenProperties DEF Texts
<1>2. SubSeq(head \o tail, Len(head) + k + 1, Len(head) + m) = SubSeq(tail, k + 1, m)
  BY SliceOfConcat
<1> QED
  BY <1>1, <1>2

\* What follows the greeting is of no matter to how it is told.
LEMMA GreetedTypes ==
  ASSUME NEW tail \in Texts
  PROVE  /\ Greeting \in Texts /\ Len(Greeting) \in Nat \ {0}
         /\ Greeting \o tail \in Texts /\ Len(tail) \in Nat
         /\ Len(Greeting \o tail) = Len(Greeting) + Len(tail)
         /\ \A i \in 1..Len(Greeting) : (Greeting \o tail)[i] = Greeting[i]
         /\ (Greeting \o tail)[1] \notin White
<1>1. Greeting \in Texts /\ Greeting # <<>> /\ Greeting[1] \notin White
  BY TextsAssumption DEF Texts
<1>2. Len(Greeting) \in Nat \ {0} /\ Len(tail) \in Nat
  BY <1>1, LenProperties, EmptySeq DEF Texts
<1>3. /\ Greeting \o tail \in Texts
      /\ Len(Greeting \o tail) = Len(Greeting) + Len(tail)
      /\ \A i \in 1..Len(Greeting) + Len(tail) : (Greeting \o tail)[i] =
           IF i <= Len(Greeting) THEN Greeting[i] ELSE tail[i - Len(Greeting)]
  BY <1>1, ConcatProperties DEF Texts
<1>4. \A i \in 1..Len(Greeting) : (Greeting \o tail)[i] = Greeting[i]
  BY <1>2, <1>3
<1> QED
  BY <1>1, <1>2, <1>3, <1>4

\* What has arrived is told to be the greeting and taken off once it is whole.
LEMMA GreetingIsTold ==
  ASSUME NEW tail \in Texts, NEW whole, whole = Greeting \o tail,
         NEW d \in 0..Len(whole), NEW arrived, Stripped(arrived) = SubSeq(whole, 1, d)
  PROVE  /\ d < Len(Greeting) => MayBeGreeting(arrived)
         /\ d >= Len(Greeting) =>
              WithoutGreeting(arrived) = Stripped(SubSeq(whole, Len(Greeting) + 1, d))
<1> DEFINE got == SubSeq(whole, 1, d)
<1>1. /\ Greeting \in Texts /\ Len(Greeting) \in Nat \ {0}
      /\ whole \in Texts /\ Len(whole) \in Nat /\ Len(whole) >= Len(Greeting)
      /\ \A i \in 1..Len(Greeting) : whole[i] = Greeting[i]
  BY GreetedTypes
<1>2. /\ got \in Texts /\ Len(got) = d /\ d \in Nat
      /\ \A i \in 1..d : got[i] = whole[i]
      /\ \A n \in 0..d : SubSeq(got, n + 1, d) = SubSeq(whole, n + 1, d)
  <2>1. whole \in Texts /\ d \in Nat
    BY <1>1
  <2> QED
    BY <2>1, InitialSlice
<1> HIDE DEF got
<1>3. CASE d < Len(Greeting)
  <2>1. LiesAt(got, Greeting, 1, Len(Greeting))
    BY <1>1, <1>2, <1>3 DEF LiesAt
  <2>2. IsPrefix(got, Greeting) /\ got # Greeting
    BY <1>1, <1>2, <1>3, <2>1, PrefixLies DEF Texts
  <2> QED
    BY <1>1, <1>2, <1>3, <2>2 DEF MayBeGreeting, IsStrictPrefix, got
<1>4. CASE d >= Len(Greeting)
  <2>1. LiesAt(Greeting, got, 1, Len(got))
    BY <1>1, <1>2, <1>4 DEF LiesAt
  <2>2. IsPrefix(Greeting, got)
    BY <1>1, <1>2, <2>1, PrefixLies DEF Texts
  <2>3. WithoutGreeting(arrived) = Stripped(SubSeq(got, Len(Greeting) + 1, d))
    BY <1>2, <2>2 DEF WithoutGreeting, got
  <2>4. Len(Greeting) \in 0..d
    BY <1>1, <1>2, <1>4
  <2>5. SubSeq(got, Len(Greeting) + 1, d) = SubSeq(whole, Len(Greeting) + 1, d)
    BY <1>2, <2>4
  <2>6. ~(d < Len(Greeting))
    BY <1>1, <1>2, <1>4
  <2> QED
    BY <2>3, <2>5, <2>6
<1> QED
  BY <1>1, <1>2, <1>3, <1>4

LEMMA Associative ==
  ASSUME NEW a \in Texts, NEW b \in Texts, NEW c \in Texts
  PROVE  (a \o b) \o c = a \o (b \o c)
BY ConcatAssociative DEF Texts

\* The greeting and tail are cut into what has arrived and the rest: that is the
\* white space before the greeting at most, or the whole greeting and more.
CutInto(arrived, rest, tail) ==
  /\ Stripped(arrived) = <<>> => rest = (<<>> \o Greeting) \o tail
  /\ ~MayBeGreeting(arrived) =>
       \E k \in 0..Len(tail) : /\ WithoutGreeting(arrived) = Stripped(SubSeq(tail, 0 + 1, k))
                               /\ rest = SubSeq(tail, k + 1, Len(tail))

LEMMA FirstCut ==
  ASSUME NEW lead \in Leads, NEW tail \in Texts,
         NEW all, all = (lead \o Greeting) \o tail, NEW n \in 1..Len(all),
         NEW arrived, arrived = SubSeq(all, 1, n),
         NEW rest, rest = SubSeq(all, n + 1, Len(all))
  PROVE  CutInto(arrived, rest, tail)
<1>1. PICK whole \in Texts : whole = Greeting \o tail
  BY GreetedTypes
<1>2. /\ Greeting \in Texts /\ Len(Greeting) \in Nat \ {0} /\ Len(tail) \in Nat
      /\ Len(whole) = Len(Greeting) + Len(tail) /\ Len(whole) \in Nat /\ Len(whole) >= 1
      /\ whole[1] \notin White
  BY <1>1, GreetedTypes
<1>3. lead \in Texts
  BY LeadTypes
<1>4. PICK l \in Nat : l = Len(lead)
  BY <1>3, LenProperties DEF Texts
<1>5. all = lead \o whole /\ whole = (<<>> \o Greeting) \o tail
  <2>1. (lead \o Greeting) \o tail = lead \o (Greeting \o tail)
    BY <1>2, <1>3, Associative
  <2>2. <<>> \o Greeting = Greeting
    BY <1>2, ConcatEmptySeq DEF Texts
  <2> QED
    BY <1>1, <2>1, <2>2
<1>6. Len(all) = l + Len(whole)
  BY <1>3, <1>4, <1>5, ConcatProperties DEF Texts
<1>7. /\ n - l \in 0..Len(whole)
      /\ Stripped(arrived) = SubSeq(whole, 1, n - l)
  <2>1. n \in 1..Len(lead) + Len(whole)
    BY <1>4, <1>6
  <2>2. /\ n - Len(lead) \in 0..Len(whole)
        /\ Stripped(SubSeq(lead \o whole, 1, n)) = SubSeq(whole, 1, n - Len(lead))
    BY <1>2, <2>1, StrippedText
  <2> QED
    BY <1>4, <1>5, <2>2
<1>8. PICK d \in 0..Len(whole) : d = n - l
  BY <1>7
<1>9. rest = SubSeq(whole, d + 1, Len(whole))
  <2>1. n + 1 \in l + 1..l + Len(whole) + 1 /\ l + Len(whole) \in n + 1 - 1..l + Len(whole)
        /\ n + 1 - l = d + 1 /\ l + Len(whole) - l = Len(whole)
    BY <1>2, <1>8
  <2>2. SubSeq(lead \o whole, n + 1, l + Len(whole)) = SubSeq(whole, n + 1 - l, l + Len(whole) - l)
    BY <1>3, <1>4, <2>1, TailSlice
  <2> QED
    BY <1>5, <1>6, <2>1, <2>2
<1>10. ASSUME Stripped(arrived) = <<>> PROVE rest = whole
  <2>1. Len(SubSeq(whole, 1, d)) = d /\ Len(<<>>) = 0
    BY InitialSlice
  <2>2. d = 0
    BY <1>7, <1>8, <1>10, <2>1
  <2>3. SubSeq(whole, 1, Len(whole)) = whole
    BY SubSeqFull DEF Texts
  <2> QED
    BY <1>9, <2>2, <2>3, 0 + 1 = 1
<1>11. ASSUME ~MayBeGreeting(arrived)
       PROVE  \E k \in 0..Len(tail) : /\ WithoutGreeting(arrived) = Stripped(SubSeq(tail, 0 + 1, k))
                                      /\ rest = SubSeq(tail, k + 1, Len(tail))
  <2>1. Stripped(arrived) = SubSeq(whole, 1, d)
    BY <1>7, <1>8
  <2>2. /\ d < Len(Greeting) => MayBeGreeting(arrived)
        /\ d >= Len(Greeting) =>
             WithoutGreeting(arrived) = Stripped(SubSeq(whole, Len(Greeting) + 1, d))
    BY <1>1, <2>1, GreetingIsTold
  <2>3. d >= Len(Greeting)
        /\ WithoutGreeting(arrived) = Stripped(SubSeq(whole, Len(Greeting) + 1, d))
    BY <1>2, <1>11, <2>2
  <2>4. PICK g \in Nat : g = Len(Greeting)
    BY <1>2
  <2>5. PICK k \in 0..Len(tail) : k = d - g
    <3>1. d >= g /\ d <= g + Len(tail) /\ d \in Nat
      BY <1>2, <2>3, <2>4
    <3>2. d - g \in 0..Len(tail)
      BY <1>2, <3>1
    <3> QED
      BY <3>2
  <2>6. /\ g + 1 \in g + 1..g + Len(tail) + 1 /\ d \in g + 1 - 1..g + Len(tail)
        /\ d + 1 \in g + 1..g + Len(tail) + 1 /\ g + Len(tail) \in d + 1 - 1..g + Len(tail)
        /\ g + 1 - g = 0 + 1 /\ d - g = k /\ d + 1 - g = k + 1 /\ g + Len(tail) - g = Len(tail)
    BY <1>2, <2>3, <2>4, <2>5
  <2>7. SubSeq(Greeting \o tail, g + 1, d) = SubSeq(tail, g + 1 - g, d - g)
    BY <1>2, <2>4, <2>6, TailSlice
  <2>8. SubSeq(Greeting \o tail, g + k + 1, g + Len(tail)) = SubSeq(tail, k + 1, Len(tail))
    BY <1>2, <2>4, FromTail
  <2>9. g + k + 1 = d + 1
    BY <1>2, <2>4, <2>5
  <2> QED
    BY <1>1, <1>2, <1>9, <2>3, <2>4, <2>6, <2>7, <2>8, <2>9
<1> QED
  BY <1>5, <1>10, <1>11 DEF CutInto

\* What the client may be told is again a text the worker may have written.

LEMMA AnswerIsTold ==
  ASSUME content \in Answers
  PROVE  IsTold(content) /\ content \in Told
<1>1. content \in Texts
  BY TextsAssumption DEF Texts
<1>2. IsTold(content)
  BY <1>1, AnswersAssumption DEF IsTold
<1>3. content = SubSeq(content, 0 + 1, Len(content))
  BY <1>1, SubSeqFull, 0 + 1 = 1 DEF Texts
<1>4. 0 \in {n \in 0..Len(content) : \A i \in 1..n : content[i] \in White}
  BY <1>1, LenProperties DEF Texts
<1> QED
  BY <1>2, <1>3, <1>4 DEF Told

LEMMA AnswerRest ==
  ASSUME content \in Answers, NEW d \in 0..Len(content),
         NEW told, told = SubSeq(content, d + 1, Len(content)),
         NEW head, head = SubSeq(content, 1, d)
  PROVE  /\ head \in Texts /\ Len(head) = d
         /\ told \in Texts /\ Len(told) = Len(content) - d
         /\ content = head \o told
<1>1. content \in Texts /\ Len(content) \in Nat
  BY AnswerIsTold, LenProperties DEF Texts, IsTold
<1>2. head \in Texts /\ Len(head) = d
  BY <1>1, InitialSlice
<1>3. told \in Texts /\ Len(told) = Len(content) - d
  <2>1. PICK a \in 1..Len(content) + 1 : a = d + 1
    BY <1>1
  <2>2. PICK b \in a - 1..Len(content) : b = Len(content)
    BY <1>1, <2>1
  <2>3. SubSeq(content, a, b) \in Texts /\ Len(SubSeq(content, a, b)) = b - a + 1
    BY <1>1, Slice DEF Texts
  <2>4. b - a + 1 = Len(content) - d
    BY <1>1, <2>1, <2>2
  <2> QED
    BY <2>1, <2>2, <2>3, <2>4
<1>4. content = head \o told
  <2>1. PICK c \in d..Len(content) : c = Len(content)
    BY <1>1
  <2>2. SubSeq(content, 1, d) \o SubSeq(content, d + 1, c) = SubSeq(content, 1, c)
    BY <1>1, Initial
  <2>3. SubSeq(content, 1, c) = content
    BY <1>1, <2>1, SubSeqFull DEF Texts
  <2> QED
    BY <2>1, <2>2, <2>3
<1> QED
  BY <1>2, <1>3, <1>4

LEMMA WrittenRest ==
  ASSUME NEW head \in Texts, NEW told \in Texts, content = head \o told, NEW marker \in EndMarkers
  PROVE  /\ Written(told, marker) \in Texts
         /\ Written(content, marker) = head \o Written(told, marker)
         /\ Len(Written(content, marker)) = Len(head) + Len(Written(told, marker))
<1>1. marker \in Texts /\ Prompt \in Texts
  BY TextsAssumption DEF Texts
<1>2. PICK both \in Texts : both = told \o marker
  BY <1>1, ConcatProperties DEF Texts
<1>3. Written(told, marker) \in Texts
  BY <1>1, <1>2, ConcatProperties DEF Texts, Written
<1>4. Written(content, marker) = head \o Written(told, marker)
  <2>1. (head \o told) \o marker = head \o both
    BY <1>1, <1>2, Associative
  <2>2. (head \o both) \o Prompt = head \o (both \o Prompt)
    BY <1>1, <1>2, Associative
  <2> QED
    BY <1>2, <2>1, <2>2 DEF Written
<1> QED
  BY <1>3, <1>4, ConcatProperties DEF Texts

LEMMA ToldTypes ==
  ASSUME content \in Answers, NEW told \in Told
  PROVE  IsTold(told)
<1>1. PICK d \in 0..Len(content) : told = SubSeq(content, d + 1, Len(content))
  BY DEF Told
<1>2. PICK head : head = SubSeq(content, 1, d)
  OBVIOUS
<1>3. /\ head \in Texts /\ Len(head) = d /\ d \in Nat /\ content = head \o told
      /\ told \in Texts /\ Len(told) = Len(content) - d /\ Len(content) \in Nat
  <2>1. content \in Texts
    BY AnswerIsTold DEF IsTold
  <2>2. Len(content) \in Nat
    BY <2>1, LenProperties DEF Texts
  <2>3. d \in Nat
    BY <2>2
  <2> QED
    BY <1>1, <1>2, <2>2, <2>3, AnswerRest
<1>4. SUFFICES ASSUME NEW marker \in EndMarkers, NEW rest \in Texts, rest = Written(told, marker),
                      NEW i \in Starts(EndMarkers, rest)
               PROVE  i > Len(told)
  BY <1>3, WrittenRest DEF IsTold, Written
<1>5. PICK all \in Texts : all = Written(content, marker)
  BY AnswerIsTold, WrittenTypes
<1>6. /\ all = head \o rest /\ Len(all) = d + Len(rest) /\ Len(rest) \in Nat
      /\ \A p \in 1..d + Len(rest) : all[p] = IF p <= d THEN head[p] ELSE rest[p - d]
  <2>1. all = head \o rest
    BY <1>3, <1>4, <1>5, WrittenRest
  <2> QED
    BY <1>3, <2>1, LenProperties, ConcatProperties DEF Texts
<1>7. EndMarkers \in SUBSET Texts
  BY TextsAssumption DEF Texts
<1>8. /\ Starts(EndMarkers, rest) \subseteq 1..Len(rest)
      /\ \A p \in 1..Len(rest) :
           p \in Starts(EndMarkers, rest) <=> \E s \in EndMarkers : LiesAt(s, rest, p, Len(rest))
  BY <1>7, StartsAreLies DEF Texts
<1>9. /\ Starts(EndMarkers, all) \subseteq 1..Len(all)
      /\ \A p \in 1..Len(all) :
           p \in Starts(EndMarkers, all) <=> \E s \in EndMarkers : LiesAt(s, all, p, Len(all))
  BY <1>7, StartsAreLies DEF Texts
<1>10. i \in 1..Len(rest)
  BY <1>8
<1>11. PICK s \in EndMarkers : LiesAt(s, rest, i, Len(rest))
  BY <1>8, <1>10
<1>12. Len(s) \in Nat
  BY <1>7, LenProperties DEF Texts
<1>13. PICK p \in 1..Len(all) : p = d + i
  <2>1. d + i \in 1..Len(all)
    BY <1>3, <1>6, <1>10
  <2> QED
    BY <2>1
<1>14. LiesAt(s, all, p, Len(all))
  <2>1. /\ i + Len(s) - 1 <= Len(rest)
        /\ \A j \in 1..Len(s) : rest[i + j - 1] = s[j]
    BY <1>11 DEF LiesAt
  <2>2. p + Len(s) - 1 <= Len(all)
    BY <1>3, <1>6, <1>10, <1>12, <1>13, <2>1
  <2>3. ASSUME NEW j \in 1..Len(s) PROVE all[p + j - 1] = s[j]
    <3>1. PICK q \in 1..d + Len(rest) : q = p + j - 1
      <4>1. p + j - 1 \in 1..d + Len(rest)
        BY <1>3, <1>6, <1>10, <1>12, <1>13, <2>1
      <4> QED
        BY <4>1
    <3>2. ~(q <= d) /\ q - d = i + j - 1
      BY <1>3, <1>10, <1>12, <1>13, <3>1
    <3> QED
      BY <1>6, <2>1, <3>1, <3>2
  <2> QED
    BY <2>2, <2>3 DEF LiesAt
<1>15. p > Len(content)
  <2>1. p \in Starts(EndMarkers, all)
    BY <1>9, <1>14
  <2> QED
    BY <1>5, <2>1, AnswersAssumption DEF Written
<1> QED
  BY <1>3, <1>10, <1>13, <1>15

\* Stripped leaves of what follows the greeting what the client may be told.
LEMMA StrippedAnswer ==
  ASSUME content \in Answers, NEW marker \in EndMarkers,
         NEW tail, tail = Written(content, marker), NEW k \in 0..Len(tail)
  PROVE  \E told \in Told : \E j \in 0..Len(Written(told, marker)) :
           /\ Stripped(SubSeq(tail, 0 + 1, k)) = SubSeq(Written(told, marker), 0 + 1, j)
           /\ SubSeq(tail, k + 1, Len(tail))
                = SubSeq(Written(told, marker), j + 1, Len(Written(told, marker)))
<1> DEFINE solid == {i \in 1..Len(content) : content[i] \notin White}
<1>1. /\ Len(content) \in Nat /\ tail \in Texts /\ Len(tail) \in Nat /\ Len(tail) >= Len(content)
      /\ \A i \in 1..Len(content) : tail[i] = content[i]
  BY AnswerIsTold, WrittenTypes
<1>2. PICK f \in solid : \A i \in solid : f <= i
  <2>1. solid \in SUBSET Nat /\ solid # {}
    BY AnswersAssumption
  <2> HIDE DEF solid
  <2> QED
    BY <2>1, Least
<1>3. f \in 1..Len(content) /\ content[f] \notin White
  OBVIOUS
<1>4. \A i \in 1..f - 1 : content[i] \in White
  <2>1. SUFFICES ASSUME NEW i \in 1..f - 1, content[i] \notin White PROVE FALSE
    OBVIOUS
  <2>2. i \in solid /\ ~(f <= i)
    BY <1>1, <1>3, <2>1
  <2> QED
    BY <1>2, <2>2
<1> HIDE DEF solid
<1>5. PICK d \in 0..Len(content) : d = IF f - 1 <= k THEN f - 1 ELSE k
  <2>1. k \in Nat /\ f - 1 \in 0..Len(content)
    BY <1>1, <1>3
  <2>2. (IF f - 1 <= k THEN f - 1 ELSE k) \in 0..Len(content)
    BY <1>1, <2>1
  <2> QED
    BY <2>2
<1>6. d <= k /\ d \in Nat /\ k \in Nat /\ d \in 0..k /\ (\A i \in 1..d : content[i] \in White)
      /\ (d < k => d + 1 = f)
  BY <1>1, <1>3, <1>4, <1>5
<1>7. PICK slice \in Texts : slice = SubSeq(tail, 1, k)
  BY <1>1, InitialSlice
<1>8. /\ Len(slice) = k /\ \A i \in 1..k : slice[i] = tail[i]
      /\ \A n \in 0..k : SubSeq(slice, n + 1, k) = SubSeq(tail, n + 1, k)
  BY <1>1, <1>7, InitialSlice
<1>9. Stripped(slice) = SubSeq(tail, d + 1, k)
  <2>1. d \in 0..Len(slice)
    BY <1>6, <1>8
  <2>2. \A i \in 1..d : slice[i] \in White
    <3>1. \A i \in 1..d : i \in 1..k /\ i \in 1..Len(content)
      BY <1>1, <1>6
    <3> QED
      BY <1>1, <1>6, <1>8, <3>1
  <2>3. ASSUME d < Len(slice) PROVE slice[d + 1] \notin White
    <3>1. f \in 1..k /\ d + 1 = f
      BY <1>1, <1>3, <1>6, <1>8, <2>3
    <3> QED
      BY <1>1, <1>3, <1>8, <3>1
  <2>4. Stripped(slice) = SubSeq(slice, d + 1, Len(slice))
    BY <2>1, <2>2, <2>3, StrippedRest
  <2> QED
    BY <1>6, <1>8, <2>4
<1>10. PICK told : told = SubSeq(content, d + 1, Len(content))
  OBVIOUS
<1>11. told \in Told
  BY <1>6, <1>10 DEF Told
<1>12. PICK head : head = SubSeq(content, 1, d)
  OBVIOUS
<1>13. head \in Texts /\ Len(head) = d /\ told \in Texts /\ content = head \o told
  BY <1>10, <1>12, AnswerRest
<1>14. PICK rest \in Texts : /\ rest = Written(told, marker)
                             /\ tail = head \o rest /\ Len(tail) = d + Len(rest)
  BY <1>13, WrittenRest
<1>15. PICK j \in 0..Len(rest) : j = k - d
  <2>1. Len(rest) \in Nat
    BY <1>14, LenProperties DEF Texts
  <2>2. k - d \in 0..Len(rest)
    BY <1>6, <1>14, <2>1
  <2> QED
    BY <2>2
<1>16. SubSeq(tail, d + 1, k) = SubSeq(rest, 0 + 1, j)
  <2>1. 0 \in 0..Len(rest) /\ j \in 0..Len(rest) /\ d + 0 + 1 = d + 1 /\ d + j = k
    BY <1>6, <1>15
  <2>2. SubSeq(head \o rest, Len(head) + 0 + 1, Len(head) + j) = SubSeq(rest, 0 + 1, j)
    <3>1. 0 \in 0..Len(rest) /\ j \in 0..Len(rest) /\ head \in Texts
      BY <1>13, <2>1
    <3> QED
      BY <3>1, SliceOfConcat
  <2>3. Len(head) + 0 + 1 = d + 1 /\ Len(head) + j = k
    BY <1>13, <2>1
  <2> QED
    BY <1>14, <2>2, <2>3
<1>17. SubSeq(tail, k + 1, Len(tail)) = SubSeq(rest, j + 1, Len(rest))
  <2>1. SubSeq(head \o rest, d + j + 1, d + Len(rest)) = SubSeq(rest, j + 1, Len(rest))
    BY <1>6, <1>13, <1>14, <1>15, FromTail
  <2>2. d + j + 1 = k + 1
    BY <1>6, <1>15
  <2> QED
    BY <1>14, <2>1, <2>2
<1> QED
  BY <1>7, <1>9, <1>11, <1>14, <1>16, <1>17, 0 + 1 = 1

LEMMA FirstRead ==
  ASSUME content \in Answers, Untouched, NEW n \in 1..Len(unread),
         NEW arrived, arrived = pending \o SubSeq(unread, 1, n),
         unread' = SubSeq(unread, n + 1, Len(unread))
  PROVE  \E marker \in EndMarkers : CutInto(arrived, unread', Written(content, marker))
<1>1. PICK lead \in Leads, marker \in EndMarkers :
        unread = (lead \o Greeting) \o Written(content, marker)
  BY DEF Untouched
<1>2. PICK tail \in Texts : tail = Written(content, marker)
  BY AnswerIsTold, WrittenTypes
<1> PICK all : all = unread
  OBVIOUS
<1>3. all \in Texts
  <2>1. Greeting \in Texts
    BY TextsAssumption DEF Texts
  <2>2. lead \in Texts
    BY LeadTypes
  <2>3. lead \o Greeting \in Texts
    BY <2>1, <2>2, ConcatProperties DEF Texts
  <2> QED
    BY <1>1, <1>2, <2>3, ConcatProperties DEF Texts
<1>4. arrived = SubSeq(all, 1, n)
  <2>1. n \in 0..Len(all)
    BY <1>2, <1>3, LenProperties DEF Texts
  <2>2. SubSeq(all, 1, n) \in Texts
    BY <1>3, <2>1, InitialSlice
  <2>3. arrived = <<>> \o SubSeq(all, 1, n)
    BY <1>2 DEF Untouched
  <2> QED
    BY <2>2, <2>3, ConcatEmptySeq DEF Texts
<1>5. all = (lead \o Greeting) \o tail /\ n \in 1..Len(all)
  BY <1>1, <1>2
<1>6. PICK rest : rest = SubSeq(all, n + 1, Len(all))
  OBVIOUS
<1>7. CutInto(arrived, rest, tail)
  BY <1>4, <1>5, <1>6, FirstCut
<1>8. unread' = rest
  BY <1>2, <1>6
<1> QED
  BY <1>2, <1>7, <1>8

\* Past the first m characters of what the worker writes has come this text, and
\* the rest has yet to come.
HasCome(told, m, text, rest) ==
  \E marker \in EndMarkers : \E k \in Nat :
    /\ k \in m..Len(Written(told, marker))
    /\ text = SubSeq(Written(told, marker), m + 1, k)
    /\ rest = SubSeq(Written(told, marker), k + 1, Len(Written(told, marker)))

\* A later read adds to what is held back.
LEMMA LaterRead ==
  ASSUME NEW told, IsTold(told), NEW m \in 0..Len(told), PipeHas(told, m),
         NEW n \in 1..Len(unread), NEW arrived, arrived = pending \o SubSeq(unread, 1, n),
         unread' = SubSeq(unread, n + 1, Len(unread))
  PROVE  HasCome(told, m, arrived, unread')
<1>1. PICK marker \in EndMarkers : \E j \in m..Len(Written(told, marker)) :
        /\ pending = SubSeq(Written(told, marker), m + 1, j)
        /\ unread = SubSeq(Written(told, marker), j + 1, Len(Written(told, marker)))
  BY DEF PipeHas
<1>2. PICK tail \in Texts : tail = Written(told, marker)
  BY WrittenTypes
<1>3. PICK w \in Nat : w = Len(tail)
  BY LenProperties DEF Texts
<1>4. PICK j \in m..w : pending = SubSeq(tail, m + 1, j) /\ unread = SubSeq(tail, j + 1, w)
  BY <1>1, <1>2, <1>3
<1>5. m \in Nat /\ j \in Nat /\ j \in 0..Len(tail) /\ w \in j..Len(tail)
      /\ m \in 0..Len(tail) /\ j \in m..Len(tail)
  <2>1. m \in Nat
    BY WrittenTypes
  <2> QED
    BY <1>3, <1>4, <2>1
<1>6. Len(unread) = w - j
  <2>1. 0 \in 0..w - j
    BY <1>4, <1>5
  <2>2. Len(SubSeq(tail, j + 1, w)) = w - j
    BY <1>5, <2>1, SliceAfter
  <2> QED
    BY <1>4, <2>2
<1>7. n \in 0..w - j /\ n \in Nat
  BY <1>3, <1>5, <1>6
<1>8. PICK k \in Nat : k = j + n
  BY <1>5, <1>7
<1>9. k \in m..w /\ k \in j..w /\ k \in j..Len(tail)
  BY <1>3, <1>4, <1>5, <1>7, <1>8
<1>10. /\ SubSeq(unread, 1, n) = SubSeq(tail, j + 1, k)
       /\ unread' = SubSeq(tail, k + 1, w)
  <2>1. /\ SubSeq(SubSeq(tail, j + 1, w), 1, n) = SubSeq(tail, j + 1, j + n)
        /\ SubSeq(SubSeq(tail, j + 1, w), n + 1, w - j) = SubSeq(tail, j + n + 1, w)
    BY <1>5, <1>7, SliceAfter
  <2> QED
    BY <1>4, <1>6, <1>8, <2>1
<1>11. arrived = SubSeq(tail, m + 1, k)
  <2>1. SubSeq(tail, m + 1, j) \o SubSeq(tail, j + 1, k) = SubSeq(tail, m + 1, k)
    BY <1>5, <1>9, Adjacent
  <2> QED
    BY <1>4, <1>10, <2>1
<1> QED
  BY <1>2, <1>3, <1>9, <1>10, <1>11 DEF HasCome

\* Before the first delta the client has nothing.
LEMMA NothingYet ==
  ASSUME NEW told, IsTold(told), stops \in StopLists, Untouched
  PROVE  ClientHas(told, 0)
<1>1. told \in Texts /\ Len(told) \in Nat /\ stops \in SUBSET Texts
  BY ContentTypes
<1>2. 0 \in 0..Len(told) /\ 0 \in 0..0 /\ 0 + 1 - 1 = 0 /\ 0 + 1 = 1
  BY <1>1
<1>3. SubSeq(told, 1, 0) = <<>>
  BY <1>1, <1>2, InitialSlice, EmptySeq DEF Texts
<1>4. StopFree(told, 0 + 1, 0)
  BY <1>2 DEF StopFree
<1>5. Filtered(told, 0, 0)
  BY <1>2, <1>3, <1>4 DEF Filtered, Untouched
<1> QED
  BY <1>2, <1>5 DEF ClientHas
-----------------------------------------------------------------------------
(* The invariant holds, if a read returns the whole greeting or nothing of it. *)

LEMMA InitIInv == Init => IInv
<1>1. SUFFICES ASSUME Init PROVE IInv
  OBVIOUS
<1>2. PICK lead \in Leads, marker \in EndMarkers :
        unread = lead \o Greeting \o content \o marker \o Prompt
  BY <1>1 DEF Init
<1>3. /\ content \in Answers /\ content \in Texts /\ marker \in Texts /\ Prompt \in Texts
      /\ Greeting \in Texts /\ lead \in Texts
  <2>1. content \in Answers /\ content \in Texts
    BY <1>1, AnswerIsTold DEF Init, IsTold
  <2>2. Prompt \in Texts /\ Greeting \in Texts /\ marker \in Texts
    BY TextsAssumption DEF Texts
  <2> QED
    BY <2>1, <2>2, LeadTypes
<1>4. unread = (lead \o Greeting) \o Written(content, marker)
  <2>1. PICK greeted \in Texts : greeted = lead \o Greeting
    BY <1>3, ConcatProperties DEF Texts
  <2>2. (greeted \o content) \o marker = greeted \o (content \o marker)
    BY <1>3, <2>1, Associative
  <2>3. PICK both \in Texts : both = content \o marker
    BY <1>3, ConcatProperties DEF Texts
  <2>4. (greeted \o both) \o Prompt = greeted \o (both \o Prompt)
    <3>1. Prompt \in Texts
      BY <1>3
    <3> QED
      BY <3>1, Associative
  <2> QED
    BY <1>2, <2>1, <2>2, <2>3, <2>4 DEF Written
<1>5. Untouched
  BY <1>1, <1>4 DEF Untouched, Init
<1> QED
  BY <1>1, <1>5 DEF IInv, Init

LEMMA ReadStep ==
  ASSUME WholeGreeting = TRUE, IInv, Read
  PROVE  IInv'
<1>1. /\ content \in Answers /\ stops \in StopLists /\ stopped \in BOOLEAN /\ phase = "reading"
      /\ UNCHANGED <<content, stops>>
  BY DEF IInv, Read
<1>2. PICK n \in 1..Len(unread) :
        /\ unread' = SubSeq(unread, n + 1, Len(unread))
        /\ \/ ReadGreeting(pending \o SubSeq(unread, 1, n))
           \/ ReadAnswer(pending \o SubSeq(unread, 1, n))
  BY DEF Read
<1>3. PICK arrived : arrived = pending \o SubSeq(unread, 1, n)
  OBVIOUS
<1>4. CASE ReadGreeting(arrived)
  <2>1. /\ ~prefixDone /\ Stripped(arrived) = <<>> /\ pending' = <<>>
        /\ UNCHANGED <<prefixDone, heldStop, stopped, sent, phase>>
    BY <1>4 DEF ReadGreeting
  <2>2. Untouched
    BY <1>1, <2>1 DEF IInv
  <2>3. PICK marker \in EndMarkers : unread' = (<<>> \o Greeting) \o Written(content, marker)
    BY <1>1, <1>2, <1>3, <2>1, <2>2, FirstRead DEF CutInto
  <2>4. Untouched'
    <3>1. Written(content, marker)' = Written(content, marker)
      BY <1>1 DEF Written
    <3>2. unread' = (<<>> \o Greeting) \o Written(content, marker)'
      BY <2>3, <3>1
    <3>3. <<>> \in Leads
      BY DEF Leads
    <3> QED
      BY <2>1, <2>2, <3>2, <3>3 DEF Untouched
  <2> QED
    BY <1>1, <2>1, <2>4 DEF IInv
<1>5. CASE ReadAnswer(arrived)
  <2>1. PICK text : text = IF prefixDone THEN arrived ELSE WithoutGreeting(arrived)
    OBVIOUS
  <2>2. PICK safe : safe = Max({0, Len(text) - HoldBack(EndMarkers)})
    OBVIOUS
  <2>3. /\ prefixDone \/ ~MayBeGreeting(arrived)
        /\ prefixDone' = TRUE
        /\ \/ /\ Found(EndMarkers, text)
              /\ Take(Before(EndMarkers, text))
              /\ phase' = "flushing"
           \/ /\ ~Found(EndMarkers, text)
              /\ Take(SubSeq(text, 1, safe))
              /\ pending' = SubSeq(text, safe + 1, Len(text))
              /\ UNCHANGED phase
    BY <1>5, <2>1, <2>2 DEF ReadAnswer
  <2>4. phase' \in {"reading", "flushing"} /\ Told' = Told
    BY <1>1, <2>3 DEF Told
  <2>5. CASE stopped
    <3>1. UNCHANGED <<sent, heldStop, stopped>>
      BY <2>3, <2>5 DEF Take
    <3>2. prefixDone
      BY <1>1, <2>5 DEF IInv, Untouched
    <3>3. PICK told \in Told : Greeted(told)
      BY <3>2 DEF IInv
    <3>4. ClientStopped(told)
      BY <2>5, <3>3 DEF Greeted
    <3>5. stopped' = TRUE /\ ClientStopped(told)'
      BY <1>1, <2>5, <3>1, <3>4, StoppedStep
    <3>6. Greeted(told)'
      BY <3>5 DEF Greeted
    <3> QED
      BY <1>1, <2>3, <2>4, <3>5, <3>6 DEF IInv
  <2>6. CASE ~stopped
    <3>1. PICK told \in Told, marker \in EndMarkers, m \in Nat, k \in Nat :
            /\ m \in 0..Len(told) /\ ClientHas(told, m) /\ k \in m..Len(Written(told, marker))
            /\ text = SubSeq(Written(told, marker), m + 1, k)
            /\ unread' = SubSeq(Written(told, marker), k + 1, Len(Written(told, marker)))
      <4>1. CASE prefixDone
        <5>1. PICK told \in Told : Greeted(told)
          BY <4>1 DEF IInv
        <5>2. PICK m \in Nat : ClientHas(told, m) /\ PipeHas(told, m)
          BY <1>1, <2>6, <5>1 DEF Greeted
        <5>3. m \in 0..Len(told) /\ IsTold(told)
          BY <1>1, <5>2, ToldTypes DEF ClientHas
        <5>4. HasCome(told, m, arrived, unread')
          BY <1>2, <1>3, <5>2, <5>3, LaterRead
        <5> QED
          BY <2>1, <4>1, <5>2, <5>3, <5>4 DEF HasCome
      <4>2. CASE ~prefixDone
        <5>1. Untouched
          BY <1>1, <4>2 DEF IInv
        <5>2. PICK marker \in EndMarkers : CutInto(arrived, unread', Written(content, marker))
          BY <1>1, <1>2, <1>3, <5>1, FirstRead
        <5>3. PICK tail : tail = Written(content, marker)
          OBVIOUS
        <5>4. PICK c \in 0..Len(tail) :
                text = Stripped(SubSeq(tail, 0 + 1, c)) /\ unread' = SubSeq(tail, c + 1, Len(tail))
          BY <2>1, <2>3, <4>2, <5>2, <5>3 DEF CutInto
        <5>5. PICK told \in Told : \E k \in 0..Len(Written(told, marker)) :
                /\ Stripped(SubSeq(tail, 0 + 1, c)) = SubSeq(Written(told, marker), 0 + 1, k)
                /\ SubSeq(tail, c + 1, Len(tail))
                     = SubSeq(Written(told, marker), k + 1, Len(Written(told, marker)))
          BY <1>1, <5>3, StrippedAnswer
        <5>6. PICK k \in 0..Len(Written(told, marker)) :
                /\ text = SubSeq(Written(told, marker), 0 + 1, k)
                /\ unread' = SubSeq(Written(told, marker), k + 1, Len(Written(told, marker)))
          BY <5>4, <5>5
        <5>7. IsTold(told)
          BY <1>1, ToldTypes
        <5>8. ClientHas(told, 0)
          BY <1>1, <5>1, <5>7, NothingYet
        <5>9. 0 \in 0..Len(told) /\ k \in Nat
          BY <5>7, WrittenTypes
        <5> QED
          BY <5>6, <5>8, <5>9
      <4> QED
        BY <4>1, <4>2
    <3>2. IsTold(told)
      BY <1>1, ToldTypes
    <3>3. stopped = FALSE /\ UNCHANGED stops
      BY <1>1, <2>6
    <3>4. \/ stopped' = TRUE /\ ClientStopped(told)'
          \/ /\ stopped' = FALSE /\ phase' = "flushing"
             /\ ClientHas(told, Len(told))'
          \/ /\ stopped' = FALSE /\ phase' = phase
             /\ \E h \in Nat : ClientHas(told, h)' /\ PipeHas(told, h)'
      BY <1>1, <2>2, <2>3, <3>1, <3>2, <3>3, AnswerStep
    <3>5. stopped' \in BOOLEAN /\ Greeted(told)'
      BY <1>1, <2>4, <3>4 DEF Greeted
    <3> QED
      BY <1>1, <2>3, <2>4, <3>5 DEF IInv
  <2> QED
    BY <2>5, <2>6
<1> QED
  BY <1>2, <1>3, <1>4, <1>5

LEMMA FlushStep ==
  ASSUME IInv, Flush
  PROVE  IInv'
<1>1. /\ content \in Answers /\ stops \in StopLists /\ stopped \in BOOLEAN
      /\ phase = "flushing" /\ phase' = "done"
      /\ UNCHANGED <<content, stops, stopped>>
  BY DEF IInv, Flush
<1>2. Told' = Told
  BY <1>1 DEF Told
<1>3. PICK told \in Told : Greeted(told)
  BY <1>1 DEF IInv
<1>4. CASE stopped
  <2>1. UNCHANGED sent /\ ClientStopped(told)
    BY <1>3, <1>4 DEF Flush, Greeted
  <2>2. stopped' = TRUE /\ ClientStopped(told)'
    BY <1>1, <1>4, <2>1, StoppedStep
  <2>3. Greeted(told)'
    BY <2>2 DEF Greeted
  <2> QED
    BY <1>1, <1>2, <2>3 DEF IInv
<1>5. CASE ~stopped
  <2>1. told \in Texts /\ Len(told) \in Nat
    BY <1>1, ToldTypes, ContentTypes
  <2>2. PICK k \in 0..Len(told) : Filtered(told, Len(told), k)
    BY <1>1, <1>3, <1>5 DEF Greeted, ClientHas
  <2>3. PICK n \in Nat : n = Len(told)
    BY <2>1
  <2>4. sent' = SubSeq(told, 1, k) \o SubSeq(told, k + 1, n)
    BY <1>5, <2>2, <2>3 DEF Flush, Filtered
  <2>5. n \in k..Len(told)
    BY <2>1, <2>3
  <2>6. sent' = SubSeq(told, 1, n)
    BY <2>1, <2>4, <2>5, Initial
  <2>7. sent' = told
    BY <2>1, <2>3, <2>6, SubSeqFull DEF Texts
  <2>8. StopFree(told, n + 1, n)'
    BY <1>1, <2>2, <2>3 DEF Filtered, StopFree
  <2>9. Greeted(told)'
    BY <1>1, <1>5, <2>3, <2>7, <2>8 DEF Greeted, StopFree
  <2> QED
    BY <1>1, <1>2, <2>9 DEF IInv
<1> QED
  BY <1>1, <1>4, <1>5

LEMMA GiveUpStep ==
  ASSUME IInv, GiveUp
  PROVE  IInv'
<1>1. /\ content \in Answers /\ stops \in StopLists /\ stopped \in BOOLEAN
      /\ phase = "reading" /\ phase' = "failed"
      /\ UNCHANGED <<content, stops, unread, pending, prefixDone, heldStop, stopped, sent>>
  BY DEF IInv, GiveUp
<1>2. Told' = Told
  BY <1>1 DEF Told
<1>3. PICK told \in Told :
        \/ stopped /\ ClientStopped(told)
        \/ ~stopped /\ \E n \in Nat : ClientHas(told, n)
  <2>1. CASE prefixDone
    BY <1>1, <2>1 DEF IInv, Greeted
  <2>2. CASE ~prefixDone
    <3>1. Untouched /\ ~stopped
      BY <1>1, <2>2 DEF IInv, Untouched
    <3>2. ClientHas(content, 0) /\ content \in Told
      BY <1>1, <3>1, NothingYet, AnswerIsTold
    <3> QED
      BY <3>1, <3>2
  <2> QED
    BY <2>1, <2>2
<1>4. CASE stopped
  <2>1. stopped = TRUE /\ ClientStopped(told)
    BY <1>1, <1>3, <1>4
  <2>2. stopped' = TRUE /\ ClientStopped(told)'
    BY <1>1, <2>1, StoppedStep
  <2>3. Greeted(told)'
    BY <2>2 DEF Greeted
  <2> QED
    BY <1>1, <1>2, <2>3 DEF IInv
<1>5. CASE ~stopped
  <2>1. (\E n \in Nat : ClientHas(told, n))'
    BY <1>1, <1>3, <1>5 DEF ClientHas, Filtered, StopFree, HoldBack
  <2>2. Greeted(told)'
    BY <1>1, <1>5, <2>1 DEF Greeted
  <2> QED
    BY <1>1, <1>2, <2>2 DEF IInv
<1> QED
  BY <1>4, <1>5

LEMMA NextIInv ==
  ASSUME WholeGreeting = TRUE, IInv, [Next]_vars
  PROVE  IInv'
<1>1. CASE Read
  BY <1>1, ReadStep
<1>2. CASE Flush
  BY <1>2, FlushStep
<1>3. CASE GiveUp
  BY <1>3, GiveUpStep
<1>4. CASE UNCHANGED vars
  <2>1. UNCHANGED <<content, stops, unread, pending, prefixDone, heldStop, stopped, sent, phase>>
    BY <1>4 DEF vars
  <2>2. Told' = Told
    BY <2>1 DEF Told
  <2>3. Untouched => Untouched'
    BY <2>1 DEF Untouched, Written
  <2>4. ASSUME NEW told, Greeted(told) PROVE Greeted(told)'
    <3>1. ClientStopped(told)' <=> ClientStopped(told)
      BY <2>1 DEF ClientStopped, StoppedAt, StopFree
    <3>2. \A n \in Nat : ClientHas(told, n)' <=> ClientHas(told, n)
      BY <2>1 DEF ClientHas, Filtered, StopFree, HoldBack
    <3>3. \A n \in Nat : PipeHas(told, n)' <=> PipeHas(told, n)
      BY <2>1 DEF PipeHas, Written
    <3>4. ClientHas(told, Len(told))' <=> ClientHas(told, Len(told))
      BY <2>1 DEF ClientHas, Filtered, StopFree, HoldBack
    <3>5. StopFree(told, Len(told) + 1, Len(told))' <=> StopFree(told, Len(told) + 1, Len(told))
      BY <2>1 DEF StopFree
    <3> QED
      BY <2>1, <2>4, <3>1, <3>2, <3>3, <3>4, <3>5 DEF Greeted
  <2> QED
    BY <2>1, <2>2, <2>3, <2>4 DEF IInv
<1> QED
  BY <1>1, <1>2, <1>3, <1>4 DEF Next

LEMMA SpecIInv ==
  ASSUME WholeGreeting = TRUE
  PROVE  Spec => []IInv
<1>1. IInv /\ [Next]_vars => IInv'
  BY NextIInv
<1> QED
  BY <1>1, InitIInv, PTL DEF Spec
-----------------------------------------------------------------------------
(* What follows from it. *)

\* What was sent is the answer up to j, and no stop sequence lies in it.
SentUpTo(told, j) ==
  /\ sent = SubSeq(told, 1, j)
  /\ StopFree(told, j + 1, j)

LEMMA StopFreeSooner ==
  ASSUME NEW told, IsTold(told), stops \in StopLists,
         NEW n \in Nat, NEW i \in 1..n + 1, StopFree(told, i, n), NEW j \in 0..i - 1
  PROVE  StopFree(told, j + 1, j)
<1>1. SUFFICES ASSUME NEW s \in stops, NEW q \in 1..j, LiesAt(s, told, q, j) PROVE FALSE
  BY DEF StopFree
<1>2. Len(s) \in Nat
  BY ContentTypes
<1>3. LiesAt(s, told, q, n) /\ q \in 1..i - 1
  BY <1>1, <1>2 DEF LiesAt
<1> QED
  BY <1>3 DEF StopFree

LEMMA SentIsASlice ==
  ASSUME IInv
  PROVE  \E told \in Told : IsTold(told) /\ \E j \in 0..Len(told) : SentUpTo(told, j)
<1>1. content \in Answers /\ stops \in StopLists
  BY DEF IInv
<1>2. ASSUME NEW told \in Told, NEW n \in Nat, ClientHas(told, n)
      PROVE  \E j \in 0..Len(told) : SentUpTo(told, j)
  <2>1. IsTold(told) /\ Len(told) \in Nat
    BY <1>1, ToldTypes, ContentTypes
  <2>2. PICK k \in 0..n : Filtered(told, n, k)
    BY <1>2 DEF ClientHas
  <2>3. n \in 0..Len(told) /\ n + 1 \in 1..n + 1 /\ k \in 0..n + 1 - 1 /\ k \in 0..Len(told)
    BY <1>2, <2>1 DEF ClientHas
  <2>4. StopFree(told, k + 1, k)
    BY <1>1, <2>1, <2>2, <2>3, StopFreeSooner DEF Filtered
  <2> QED
    BY <2>2, <2>3, <2>4 DEF SentUpTo, Filtered
<1>3. CASE phase = "reading" /\ ~prefixDone
  <2>1. content \in Told /\ IsTold(content) /\ Untouched
    BY <1>1, <1>3, AnswerIsTold DEF IInv
  <2>2. ClientHas(content, 0)
    BY <1>1, <2>1, NothingYet
  <2> QED
    BY <1>2, <2>1, <2>2
<1>4. CASE ~(phase = "reading" /\ ~prefixDone)
  <2>1. PICK told \in Told : Greeted(told)
    BY <1>4 DEF IInv
  <2>2. IsTold(told) /\ Len(told) \in Nat /\ told \in Texts
    BY <1>1, ToldTypes, ContentTypes
  <2>3. CASE stopped
    <3>1. PICK n \in 0..Len(told), i \in Nat : i \in 1..n /\ StoppedAt(told, i, n)
      BY <2>1, <2>2, <2>3 DEF Greeted, ClientStopped
    <3>2. n \in Nat /\ i \in 1..n + 1 /\ i - 1 \in 0..i - 1 /\ i - 1 \in 0..Len(told)
      BY <2>2, <3>1
    <3>3. StopFree(told, i - 1 + 1, i - 1)
      BY <1>1, <2>2, <3>1, <3>2, StopFreeSooner DEF StoppedAt
    <3> QED
      BY <2>2, <3>1, <3>2, <3>3 DEF SentUpTo, StoppedAt
  <2>4. CASE ~stopped /\ phase # "done"
    <3>1. PICK n \in Nat : ClientHas(told, n)
      BY <2>1, <2>2, <2>4 DEF Greeted, IInv
    <3> QED
      BY <1>2, <2>2, <3>1
  <2>5. CASE ~stopped /\ phase = "done"
    <3>1. sent = SubSeq(told, 1, Len(told))
      BY <2>1, <2>2, <2>5, SubSeqFull DEF Greeted, Texts
    <3>2. SentUpTo(told, Len(told)) /\ Len(told) \in 0..Len(told)
      BY <2>1, <2>2, <2>5, <3>1 DEF SentUpTo, Greeted
    <3> QED
      BY <2>2, <3>2
  <2> QED
    BY <2>3, <2>4, <2>5
<1> QED
  BY <1>3, <1>4

LEMMA PrefixOfText ==
  ASSUME NEW text \in Texts, NEW b \in 0..Len(text), NEW a \in 0..b
  PROVE  IsPrefix(SubSeq(text, 1, a), SubSeq(text, 1, b))
<1>1. PICK short \in Texts, long \in Texts :
        short = SubSeq(text, 1, a) /\ long = SubSeq(text, 1, b)
  <2>1. a \in 0..Len(text)
    BY LenProperties DEF Texts
  <2> QED
    BY <2>1, InitialSlice
<1>2. /\ Len(short) = a /\ Len(long) = b /\ a \in Nat /\ b \in Nat
      /\ \A i \in 1..a : short[i] = long[i]
  <2>1. a \in 0..Len(text) /\ a \in Nat /\ b \in Nat
    BY LenProperties DEF Texts
  <2>2. Len(short) = a /\ \A i \in 1..a : short[i] = text[i]
    BY <1>1, <2>1, InitialSlice
  <2>3. Len(long) = b /\ \A i \in 1..b : long[i] = text[i]
    BY <1>1, InitialSlice
  <2> QED
    BY <2>1, <2>2, <2>3
<1>3. LiesAt(short, long, 1, Len(long))
  BY <1>2 DEF LiesAt
<1> QED
  BY <1>1, <1>3, PrefixLies DEF Texts

LEMMA NotInSlice ==
  ASSUME NEW needles \in SUBSET Texts, NEW text \in Texts, NEW b \in 0..Len(text),
         \A q \in 1..b : \A s \in needles : ~LiesAt(s, text, q, b)
  PROVE  ~Found(needles, SubSeq(text, 1, b))
<1>1. PICK slice \in Texts : slice = SubSeq(text, 1, b)
  BY InitialSlice
<1>2. Len(slice) = b /\ \A i \in 1..b : slice[i] = text[i]
  BY <1>1, InitialSlice
<1>3. ASSUME NEW i \in 1..b, NEW s \in needles, LiesAt(s, slice, i, b) PROVE FALSE
  <2>1. /\ Len(s) \in Nat /\ i + Len(s) - 1 <= b /\ b \in Nat
        /\ \A j \in 1..Len(s) : slice[i + j - 1] = s[j]
    BY <1>3, LenProperties DEF LiesAt, Texts
  <2>2. \A j \in 1..Len(s) : i + j - 1 \in 1..b
    BY <2>1
  <2>3. \A j \in 1..Len(s) : text[i + j - 1] = s[j]
    BY <1>2, <2>1, <2>2
  <2> QED
    BY <2>1, <2>3 DEF LiesAt
<1>4. /\ Starts(needles, slice) \subseteq 1..Len(slice)
      /\ \A i \in 1..Len(slice) :
           i \in Starts(needles, slice) <=> \E s \in needles : LiesAt(s, slice, i, Len(slice))
  BY StartsAreLies DEF Texts
<1>5. Starts(needles, slice) = {}
  BY <1>2, <1>3, <1>4
<1> QED
  BY <1>1, <1>5 DEF Found

LEMMA PrefixOfSlice ==
  ASSUME NEW s \in Texts, NEW t \in Texts, NEW q \in 2..Len(t) - 1, LiesAt(s, t, q, Len(t) - 1)
  PROVE  IsPrefix(s, SubSeq(t, q, Len(t) - 1))
<1>1. PICK e \in Nat : e = Len(t) - 1
  <2>1. Len(t) \in Nat
    BY LenProperties DEF Texts
  <2>2. Len(t) - 1 \in Nat
    BY <2>1
  <2> QED
    BY <2>2
<1>2. /\ q \in 1..Len(t) + 1 /\ e \in q - 1..Len(t) /\ 1 \in Nat \ {0} /\ q + 1 - 1 = q
      /\ q \in Nat
  BY <1>1, LenProperties DEF Texts
<1>3. SubSeq(t, q, e) \in Texts /\ Len(SubSeq(t, q, e)) = e - q + 1
  BY <1>2, Slice DEF Texts
<1>4. LiesAt(s, SubSeq(t, q, e), 1, e - q + 1) <=> LiesAt(s, t, q + 1 - 1, e)
  BY <1>2, LiesInSlice DEF Texts
<1> QED
  BY <1>1, <1>2, <1>3, <1>4, PrefixLies DEF Texts

\* However the pipe cuts what the worker writes, the client is sent the answer
\* from its beginning on, but for white space there, if the pipe hands over the
\* greeting whole.
THEOREM StreamSentIsOfTheAnswer ==
  ASSUME WholeGreeting = TRUE
  PROVE  Spec => []SentIsOfTheAnswer
<1>1. IInv => SentIsOfTheAnswer
  <2>1. SUFFICES ASSUME IInv PROVE SentIsOfTheAnswer
    OBVIOUS
  <2>2. PICK told \in Told : IsTold(told) /\ \E j \in 0..Len(told) : SentUpTo(told, j)
    BY <2>1, SentIsASlice
  <2>3. PICK j \in 0..Len(told) : sent = SubSeq(told, 1, j)
    BY <2>2 DEF SentUpTo
  <2>4. told \in Texts /\ Len(told) \in 0..Len(told)
    BY <2>2, LenProperties DEF IsTold, Texts
  <2>5. SubSeq(told, 1, Len(told)) = told
    BY <2>4, SubSeqFull DEF Texts
  <2>6. IsPrefix(SubSeq(told, 1, j), SubSeq(told, 1, Len(told)))
    BY <2>4, PrefixOfText
  <2> QED
    BY <2>3, <2>5, <2>6 DEF SentIsOfTheAnswer
<1> QED
  BY <1>1, SpecIInv, PTL

\* No stop sequence is in what was sent: _filter_stream_delta keeps back all that
\* may begin one, also when it comes in several deltas.
THEOREM StreamNoStopTextSent ==
  ASSUME WholeGreeting = TRUE
  PROVE  Spec => []NoStopTextSent
<1>1. IInv => NoStopTextSent
  <2>1. SUFFICES ASSUME IInv PROVE NoStopTextSent
    OBVIOUS
  <2>2. PICK told \in Told : IsTold(told) /\ \E j \in 0..Len(told) : SentUpTo(told, j)
    BY <2>1, SentIsASlice
  <2>3. PICK j \in 0..Len(told) : SentUpTo(told, j)
    BY <2>2
  <2>4. told \in Texts /\ Len(told) \in Nat /\ stops \in SUBSET Texts
    BY <2>1, <2>2, ContentTypes DEF IInv
  <2>5. \A q \in 1..j : \A s \in stops : ~LiesAt(s, told, q, j)
    <3>1. \A q \in 1..j : q \in 1..j + 1 - 1
      BY <2>4
    <3> QED
      BY <2>3, <3>1 DEF SentUpTo, StopFree
  <2>6. ~Found(stops, SubSeq(told, 1, j))
    BY <2>4, <2>5, NotInSlice
  <2> QED
    BY <2>3, <2>6 DEF NoStopTextSent, SentUpTo
<1> QED
  BY <1>1, SpecIInv, PTL

LEMMA StoppedAgrees ==
  ASSUME NEW told, IsTold(told), stops \in StopLists,
         NEW n \in 0..Len(told), NEW i \in 1..n, StoppedAt(told, i, n)
  PROVE  /\ IsPrefix(ApplyStopSequences(told), sent)
         /\ ~Nested => sent = ApplyStopSequences(told)
<1>1. /\ told \in Texts /\ Len(told) \in Nat /\ stops \in SUBSET Texts
      /\ \A s \in stops : s \in Texts /\ Len(s) \in Nat \ {0}
  BY ContentTypes
<1>2. PICK len \in Nat : len = Len(told)
  BY <1>1
<1>3. n \in Nat /\ i \in Nat /\ i \in 1..len /\ n <= len
  BY <1>2
<1>4. PICK s \in stops : LiesAt(s, told, i, n)
  BY DEF StoppedAt
<1>5. LiesAt(s, told, i, len)
  BY <1>1, <1>3, <1>4 DEF LiesAt
<1>6. told = SubSeq(told, 1, len)
  BY <1>1, <1>2, SubSeqFull DEF Texts
<1>7. Found(stops, SubSeq(told, 1, len))
  <2>1. SUFFICES ASSUME ~Found(stops, SubSeq(told, 1, len)) PROVE FALSE
    OBVIOUS
  <2>2. 0 \in 0..Len(told) /\ len \in 0..Len(told) /\ 0 + 1 = 1
    BY <1>2
  <2>3. \A q \in 0 + 1..len : \A t \in stops : ~LiesAt(t, told, q, len)
    BY <1>1, <2>1, <2>2, NoneAfter
  <2> QED
    BY <1>3, <1>5, <2>2, <2>3
<1>8. PICK p \in 1..len : /\ FirstAt(stops, told, 0, p, len)
                          /\ Before(stops, told) = SubSeq(told, 1, p - 1)
  <2>1. 0 \in 0..Len(told) /\ len \in 0..Len(told) /\ 0 + 1 = 1
    BY <1>2
  <2>2. \E p \in 0 + 1..len :
          /\ FirstAt(stops, told, 0, p, len)
          /\ Before(stops, SubSeq(told, 0 + 1, len)) = SubSeq(told, 0 + 1, p - 1)
    BY <1>1, <1>7, <2>1, FirstAfter
  <2> QED
    BY <1>6, <2>1, <2>2
<1>9. ApplyStopSequences(told) = SubSeq(told, 1, p - 1)
  BY <1>6, <1>7, <1>8 DEF ApplyStopSequences
<1>10. p <= i
  <2>1. \A q \in 0 + 1..p - 1 : ~LiesAt(s, told, q, len)
    BY <1>8 DEF FirstAt, FirstFrom
  <2> QED
    BY <1>3, <1>5, <2>1
<1>11. sent = SubSeq(told, 1, i - 1)
  BY DEF StoppedAt
<1>12. IsPrefix(SubSeq(told, 1, p - 1), SubSeq(told, 1, i - 1))
  <2>1. i - 1 \in 0..Len(told) /\ p - 1 \in 0..i - 1
    BY <1>2, <1>3, <1>10
  <2> QED
    BY <1>1, <2>1, PrefixOfText
<1>13. ASSUME p # i PROVE Nested
  <2>1. PICK t \in stops : LiesAt(t, told, p, len)
    BY <1>8 DEF FirstAt, FirstFrom
  <2>2. p \in 1..i - 1
    BY <1>3, <1>10, <1>13
  <2>3. ~LiesAt(t, told, p, n)
    BY <2>2 DEF StoppedAt, StopFree
  <2>4. Len(t) \in Nat /\ Len(s) \in Nat \ {0} /\ s \in Texts /\ t \in Texts
    BY <1>1
  <2>5. p + Len(t) - 1 > n /\ i + Len(s) - 1 <= n
    BY <1>3, <1>4, <2>1, <2>3, <2>4 DEF LiesAt
  <2>6. PICK q \in 2..Len(t) - 1 : q = i - p + 1
    <3>1. i - p + 1 \in 2..Len(t) - 1
      BY <1>3, <2>2, <2>4, <2>5
    <3> QED
      BY <3>1
  <2>7. q + Len(s) - 1 <= Len(t) - 1
    BY <1>3, <2>2, <2>4, <2>5, <2>6
  <2>8. \A j \in 1..Len(s) : t[q + j - 1] = s[j]
    <3>1. SUFFICES ASSUME NEW j \in 1..Len(s) PROVE t[q + j - 1] = s[j]
      OBVIOUS
    <3>2. PICK m \in 1..Len(t) : m = q + j - 1
      <4>1. q + j - 1 \in 1..Len(t)
        BY <2>4, <2>6, <2>7
      <4> QED
        BY <4>1
    <3>3. told[p + m - 1] = t[m]
      BY <2>1 DEF LiesAt
    <3>4. told[i + j - 1] = s[j]
      BY <1>4 DEF LiesAt
    <3>5. p + m - 1 = i + j - 1
      BY <1>3, <2>2, <2>6, <3>2
    <3> QED
      BY <3>2, <3>3, <3>4, <3>5
  <2>9. LiesAt(s, t, q, Len(t) - 1)
    BY <2>7, <2>8 DEF LiesAt
  <2>10. IsPrefix(s, SubSeq(t, q, Len(t) - 1))
    BY <2>4, <2>9, PrefixOfSlice
  <2> QED
    BY <2>10 DEF Nested
<1> QED
  BY <1>9, <1>11, <1>12, <1>13

\* A stream that ends well has sent the answer, but for white space at its
\* beginning, up to its first stop sequence, or more of it if one stop sequence
\* lies in another: filtering delta by delta and flushing come to the same as
\* looking at the whole.
THEOREM StreamEndsAtFirstStop ==
  ASSUME WholeGreeting = TRUE
  PROVE  Spec => []StreamEndsAtStop
<1>1. IInv => StreamEndsAtStop
  <2>1. SUFFICES ASSUME IInv, phase = "done"
                 PROVE  \E told \in Told : /\ IsPrefix(ApplyStopSequences(told), sent)
                                           /\ ~Nested => sent = ApplyStopSequences(told)
    BY DEF StreamEndsAtStop
  <2>2. PICK told \in Told : Greeted(told)
    BY <2>1 DEF IInv
  <2>3. /\ IsTold(told) /\ told \in Texts /\ Len(told) \in Nat
        /\ stops \in StopLists /\ stops \in SUBSET Texts
    BY <2>1, ToldTypes, ContentTypes DEF IInv
  <2>4. CASE stopped
    <3>1. PICK n \in 0..Len(told) : \E i \in 1..n : StoppedAt(told, i, n)
      BY <2>2, <2>4 DEF Greeted, ClientStopped
    <3>2. PICK i \in 1..n : StoppedAt(told, i, n)
      BY <3>1
    <3>3. /\ IsPrefix(ApplyStopSequences(told), sent)
          /\ ~Nested => sent = ApplyStopSequences(told)
      BY <2>3, <3>2, StoppedAgrees
    <3> QED
      BY <3>3
  <2>5. CASE ~stopped
    <3>1. sent = told /\ StopFree(told, Len(told) + 1, Len(told))
      BY <2>1, <2>2, <2>5 DEF Greeted
    <3>2. PICK len \in 0..Len(told) : len = Len(told)
      BY <2>3
    <3>3. told = SubSeq(told, 1, len)
      BY <2>3, <3>2, SubSeqFull DEF Texts
    <3>4. ~Found(stops, told)
      <4>1. \A q \in 1..len : q \in 1..len + 1 - 1
        BY <2>3, <3>2
      <4>2. \A q \in 1..len : \A s \in stops : ~LiesAt(s, told, q, len)
        BY <3>1, <3>2, <4>1 DEF StopFree
      <4>3. ~Found(stops, SubSeq(told, 1, len))
        BY <2>3, <4>2, NotInSlice
      <4> QED
        BY <3>3, <4>3
    <3>5. ApplyStopSequences(told) = told
      BY <3>4 DEF ApplyStopSequences
    <3>6. IsPrefix(SubSeq(told, 1, len), SubSeq(told, 1, len))
      <4>1. len \in 0..len
        BY <2>3
      <4> QED
        BY <2>3, <4>1, PrefixOfText
    <3> QED
      BY <3>1, <3>3, <3>5, <3>6
  <2> QED
    BY <2>4, <2>5
<1> QED
  BY <1>1, SpecIInv, PTL
=============================================================================
