-------------------------- MODULE SequenceLemmas --------------------------
(***************************************************************************)
(* What the operations the lists of this system use, taking an element off *)
(* the end, the front or the middle and putting one at the end, do to the  *)
(* elements of a sequence and to their being different.                    *)
(***************************************************************************)
EXTENDS SequencesExt, SequenceTheorems, TLAPS

\* The elements of a sequence are those at its positions.
LEMMA ElementsAtPositions ==
  ASSUME NEW S, NEW s \in Seq(S)
  PROVE  /\ DOMAIN s = 1..Len(s)
         /\ Len(s) \in Nat
         /\ \A i \in 1..Len(s) : s[i] \in S /\ s[i] \in ToSet(s)
         /\ \A e \in ToSet(s) : \E i \in 1..Len(s) : s[i] = e
         /\ ToSet(s) \subseteq S
BY LenProperties, ElementOfSeq DEF ToSet

\* The elements from position m to position n, possibly none.
LEMMA SubSeqElements ==
  ASSUME NEW S, NEW s \in Seq(S), NEW m \in 1..(Len(s) + 1), NEW n \in (m - 1)..Len(s)
  PROVE  /\ SubSeq(s, m, n) \in Seq(S)
         /\ Len(SubSeq(s, m, n)) = n - m + 1
         /\ \A i \in 1..(n - m + 1) : SubSeq(s, m, n)[i] = s[m + i - 1]
<1>1. \A i \in 1..Len(s) : s[i] \in S
  BY ElementOfSeq
<1>2. m \in Int /\ n \in Int /\ \A i \in m..n : s[i] \in S
  BY <1>1
<1>3. /\ SubSeq(s, m, n) \in Seq(S)
      /\ Len(SubSeq(s, m, n)) = IF m <= n THEN n - m + 1 ELSE 0
      /\ \A i \in 1..(n - m + 1) : SubSeq(s, m, n)[i] = s[m + i - 1]
  BY <1>2, SubSeqProperties
<1>4. CASE m <= n
  BY <1>3, <1>4, Zenon
<1>5. CASE ~(m <= n)
  <2>1. n - m + 1 = 0
    BY <1>5
  <2>2. Len(SubSeq(s, m, n)) = 0
    BY <1>3, <1>5, Zenon
  <2> QED
    BY <1>3, <2>1, <2>2, Zenon
<1> QED
  BY <1>4, <1>5

\* Taking off the last element.
LEMMA FrontLast ==
  ASSUME NEW S, NEW s \in Seq(S), Len(s) # 0
  PROVE  /\ Front(s) \in Seq(S)
         /\ Len(Front(s)) = Len(s) - 1
         /\ \A i \in 1..(Len(s) - 1) : Front(s)[i] = s[i]
         /\ Last(s) \in S
         /\ Last(s) = s[Len(s)]
<1>1. Len(s) \in Nat \ {0}
  OBVIOUS
<1>2. Last(s) \in S /\ Last(s) = s[Len(s)]
  BY <1>1, ElementOfSeq DEF Last
<1>3. 1 \in 1..(Len(s) + 1) /\ Len(s) - 1 \in (1 - 1)..Len(s)
  BY <1>1
<1>4. /\ Front(s) \in Seq(S)
      /\ Len(Front(s)) = Len(s) - 1 - 1 + 1
      /\ \A i \in 1..(Len(s) - 1 - 1 + 1) : Front(s)[i] = s[1 + i - 1]
  BY <1>3, SubSeqElements DEF Front
<1> QED
  BY <1>1, <1>2, <1>4

\* Taking out the element at position k.
LEMMA RemoveAtElements ==
  ASSUME NEW S, NEW s \in Seq(S), NEW k \in 1..Len(s)
  PROVE  /\ RemoveAt(s, k) \in Seq(S)
         /\ Len(RemoveAt(s, k)) = Len(s) - 1
         /\ \A i \in 1..(Len(s) - 1) : RemoveAt(s, k)[i] = IF i < k THEN s[i] ELSE s[i + 1]
<1> DEFINE l == SubSeq(s, 1, k - 1)
           r == SubSeq(s, k + 1, Len(s))
<1>1. /\ l \in Seq(S)
      /\ Len(l) = k - 1
      /\ \A i \in 1..(k - 1) : l[i] = s[i]
  <2>1. /\ l \in Seq(S)
        /\ Len(l) = k - 1 - 1 + 1
        /\ \A i \in 1..(k - 1 - 1 + 1) : l[i] = s[1 + i - 1]
    BY SubSeqElements
  <2> HIDE DEF l
  <2> QED
    BY <2>1
<1>2. /\ r \in Seq(S)
      /\ Len(r) = Len(s) - k
      /\ \A i \in 1..(Len(s) - k) : r[i] = s[k + i]
  <2>1. /\ r \in Seq(S)
        /\ Len(r) = Len(s) - (k + 1) + 1
        /\ \A i \in 1..(Len(s) - (k + 1) + 1) : r[i] = s[k + 1 + i - 1]
    BY SubSeqElements
  <2> HIDE DEF r
  <2> QED
    BY <2>1
<1>3. RemoveAt(s, k) = l \o r
  BY DEF RemoveAt
<1> HIDE DEF l, r
<1>4. /\ l \o r \in Seq(S)
      /\ Len(l \o r) = Len(l) + Len(r)
      /\ \A i \in 1..Len(l) + Len(r) :
           (l \o r)[i] = IF i <= Len(l) THEN l[i] ELSE r[i - Len(l)]
  BY <1>1, <1>2, ConcatProperties
<1>5. \A i \in 1..(Len(s) - 1) : (l \o r)[i] = IF i < k THEN s[i] ELSE s[i + 1]
  <2> SUFFICES ASSUME NEW i \in 1..(Len(s) - 1)
               PROVE  (l \o r)[i] = IF i < k THEN s[i] ELSE s[i + 1]
    OBVIOUS
  <2>1. (l \o r)[i] = IF i <= k - 1 THEN l[i] ELSE r[i - (k - 1)]
    BY <1>1, <1>2, <1>4
  <2>2. CASE i < k
    BY <1>1, <2>1, <2>2
  <2>3. CASE ~(i < k)
    <3>1. i - (k - 1) \in 1..(Len(s) - k) /\ k + (i - (k - 1)) = i + 1
      BY <2>3
    <3>2. (l \o r)[i] = r[i - (k - 1)]
      BY <2>1, <2>3
    <3> QED
      BY <1>2, <2>3, <3>1, <3>2
  <2> QED
    BY <2>2, <2>3
<1> QED
  BY <1>1, <1>2, <1>3, <1>4, <1>5

\* Putting an element at the end.
LEMMA AppendDistinct ==
  ASSUME NEW S, NEW s \in Seq(S), NEW e \in S
  PROVE  /\ Append(s, e) \in Seq(S)
         /\ ToSet(Append(s, e)) = ToSet(s) \cup {e}
         /\ IsInjective(s) /\ e \notin ToSet(s) => IsInjective(Append(s, e))
<1>1. /\ Append(s, e) \in Seq(S)
      /\ Len(Append(s, e)) = Len(s) + 1
      /\ \A i \in 1..Len(s) : Append(s, e)[i] = s[i]
      /\ Append(s, e)[Len(s) + 1] = e
  BY AppendProperties
<1>2. /\ DOMAIN s = 1..Len(s) /\ DOMAIN Append(s, e) = 1..(Len(s) + 1)
      /\ Len(s) \in Nat
  BY <1>1, LenProperties
<1>3. \A i \in 1..(Len(s) + 1) : i \in 1..Len(s) \/ i = Len(s) + 1
  BY <1>2
<1>4. 1..Len(s) \subseteq 1..(Len(s) + 1) /\ Len(s) + 1 \in 1..(Len(s) + 1)
  BY <1>2
<1> DEFINE t == Append(s, e)
<1> HIDE DEF t
<1>5. ToSet(t) = ToSet(s) \cup {e}
  BY <1>1, <1>2, <1>3, <1>4, Zenon DEF ToSet, t
<1>6. ASSUME IsInjective(s), e \notin ToSet(s)
      PROVE  IsInjective(t)
  <2> SUFFICES ASSUME NEW i \in 1..(Len(s) + 1), NEW j \in 1..(Len(s) + 1), t[i] = t[j]
               PROVE  i = j
    BY <1>2, Zenon DEF IsInjective, t
  <2>1. \A k \in 1..Len(s) : s[k] # e
    BY <1>2, <1>6, Zenon DEF ToSet
  <2>2. \A k, l \in 1..Len(s) : s[k] = s[l] => k = l
    BY <1>2, <1>6, Zenon DEF IsInjective
  <2> QED
    BY <1>1, <1>3, <2>1, <2>2, Zenon DEF t
<1> QED
  BY <1>1, <1>5, <1>6, Zenon DEF t

\* A sequence of different elements without the one at position k.
LEMMA WithoutOne ==
  ASSUME NEW S, NEW s \in Seq(S), NEW t \in Seq(S), NEW k \in 1..Len(s),
         IsInjective(s),
         Len(t) = Len(s) - 1,
         \A i \in 1..(Len(s) - 1) : t[i] = IF i < k THEN s[i] ELSE s[i + 1]
  PROVE  /\ ToSet(t) = ToSet(s) \ {s[k]}
         /\ IsInjective(t)
<1>1. /\ DOMAIN s = 1..Len(s) /\ DOMAIN t = 1..(Len(s) - 1)
      /\ Len(s) \in Nat
  BY LenProperties
<1>2. \A i, j \in 1..Len(s) : s[i] = s[j] => i = j
  BY <1>1 DEF IsInjective
<1>3. ASSUME NEW e \in ToSet(t)
      PROVE  e \in ToSet(s) \ {s[k]}
  <2>1. PICK i \in 1..(Len(s) - 1) : t[i] = e
    BY <1>1, Zenon DEF ToSet
  <2>2. PICK j \in 1..Len(s) : s[j] = e /\ j # k
    BY <1>1, <2>1
  <2> QED
    BY <1>1, <1>2, <2>2 DEF ToSet
<1>4. ASSUME NEW e \in ToSet(s) \ {s[k]}
      PROVE  e \in ToSet(t)
  <2>1. PICK j \in 1..Len(s) : s[j] = e
    BY <1>1, Zenon DEF ToSet
  <2>2. j # k
    BY <2>1
  <2>3. CASE j < k
    <3>1. j \in 1..(Len(s) - 1) /\ t[j] = e
      BY <1>1, <2>1, <2>3
    <3> QED
      BY <1>1, <3>1 DEF ToSet
  <2>4. CASE j > k
    <3>1. j - 1 \in 1..(Len(s) - 1) /\ t[j - 1] = e
      BY <1>1, <2>1, <2>4
    <3> QED
      BY <1>1, <3>1 DEF ToSet
  <2> QED
    BY <2>2, <2>3, <2>4
<1>5. ToSet(t) = ToSet(s) \ {s[k]}
  BY <1>3, <1>4
<1>6. IsInjective(t)
  <2> SUFFICES ASSUME NEW i \in 1..(Len(s) - 1), NEW j \in 1..(Len(s) - 1), t[i] = t[j]
               PROVE  i = j
    BY <1>1 DEF IsInjective
  <2>1. \A n \in 1..(Len(s) - 1) : n \in 1..Len(s) /\ n + 1 \in 1..Len(s)
    BY <1>1
  <2> QED
    BY <1>1, <1>2, <2>1
<1> QED
  BY <1>5, <1>6

\* Removing one position keeps the elements distinct.
LEMMA RemoveAtDistinct ==
  ASSUME NEW S, NEW s \in Seq(S), NEW k \in 1..Len(s), IsInjective(s)
  PROVE  /\ RemoveAt(s, k) \in Seq(S)
         /\ ToSet(RemoveAt(s, k)) = ToSet(s) \ {s[k]}
         /\ IsInjective(RemoveAt(s, k))
BY RemoveAtElements, WithoutOne

\* So does cutting the last.
LEMMA FrontDistinct ==
  ASSUME NEW S, NEW s \in Seq(S), Len(s) # 0, IsInjective(s)
  PROVE  /\ ToSet(Front(s)) = ToSet(s) \ {Last(s)}
         /\ Last(s) \in ToSet(s)
         /\ IsInjective(Front(s))
<1>1. Len(s) \in 1..Len(s)
  OBVIOUS
<1>2. /\ Front(s) \in Seq(S)
      /\ Len(Front(s)) = Len(s) - 1
      /\ \A i \in 1..(Len(s) - 1) : Front(s)[i] = IF i < Len(s) THEN s[i] ELSE s[i + 1]
      /\ Last(s) = s[Len(s)]
  BY FrontLast
<1>3. Last(s) \in ToSet(s)
  BY <1>1, <1>2, ElementsAtPositions
<1> DEFINE k == Len(s)
<1> HIDE DEF k
<1>4. ASSUME NEW t \in Seq(S), Len(t) = Len(s) - 1,
             \A i \in 1..(Len(s) - 1) : t[i] = IF i < k THEN s[i] ELSE s[i + 1]
      PROVE  ToSet(t) = ToSet(s) \ {s[k]} /\ IsInjective(t)
  BY <1>1, <1>4, WithoutOne DEF k
<1> QED
  BY <1>2, <1>3, <1>4 DEF k

\* And the first.
LEMMA TailDistinct ==
  ASSUME NEW S, NEW s \in Seq(S), Len(s) # 0, IsInjective(s)
  PROVE  /\ Tail(s) \in Seq(S)
         /\ ToSet(Tail(s)) = ToSet(s) \ {Head(s)}
         /\ Head(s) \in ToSet(s)
         /\ IsInjective(Tail(s))
<1>1. 1 \in 1..Len(s) /\ s # <<>>
  OBVIOUS
<1>2. /\ Tail(s) \in Seq(S)
      /\ Len(Tail(s)) = Len(s) - 1
      /\ \A i \in 1..Len(Tail(s)) : Tail(s)[i] = s[i + 1]
      /\ Head(s) = s[1]
  BY <1>1, HeadTailProperties
<1>3. \A i \in 1..(Len(s) - 1) : Tail(s)[i] = IF i < 1 THEN s[i] ELSE s[i + 1]
  BY <1>2
<1>4. Head(s) \in ToSet(s)
  BY <1>1, <1>2, ElementsAtPositions
<1> DEFINE k == 1
<1> HIDE DEF k
<1>5. ASSUME NEW t \in Seq(S), Len(t) = Len(s) - 1,
             \A i \in 1..(Len(s) - 1) : t[i] = IF i < k THEN s[i] ELSE s[i + 1]
      PROVE  ToSet(t) = ToSet(s) \ {s[k]} /\ IsInjective(t)
  BY <1>1, <1>5, WithoutOne DEF k
<1> QED
  BY <1>2, <1>3, <1>4, <1>5 DEF k

\* What was put at the end is the last element, and the others stay where they were.
LEMMA AppendLast ==
  ASSUME NEW S, NEW s \in Seq(S), NEW e \in S
  PROVE  /\ Last(Append(s, e)) = e /\ Front(Append(s, e)) = s
         /\ Append(s, e) # <<>>
         /\ Len(Append(s, e)) = Len(s) + 1
         /\ \A i \in 1..Len(s) : Append(s, e)[i] = s[i]
<1> DEFINE t == Append(s, e)
<1>1. /\ t \in Seq(S) /\ Len(t) = Len(s) + 1 /\ Len(s) \in Nat /\ t[Len(s) + 1] = e
      /\ \A i \in 1..Len(s) : t[i] = s[i]
  BY AppendProperties, LenProperties
<1> HIDE DEF t
<1>2. Last(t) = t[Len(t)] /\ t # <<>>
  BY <1>1, EmptySeq DEF Last
<1>3. Front(t) = s
  <2>1. /\ Front(t) \in Seq(S) /\ Len(Front(t)) = Len(s)
        /\ \A i \in 1..Len(s) : Front(t)[i] = t[i]
    BY <1>1, FrontLast
  <2> QED
    BY <1>1, <2>1, SeqEqual
<1> QED
  BY <1>1, <1>2, <1>3 DEF t

\* A function on the first numbers is a sequence.
LEMMA FunctionIsSequence ==
  ASSUME NEW S, NEW n \in Nat, NEW f \in [1..n -> S]
  PROVE  f \in Seq(S) /\ Len(f) = n
OBVIOUS

\* Replacing one element leaves the others.
LEMMA ReplaceElements ==
  ASSUME NEW S, NEW s \in Seq(S), NEW k \in 1..Len(s), NEW e \in S
  PROVE  /\ [s EXCEPT ![k] = e] \in Seq(S)
         /\ Len([s EXCEPT ![k] = e]) = Len(s)
         /\ \A i \in 1..Len(s) : [s EXCEPT ![k] = e][i] = IF i = k THEN e ELSE s[i]
OBVIOUS

\* So does putting one at the end.
LEMMA AppendElements ==
  ASSUME NEW S, NEW s \in Seq(S), NEW e \in S
  PROVE  /\ Append(s, e) \in Seq(S)
         /\ Len(Append(s, e)) = Len(s) + 1
         /\ Append(s, e)[Len(s) + 1] = e
         /\ \A i \in 1..Len(s) : Append(s, e)[i] = s[i]
OBVIOUS
=============================================================================
