------------------------------ MODULE JobLists ------------------------------
(***************************************************************************)
(* Lemmas about the lists of jobs.c: a link put in front of a list, and    *)
(* one taken out of it (job_post, job_unlink, job_chksave).                *)
(***************************************************************************)
EXTENDS Integers, SequencesExt, SequenceTheorems, TLAPS

\* A new element in front of a list.
LEMMA ConsProperties ==
    ASSUME NEW S, NEW s \in Seq(S), NEW e \in S
    PROVE  /\ <<e>> \o s \in Seq(S)
           /\ Len(<<e>> \o s) = Len(s) + 1
           /\ \A k \in 1..(Len(s) + 1) :
                (<<e>> \o s)[k] = IF k = 1 THEN e ELSE s[k - 1]
<1>1. <<e>> \in Seq(S) /\ Len(<<e>>) = 1 /\ <<e>>[1] = e
  OBVIOUS
<1> QED
  BY <1>1, ConcatProperties, LenProperties

\* A list without its element at place i.
LEMMA RemoveAtProperties ==
    ASSUME NEW S, NEW s \in Seq(S), NEW i \in DOMAIN s
    PROVE  /\ RemoveAt(s, i) \in Seq(S)
           /\ Len(RemoveAt(s, i)) = Len(s) - 1
           /\ \A k \in 1..(Len(s) - 1) :
                RemoveAt(s, i)[k] = IF k < i THEN s[k] ELSE s[k + 1]
<1>1. i \in 1..Len(s) /\ Len(s) \in Nat
  BY LenProperties
<1> DEFINE left == SubSeq(s, 1, i - 1)
           right == SubSeq(s, i + 1, Len(s))
           all == left \o right
<1>2. /\ left \in Seq(S) /\ Len(left) = i - 1
      /\ \A k \in 1..(i - 1) : left[k] = s[k]
  BY <1>1, SubSeqProperties, ElementOfSeq
<1>3. /\ right \in Seq(S) /\ Len(right) = Len(s) - i
      /\ \A k \in 1..(Len(s) - i) : right[k] = s[i + k]
  <2> DEFINE m == i + 1
             n == Len(s)
  <2>1. m \in Int /\ n \in Int /\ m = i + 1 /\ n = Len(s)
    BY <1>1
  <2>2. \A k \in m..n : s[k] \in S
    BY <1>1, ElementOfSeq
  <2> HIDE DEF m, n
  <2>3. /\ SubSeq(s, m, n) \in Seq(S)
        /\ Len(SubSeq(s, m, n)) = IF m <= n THEN n - m + 1 ELSE 0
        /\ \A k \in 1..(n - m + 1) : SubSeq(s, m, n)[k] = s[m + k - 1]
    BY <2>1, <2>2, SubSeqProperties
  <2>4. right = SubSeq(s, m, n)
    BY <2>1
  <2> HIDE DEF right
  <2>5. right \in Seq(S) /\ Len(right) = Len(s) - i
    BY <1>1, <2>1, <2>3, <2>4
  <2>6. ASSUME NEW k \in 1..(Len(s) - i)
        PROVE  right[k] = s[i + k]
    <3>1. k \in 1..(n - m + 1) /\ m + k - 1 = i + k
      BY <1>1, <2>1
    <3>2. right[k] = s[m + k - 1]
      BY <2>3, <2>4, <3>1, Zenon
    <3> QED
      BY <3>1, <3>2
  <2> QED
    BY <2>5, <2>6
<1>4. RemoveAt(s, i) = all
  BY DEF RemoveAt
<1> HIDE DEF left, right
<1>5. /\ all \in Seq(S)
      /\ Len(all) = Len(left) + Len(right)
      /\ \A k \in 1..(Len(left) + Len(right)) :
           all[k] = IF k <= Len(left) THEN left[k] ELSE right[k - Len(left)]
  BY <1>2, <1>3, ConcatProperties, Zenon
<1> HIDE DEF all
<1>6. Len(all) = Len(s) - 1
  BY <1>1, <1>2, <1>3, <1>5
<1>7. ASSUME NEW k \in 1..(Len(s) - 1)
      PROVE  all[k] = IF k < i THEN s[k] ELSE s[k + 1]
  <2>1. k \in 1..(Len(left) + Len(right))
    BY <1>1, <1>2, <1>3
  <2>2. CASE k < i
    BY <1>1, <1>2, <1>5, <2>1, <2>2
  <2>3. CASE ~(k < i)
    <3>1. k - (i - 1) \in 1..(Len(s) - i) /\ i + (k - (i - 1)) = k + 1
      BY <1>1, <2>3
    <3>2. all[k] = right[k - (i - 1)]
      BY <1>1, <1>2, <1>5, <2>1, <2>3
    <3>3. right[k - (i - 1)] = s[i + (k - (i - 1))]
      BY <1>3, <3>1, Zenon
    <3> QED
      BY <2>3, <3>1, <3>2, <3>3
  <2> QED
    BY <2>2, <2>3
<1> QED
  BY <1>4, <1>5, <1>6, <1>7, Zenon

\* The same two operations on the set of a list without duplicates.
LEMMA ConsRange ==
    ASSUME NEW S, NEW s \in Seq(S), NEW e \in S, IsInjective(s), e \notin Range(s)
    PROVE  /\ Range(<<e>> \o s) = {e} \cup Range(s)
           /\ IsInjective(<<e>> \o s)
<1> DEFINE t == <<e>> \o s
<1>1. /\ Len(s) \in Nat /\ t \in Seq(S) /\ Len(t) = Len(s) + 1
      /\ DOMAIN s = 1..Len(s) /\ DOMAIN t = 1..Len(t)
      /\ \A k \in 1..(Len(s) + 1) : t[k] = IF k = 1 THEN e ELSE s[k - 1]
  <2>1. /\ t \in Seq(S) /\ Len(t) = Len(s) + 1
        /\ \A k \in 1..(Len(s) + 1) : t[k] = IF k = 1 THEN e ELSE s[k - 1]
    BY ConsProperties
  <2> HIDE DEF t
  <2> QED
    BY <2>1, LenProperties
<1> HIDE DEF t
<1>2. ASSUME NEW k \in DOMAIN t
      PROVE  t[k] = e \/ (k - 1 \in DOMAIN s /\ t[k] = s[k - 1])
  BY <1>1
<1>3. ASSUME NEW k \in DOMAIN s
      PROVE  k + 1 \in DOMAIN t /\ t[k + 1] = s[k]
  BY <1>1
<1>4. 1 \in DOMAIN t /\ t[1] = e
  BY <1>1
<1>5. Range(t) = {e} \cup Range(s)
  BY <1>2, <1>3, <1>4 DEF Range
<1>6. IsInjective(t)
  <2> SUFFICES ASSUME NEW k \in DOMAIN t, NEW l \in DOMAIN t, t[k] = t[l]
               PROVE  k = l
    BY DEF IsInjective
  <2>1. ASSUME NEW m \in DOMAIN t, m # 1
        PROVE  m - 1 \in DOMAIN s /\ t[m] = s[m - 1] /\ t[m] # e
    <3>1. m - 1 \in DOMAIN s /\ t[m] = s[m - 1]
      BY <1>1, <2>1
    <3> QED
      BY <3>1 DEF Range
  <2>2. CASE k = 1 \/ l = 1
    BY <1>4, <2>1, <2>2
  <2>3. CASE k # 1 /\ l # 1
    <3>1. k - 1 = l - 1
      BY <2>1, <2>3 DEF IsInjective
    <3> QED
      BY <1>1, <3>1
  <2> QED
    BY <2>2, <2>3
<1> QED
  BY <1>5, <1>6 DEF t

\* What is left when the i-th element of a list without repetitions goes.
LEMMA RemoveAtRange ==
    ASSUME NEW S, NEW s \in Seq(S), NEW i \in DOMAIN s, IsInjective(s)
    PROVE  /\ Range(RemoveAt(s, i)) = Range(s) \ {s[i]}
           /\ IsInjective(RemoveAt(s, i))
<1> DEFINE t == RemoveAt(s, i)
<1>1. /\ Len(s) \in Nat /\ t \in Seq(S) /\ Len(t) = Len(s) - 1
      /\ DOMAIN s = 1..Len(s) /\ DOMAIN t = 1..Len(t)
      /\ \A k \in 1..(Len(s) - 1) : t[k] = IF k < i THEN s[k] ELSE s[k + 1]
  <2>1. /\ t \in Seq(S) /\ Len(t) = Len(s) - 1
        /\ \A k \in 1..(Len(s) - 1) : t[k] = IF k < i THEN s[k] ELSE s[k + 1]
    BY RemoveAtProperties, Zenon
  <2> HIDE DEF t
  <2> QED
    BY <2>1, LenProperties
<1> HIDE DEF t
<1>2. ASSUME NEW k \in DOMAIN t
      PROVE  \/ k < i /\ k \in DOMAIN s /\ k # i /\ t[k] = s[k]
             \/ ~(k < i) /\ k + 1 \in DOMAIN s /\ k + 1 # i /\ t[k] = s[k + 1]
  BY <1>1
<1>3. ASSUME NEW k \in DOMAIN s, k # i
      PROVE  \E l \in DOMAIN t : t[l] = s[k]
  <2>1. CASE k < i
    <3>1. k \in DOMAIN t /\ t[k] = s[k]
      BY <1>1, <2>1
    <3> QED
      BY <3>1
  <2>2. CASE ~(k < i)
    <3>1. k - 1 \in DOMAIN t /\ t[k - 1] = s[k]
      BY <1>1, <1>3, <2>2
    <3> QED
      BY <3>1
  <2> QED
    BY <2>1, <2>2
<1>4. Range(t) = Range(s) \ {s[i]}
  <2>1. ASSUME NEW k \in DOMAIN t PROVE t[k] \in Range(s) \ {s[i]}
    BY <1>2 DEF Range, IsInjective
  <2>2. ASSUME NEW x \in Range(s) \ {s[i]} PROVE x \in Range(t)
    <3>1. PICK k \in DOMAIN s : s[k] = x
      BY DEF Range
    <3> QED
      BY <1>3, <3>1 DEF Range
  <2> QED
    BY <2>1, <2>2 DEF Range
<1>5. IsInjective(t)
  <2> SUFFICES ASSUME NEW k \in DOMAIN t, NEW l \in DOMAIN t, t[k] = t[l]
               PROVE  k = l
    BY DEF IsInjective
  <2>1. k \in Int /\ l \in Int /\ i \in Int
    BY <1>1
  <2>2. CASE k < i /\ l < i
    BY <1>2, <2>2 DEF IsInjective
  <2>3. CASE ~(k < i) /\ ~(l < i)
    <3>1. k + 1 = l + 1
      BY <1>2, <2>3 DEF IsInjective
    <3> QED
      BY <2>1, <3>1
  <2>4. CASE k < i /\ ~(l < i)
    <3>1. k = l + 1
      BY <1>2, <2>4 DEF IsInjective
    <3> QED
      BY <2>1, <2>4, <3>1
  <2>5. CASE ~(k < i) /\ l < i
    <3>1. k + 1 = l
      BY <1>2, <2>5 DEF IsInjective
    <3> QED
      BY <2>1, <2>5, <3>1
  <2> QED
    BY <2>2, <2>3, <2>4, <2>5
<1> QED
  BY <1>4, <1>5 DEF t

\* A list whose i-th element moves to the front has the same elements.
LEMMA MoveToFrontRange ==
    ASSUME NEW S, NEW s \in Seq(S), NEW i \in DOMAIN s, IsInjective(s)
    PROVE  /\ Range(<<s[i]>> \o RemoveAt(s, i)) = Range(s)
           /\ IsInjective(<<s[i]>> \o RemoveAt(s, i))
<1>1. s[i] \in S /\ s[i] \in Range(s)
  BY LenProperties, ElementOfSeq DEF Range
<1> DEFINE t == RemoveAt(s, i)
<1>2. t \in Seq(S)
  BY RemoveAtProperties
<1>3. Range(t) = Range(s) \ {s[i]} /\ IsInjective(t)
  BY RemoveAtRange, Zenon
<1> HIDE DEF t
<1>4. Range(<<s[i]>> \o t) = {s[i]} \cup Range(t) /\ IsInjective(<<s[i]>> \o t)
  BY <1>1, <1>2, <1>3, ConsRange
<1> QED
  BY <1>1, <1>3, <1>4 DEF t

\* A list whose element at place i has been moved to the front.
LEMMA MoveToFrontType ==
    ASSUME NEW S, NEW s \in Seq(S), NEW i \in DOMAIN s
    PROVE  <<s[i]>> \o RemoveAt(s, i) \in Seq(S)
<1>1. s[i] \in S
  BY LenProperties, ElementOfSeq
<1> QED
  BY <1>1, RemoveAtProperties, ConsProperties
=============================================================================
