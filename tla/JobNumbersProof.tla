--------------------------- MODULE JobNumbersProof ---------------------------
(***************************************************************************)
(* Theorems about JobNumbers for every CHAR_BIT, child_max and set of jobs: *)
(* the bit vector is exact until job_alloc runs off a word, and until then *)
(* job_alloc and job_free are the pool of module JobNumberPool.            *)
(***************************************************************************)
EXTENDS JobNumbers, JobLists

-----------------------------------------------------------------------------
(***************************************************************************)
(* A number is a word and a bit.                                           *)
(***************************************************************************)
\* Division, as the words and bits of a vector use it.
LEMMA QuotRem ==
    ASSUME NEW c \in Nat \ {0}, NEW k \in Nat,
           NEW q \in Int, q = k \div c, NEW r \in Int, r = k % c
    PROVE  k = q * c + r
  BY Z3

\* A natural number is a word and a bit of it.
LEMMA WordOf ==
    ASSUME NEW c \in Nat \ {0}, NEW k \in Nat
    PROVE  /\ k \div c \in Nat
           /\ k % c \in 0..(c - 1)
           /\ k = (k \div c) * c + (k % c)
<1> DEFINE q == k \div c
           r == k % c
<1>1. q \in Int /\ r \in Int /\ r \in 0..(c - 1)
  OBVIOUS
<1>2. k = q * c + r
  BY <1>1, QuotRem
<1> HIDE DEF q, r
<1>3. q \in Nat
  <2>1. CASE q < 0
    <3>1. q * c <= -c
      BY <1>1, <2>1
    <3> QED
      BY <1>1, <1>2, <3>1
  <2> QED
    BY <1>1, <2>1
<1> QED
  BY <1>1, <1>2, <1>3 DEF q, r

\* A later word starts where an earlier one has ended, or after it.
LEMMA WordOrder ==
    ASSUME NEW c \in Nat \ {0}, NEW j \in Nat, NEW q \in Nat, j < q
    PROVE  j * c + c <= q * c
<1>1. PICK d \in Nat : q = j + 1 + d
  <2>1. q - j - 1 \in Nat /\ q = j + 1 + (q - j - 1)
    OBVIOUS
  <2> QED
    BY <2>1
<1>2. q * c = j * c + c + d * c
  BY <1>1
<1>3. d * c \in Nat /\ j * c \in Nat
  OBVIOUS
<1> QED
  BY <1>2, <1>3

\* It is one word and one bit only.
LEMMA SameWord ==
    ASSUME NEW c \in Nat \ {0}, NEW j \in Nat, NEW m \in 0..(c - 1),
           NEW q \in Nat, NEW r \in 0..(c - 1), j * c + m = q * c + r
    PROVE  j = q /\ m = r
<1>1. j * c \in Nat /\ q * c \in Nat
  OBVIOUS
<1>2. CASE j < q
  BY <1>1, <1>2, WordOrder
<1>3. CASE q < j
  BY <1>1, <1>3, WordOrder
<1>4. CASE q = j
  BY <1>1, <1>4
<1> QED
  BY <1>2, <1>3, <1>4

\* The words that child_max asks for: enough for child_max numbers.
LEMMA WordsOf ==
    ASSUME childMax \in Limits
    PROVE  /\ CharBit \in Nat \ {0} /\ childMax \in Nat \ {0}
           /\ Words \in Nat /\ Slots \in Nat /\ Slots = Words * CharBit
           /\ \A n \in 1..(childMax - 1) : n \div CharBit \in 0..(Words - 1)
<1>1. CharBit \in Nat \ {0} /\ childMax \in Nat \ {0}
  BY NumberAssumption
<1> DEFINE k == childMax + CharBit - 1
<1>2. k \in Nat
  BY <1>1
<1>3. /\ Words \in Nat /\ k % CharBit \in 0..(CharBit - 1)
      /\ k = Words * CharBit + (k % CharBit)
  BY <1>1, <1>2, WordOf DEF Words
<1>4. Slots = Words * CharBit /\ Slots \in Nat /\ childMax <= Slots
  BY <1>1, <1>3 DEF Slots
<1>5. ASSUME NEW n \in 1..(childMax - 1)
      PROVE  n \div CharBit \in 0..(Words - 1)
  <2> DEFINE q == n \div CharBit
             r == n % CharBit
  <2>1. n \in Nat
    OBVIOUS
  <2>2. q \in Nat /\ r \in 0..(CharBit - 1) /\ n = q * CharBit + r
    BY <1>1, <2>1, WordOf
  <2> HIDE DEF q, r
  <2>3. q * CharBit \in Nat
    BY <1>1, <2>2
  <2>4. CASE q >= Words
    <3>1. Words * CharBit <= q * CharBit
      BY <1>1, <1>3, <2>2, <2>4, WordOrder
    <3> QED
      BY <1>1, <1>4, <2>2, <2>3, <3>1
  <2> QED
    BY <1>3, <2>2, <2>4 DEF q
<1> QED
  BY <1>1, <1>3, <1>4, <1>5

\* The number of bit m of word j, and the word and bit of a number.
LEMMA NumberOf ==
    ASSUME childMax \in Limits, NEW j \in 0..(Words - 1), NEW m \in Bits
    PROVE  j * CharBit + m + 1 \in 1..Slots
<1>1. CharBit \in Nat \ {0} /\ Words \in Nat /\ Slots = Words * CharBit
  BY WordsOf
<1>2. j \in Nat /\ j < Words /\ m \in 0..(CharBit - 1) /\ j * CharBit \in Nat
  BY <1>1 DEF Bits
<1>3. j * CharBit + CharBit <= Words * CharBit
  BY <1>1, <1>2, WordOrder
<1> QED
  BY <1>1, <1>2, <1>3

\* Two places of the vector with the same number are the same place.
LEMMA SameNumber ==
    ASSUME CharBit \in Nat \ {0}, NEW j \in Nat, NEW m \in Bits,
           NEW k \in Nat, NEW b \in Bits,
           j * CharBit + m + 1 = k * CharBit + b + 1
    PROVE  j = k /\ m = b
<1>1. j * CharBit \in Nat /\ k * CharBit \in Nat /\ m \in Nat /\ b \in Nat
  BY DEF Bits
<1>2. j * CharBit + m = k * CharBit + b
  BY <1>1
<1> QED
  BY <1>2, SameWord DEF Bits

\* Where job_free finds the bit of number n.
LEMMA PlaceOf ==
    ASSUME childMax \in Limits, NEW n \in 1..(Slots + 1)
    PROVE  /\ (n - 1) \div CharBit \in 0..Words
           /\ (n - 1) % CharBit \in Bits
           /\ n = ((n - 1) \div CharBit) * CharBit + ((n - 1) % CharBit) + 1
           /\ n \in 1..Slots => (n - 1) \div CharBit \in 0..(Words - 1)
<1>1. CharBit \in Nat \ {0} /\ Words \in Nat /\ Slots = Words * CharBit
      /\ Slots \in Nat
  BY WordsOf
<1> DEFINE q == (n - 1) \div CharBit
           r == (n - 1) % CharBit
<1>2. n - 1 \in Nat
  BY <1>1
<1>3. q \in Nat /\ r \in 0..(CharBit - 1) /\ n - 1 = q * CharBit + r
  BY <1>1, <1>2, WordOf
<1> HIDE DEF q, r
<1>4. q * CharBit \in Nat
  BY <1>1, <1>3
<1>5. CASE q > Words
  <2>1. Words * CharBit + CharBit <= q * CharBit
    BY <1>1, <1>3, <1>5, WordOrder
  <2> QED
    BY <1>1, <1>3, <1>4, <2>1
<1>6. CASE q = Words
  <2>1. n - 1 >= Slots
    BY <1>1, <1>3, <1>4, <1>6
  <2> QED
    BY <1>1, <1>3, <1>4, <1>6, <2>1 DEF q, r, Bits
<1>7. CASE q < Words
  BY <1>1, <1>3, <1>4, <1>7 DEF q, r, Bits
<1> QED
  BY <1>1, <1>3, <1>5, <1>6, <1>7

-----------------------------------------------------------------------------
(***************************************************************************)
(* job_free and job_alloc keep the vector exact.                           *)
(***************************************************************************)
Vector == [0..Words -> SUBSET Bits]
Numbering == [Job -> 0..(Slots + 1)]

\* A number given back leaves the others as they are.
LEMMA FreedExact ==
    ASSUME childMax \in Limits, NEW fb \in Vector, NEW nm \in Numbering,
           NEW L \in SUBSET Job, NEW y \in L, nm[y] # 0
    PROVE  /\ Freed(fb, nm[y]) \in Vector
           /\ Freed(fb, nm[y])[Words] \subseteq fb[Words]
           /\ [nm EXCEPT ![y] = 0] \in Numbering
           /\ Exact(fb, nm, L) =>
                Exact(Freed(fb, nm[y]), [nm EXCEPT ![y] = 0], L \ {y})
<1> DEFINE q == (nm[y] - 1) \div CharBit
           r == (nm[y] - 1) % CharBit
           fb2 == Freed(fb, nm[y])
           nm2 == [nm EXCEPT ![y] = 0]
<1>1. /\ Words \in Nat /\ Slots \in Nat /\ CharBit \in Nat \ {0}
      /\ nm[y] \in 1..(Slots + 1)
  BY WordsOf DEF Numbering
<1>2. /\ q \in 0..Words /\ r \in Bits
      /\ nm[y] = q * CharBit + r + 1
  BY <1>1, PlaceOf
<1>3. fb2 = [fb EXCEPT ![q] = @ \ {r}]
  BY DEF Freed
<1> HIDE DEF q, r, fb2
<1>4. fb2 \in Vector /\ fb2[Words] \subseteq fb[Words]
  BY <1>1, <1>2, <1>3 DEF Vector
<1>5. nm2 \in Numbering
  BY <1>1 DEF Numbering
<1>6. \A x \in L \ {y} : nm2[x] = nm[x]
  BY DEF Numbering
<1> HIDE DEF nm2
<1>7. ASSUME Exact(fb, nm, L)
      PROVE  Exact(fb2, nm2, L \ {y})
  <2>1. \A x, z \in L \ {y} : nm2[x] = nm2[z] => x = z
    BY <1>6, <1>7 DEF Exact
  <2>2. \A x \in L \ {y} : nm2[x] \in 1..Slots
    BY <1>6, <1>7 DEF Exact
  <2>3. ASSUME NEW j \in 0..(Words - 1), NEW m \in Bits
        PROVE  m \in fb2[j] <=>
                 \E x \in L \ {y} : nm2[x] = j * CharBit + m + 1
    <3>1. m \in fb[j] <=> \E x \in L : nm[x] = j * CharBit + m + 1
      BY <1>7 DEF Exact
    <3>2. j \in 0..Words
      BY <1>1
    <3>3. CASE j = q /\ m = r
      <4>1. m \notin fb2[j]
        BY <1>3, <3>2, <3>3 DEF Vector
      <4>2. \A x \in L \ {y} : nm2[x] # j * CharBit + m + 1
        BY <1>2, <1>6, <1>7, <3>3 DEF Exact
      <4> QED
        BY <4>1, <4>2
    <3>4. CASE ~(j = q /\ m = r)
      <4>1. m \in fb2[j] <=> m \in fb[j]
        BY <1>3, <3>2, <3>4 DEF Vector
      <4>2. nm[y] # j * CharBit + m + 1
        <5>1. j \in Nat /\ q \in Nat /\ r \in Bits /\ CharBit \in Nat \ {0}
          BY <1>1, <1>2
        <5>2. ~(j * CharBit + m + 1 = q * CharBit + r + 1)
          BY <3>4, <5>1, SameNumber, Zenon
        <5> QED
          BY <1>2, <5>2
      <4> QED
        BY <1>6, <3>1, <4>1, <4>2
    <3> QED
      BY <3>3, <3>4
  <2> QED
    BY <2>1, <2>2, <2>3 DEF Exact
<1> QED
  BY <1>4, <1>5, <1>7 DEF fb2, nm2

\* A number taken is a new one, unless the word is full.
LEMMA TakeExact ==
    ASSUME childMax \in Limits, childMax' = childMax,
           NEW fb \in Vector, NEW nm \in Numbering, NEW L \in SUBSET Job,
           NEW x \in Job, x \notin L, NEW j \in 0..(Words - 1),
           overrun \in BOOLEAN, Take(fb, nm, j, x)
    PROVE  /\ freejobs' \in Vector /\ freejobs'[Words] = fb[Words]
           /\ num' \in Numbering /\ num'[x] # 0
           /\ \A y \in Job \ {x} : num'[y] = nm[y]
           /\ overrun' \in BOOLEAN /\ (overrun => overrun')
           /\ Exact(fb, nm, L) /\ ~overrun' => Exact(freejobs', num', L \cup {x})
<1>1. PICK m \in 0..CharBit :
        /\ FirstBit(fb[j], m)
        /\ freejobs' = [fb EXCEPT ![j] = Set(@, m)]
        /\ num' = [nm EXCEPT ![x] = j * CharBit + m + 1]
        /\ overrun' = (overrun \/ m = CharBit)
  BY DEF Take
<1>2. /\ Words \in Nat /\ Slots \in Nat /\ CharBit \in Nat \ {0}
      /\ Slots = Words * CharBit
  BY WordsOf
<1>3. j \in 0..Words /\ j # Words
  BY <1>2
<1>4. freejobs' \in Vector /\ freejobs'[Words] = fb[Words]
  BY <1>1, <1>2, <1>3 DEF Vector, Set, Bits
<1>5. j * CharBit + m + 1 \in 1..(Slots + 1)
  <2>1. j * CharBit + CharBit <= Words * CharBit /\ j * CharBit \in Nat
    BY <1>2, WordOrder
  <2> QED
    BY <1>2, <2>1
<1>6. /\ num' \in Numbering /\ num'[x] = j * CharBit + m + 1
      /\ \A y \in Job \ {x} : num'[y] = nm[y]
  BY <1>1, <1>5 DEF Numbering
<1>7. overrun' \in BOOLEAN /\ (overrun => overrun')
  BY <1>1
<1>8. ASSUME Exact(fb, nm, L), ~overrun'
      PROVE  Exact(freejobs', num', L \cup {x})
  <2>1. m \in Bits /\ m \notin fb[j] /\ m # CharBit
    <3>1. m # CharBit
      BY <1>1, <1>8, Zenon
    <3> QED
      BY <1>1, <1>2, <3>1 DEF FirstBit, Bits
  <2>2. \A y \in L : num'[y] = nm[y]
    BY <1>6
  <2>3. num'[x] \in 1..Slots /\ \A y \in L : nm[y] # num'[x]
    BY <1>6, <1>8, <2>1, NumberOf DEF Exact
  <2>4. \A y, z \in L \cup {x} : num'[y] = num'[z] => y = z
    BY <1>8, <2>2, <2>3 DEF Exact
  <2>5. \A y \in L \cup {x} : num'[y] \in 1..Slots
    BY <1>8, <2>2, <2>3 DEF Exact
  <2>6. ASSUME NEW k \in 0..(Words - 1), NEW b \in Bits
        PROVE  b \in freejobs'[k] <=>
                 \E y \in L \cup {x} : num'[y] = k * CharBit + b + 1
    <3>1. b \in fb[k] <=> \E y \in L : nm[y] = k * CharBit + b + 1
      BY <1>8 DEF Exact
    <3>2. k \in 0..Words
      BY <1>2
    <3>3. CASE k = j /\ b = m
      <4>1. b \in freejobs'[k]
        BY <1>1, <1>3, <2>1, <3>3 DEF Vector, Set
      <4> QED
        BY <1>6, <3>3, <4>1
    <3>4. CASE ~(k = j /\ b = m)
      <4>1. b \in freejobs'[k] <=> b \in fb[k]
        BY <1>1, <3>2, <3>4 DEF Vector, Set
      <4>2. num'[x] # k * CharBit + b + 1
        <5>1. j \in Nat /\ k \in Nat
          BY <1>2
        <5>2. ~(j * CharBit + m + 1 = k * CharBit + b + 1)
          BY <1>2, <2>1, <3>4, <5>1, SameNumber, Zenon
        <5> QED
          BY <1>6, <5>2
      <4> QED
        BY <2>2, <3>1, <4>1, <4>2
    <3> QED
      BY <3>3, <3>4
  <2> QED
    BY <2>4, <2>5, <2>6 DEF Exact
<1> QED
  BY <1>4, <1>6, <1>5, <1>7, <1>8

-----------------------------------------------------------------------------
(***************************************************************************)
(* The invariant: beside the exact vector, that a job has a number if and  *)
(* only if it is posted, and that the job being posted is not.             *)
(***************************************************************************)
Numbered == \A x \in Job : num[x] = 0 <=> x \notin Listed
Waiting == posting # None => posting \notin Listed /\ at = None
NumInv == TypeOK /\ LoopStops /\ NumbersExact /\ Numbered /\ Waiting

\* job_clear makes the vector exact: no job, no bit.
LEMMA NumInit == Init => NumInv
<1> SUFFICES ASSUME Init PROVE NumInv
  OBVIOUS
<1>1. childMax \in Limits /\ Listed = {} /\ IsInjective(list)
  BY DEF Init, Start, Listed, Range, IsInjective
<1>2. Words \in Nat /\ Slots \in Nat
  BY <1>1, WordsOf
<1>3. TypeOK
  <2>1. freejobs \in Vector /\ num \in Numbering
    BY <1>2 DEF Init, Start, Vector, Numbering
  <2>2. overrun \in BOOLEAN /\ posting = None /\ at = None
    BY DEF Init, Start
  <2> QED
    BY <1>1, <2>1, <2>2 DEF Init, Start, TypeOK, Vector, Numbering
<1>4. LoopStops /\ Numbered /\ Waiting
  BY <1>1, <1>2 DEF Init, Start, LoopStops, Numbered, Waiting
<1>5. NumbersExact
  <2>1. ASSUME NEW j \in 0..(Words - 1), NEW m \in Bits
        PROVE  m \notin freejobs[j]
    BY <1>2 DEF Init, Start
  <2> QED
    BY <1>1, <2>1 DEF NumbersExact, Exact
<1> QED
  BY <1>3, <1>4, <1>5 DEF NumInv

\* A step that leaves child_max alone leaves the size of the vector alone.
LEMMA SameSize ==
    ASSUME childMax' = childMax
    PROVE  Words' = Words /\ Slots' = Slots
  BY DEF Words, Slots

\* The end of job_alloc and of job_post: x takes a number of word j, and is
\* linked in front of the jobs that rest has.
LEMMA LinkInv ==
    ASSUME NumInv, NEW x \in Job, NEW rest \in Seq(Job), IsInjective(rest),
           x \notin Range(rest), NEW fb \in Vector, fb[Words] = {},
           NEW nm \in Numbering,
           \A z \in Job : nm[z] = 0 <=> z \notin Range(rest),
           ~overrun => Exact(fb, nm, Range(rest)),
           NEW j \in 0..(Words - 1), Take(fb, nm, j, x), Link(x, rest), at = None
    PROVE  NumInv'
<1>1. /\ childMax' = childMax /\ childMax \in Limits
      /\ list' = <<x>> \o rest /\ posting' = None /\ at' = None
      /\ life' = [life EXCEPT ![x] = "running"]
  BY DEF Link, NumInv, TypeOK
<1>2. Words' = Words /\ Slots' = Slots
  BY <1>1, SameSize
<1>3. overrun \in BOOLEAN /\ Range(rest) \in SUBSET Job
  BY RangeOfSeq DEF NumInv, TypeOK
<1>4. /\ freejobs' \in Vector /\ freejobs'[Words] = fb[Words]
      /\ num' \in Numbering /\ num'[x] # 0
      /\ \A y \in Job \ {x} : num'[y] = nm[y]
      /\ overrun' \in BOOLEAN /\ (overrun => overrun')
      /\ Exact(fb, nm, Range(rest)) /\ ~overrun' =>
           Exact(freejobs', num', Range(rest) \cup {x})
  BY <1>1, <1>3, TakeExact
<1>5. Listed' = {x} \cup Range(rest) /\ IsInjective(list') /\ list' \in Seq(Job)
  <2>1. /\ Range(<<x>> \o rest) = {x} \cup Range(rest)
        /\ IsInjective(<<x>> \o rest)
    BY ConsRange
  <2>2. <<x>> \o rest \in Seq(Job)
    BY ConsProperties
  <2> QED
    BY <1>1, <2>1, <2>2 DEF Listed
<1>6. TypeOK'
  <2>1. life' \in [Job -> {"running", "noted", "done"}]
    BY <1>1 DEF NumInv, TypeOK
  <2> QED
    <3>1. /\ (freejobs \in [0..Words -> SUBSET Bits])'
          /\ (num \in [Job -> 0..(Slots + 1)])'
      BY <1>2, <1>4 DEF Vector, Numbering
    <3>2. overrun' \in BOOLEAN
      BY <1>4, Zenon
    <3> QED
      BY <1>1, <1>5, <2>1, <3>1, <3>2 DEF TypeOK
<1>7. LoopStops' /\ Waiting'
  BY <1>1, <1>2, <1>4 DEF LoopStops, Waiting
<1>8. Numbered'
  BY <1>3, <1>4, <1>5 DEF Numbered
<1>9. NumbersExact'
  <2> SUFFICES ASSUME ~overrun' PROVE Exact(freejobs, num, Listed)'
    BY DEF NumbersExact
  <2>1. {x} \cup Range(rest) = Range(rest) \cup {x}
    OBVIOUS
  <2>2. Exact(freejobs', num', Listed')
    <3>1. ~overrun
      BY <1>4, Zenon
    <3>2. Exact(freejobs', num', Range(rest) \cup {x})
      BY <1>4, <3>1
    <3> QED
      BY <1>5, <2>1, <3>2
  <2> QED
    BY <1>2, <2>2 DEF Exact
<1> QED
  BY <1>6, <1>7, <1>8, <1>9 DEF NumInv

\* What job_unpost of a posted job leaves behind.
LEMMA UnpostInv ==
    ASSUME NumInv, NEW x \in Listed, NEW notify \in BOOLEAN, Unpost(x, notify),
           childMax' = childMax, overrun' = overrun, posting' = posting,
           posting = None, at' \in Listed' \cup {None}
    PROVE  NumInv'
<1>1. PICK i \in DOMAIN list :
        /\ IsJob(i, num[x])
        /\ IF Ended(list[i], notify)
             THEN /\ list' = RemoveAt(list, i)
                  /\ freejobs' = Freed(freejobs, num[x])
                  /\ num' = [num EXCEPT ![list[i]] = 0]
                  /\ life' = [life EXCEPT ![list[i]] = "done"]
             ELSE UNCHANGED <<list, freejobs, num, life>>
  BY DEF Unpost
<1>2. /\ childMax \in Limits /\ list \in Seq(Job) /\ IsInjective(list)
      /\ num \in Numbering /\ freejobs \in Vector /\ overrun \in BOOLEAN
      /\ Listed \in SUBSET Job
  BY RangeOfSeq DEF NumInv, TypeOK, Vector, Numbering, Listed
<1>3. Words' = Words /\ Slots' = Slots
  BY SameSize
<1>4. CASE Ended(list[i], notify)
  <2> DEFINE y == list[i]
  <2>1. y \in Listed /\ y \in Job /\ num[y] = num[x] /\ num[y] # 0
    BY <1>1, <1>2 DEF Listed, Range, IsJob, NumInv, Numbered
  <2> HIDE DEF y
  <2>2. /\ list' = RemoveAt(list, i) /\ freejobs' = Freed(freejobs, num[y])
        /\ num' = [num EXCEPT ![y] = 0] /\ life' = [life EXCEPT ![y] = "done"]
    BY <1>1, <1>4, <2>1 DEF y
  <2>3. Listed' = Listed \ {y} /\ IsInjective(list') /\ list' \in Seq(Job)
    <3>1. /\ Range(RemoveAt(list, i)) = Range(list) \ {list[i]}
          /\ IsInjective(RemoveAt(list, i))
      BY <1>2, RemoveAtRange
    <3>2. RemoveAt(list, i) \in Seq(Job)
      BY <1>2, RemoveAtProperties
    <3> QED
      BY <2>2, <3>1, <3>2 DEF Listed, y
  <2>4. /\ freejobs' \in Vector /\ freejobs'[Words] \subseteq freejobs[Words]
        /\ num' \in Numbering
        /\ Exact(freejobs, num, Listed) =>
             Exact(freejobs', num', Listed \ {y})
    BY <1>2, <2>1, <2>2, FreedExact
  <2>5. TypeOK'
    <3>1. life' \in [Job -> {"running", "noted", "done"}]
      BY <2>2 DEF NumInv, TypeOK
    <3> QED
      BY <1>2, <1>3, <2>3, <2>4, <3>1 DEF NumInv, TypeOK, Vector, Numbering
  <2>6. LoopStops' /\ Waiting'
    BY <1>3, <2>4 DEF NumInv, LoopStops, Waiting
  <2>7. Numbered'
    BY <1>2, <2>1, <2>2, <2>3 DEF NumInv, Numbered, Numbering
  <2>8. NumbersExact'
    <3> SUFFICES ASSUME ~overrun' PROVE Exact(freejobs, num, Listed)'
      BY DEF NumbersExact
    <3>1. Exact(freejobs', num', Listed')
      BY <2>3, <2>4 DEF NumInv, NumbersExact
    <3> QED
      BY <1>3, <3>1 DEF Exact
  <2> QED
    BY <2>5, <2>6, <2>7, <2>8 DEF NumInv
<1>5. CASE ~Ended(list[i], notify)
  <2>1. UNCHANGED <<list, freejobs, num, life>> /\ Listed' = Listed
    BY <1>1, <1>5 DEF Listed
  <2>2. TypeOK' /\ LoopStops' /\ Waiting' /\ Numbered'
    BY <1>3, <2>1 DEF NumInv, TypeOK, LoopStops, Waiting, Numbered
  <2>3. NumbersExact'
    BY <1>3, <2>1 DEF NumInv, NumbersExact, Exact
  <2> QED
    BY <2>2, <2>3 DEF NumInv
<1> QED
  BY <1>4, <1>5

\* job_alloc keeps the invariant, whichever way it finds a number.
LEMMA AllocInv ==
    ASSUME NumInv, NEW x \in Job, AllocFree(x) \/ AllocFull(x) \/ AllocLast(x)
    PROVE  NumInv'
<1>1. /\ childMax \in Limits /\ list \in Seq(Job) /\ IsInjective(list)
      /\ num \in Numbering /\ freejobs \in Vector /\ freejobs[Words] = {}
      /\ Listed \in SUBSET Job
  BY RangeOfSeq DEF NumInv, TypeOK, LoopStops, Vector, Numbering, Listed
<1>2. at = None /\ x \notin Listed
  BY JobAssumption
  DEF AllocFree, AllocFull, AllocLast, NoneGoes, Posting, NumInv, Waiting
<1>3. ~overrun => Exact(freejobs, num, Listed)
  BY DEF NumInv, NumbersExact
<1>4. \A z \in Job : num[z] = 0 <=> z \notin Listed
  BY DEF NumInv, Numbered
<1>5. ASSUME NEW j \in 0..(Words - 1), Take(freejobs, num, j, x), Link(x, list)
      PROVE  NumInv'
  BY <1>1, <1>2, <1>3, <1>4, <1>5, LinkInv DEF Listed
<1>6. CASE AllocFree(x)
  <2>1. PICK j \in 0..Words : InTable(j) /\ Take(freejobs, num, j, x)
    BY <1>6 DEF AllocFree
  <2>2. j \in 0..(Words - 1)
    BY <1>1, <2>1, WordsOf DEF InTable
  <2> QED
    BY <1>5, <1>6, <2>1, <2>2 DEF AllocFree
<1>7. CASE AllocLast(x)
  <2>1. childMax \div CharBit \in 0..(Words - 1)
    <3>1. childMax \div CharBit < Words
      BY <1>7 DEF AllocLast
    <3>2. childMax \in Nat /\ CharBit \in Nat \ {0} /\ Words \in Nat
      BY <1>1, WordsOf
    <3>3. childMax \div CharBit \in Nat
      BY <3>2, WordOf
    <3> QED
      BY <3>1, <3>2, <3>3
  <2> QED
    BY <1>5, <1>7, <2>1 DEF AllocLast
<1>8. CASE AllocFull(x)
  <2>1. PICK n \in 1..(childMax - 1), i \in DOMAIN list :
          /\ IsJob(i, n)
          /\ Take(Freed(freejobs, n), [num EXCEPT ![list[i]] = 0],
                  n \div CharBit, x)
          /\ Link(x, RemoveAt(list, i))
    BY <1>8 DEF AllocFull
  <2> DEFINE y == list[i]
             rest == RemoveAt(list, i)
             fb == Freed(freejobs, n)
             nm == [num EXCEPT ![y] = 0]
  <2>2. y \in Listed /\ num[y] = n /\ num[y] # 0
    BY <1>1, <1>4, <2>1 DEF Listed, Range, IsJob
  <2>3. n \div CharBit \in 0..(Words - 1) /\ Words \in Nat
    BY <1>1, WordsOf
  <2>4. rest \in Seq(Job) /\ Range(rest) = Listed \ {y} /\ IsInjective(rest)
    <3>1. rest \in Seq(Job)
      BY <1>1, RemoveAtProperties
    <3>2. Range(rest) = Range(list) \ {y} /\ IsInjective(rest)
      BY <1>1, RemoveAtRange
    <3> QED
      BY <3>1, <3>2 DEF Listed
  <2>5. Take(fb, nm, n \div CharBit, x) /\ Link(x, rest)
    BY <2>1
  <2>6. /\ fb \in Vector /\ fb[Words] \subseteq freejobs[Words]
        /\ nm \in Numbering
        /\ Exact(freejobs, num, Listed) => Exact(fb, nm, Listed \ {y})
    BY <1>1, <2>2, FreedExact
  <2>7. \A z \in Job : nm[z] = 0 <=> z \notin Listed \ {y}
    BY <1>1, <1>4, <2>2 DEF Numbering
  <2> HIDE DEF y, rest, fb, nm
  <2>8. fb[Words] = {} /\ x \notin Range(rest)
    BY <1>1, <1>2, <2>4, <2>6
  <2> QED
    BY <1>2, <1>3, <2>3, <2>4, <2>5, <2>6, <2>7, <2>8, LinkInv
<1> QED
  BY <1>6, <1>7, <1>8

\* Every step keeps the invariant.
LEMMA NumStep == NumInv /\ [Next]_vars => NumInv'
<1> SUFFICES ASSUME NumInv, [Next]_vars PROVE NumInv'
  OBVIOUS
<1>1. /\ childMax \in Limits /\ list \in Seq(Job) /\ IsInjective(list)
      /\ Listed \in SUBSET Job /\ DOMAIN list = 1..Len(list) /\ Len(list) \in Nat
  BY RangeOfSeq, LenProperties DEF NumInv, TypeOK, Listed
<1>2. ASSUME NEW x \in Job, AllocFree(x) \/ AllocFull(x) \/ AllocLast(x)
      PROVE  NumInv'
  BY <1>2, AllocInv
<1>3. ASSUME NEW x \in Job, AllocFails(x) PROVE NumInv'
  <2>1. /\ UNCHANGED <<childMax, freejobs, list, num, life, at, overrun>>
        /\ posting' = x /\ at = None /\ x \notin Listed /\ Listed' = Listed
    BY <1>3, JobAssumption
    DEF AllocFails, NoneGoes, Posting, NumInv, Waiting, Listed
  <2>2. Words' = Words /\ Slots' = Slots
    BY <2>1, SameSize
  <2> QED
    BY <2>1, <2>2
    DEF NumInv, TypeOK, LoopStops, NumbersExact, Exact, Numbered, Waiting
<1>4. ASSUME NEW x \in Job, End(x) \/ Report(x) PROVE NumInv'
  <2>1. /\ UNCHANGED <<childMax, freejobs, list, num, posting, at, overrun>>
        /\ life' \in [Job -> {"running", "noted", "done"}] /\ Listed' = Listed
    BY <1>4 DEF End, Report, pointers, NumInv, TypeOK, Listed
  <2>2. Words' = Words /\ Slots' = Slots
    BY <2>1, SameSize
  <2> QED
    BY <2>1, <2>2
    DEF NumInv, TypeOK, LoopStops, NumbersExact, Exact, Numbered, Waiting
<1>5. ASSUME NEW x \in Job, Wait(x) PROVE NumInv'
  <2>1. at' \in Listed' \cup {None}
    BY <1>5 DEF Wait, Listed, Range
  <2> QED
    BY <1>5, <2>1, UnpostInv DEF Wait, Idle
<1>6. CASE WaitNone
  <2>1. /\ UNCHANGED <<childMax, freejobs, list, num, life, posting, overrun>>
        /\ posting = None /\ at' = list[1] /\ 1 \in DOMAIN list
        /\ Listed' = Listed
    BY <1>1, <1>6, EmptySeq DEF WaitNone, Idle, Listed
  <2>2. Words' = Words /\ Slots' = Slots /\ at' \in Listed
    BY <2>1, SameSize DEF Listed, Range
  <2> QED
    BY <2>1, <2>2
    DEF NumInv, TypeOK, LoopStops, NumbersExact, Exact, Numbered, Waiting
<1>7. CASE UnpostNext
  <2>1. /\ at \in Listed /\ posting = None
        /\ Unpost(at, FALSE)
        /\ UNCHANGED <<childMax, posting, overrun>>
    BY <1>7 DEF UnpostNext, NumInv, TypeOK, Waiting
  <2>2. PICK i \in DOMAIN list :
          /\ list[i] = at
          /\ at' = IF i = Len(list) THEN None ELSE list[i + 1]
    BY <1>7 DEF UnpostNext
  <2>3. at' \in Listed' \cup {None}
    <3>1. CASE i = Len(list)
      BY <2>2, <3>1
    <3>2. CASE i # Len(list)
      <4>1. i + 1 \in DOMAIN list /\ at' = list[i + 1] /\ i \in Nat
        BY <1>1, <2>2, <3>2
      <4>2. PICK k \in DOMAIN list :
              /\ IsJob(k, num[at])
              /\ list' = RemoveAt(list, k) \/ list' = list
        BY <2>1 DEF Unpost
      <4>3. k # i + 1
        <5>1. \A l \in 1..(k - 1) : num[list[l]] # num[list[i]]
          BY <2>2, <4>2 DEF IsJob
        <5>2. i \in 1..(i + 1 - 1)
          BY <1>1, <4>1
        <5> QED
          BY <5>1, <5>2
      <4>4. list[i + 1] # list[k] /\ list[i + 1] \in Listed
        BY <1>1, <4>1, <4>3 DEF IsInjective, Listed, Range
      <4>5. Range(RemoveAt(list, k)) = Range(list) \ {list[k]}
        BY <1>1, RemoveAtRange
      <4> QED
        BY <4>1, <4>2, <4>4, <4>5 DEF Listed
    <3> QED
      BY <3>1, <3>2
  <2> QED
    BY <2>1, <2>3, UnpostInv
<1>8. CASE Clear
  <2>1. /\ childMax' = childMax /\ freejobs' = [j \in 0..Words |-> {}]
        /\ list' = <<>> /\ num' = [x \in Job |-> 0]
        /\ life' = [x \in Job |-> "done"] /\ overrun' = FALSE
        /\ posting' = None /\ at' = None
    BY <1>8 DEF Clear, pointers, Idle
  <2>2. Words' = Words /\ Slots' = Slots /\ Words \in Nat /\ Slots \in Nat
    BY <1>1, <2>1, SameSize, WordsOf
  <2>3. Listed' = {} /\ IsInjective(list')
    BY <2>1 DEF Listed, Range, IsInjective
  <2>4. TypeOK'
    <3>1. /\ (freejobs \in [0..Words -> SUBSET Bits])'
          /\ (num \in [Job -> 0..(Slots + 1)])'
      BY <2>1, <2>2
    <3>2. overrun' \in BOOLEAN
      BY <2>1
    <3> QED
      BY <1>1, <2>1, <2>3, <3>1, <3>2 DEF TypeOK
  <2>5. LoopStops' /\ Numbered' /\ Waiting'
    BY <2>1, <2>2, <2>3 DEF LoopStops, Numbered, Waiting
  <2>6. NumbersExact'
    <3>1. ASSUME NEW j \in 0..(Words - 1), NEW m \in Bits
          PROVE  m \notin freejobs'[j]
      BY <2>1, <2>2
    <3> QED
      BY <2>2, <2>3, <3>1 DEF NumbersExact, Exact
  <2> QED
    BY <2>4, <2>5, <2>6 DEF NumInv
<1>9. CASE UNCHANGED vars
  <2>1. /\ UNCHANGED <<childMax, freejobs, list, num, life, overrun>>
        /\ UNCHANGED <<posting, at>> /\ Listed' = Listed
    BY <1>9 DEF vars, pointers, Listed
  <2>2. Words' = Words /\ Slots' = Slots
    BY <2>1, SameSize
  <2> QED
    BY <2>1, <2>2
    DEF NumInv, TypeOK, LoopStops, NumbersExact, Exact, Numbered, Waiting
<1> QED
  BY <1>2, <1>3, <1>4, <1>5, <1>6, <1>7, <1>8, <1>9 DEF Next

\* Every variable has its type: job_alloc sets no bit outside a word, and hands
\* out no number more than one past the vector.
THEOREM TypeCorrect == Spec => []TypeOK
<1>1. NumInv => TypeOK
  BY DEF NumInv
<1> QED
  BY NumInit, NumStep, <1>1, PTL DEF Spec

\* Whatever CHAR_BIT, child_max and the number of jobs: until job_alloc runs
\* off the end of a word, the bit vector is that of the numbers of the posted
\* jobs and no two of them have the same number.
THEOREM NumbersCorrect == Spec => []NumbersExact
<1>1. NumInv => NumbersExact
  BY DEF NumInv
<1> QED
  BY NumInit, NumStep, <1>1, PTL DEF Spec

\* And job_alloc's search for a free word always ends inside the vector.
THEOREM LoopCorrect == Spec => []LoopStops
<1>1. NumInv => LoopStops
  BY DEF NumInv
<1> QED
  BY NumInit, NumStep, <1>1, PTL DEF Spec

-----------------------------------------------------------------------------
(***************************************************************************)
(* The pool.  While the vector is exact, its first free bit is the         *)
(* smallest unused number, and a full vector means that none is unused.    *)
(***************************************************************************)
LEMMA FirstFree ==
    ASSUME NumInv, ~overrun, NEW j \in 0..(Words - 1), FirstWord(j),
           NEW m \in Bits, FirstBit(freejobs[j], m)
    PROVE  /\ j * CharBit + m + 1 \in Pool!Unused
           /\ \A n \in Pool!Unused : j * CharBit + m + 1 <= n
<1>1. /\ childMax \in Limits /\ Exact(freejobs, num, Listed)
      /\ num \in Numbering /\ \A x \in Job : x \notin Listed => num[x] = 0
  BY DEF NumInv, TypeOK, NumbersExact, Numbered, Numbering
<1>2. /\ Words \in Nat /\ Slots \in Nat /\ CharBit \in Nat \ {0}
  BY <1>1, WordsOf
<1>3. j * CharBit + m + 1 \in 1..Slots
  BY <1>1, NumberOf
<1>4. ASSUME NEW x \in Job PROVE num[x] # j * CharBit + m + 1
  <2>1. m \notin freejobs[j]
    BY DEF FirstBit
  <2>2. CASE x \in Listed
    BY <1>1, <2>1, <2>2 DEF Exact
  <2>3. CASE x \notin Listed
    BY <1>1, <1>2, <1>3, <2>3
  <2> QED
    BY <2>2, <2>3
<1>5. ASSUME NEW n \in Pool!Unused PROVE j * CharBit + m + 1 <= n
  <2>1. n \in 1..Slots /\ \A x \in Job : num[x] # n
    BY DEF Pool!Unused
  <2> DEFINE q == (n - 1) \div CharBit
             r == (n - 1) % CharBit
  <2>2. q \in 0..(Words - 1) /\ r \in Bits /\ n = q * CharBit + r + 1
    BY <1>1, <1>2, <2>1, PlaceOf
  <2> HIDE DEF q, r
  <2>3. r \notin freejobs[q]
    <3>1. Listed \subseteq Job
      BY RangeOfSeq DEF NumInv, TypeOK, Listed
    <3> QED
      BY <1>1, <2>1, <2>2, <3>1 DEF Exact
  <2>4. ~(q < j)
    BY <1>2, <2>2, <2>3 DEF FirstWord
  <2>5. CASE q = j
    <3>1. ~(r < m)
      BY <1>2, <2>2, <2>3, <2>5 DEF FirstBit, Bits
    <3>2. j * CharBit \in Nat
      BY <1>2
    <3> QED
      BY <1>2, <2>2, <2>5, <3>1, <3>2 DEF Bits
  <2>6. CASE q > j
    <3>1. j * CharBit + CharBit <= q * CharBit
      BY <1>2, <2>2, <2>6, WordOrder
    <3>2. j * CharBit \in Nat /\ q * CharBit \in Nat
      BY <1>2, <2>2
    <3> QED
      BY <1>2, <2>2, <3>1, <3>2 DEF Bits
  <2> QED
    BY <1>2, <2>2, <2>4, <2>5, <2>6
<1> QED
  BY <1>3, <1>4, <1>5 DEF Pool!Unused

\* When the scan ends past the numbers, all of them are taken.
LEMMA NoneFree ==
    ASSUME NumInv, NEW j \in 0..Words, FirstWord(j), ~InTable(j)
    PROVE  /\ \A k \in 0..(Words - 1) : freejobs[k] = Bits
           /\ ~overrun => Pool!Unused = {}
<1>1. childMax \in Limits /\ Words \in Nat /\ Slots \in Nat
  BY WordsOf DEF NumInv, TypeOK
<1>2. j = Words
  BY <1>1 DEF InTable
<1>3. \A k \in 0..(Words - 1) : freejobs[k] = Bits
  BY <1>2 DEF FirstWord
<1>4. ASSUME ~overrun, NEW n \in Pool!Unused PROVE FALSE
  <2>1. n \in 1..Slots /\ \A x \in Job : num[x] # n
    BY DEF Pool!Unused
  <2> DEFINE q == (n - 1) \div CharBit
             r == (n - 1) % CharBit
  <2>2. q \in 0..(Words - 1) /\ r \in Bits /\ n = q * CharBit + r + 1
    BY <1>1, <2>1, PlaceOf
  <2> HIDE DEF q, r
  <2>3. r \in freejobs[q]
    BY <1>3, <2>2
  <2>4. PICK x \in Listed : num[x] = q * CharBit + r + 1
    BY <1>4, <2>2, <2>3 DEF NumInv, NumbersExact, Exact
  <2>5. Listed \subseteq Job
    BY RangeOfSeq DEF NumInv, TypeOK, Listed
  <2> QED
    BY <2>1, <2>2, <2>4, <2>5
<1> QED
  BY <1>3, <1>4

\* Once the vector has been overrun, the pool allows any numbers.
LEMMA RunsOut ==
    ASSUME NumInv, NumInv', childMax' = childMax, overrun' = TRUE,
           overrun \/ Pool!Unused = {}
    PROVE  Pool!RunOut
<1>1. Slots' = Slots
  BY SameSize
<1>2. num' \in [Job -> 0..(Slots + 1)]
  BY <1>1 DEF NumInv, TypeOK
<1> QED
  BY <1>1, <1>2 DEF Pool!RunOut

\* The number taken is the smallest one, or one that another job has given up.
LEMMA AllocPool ==
    ASSUME NumInv, NumInv', NEW x \in Job,
           AllocFree(x) \/ AllocFull(x) \/ AllocLast(x)
    PROVE  Pool!PoolNext
<1>1. /\ childMax \in Limits /\ num \in Numbering /\ freejobs \in Vector
      /\ overrun \in BOOLEAN /\ overrun' \in BOOLEAN
      /\ list \in Seq(Job) /\ IsInjective(list)
  BY DEF NumInv, TypeOK, Numbering, Vector
<1>2. childMax' = childMax /\ Slots' = Slots
  BY SameSize DEF AllocFree, AllocFull, AllocLast, Link
<1>3. Words \in Nat /\ CharBit \in Nat \ {0}
  BY <1>1, WordsOf
<1>4. x \notin Listed /\ num[x] = 0
  BY JobAssumption
  DEF AllocFree, AllocFull, AllocLast, NoneGoes, Posting, NumInv, Waiting,
      Numbered
<1>5. CASE AllocFree(x)
  <2>1. PICK j \in 0..(Words - 1) : FirstWord(j) /\ Take(freejobs, num, j, x)
    BY <1>3, <1>5 DEF AllocFree, InTable
  <2>2. PICK m \in 0..CharBit :
          /\ FirstBit(freejobs[j], m)
          /\ num' = [num EXCEPT ![x] = j * CharBit + m + 1]
          /\ overrun' = (overrun \/ m = CharBit)
    BY <2>1 DEF Take
  <2>3. m \in Bits /\ m # CharBit
    <3>1. freejobs[j] \subseteq Bits /\ freejobs[j] # Bits
      BY <1>1, <1>3, <2>1 DEF Vector, FirstWord
    <3>2. m # CharBit
      BY <1>3, <2>2, <3>1 DEF FirstBit, Bits
    <3> QED
      BY <1>3, <3>2 DEF Bits
  <2>4. CASE overrun
    <3>1. overrun' = TRUE
      BY <2>2, <2>4
    <3> QED
      BY <1>2, <2>4, <3>1, RunsOut DEF Pool!PoolNext
  <2>5. CASE ~overrun
    <3>1. overrun' = overrun
      <4>1. ~overrun'
        BY <2>2, <2>3, <2>5, Zenon
      <4> QED
        BY <1>1, <2>5, <4>1, Zenon
    <3>2. /\ j * CharBit + m + 1 \in Pool!Unused
          /\ \A n \in Pool!Unused : j * CharBit + m + 1 <= n
      BY <2>1, <2>2, <2>3, <2>5, FirstFree
    <3>3. Pool!Give(x)
      BY <1>2, <1>4, <2>2, <3>1, <3>2 DEF Pool!Give
    <3> QED
      BY <2>5, <3>3 DEF Pool!PoolNext
  <2> QED
    BY <2>4, <2>5
<1>6. ASSUME ~AllocFree(x)
      PROVE  /\ \A k \in 0..(Words - 1) : freejobs[k] = Bits
             /\ ~overrun => Pool!Unused = {}
  <2>1. PICK j \in 0..Words : FirstWord(j) /\ ~InTable(j)
    BY <1>6 DEF AllocFull, AllocLast, NoneGoes
  <2> QED
    BY <2>1, NoneFree
<1>7. ASSUME overrun' = TRUE, ~AllocFree(x)
      PROVE  Pool!PoolNext
  BY <1>1, <1>2, <1>6, <1>7, RunsOut DEF Pool!PoolNext
<1>8. CASE AllocLast(x) /\ ~AllocFree(x)
  <2> DEFINE j == childMax \div CharBit
  <2>1. j \in 0..(Words - 1)
    <3>1. childMax \in Nat
      BY <1>1, WordsOf
    <3>2. j \in Nat
      BY <1>3, <3>1, WordOf
    <3>3. j < Words
      BY <1>8 DEF AllocLast
    <3> QED
      BY <1>3, <3>2, <3>3
  <2>2. PICK m \in 0..CharBit : FirstBit(freejobs[j], m)
                                /\ overrun' = (overrun \/ m = CharBit)
    BY <1>8 DEF AllocLast, Take
  <2> HIDE DEF j
  <2>3. m = CharBit
    BY <1>3, <1>6, <1>8, <2>1, <2>2 DEF FirstBit, Bits
  <2>4. overrun' = TRUE
    BY <2>2, <2>3, Zenon
  <2> QED
    BY <1>7, <1>8, <2>4
<1>9. CASE AllocFull(x) /\ ~AllocFree(x)
  <2>1. PICK n \in 1..(childMax - 1), i \in DOMAIN list :
          /\ IsJob(i, n)
          /\ Take(Freed(freejobs, n), [num EXCEPT ![list[i]] = 0],
                  n \div CharBit, x)
    BY <1>9 DEF AllocFull
  <2> DEFINE y == list[i]
             fb == Freed(freejobs, n)
             j == n \div CharBit
             q == (n - 1) \div CharBit
             r == (n - 1) % CharBit
  <2>2. PICK m \in 0..CharBit :
          /\ FirstBit(fb[j], m)
          /\ num' = [num EXCEPT ![y] = 0, ![x] = j * CharBit + m + 1]
          /\ overrun' = (overrun \/ m = CharBit)
    BY <2>1 DEF Take
  <2>3. j \in 0..(Words - 1)
    BY <1>1, WordsOf
  <2>4. y \in Job /\ num[y] = n
    BY <1>1, <2>1, LenProperties, ElementOfSeq DEF IsJob
  <2>5. /\ q \in 0..Words /\ r \in Bits /\ n = q * CharBit + r + 1
    <3>1. n \in 1..(Slots + 1)
      BY <1>1, <2>4, WordsOf DEF Numbering
    <3> QED
      BY <1>1, <3>1, PlaceOf
  <2>6. fb = [freejobs EXCEPT ![q] = @ \ {r}]
    BY DEF Freed
  <2> HIDE DEF y, fb, j, q, r
  <2>7. fb[j] = IF j = q THEN Bits \ {r} ELSE Bits
    BY SMTT(60), <1>1, <1>3, <1>6, <1>9, <2>3, <2>6 DEF Vector
  <2>8. CASE overrun' = TRUE
    BY <1>7, <1>9, <2>8
  <2>9. CASE overrun' = FALSE
    <3>1. m # CharBit /\ ~overrun
      BY <2>2, <2>9, Zenon
    <3>2. m \in Bits /\ m \notin fb[j]
      BY <1>3, <2>2, <3>1 DEF FirstBit, Bits
    <3>3. j = q /\ m = r
      BY <2>7, <3>2
    <3>4. j * CharBit + m + 1 = n
      BY <2>5, <3>3
    <3>5. num' = [num EXCEPT ![y] = 0, ![x] = num[y]]
      BY <2>2, <2>4, <3>4
    <3>6. overrun' = overrun
      BY <1>1, <2>9, <3>1, Zenon
    <3>7. Pool!TakeOver(x, y)
      BY <1>2, <1>4, <1>6, <1>9, <3>1, <3>5, <3>6 DEF Pool!TakeOver
    <3> QED
      BY <2>4, <3>1, <3>7 DEF Pool!PoolNext
  <2> QED
    BY <1>1, <2>8, <2>9
<1> QED
  BY <1>5, <1>8, <1>9

\* job_unpost returns a number to the pool, or does nothing to it.
LEMMA UnpostPool ==
    ASSUME NumInv, NumInv', NEW x \in Job, NEW notify \in BOOLEAN,
           Unpost(x, notify), UNCHANGED <<childMax, overrun>>
    PROVE  Pool!PoolNext \/ UNCHANGED Pool!poolVars
<1>1. Slots' = Slots
  BY SameSize
<1>2. CASE overrun
  <2>1. overrun' = TRUE
    BY <1>2 DEF NumInv, TypeOK
  <2> QED
    BY <1>2, <2>1, RunsOut DEF Pool!PoolNext
<1>3. CASE ~overrun
  <2>1. PICK i \in DOMAIN list :
          num' = [num EXCEPT ![list[i]] = 0] \/ num' = num
    BY DEF Unpost
  <2>2. list[i] \in Job
    BY LenProperties, ElementOfSeq DEF NumInv, TypeOK
  <2>3. Pool!Return(list[i]) \/ UNCHANGED Pool!poolVars
    BY <1>1, <2>1 DEF Pool!Return, Pool!poolVars
  <2> QED
    BY <1>3, <2>2, <2>3 DEF Pool!PoolNext
<1> QED
  BY <1>2, <1>3

\* job_alloc and job_free implement the pool of smallest unused numbers.
THEOREM ImplementsPool == Spec => IsPool
<1>1. Init => Pool!PoolInit
  BY DEF Init, Start, Pool!PoolInit, Pool!Capacity, Slots, Words
<1>2. ASSUME NumInv, NumInv', [Next]_vars
      PROVE  [Pool!PoolNext]_(Pool!poolVars)
  <2>1. ASSUME NEW x \in Job, AllocFree(x) \/ AllocFull(x) \/ AllocLast(x)
        PROVE  Pool!PoolNext
    BY <1>2, <2>1, AllocPool
  <2>2. ASSUME NEW x \in Job, Wait(x)
        PROVE  Pool!PoolNext \/ UNCHANGED Pool!poolVars
    BY <1>2, <2>2, UnpostPool DEF Wait
  <2>3. CASE UnpostNext
    <3>1. at \in Job
      BY <1>2, <2>3, RangeOfSeq DEF NumInv, TypeOK, UnpostNext, Listed
    <3> QED
      BY <1>2, <2>3, <3>1, UnpostPool DEF UnpostNext
  <2>4. CASE Clear
    <3>1. Slots' = Slots
      BY <2>4, SameSize DEF Clear
    <3> QED
      BY <2>4, <3>1 DEF Clear, Pool!Restart, Pool!PoolNext
  <2>5. ASSUME NEW x \in Job,
               AllocFails(x) \/ End(x) \/ Report(x)
        PROVE  UNCHANGED Pool!poolVars
    <3>1. UNCHANGED <<childMax, num, overrun>>
      BY <2>5 DEF AllocFails, End, Report
    <3> QED
      BY <3>1, SameSize DEF Pool!poolVars
  <2>6. CASE WaitNone \/ UNCHANGED vars
    <3>1. UNCHANGED <<childMax, num, overrun>>
      BY <2>6 DEF WaitNone, vars
    <3> QED
      BY <3>1, SameSize DEF Pool!poolVars
  <2> QED
    BY <1>2, <2>1, <2>2, <2>3, <2>4, <2>5, <2>6 DEF Next
<1> QED
  BY NumInit, NumStep, <1>1, <1>2, PTL DEF Spec, IsPool, Pool!PoolSpec
=============================================================================
