---------------------------- MODULE HistoryProof ----------------------------
(***************************************************************************)
(* Theorems about History, for any shells, files, commands and sizes.      *)
(* What hist_eof makes of a file is defined by recursion over its units;   *)
(* what is said of it is proved by induction over offsets, for which a set *)
(* of offsets stands for the property.                                     *)
(***************************************************************************)
EXTENDS History, SequenceTheorems, WellFoundedInduction, TLAPS

-----------------------------------------------------------------------------
(***************************************************************************)
(* Induction.                                                              *)
(***************************************************************************)
LEMMA Upward ==
    ASSUME NEW S, 0 \in S, \A n \in Nat : n \in S => n + 1 \in S
    PROVE  Nat \subseteq S
<1> DEFINE T == Nat \ S
<1> SUFFICES ASSUME T # {} PROVE FALSE
  OBVIOUS
<1>1. PICK m \in T : \A k \in T : <<k, m>> \notin OpToRel(<, Nat)
  <2>1. T \subseteq Nat
    OBVIOUS
  <2> QED
    BY <2>1, NatLessThanWellFounded, WFMin
<1>2. m \in Nat /\ m # 0 /\ m - 1 \in Nat /\ m - 1 < m /\ m - 1 + 1 = m
  OBVIOUS
<1>3. \A k \in T : ~(k < m)
  BY <1>1, <1>2 DEF OpToRel
<1>4. m - 1 \in S
  BY <1>2, <1>3
<1>5. m - 1 + 1 \in S
  BY <1>2, <1>4
<1> QED
  BY <1>2, <1>5

\* From an offset to another.
LEMMA UpTo ==
    ASSUME NEW a \in Nat, NEW b \in Nat, NEW S, a \in S,
           \A n \in Nat : a <= n /\ n < b /\ n \in S => n + 1 \in S
    PROVE  \A n \in Nat : a <= n /\ n <= b => n \in S
<1> DEFINE T == {k \in Nat : a + k <= b => a + k \in S}
<1>1. 0 \in T
  OBVIOUS
<1>2. ASSUME NEW k \in Nat, k \in T PROVE k + 1 \in T
  <2> SUFFICES ASSUME a + (k + 1) <= b PROVE a + (k + 1) \in S
    OBVIOUS
  <2>1. a + k \in Nat /\ a <= a + k /\ a + k < b /\ a + (k + 1) = (a + k) + 1
    OBVIOUS
  <2>2. a + k \in S
    BY <1>2, <2>1
  <2> QED
    BY <2>1, <2>2
<1>3. Nat \subseteq T
  <2> HIDE DEF T
  <2> QED
    BY <1>1, <1>2, Upward
<1> SUFFICES ASSUME NEW n \in Nat, a <= n, n <= b PROVE n \in S
  OBVIOUS
<1>4. n - a \in Nat /\ a + (n - a) = n
  OBVIOUS
<1>5. n - a \in T
  BY <1>3, <1>4
<1> QED
  BY <1>4, <1>5

-----------------------------------------------------------------------------
(***************************************************************************)
(* The recursion of ReadTo has a solution, and its equations hold.         *)
(***************************************************************************)
Reads(g, r, d) == g = [o \in Nat |-> IF o <= r.cnt THEN r ELSE ReadUnit(g[o - 1], d[o])]
ReadsTo(g, n, r, d) ==
    g = [o \in 0..n |-> IF o <= r.cnt THEN r ELSE ReadUnit(g[o - 1], d[o])]

LEMMA ReadsUnique ==
    ASSUME NEW r, NEW d, r.cnt \in Nat, NEW n \in Nat, NEW m \in Nat, n <= m,
           NEW g, NEW h, ReadsTo(g, n, r, d), ReadsTo(h, m, r, d)
    PROVE  g[n] = h[n]
<1> DEFINE S == {i \in Nat : g[i] = h[i]}
<1>1. /\ \A i \in 0..n : g[i] = IF i <= r.cnt THEN r ELSE ReadUnit(g[i - 1], d[i])
      /\ \A i \in 0..m : h[i] = IF i <= r.cnt THEN r ELSE ReadUnit(h[i - 1], d[i])
  BY DEF ReadsTo
<1>2. 0 \in S
  <2>1. 0 \in 0..n /\ 0 \in 0..m /\ 0 <= r.cnt
    OBVIOUS
  <2> QED
    BY <1>1, <2>1
<1>3. ASSUME NEW i \in Nat, 0 <= i, i < n, i \in S PROVE i + 1 \in S
  <2>1. i + 1 \in 0..n /\ i + 1 \in 0..m /\ i + 1 \in Nat /\ (i + 1) - 1 = i
    BY <1>3
  <2>2. /\ g[i + 1] = IF i + 1 <= r.cnt THEN r ELSE ReadUnit(g[i], d[i + 1])
        /\ h[i + 1] = IF i + 1 <= r.cnt THEN r ELSE ReadUnit(h[i], d[i + 1])
    BY <1>1, <2>1
  <2> QED
    BY <1>3, <2>1, <2>2
<1>4. n \in S
  <2>1. 0 <= n /\ n <= n /\ 0 \in Nat
    OBVIOUS
  <2> HIDE DEF S
  <2> QED
    BY <1>2, <1>3, <2>1, UpTo
<1> QED
  BY <1>4

LEMMA ReadsFor ==
    ASSUME NEW r, NEW d, r.cnt \in Nat
    PROVE  \A n \in Nat : \E g : ReadsTo(g, n, r, d)
<1> DEFINE S == {n \in Nat : \E g : ReadsTo(g, n, r, d)}
<1>1. 0 \in S
  <2> DEFINE g == [o \in 0..0 |-> r]
  <2>1. \A o \in 0..0 : o <= r.cnt
    OBVIOUS
  <2>2. ReadsTo(g, 0, r, d)
    BY <2>1 DEF ReadsTo
  <2> QED
    BY <2>2
<1>2. ASSUME NEW n \in Nat, n \in S PROVE n + 1 \in S
  <2>1. PICK g : ReadsTo(g, n, r, d)
    BY <1>2
  <2> DEFINE last == IF n + 1 <= r.cnt THEN r ELSE ReadUnit(g[n], d[n + 1])
             h == [o \in 0..(n + 1) |-> IF o = n + 1 THEN last ELSE g[o]]
  <2>2. \A o \in 0..n : g[o] = IF o <= r.cnt THEN r ELSE ReadUnit(g[o - 1], d[o])
    BY <2>1 DEF ReadsTo
  <2>3. ASSUME NEW o \in 0..(n + 1)
        PROVE  h[o] = IF o <= r.cnt THEN r ELSE ReadUnit(h[o - 1], d[o])
    <3>1. CASE o = n + 1
      <4>1. (n + 1) - 1 = n /\ n \in 0..(n + 1) /\ n # n + 1
        OBVIOUS
      <4>2. h[n] = g[n]
        BY <4>1
      <4> QED
        BY <3>1, <4>1, <4>2
    <3>2. CASE o # n + 1
      <4>1. o \in 0..n /\ h[o] = g[o]
        BY <3>2
      <4>2. CASE o <= r.cnt
        BY <2>2, <4>1, <4>2
      <4>3. CASE ~(o <= r.cnt)
        <5>1. o - 1 \in 0..(n + 1) /\ o - 1 # n + 1
          BY <4>1, <4>3
        <5>2. h[o - 1] = g[o - 1]
          BY <5>1
        <5> QED
          BY <2>2, <4>1, <4>3, <5>2
      <4> QED
        BY <4>2, <4>3
    <3> QED
      BY <3>1, <3>2
  <2>4. ReadsTo(h, n + 1, r, d)
    <3>1. h = [o \in 0..(n + 1) |-> h[o]]
      OBVIOUS
    <3> HIDE DEF h
    <3> QED
      BY <2>3, <3>1 DEF ReadsTo
  <2> QED
    BY <2>4
<1>3. Nat \subseteq S
  <2> HIDE DEF S
  <2> QED
    BY <1>1, <1>2, Upward
<1> QED
  BY <1>3

LEMMA ReadsExists ==
    ASSUME NEW r, NEW d, r.cnt \in Nat
    PROVE  \E g : Reads(g, r, d)
<1> DEFINE part(n) == CHOOSE g : ReadsTo(g, n, r, d)
           g == [o \in Nat |-> part(o)[o]]
<1>1. \A n \in Nat : ReadsTo(part(n), n, r, d)
  BY ReadsFor
<1>2. ASSUME NEW o \in Nat
      PROVE  g[o] = IF o <= r.cnt THEN r ELSE ReadUnit(g[o - 1], d[o])
  <2>1. part(o)[o] = IF o <= r.cnt THEN r ELSE ReadUnit(part(o)[o - 1], d[o])
    <3>1. o \in 0..o
      OBVIOUS
    <3> HIDE DEF part
    <3> QED
      BY <1>1, <3>1 DEF ReadsTo
  <2>2. ~(o <= r.cnt) => o - 1 \in Nat /\ part(o - 1)[o - 1] = part(o)[o - 1]
    <3> SUFFICES ASSUME ~(o <= r.cnt)
                 PROVE  o - 1 \in Nat /\ part(o - 1)[o - 1] = part(o)[o - 1]
      OBVIOUS
    <3>1. o - 1 \in Nat /\ o - 1 <= o
      OBVIOUS
    <3> HIDE DEF part
    <3> QED
      BY <1>1, <3>1, ReadsUnique
  <2> HIDE DEF part
  <2> QED
    BY <2>1, <2>2
<1>3. Reads(g, r, d)
  <2>1. g = [o \in Nat |-> g[o]]
    OBVIOUS
  <2> HIDE DEF g
  <2> QED
    BY <1>2, <2>1 DEF Reads
<1> QED
  BY <1>3

\* hist_eof from where it stands, and one unit further.
LEMMA ReadStart ==
    ASSUME NEW r, NEW d, r.cnt \in Nat, NEW e \in Nat, e <= r.cnt
    PROVE  ReadTo(r, d, e) = r
<1>1. ReadTo(r, d, e) = (CHOOSE g : Reads(g, r, d))[e]
  BY DEF ReadTo, Reads
<1>2. Reads(CHOOSE g : Reads(g, r, d), r, d)
  BY ReadsExists
<1> HIDE DEF Reads
<1>3. ASSUME NEW g, Reads(g, r, d) PROVE g[e] = r
  BY <1>3 DEF Reads
<1> QED
  BY <1>1, <1>2, <1>3

LEMMA ReadNext ==
    ASSUME NEW r, NEW d, r.cnt \in Nat, NEW e \in Nat, r.cnt <= e
    PROVE  ReadTo(r, d, e + 1) = ReadUnit(ReadTo(r, d, e), d[e + 1])
<1>1. \A i : ReadTo(r, d, i) = (CHOOSE g : Reads(g, r, d))[i]
  BY DEF ReadTo, Reads
<1>2. Reads(CHOOSE g : Reads(g, r, d), r, d)
  BY ReadsExists
<1>3. ASSUME NEW g, Reads(g, r, d) PROVE g[e + 1] = ReadUnit(g[e], d[e + 1])
  <2>1. e + 1 \in Nat /\ ~(e + 1 <= r.cnt) /\ (e + 1) - 1 = e
    OBVIOUS
  <2>2. g[e + 1] = IF e + 1 <= r.cnt THEN r ELSE ReadUnit(g[(e + 1) - 1], d[e + 1])
    BY <1>3, <2>1 DEF Reads
  <2> QED
    BY <2>1, <2>2
<1> QED
  BY <1>1, <1>2, <1>3

-----------------------------------------------------------------------------
(***************************************************************************)
(* What hist_eof makes of a unit, and of several.                          *)
(***************************************************************************)
Unit == {"stamp", "undo", "head", "tail", "marker"} \X Int
Reader == [ind : Int, cnt : Nat, marker : Nat, cmds : [Number -> Nat]]

\* A unit moves the number by this much, and all but the first half of a
\* command have the next one start behind them.
Moves(u) == IF u[1] \in {"tail", "stamp"} THEN 1 ELSE IF u[1] = "undo" THEN -1 ELSE 0

LEMMA UnitRead ==
    ASSUME NEW r \in Reader, NEW u \in Unit
    PROVE  /\ ReadUnit(r, u) \in Reader
           /\ ReadUnit(r, u).cnt = r.cnt + 1
           /\ ReadUnit(r, u).ind = r.ind + Moves(u)
           /\ ReadUnit(r, u).cmds = IF u[1] = "head" THEN r.cmds
                                    ELSE [r.cmds EXCEPT ![r.ind + Moves(u)] = r.cnt + 1]
<1>1. /\ r.ind \in Int /\ r.cnt \in Nat /\ r.marker \in Nat /\ r.cmds \in [Number -> Nat]
      /\ r.cnt + 1 \in Nat
  BY DEF Reader
<1>2. \A n : [r.cmds EXCEPT ![n] = r.cnt + 1] \in [Number -> Nat]
  BY <1>1
<1> DEFINE s == [r EXCEPT !.cnt = r.cnt + 1]
<1>3. /\ s \in Reader /\ s.cnt = r.cnt + 1 /\ s.ind = r.ind /\ s.cmds = r.cmds
  BY <1>1 DEF Reader
<1>4. ASSUME NEW n \in Int
      PROVE  /\ Place(s, n, r.cnt + 1) \in Reader
             /\ Place(s, n, r.cnt + 1).cnt = r.cnt + 1
             /\ Place(s, n, r.cnt + 1).ind = n
             /\ Place(s, n, r.cnt + 1).cmds = [r.cmds EXCEPT ![n] = r.cnt + 1]
  <2>1. ASSUME NEW q \in Reader, NEW c \in [Number -> Nat]
        PROVE  LET t == [q EXCEPT !.ind = n, !.cmds = c]
               IN  t \in Reader /\ t.cnt = q.cnt /\ t.ind = n /\ t.cmds = c
    BY DEF Reader
  <2>2. Place(s, n, r.cnt + 1) = [s EXCEPT !.ind = n, !.cmds = [r.cmds EXCEPT ![n] = r.cnt + 1]]
    BY <1>3 DEF Place, Reader
  <2> DEFINE c == [r.cmds EXCEPT ![n] = r.cnt + 1]
             t == [s EXCEPT !.ind = n, !.cmds = c]
  <2>3. s \in Reader /\ c \in [Number -> Nat] /\ s.cnt = r.cnt + 1
    BY <1>2, <1>3
  <2> HIDE DEF s, c
  <2>4. t \in Reader /\ t.cnt = s.cnt /\ t.ind = n /\ t.cmds = c
    BY <2>1, <2>3
  <2>5. Place(s, n, r.cnt + 1) = t
    BY <2>2 DEF c
  <2> HIDE DEF t
  <2>6. /\ Place(s, n, r.cnt + 1) \in Reader /\ Place(s, n, r.cnt + 1).cnt = r.cnt + 1
        /\ Place(s, n, r.cnt + 1).ind = n /\ Place(s, n, r.cnt + 1).cmds = c
    BY <2>3, <2>4, <2>5
  <2> QED
    BY <2>6 DEF c
<1>5. u[1] \in {"stamp", "undo", "head", "tail", "marker"}
  BY DEF Unit
<1> HIDE DEF s
<1>6. CASE u[1] = "head"
  <2>1. ReadUnit(r, u) = s
    BY <1>6 DEF ReadUnit, s
  <2> QED
    BY <1>1, <1>3, <1>6, <2>1 DEF Moves
<1>7. CASE u[1] \in {"tail", "stamp"}
  <2>1. ReadUnit(r, u) = Place(s, r.ind + 1, r.cnt + 1)
    BY <1>3, <1>7 DEF ReadUnit, s
  <2>2. r.ind + 1 \in Int /\ Moves(u) = 1
    BY <1>1, <1>7 DEF Moves
  <2> QED
    BY <1>4, <1>7, <2>1, <2>2
<1>8. CASE u[1] = "undo"
  <2>1. ReadUnit(r, u) = Place(s, r.ind - 1, r.cnt + 1)
    BY <1>3, <1>8 DEF ReadUnit, s
  <2>2. r.ind - 1 \in Int /\ Moves(u) = -1 /\ r.ind - 1 = r.ind + Moves(u)
    BY <1>1, <1>8 DEF Moves
  <2> QED
    BY <1>4, <1>8, <2>1, <2>2
<1>9. CASE u[1] = "marker"
  <2>1. ReadUnit(r, u) = [Place(s, r.ind, r.cnt + 1) EXCEPT !.marker = r.cnt + 1]
    BY <1>3, <1>9 DEF ReadUnit, s
  <2>2. r.ind \in Int /\ Moves(u) = 0 /\ r.ind = r.ind + Moves(u)
    BY <1>1, <1>9 DEF Moves
  <2>3. ASSUME NEW q \in Reader
        PROVE  LET t == [q EXCEPT !.marker = r.cnt + 1]
               IN  t \in Reader /\ t.cnt = q.cnt /\ t.ind = q.ind /\ t.cmds = q.cmds
    BY <1>1 DEF Reader
  <2> QED
    BY <1>4, <1>9, <2>1, <2>2, <2>3
<1> QED
  BY <1>5, <1>6, <1>7, <1>8, <1>9

\* All but the first half of a command.
LEMMA MoveRead ==
    ASSUME NEW r \in Reader, NEW u \in Unit, u[1] # "head"
    PROVE  /\ ReadUnit(r, u).ind = r.ind + Moves(u)
           /\ ReadUnit(r, u).cmds = [r.cmds EXCEPT ![r.ind + Moves(u)] = r.cnt + 1]
<1> DEFINE q == ReadUnit(r, u)
<1>1. /\ q.ind = r.ind + Moves(u)
      /\ q.cmds = IF u[1] = "head" THEN r.cmds ELSE [r.cmds EXCEPT ![r.ind + Moves(u)] = r.cnt + 1]
  BY UnitRead
<1> HIDE DEF q
<1>2. q.ind = r.ind + Moves(u) /\ q.cmds = [r.cmds EXCEPT ![r.ind + Moves(u)] = r.cnt + 1]
  BY <1>1
<1> QED
  BY <1>2 DEF q

LEMMA ReadTyped ==
    ASSUME NEW r \in Reader, NEW d \in Seq(Unit), NEW e \in Nat, r.cnt <= e, e <= Len(d)
    PROVE  ReadTo(r, d, e) \in Reader /\ ReadTo(r, d, e).cnt = e
<1> DEFINE S == {n \in Nat : ReadTo(r, d, n) \in Reader /\ ReadTo(r, d, n).cnt = n}
<1>1. r.cnt \in Nat /\ Len(d) \in Nat /\ DOMAIN d = 1..Len(d)
  BY LenProperties DEF Reader
<1>2. r.cnt \in S
  BY <1>1, ReadStart
<1>3. ASSUME NEW n \in Nat, r.cnt <= n, n < e, n \in S PROVE n + 1 \in S
  <2>1. n + 1 \in Nat /\ n + 1 \in 1..Len(d)
    BY <1>1, <1>3
  <2>2. d[n + 1] \in Unit
    BY <2>1, ElementOfSeq
  <2>3. ReadTo(r, d, n + 1) = ReadUnit(ReadTo(r, d, n), d[n + 1])
    BY <1>1, <1>3, ReadNext
  <2>4. ReadTo(r, d, n) \in Reader /\ ReadTo(r, d, n).cnt = n
    BY <1>3
  <2>5. /\ ReadUnit(ReadTo(r, d, n), d[n + 1]) \in Reader
        /\ ReadUnit(ReadTo(r, d, n), d[n + 1]).cnt = n + 1
    BY <2>2, <2>4, UnitRead
  <2> QED
    BY <2>1, <2>3, <2>5
<1>4. e \in S
  <2>1. e <= e
    OBVIOUS
  <2> HIDE DEF S
  <2> QED
    BY <1>1, <1>2, <1>3, <2>1, UpTo
<1> QED
  BY <1>4

\* Only the units that are read matter.
LEMMA ReadSame ==
    ASSUME NEW r, r.cnt \in Nat, NEW d, NEW c, NEW e \in Nat, r.cnt <= e,
           \A i \in Nat : r.cnt < i /\ i <= e => d[i] = c[i]
    PROVE  ReadTo(r, d, e) = ReadTo(r, c, e)
<1> DEFINE S == {n \in Nat : ReadTo(r, d, n) = ReadTo(r, c, n)}
<1>1. r.cnt \in S
  BY ReadStart
<1>2. ASSUME NEW n \in Nat, r.cnt <= n, n < e, n \in S PROVE n + 1 \in S
  <2>1. n + 1 \in Nat /\ r.cnt < n + 1 /\ n + 1 <= e
    BY <1>2
  <2>2. d[n + 1] = c[n + 1]
    BY <2>1
  <2> QED
    BY <1>2, <2>1, <2>2, ReadNext
<1>3. e \in S
  <2>1. e <= e
    OBVIOUS
  <2> HIDE DEF S
  <2> QED
    BY <1>1, <1>2, <2>1, UpTo
<1> QED
  BY <1>3

\* To read on from where a reading has stopped.
LEMMA ReadOn ==
    ASSUME NEW r \in Reader, NEW d \in Seq(Unit), NEW c \in Nat, NEW e \in Nat,
           r.cnt <= c, c <= e, e <= Len(d)
    PROVE  ReadTo(ReadTo(r, d, c), d, e) = ReadTo(r, d, e)
<1> DEFINE q == ReadTo(r, d, c)
           S == {n \in Nat : ReadTo(q, d, n) = ReadTo(r, d, n)}
<1>1. r.cnt \in Nat /\ Len(d) \in Nat
  BY LenProperties DEF Reader
<1>2. q \in Reader /\ q.cnt = c
  <2>1. c <= Len(d)
    BY <1>1
  <2> QED
    BY <2>1, ReadTyped
<1> HIDE DEF q
<1>3. c \in S
  <2>1. c <= c
    OBVIOUS
  <2> QED
    BY <1>2, <2>1, ReadStart DEF q
<1>4. ASSUME NEW n \in Nat, c <= n, n < e, n \in S PROVE n + 1 \in S
  <2>1. n + 1 \in Nat /\ r.cnt <= n
    BY <1>1, <1>4
  <2>2. ReadTo(q, d, n + 1) = ReadUnit(ReadTo(q, d, n), d[n + 1])
    BY <1>2, <1>4, ReadNext
  <2>3. ReadTo(r, d, n + 1) = ReadUnit(ReadTo(r, d, n), d[n + 1])
    BY <1>1, <2>1, ReadNext
  <2> QED
    BY <1>4, <2>1, <2>2, <2>3
<1>5. e \in S
  <2>1. e <= e
    OBVIOUS
  <2> HIDE DEF S
  <2> QED
    BY <1>3, <1>4, <2>1, UpTo
<1> QED
  BY <1>5 DEF q

-----------------------------------------------------------------------------
(***************************************************************************)
(* Two readers agree when they have the same number at the same offset,    *)
(* and the places that one of them has for commands are those of the other *)
(* (or, while a file is read a second time, of an earlier reading).        *)
(***************************************************************************)
Agree(r, w, known) ==
    /\ r.cnt = w.cnt /\ r.ind = w.ind
    /\ \A n \in Number : r.cmds[n] # FirstTable[n] => r.cmds[n] \in {w.cmds[n], known[n]}

LEMMA UnitAgree ==
    ASSUME NEW r \in Reader, NEW w \in Reader, NEW u \in Unit, NEW known, Agree(r, w, known)
    PROVE  Agree(ReadUnit(r, u), ReadUnit(w, u), known)
<1> DEFINE q == ReadUnit(r, u)
           v == ReadUnit(w, u)
           m == r.ind + Moves(u)
<1>1. /\ q.cnt = r.cnt + 1 /\ q.ind = m
      /\ q.cmds = IF u[1] = "head" THEN r.cmds ELSE [r.cmds EXCEPT ![m] = r.cnt + 1]
  BY UnitRead
<1>2. /\ v.cnt = w.cnt + 1 /\ v.ind = w.ind + Moves(u)
      /\ v.cmds = IF u[1] = "head" THEN w.cmds
                  ELSE [w.cmds EXCEPT ![w.ind + Moves(u)] = w.cnt + 1]
  BY UnitRead
<1>3. /\ r.ind = w.ind /\ r.cnt = w.cnt
      /\ \A n \in Number : r.cmds[n] # FirstTable[n] => r.cmds[n] \in {w.cmds[n], known[n]}
  BY DEF Agree
<1>4. r.cmds \in [Number -> Nat] /\ w.cmds \in [Number -> Nat]
  BY DEF Reader
<1> HIDE DEF q, v
<1>5. q.cnt = v.cnt /\ q.ind = v.ind
  BY <1>1, <1>2, <1>3
<1>6. ASSUME NEW n \in Number, q.cmds[n] # FirstTable[n]
      PROVE  q.cmds[n] \in {v.cmds[n], known[n]}
  <2>1. m = w.ind + Moves(u)
    BY <1>3
  <2> HIDE DEF m
  <2>2. CASE u[1] = "head"
    BY <1>1, <1>2, <1>3, <1>6, <2>2
  <2>3. CASE u[1] # "head"
    <3>1. /\ q.cmds = [r.cmds EXCEPT ![m] = r.cnt + 1]
          /\ v.cmds = [w.cmds EXCEPT ![m] = r.cnt + 1]
      BY <1>1, <1>2, <1>3, <2>1, <2>3
    <3>2. CASE n = m
      BY <1>4, <3>1, <3>2
    <3>3. CASE n # m
      <4>1. q.cmds[n] = r.cmds[n] /\ v.cmds[n] = w.cmds[n]
        BY <1>4, <3>1, <3>3
      <4> QED
        BY <1>3, <1>6, <4>1
    <3> QED
      BY <3>2, <3>3
  <2> QED
    BY <2>2, <2>3
<1>7. Agree(q, v, known)
  BY <1>5, <1>6 DEF Agree
<1> QED
  BY <1>7 DEF q, v

LEMMA ReadAgree ==
    ASSUME NEW r \in Reader, NEW w \in Reader, NEW known, Agree(r, w, known),
           NEW d \in Seq(Unit), NEW e \in Nat, r.cnt <= e, e <= Len(d)
    PROVE  Agree(ReadTo(r, d, e), ReadTo(w, d, e), known)
<1> DEFINE S == {n \in Nat : Agree(ReadTo(r, d, n), ReadTo(w, d, n), known)}
<1>1. r.cnt \in Nat /\ w.cnt = r.cnt /\ Len(d) \in Nat /\ DOMAIN d = 1..Len(d)
  BY LenProperties DEF Reader, Agree
<1>2. r.cnt \in S
  BY <1>1, ReadStart
<1>3. ASSUME NEW n \in Nat, r.cnt <= n, n < e, n \in S PROVE n + 1 \in S
  <2>1. n + 1 \in Nat /\ n + 1 \in 1..Len(d) /\ n <= Len(d)
    BY <1>1, <1>3
  <2>2. d[n + 1] \in Unit
    BY <2>1, ElementOfSeq
  <2>3. /\ ReadTo(r, d, n + 1) = ReadUnit(ReadTo(r, d, n), d[n + 1])
        /\ ReadTo(w, d, n + 1) = ReadUnit(ReadTo(w, d, n), d[n + 1])
    BY <1>1, <1>3, ReadNext
  <2>4. ReadTo(r, d, n) \in Reader /\ ReadTo(w, d, n) \in Reader
    BY <1>1, <1>3, <2>1, ReadTyped
  <2> QED
    BY <1>3, <2>1, <2>2, <2>3, <2>4, UnitAgree
<1>4. e \in S
  <2>1. e <= e
    OBVIOUS
  <2> HIDE DEF S
  <2> QED
    BY <1>1, <1>2, <1>3, <2>1, UpTo
<1> QED
  BY <1>4

-----------------------------------------------------------------------------
(***************************************************************************)
(* A file that grows.                                                      *)
(***************************************************************************)
Ends(d) == ReadTo(Begin, d, Len(d))

\* Both halves of a command are there, and markers have the number of the
\* command behind them.
Formed(d) ==
    \A o \in 1..Len(d) : d[o][1] = "head" => o + 1 \in 1..Len(d) /\ d[o + 1][1] = "tail"
Marked(d) ==
    \A o \in 1..Len(d) : d[o][1] = "marker" => d[o][2] = ReadTo(Begin, d, o).ind

\* A table that a reader of the whole file could have had.
Correct(r, d) ==
    LET w == ReadTo(Begin, d, r.cnt)
    IN  r.cnt \in 1..Len(d) /\ Agree(r, w, w.cmds)

LEMMA BeginTyped == Begin \in Reader /\ Begin.cnt = 1 /\ Begin.ind = 1 /\ Begin.cmds = FirstTable
<1>1. FirstTable \in [Number -> Nat]
  BY DEF FirstTable, NoTable
<1> HIDE DEF FirstTable
<1> QED
  BY <1>1 DEF Begin, Reader

LEMMA WholeTyped ==
    ASSUME NEW d \in Seq(Unit), NEW o \in 1..Len(d)
    PROVE  ReadTo(Begin, d, o) \in Reader /\ ReadTo(Begin, d, o).cnt = o
<1>1. o \in Nat /\ Begin.cnt <= o /\ o <= Len(d)
  BY BeginTyped, LenProperties
<1> QED
  BY <1>1, BeginTyped, ReadTyped

LEMMA Appended ==
    ASSUME NEW d \in Seq(Unit), NEW u \in Seq(Unit)
    PROVE  /\ d \o u \in Seq(Unit) /\ Len(d \o u) = Len(d) + Len(u)
           /\ Len(d) \in Nat /\ Len(u) \in Nat
           /\ \A o \in 1..Len(d) : (d \o u)[o] = d[o]
           /\ \A o \in 1..Len(u) : (d \o u)[Len(d) + o] = u[o]
<1>1. Len(d) \in Nat /\ Len(u) \in Nat
  BY LenProperties
<1>2. /\ d \o u \in Seq(Unit) /\ Len(d \o u) = Len(d) + Len(u)
      /\ \A i \in 1..Len(d) + Len(u) :
           (d \o u)[i] = IF i <= Len(d) THEN d[i] ELSE u[i - Len(d)]
  BY ConcatProperties
<1>3. ASSUME NEW o \in 1..Len(d) PROVE (d \o u)[o] = d[o]
  BY <1>1, <1>2
<1>4. ASSUME NEW o \in 1..Len(u) PROVE (d \o u)[Len(d) + o] = u[o]
  <2>1. /\ Len(d) + o \in 1..Len(d) + Len(u) /\ ~(Len(d) + o <= Len(d))
        /\ Len(d) + o - Len(d) = o
    BY <1>1
  <2> QED
    BY <1>2, <2>1
<1> QED
  BY <1>1, <1>2, <1>3, <1>4

LEMMA WholeKept ==
    ASSUME NEW d \in Seq(Unit), NEW u \in Seq(Unit), NEW o \in 1..Len(d)
    PROVE  ReadTo(Begin, d \o u, o) = ReadTo(Begin, d, o)
<1>1. Len(d) \in Nat /\ o \in Nat /\ Begin.cnt = 1 /\ Begin.cnt <= o /\ Begin.cnt \in Nat
  BY LenProperties, BeginTyped
<1>2. ASSUME NEW i \in Nat, Begin.cnt < i, i <= o PROVE (d \o u)[i] = d[i]
  <2>1. i \in 1..Len(d)
    BY <1>1, <1>2
  <2> QED
    BY <2>1, Appended
<1> QED
  BY <1>1, <1>2, ReadSame

LEMMA FormedAppended ==
    ASSUME NEW d \in Seq(Unit), NEW u \in Seq(Unit), Formed(d), Formed(u)
    PROVE  Formed(d \o u)
<1> DEFINE e == d \o u
<1>1. /\ Len(e) = Len(d) + Len(u) /\ Len(d) \in Nat /\ Len(u) \in Nat
      /\ \A o \in 1..Len(d) : e[o] = d[o]
      /\ \A o \in 1..Len(u) : e[Len(d) + o] = u[o]
  BY Appended
<1> HIDE DEF e
<1>2. ASSUME NEW o \in 1..Len(e), e[o][1] = "head"
      PROVE  o + 1 \in 1..Len(e) /\ e[o + 1][1] = "tail"
  <2>1. CASE o <= Len(d)
    <3>1. o \in 1..Len(d)
      BY <1>1, <2>1
    <3>2. o + 1 \in 1..Len(d) /\ d[o + 1][1] = "tail"
      BY <1>1, <1>2, <3>1 DEF Formed
    <3>3. o + 1 \in 1..Len(e)
      BY <1>1, <3>2
    <3> QED
      BY <1>1, <3>2, <3>3
  <2>2. CASE ~(o <= Len(d))
    <3>1. o - Len(d) \in 1..Len(u) /\ Len(d) + (o - Len(d)) = o
      BY <1>1, <2>2
    <3>2. u[o - Len(d)][1] = "head"
      BY <1>1, <1>2, <3>1
    <3>3. o - Len(d) + 1 \in 1..Len(u) /\ u[o - Len(d) + 1][1] = "tail"
      BY <3>1, <3>2 DEF Formed
    <3>4. Len(d) + (o - Len(d) + 1) = o + 1 /\ o + 1 \in 1..Len(e)
      BY <1>1, <3>1, <3>3
    <3>5. e[o + 1] = u[o - Len(d) + 1]
      BY <1>1, <3>3, <3>4
    <3> QED
      BY <3>3, <3>4, <3>5
  <2> QED
    BY <2>1, <2>2
<1> QED
  BY <1>2 DEF Formed, e

LEMMA MarkedAppended ==
    ASSUME NEW d \in Seq(Unit), NEW u \in Seq(Unit), Marked(d),
           \A o \in 1..Len(u) :
             u[o][1] = "marker" => u[o][2] = ReadTo(Begin, d \o u, Len(d) + o).ind
    PROVE  Marked(d \o u)
<1> DEFINE e == d \o u
<1>1. /\ Len(e) = Len(d) + Len(u) /\ Len(d) \in Nat /\ Len(u) \in Nat
      /\ \A o \in 1..Len(d) : e[o] = d[o]
      /\ \A o \in 1..Len(u) : e[Len(d) + o] = u[o]
  BY Appended
<1>2. \A o \in 1..Len(d) : ReadTo(Begin, e, o) = ReadTo(Begin, d, o)
  BY WholeKept
<1>3. \A o \in 1..Len(u) :
        u[o][1] = "marker" => u[o][2] = ReadTo(Begin, e, Len(d) + o).ind
  OBVIOUS
<1> HIDE DEF e
<1>4. ASSUME NEW o \in 1..Len(e), e[o][1] = "marker"
      PROVE  e[o][2] = ReadTo(Begin, e, o).ind
  <2>1. CASE o <= Len(d)
    <3>1. o \in 1..Len(d)
      BY <1>1, <2>1
    <3> QED
      BY <1>1, <1>2, <1>4, <3>1 DEF Marked
  <2>2. CASE ~(o <= Len(d))
    <3>1. o - Len(d) \in 1..Len(u) /\ Len(d) + (o - Len(d)) = o
      BY <1>1, <2>2
    <3>2. e[o] = u[o - Len(d)]
      BY <1>1, <3>1
    <3> QED
      BY <1>3, <1>4, <3>1, <3>2
  <2> QED
    BY <2>1, <2>2
<1> QED
  BY <1>4 DEF Marked, e

\* A table is no less correct when the file grows.
LEMMA CorrectKept ==
    ASSUME NEW d \in Seq(Unit), NEW u \in Seq(Unit), NEW r, Correct(r, d)
    PROVE  Correct(r, d \o u)
<1>1. r.cnt \in 1..Len(d) /\ Len(d \o u) = Len(d) + Len(u) /\ Len(d) \in Nat /\ Len(u) \in Nat
  BY Appended DEF Correct
<1>2. r.cnt \in 1..Len(d \o u)
  BY <1>1
<1>3. ReadTo(Begin, d \o u, r.cnt) = ReadTo(Begin, d, r.cnt)
  BY <1>1, WholeKept
<1> QED
  BY <1>2, <1>3 DEF Correct

-----------------------------------------------------------------------------
(***************************************************************************)
(* What is written: a command, with a marker behind it or without, or the  *)
(* mark that takes one away.                                               *)
(***************************************************************************)
Grown(d, e, k) ==
    /\ Ends(e).ind = Ends(d).ind + k
    /\ \A n \in Number :
         Ends(e).cmds[n] = IF n = Ends(d).ind + k THEN Len(e) ELSE Ends(d).cmds[n]

LEMMA EndsTyped ==
    ASSUME NEW d \in Seq(Unit), d # <<>>
    PROVE  Ends(d) \in Reader /\ Ends(d).cnt = Len(d) /\ Len(d) \in 1..Len(d)
<1>1. Len(d) \in 1..Len(d)
  BY EmptySeq
<1> QED
  BY <1>1, WholeTyped DEF Ends

LEMMA NextRead ==
    ASSUME NEW d \in Seq(Unit), d # <<>>, NEW u \in Seq(Unit), NEW i \in 1..Len(u)
    PROVE  ReadTo(Begin, d \o u, Len(d) + i)
             = ReadUnit(ReadTo(Begin, d \o u, Len(d) + (i - 1)), u[i])
<1> DEFINE e == d \o u
           m == Len(d) + (i - 1)
<1>1. /\ Len(d) \in Nat \ {0} /\ Len(u) \in Nat
      /\ \A o \in 1..Len(u) : e[Len(d) + o] = u[o]
  BY EmptySeq, Appended
<1>2. m \in Nat /\ 1 <= m /\ m + 1 = Len(d) + i
  BY <1>1
<1>3. e[m + 1] = u[i]
  BY <1>1, <1>2
<1> HIDE DEF e, m
<1>4. ReadTo(Begin, e, m + 1) = ReadUnit(ReadTo(Begin, e, m), e[m + 1])
  BY <1>2, BeginTyped, ReadNext
<1>5. ReadTo(Begin, e, m + 1) = ReadUnit(ReadTo(Begin, e, m), u[i])
  BY <1>3, <1>4
<1>6. ReadTo(Begin, e, Len(d) + i) = ReadUnit(ReadTo(Begin, e, m), u[i])
  BY <1>2, <1>5
<1> QED
  BY <1>6 DEF e, m

\* The first unit that is written is read behind the end there was.
LEMMA FirstRead ==
    ASSUME NEW d \in Seq(Unit), d # <<>>, NEW u \in Seq(Unit), u # <<>>
    PROVE  ReadTo(Begin, d \o u, Len(d) + 1) = ReadUnit(Ends(d), u[1])
<1>1. 1 \in 1..Len(u) /\ Len(d) \in 1..Len(d)
  BY EmptySeq
<1>2. ReadTo(Begin, d \o u, Len(d)) = Ends(d)
  BY <1>1, WholeKept DEF Ends
<1>3. Len(d) + (1 - 1) = Len(d)
  BY <1>1, LenProperties
<1>4. ReadTo(Begin, d \o u, Len(d) + 1)
        = ReadUnit(ReadTo(Begin, d \o u, Len(d) + (1 - 1)), u[1])
  BY <1>1, NextRead
<1> QED
  BY <1>2, <1>3, <1>4

LEMMA GrownUndo ==
    ASSUME NEW d \in Seq(Unit), d # <<>>
    PROVE  Grown(d, d \o <<Undo>>, -1)
<1> DEFINE u == <<Undo>>
           w == Ends(d)
           e == d \o u
<1>1. u \in Seq(Unit) /\ u # <<>> /\ Len(u) = 1 /\ u[1] = Undo
      /\ Undo \in Unit /\ Undo[1] = "undo"
  BY DEF Unit, Undo
<1>2. w \in Reader /\ w.cnt = Len(d)
  BY EndsTyped
<1>3. w.ind \in Int /\ w.cnt \in Nat /\ w.cmds \in [Number -> Nat]
  BY <1>2 DEF Reader
<1>4. Len(e) = Len(d) + 1
  BY <1>1, Appended
<1>5. Ends(e) = ReadUnit(w, Undo)
  <2> HIDE DEF u
  <2>1. ReadTo(Begin, d \o u, Len(d) + 1) = ReadUnit(Ends(d), u[1])
    BY <1>1, FirstRead
  <2> QED
    BY <1>1, <1>4, <2>1 DEF Ends
<1>6. Moves(Undo) = -1 /\ Undo[1] # "head"
  BY <1>1 DEF Moves
<1> HIDE DEF w, u, e
<1>7. /\ Ends(e).ind = w.ind + (-1)
      /\ Ends(e).cmds = [w.cmds EXCEPT ![w.ind + (-1)] = w.cnt + 1]
  <2>1. Undo \in Unit /\ w \in Reader
    BY <1>1, <1>2
  <2>2. /\ ReadUnit(w, Undo).ind = w.ind + Moves(Undo)
        /\ ReadUnit(w, Undo).cmds = [w.cmds EXCEPT ![w.ind + Moves(Undo)] = w.cnt + 1]
    BY <1>6, <2>1, MoveRead
  <2> QED
    BY <1>5, <1>6, <2>2
<1>8. /\ Ends(e).ind = w.ind + (-1)
      /\ \A n \in Number : Ends(e).cmds[n] = IF n = w.ind + (-1) THEN Len(e) ELSE w.cmds[n]
  BY <1>2, <1>3, <1>4, <1>7
<1>9. Grown(d, e, -1)
  BY <1>8 DEF Grown, w
<1> QED
  BY <1>9 DEF e, u

LEMMA GrownCommand ==
    ASSUME NEW d \in Seq(Unit), d # <<>>, NEW u \in Seq(Unit), Len(u) = 2,
           u[1][1] = "head", u[2][1] = "tail"
    PROVE  Grown(d, d \o u, 1)
<1> DEFINE w == Ends(d)
           e == d \o u
           p == ReadUnit(w, u[1])
<1>1. u[1] \in Unit /\ u[2] \in Unit /\ u # <<>>
  <2>1. 1 \in 1..Len(u) /\ 2 \in 1..Len(u)
    OBVIOUS
  <2>2. u # <<>>
    <3>1. Len(u) # Len(<<>>)
      BY EmptySeq
    <3> QED
      BY <3>1, Zenon
  <2>3. u[1] \in Unit /\ u[2] \in Unit
    BY <2>1, ElementOfSeq
  <2> QED
    BY <2>2, <2>3
<1>2. w \in Reader /\ w.cnt = Len(d)
  BY EndsTyped
<1>3. w.ind \in Int /\ w.cnt \in Nat /\ w.cmds \in [Number -> Nat]
  BY <1>2 DEF Reader
<1>4. Len(e) = Len(d) + 2 /\ Len(d) \in Nat
  <2>1. Len(e) = Len(d) + Len(u) /\ Len(d) \in Nat
    BY Appended
  <2> HIDE DEF e
  <2> QED
    BY <2>1
<1>5. Ends(e) = ReadUnit(p, u[2])
  <2>1. ReadTo(Begin, e, Len(d) + 1) = p
    BY <1>1, FirstRead
  <2>2. ReadTo(Begin, e, Len(d) + 2) = ReadUnit(ReadTo(Begin, e, Len(d) + (2 - 1)), u[2])
    <3>1. 2 \in 1..Len(u)
      OBVIOUS
    <3> QED
      BY <3>1, NextRead
  <2>3. Len(d) + (2 - 1) = Len(d) + 1
    BY <1>4
  <2> HIDE DEF e, p
  <2> QED
    BY <1>4, <2>1, <2>2, <2>3 DEF Ends
<1>6. Moves(u[1]) = 0 /\ Moves(u[2]) = 1
  BY DEF Moves
<1> HIDE DEF w, e
<1>7. p \in Reader /\ p.cnt = w.cnt + 1 /\ p.ind = w.ind + 0 /\ p.cmds = w.cmds
  <2> DEFINE x == u[1]
  <2>1. x \in Unit /\ x[1] = "head" /\ Moves(x) = 0 /\ w \in Reader
    BY <1>1, <1>2, <1>6
  <2> HIDE DEF x
  <2>2. /\ ReadUnit(w, x) \in Reader /\ ReadUnit(w, x).cnt = w.cnt + 1
        /\ ReadUnit(w, x).ind = w.ind + Moves(x)
        /\ ReadUnit(w, x).cmds = IF x[1] = "head" THEN w.cmds
                                 ELSE [w.cmds EXCEPT ![w.ind + Moves(x)] = w.cnt + 1]
    BY <2>1, UnitRead
  <2> QED
    BY <2>1, <2>2 DEF x
<1>8. p.ind = w.ind
  BY <1>3, <1>7
<1> HIDE DEF p
<1>9. /\ Ends(e).ind = p.ind + 1
      /\ Ends(e).cmds = [p.cmds EXCEPT ![p.ind + 1] = p.cnt + 1]
  <2> DEFINE x == u[2]
  <2>1. x \in Unit /\ x[1] # "head" /\ Moves(x) = 1 /\ Ends(e) = ReadUnit(p, x) /\ p \in Reader
    BY <1>1, <1>5, <1>6, <1>7
  <2> HIDE DEF x
  <2>2. /\ ReadUnit(p, x).ind = p.ind + Moves(x)
        /\ ReadUnit(p, x).cmds = [p.cmds EXCEPT ![p.ind + Moves(x)] = p.cnt + 1]
    BY <2>1, MoveRead
  <2> QED
    BY <2>1, <2>2
<1>10. p.cnt + 1 = Len(e)
  BY <1>2, <1>3, <1>4, <1>7
<1>11. /\ Ends(e).ind = w.ind + 1
       /\ \A n \in Number : Ends(e).cmds[n] = IF n = w.ind + 1 THEN Len(e) ELSE w.cmds[n]
  BY <1>3, <1>7, <1>8, <1>9, <1>10
<1>12. Grown(d, e, 1)
  BY <1>11 DEF Grown, w
<1> QED
  BY <1>12 DEF e

\* With a marker behind it, which is right when it has that number.
LEMMA GrownMarker ==
    ASSUME NEW d \in Seq(Unit), d # <<>>, NEW e \in Seq(Unit), e # <<>>, NEW n \in Int,
           Grown(d, e, 1)
    PROVE  /\ Grown(d, e \o <<Marker(n)>>, 1)
           /\ Ends(e \o <<Marker(n)>>).ind = Ends(e).ind
<1> DEFINE u == <<Marker(n)>>
           w == Ends(d)
           p == Ends(e)
           g == e \o u
<1>1. u \in Seq(Unit) /\ u # <<>> /\ Len(u) = 1 /\ u[1] = Marker(n)
      /\ Marker(n) \in Unit /\ Marker(n)[1] = "marker"
  BY DEF Unit, Marker
<1>2. w \in Reader /\ p \in Reader /\ p.cnt = Len(e)
  BY EndsTyped
<1>3. /\ w.ind \in Int /\ p.ind \in Int /\ p.cnt \in Nat
      /\ w.cmds \in [Number -> Nat] /\ p.cmds \in [Number -> Nat]
  BY <1>2 DEF Reader
<1>4. Len(g) = Len(e) + 1
  BY <1>1, Appended
<1>5. Ends(g) = ReadUnit(p, Marker(n))
  <2> HIDE DEF u
  <2>1. ReadTo(Begin, e \o u, Len(e) + 1) = ReadUnit(Ends(e), u[1])
    BY <1>1, FirstRead
  <2> QED
    BY <1>1, <1>4, <2>1 DEF Ends
<1>6. Moves(Marker(n)) = 0 /\ Marker(n)[1] # "head"
  BY <1>1 DEF Moves
<1>7. /\ p.ind = w.ind + 1
      /\ \A k \in Number : p.cmds[k] = IF k = w.ind + 1 THEN Len(e) ELSE w.cmds[k]
  BY DEF Grown
<1> HIDE DEF w, u, p, g
<1>8. /\ Ends(g).ind = p.ind + 0
      /\ Ends(g).cmds = [p.cmds EXCEPT ![p.ind + 0] = p.cnt + 1]
  <2> DEFINE x == Marker(n)
  <2>1. x \in Unit /\ Moves(x) = 0 /\ x[1] # "head" /\ Ends(g) = ReadUnit(p, x)
    BY <1>1, <1>5, <1>6
  <2> HIDE DEF x
  <2>2. /\ ReadUnit(p, x).ind = p.ind + Moves(x)
        /\ ReadUnit(p, x).cmds = [p.cmds EXCEPT ![p.ind + Moves(x)] = p.cnt + 1]
    BY <1>2, <2>1, MoveRead
  <2> QED
    BY <2>1, <2>2
<1>9. p.ind + 0 = p.ind /\ p.cnt + 1 = Len(g)
  BY <1>2, <1>3, <1>4
<1>10. Ends(g).ind = p.ind /\ Ends(g).cmds = [p.cmds EXCEPT ![p.ind] = Len(g)]
  BY <1>8, <1>9
<1>11. /\ Ends(g).ind = w.ind + 1
       /\ \A k \in Number : Ends(g).cmds[k] = IF k = w.ind + 1 THEN Len(g) ELSE w.cmds[k]
  BY <1>3, <1>7, <1>10
<1>12. Grown(d, g, 1)
  BY <1>11 DEF Grown, w
<1> QED
  BY <1>10, <1>12 DEF g, u, p

With(m, n, c) == [m EXCEPT ![n] = c]

\* The writer, whose table was right at the end of the file, counts what it
\* has written.
LEMMA CorrectGrown ==
    ASSUME NEW d \in Seq(Unit), d # <<>>, NEW e \in Seq(Unit), e # <<>>, NEW k \in Int,
           Grown(d, e, k), NEW r \in Reader, Correct(r, d), r.cnt = Len(d),
           NEW q, q.cnt = Len(e), q.ind = r.ind + k,
           q.cmds = With(r.cmds, r.ind + k, Len(e))
    PROVE  Correct(q, e) /\ q.ind = Ends(e).ind
<1> DEFINE w == Ends(d)
           v == Ends(e)
<1>1. /\ r.ind = w.ind
      /\ \A n \in Number : r.cmds[n] # FirstTable[n] => r.cmds[n] = w.cmds[n]
  BY DEF Correct, Agree, Ends
<1>2. /\ v.ind = w.ind + k
      /\ \A n \in Number : v.cmds[n] = IF n = w.ind + k THEN Len(e) ELSE w.cmds[n]
  BY DEF Grown
<1>3. v.cnt = Len(e) /\ Len(e) \in 1..Len(e)
  BY EndsTyped
<1>4. r.cmds \in [Number -> Nat]
  BY DEF Reader
<1>5. v = ReadTo(Begin, e, q.cnt)
  BY DEF Ends
<1> HIDE DEF w, v
<1>6. ASSUME NEW n \in Number, q.cmds[n] # FirstTable[n] PROVE q.cmds[n] = v.cmds[n]
  BY <1>1, <1>2, <1>4, <1>6 DEF With
<1>7. q.ind = v.ind
  BY <1>1, <1>2
<1>8. Agree(q, v, v.cmds)
  BY <1>3, <1>6, <1>7 DEF Agree
<1> QED
  BY <1>3, <1>5, <1>7, <1>8 DEF Correct, v

-----------------------------------------------------------------------------
(***************************************************************************)
(* What sh_histinit reads: from the first command or from a marker to the  *)
(* end, and again from further back, into the table of the first reading.  *)
(***************************************************************************)
StartsOf(d) ==
    {Begin} \cup
    {[ind |-> d[o][2], cnt |-> o, marker |-> o, cmds |-> FirstTable] :
        o \in {o \in DOMAIN d : d[o][1] = "marker"}}

LEMMA StartTyped ==
    ASSUME NEW d \in Seq(Unit), d # <<>>, NEW r \in StartsOf(d)
    PROVE  /\ r \in Reader /\ r.cnt \in 1..Len(d) /\ r.cmds = FirstTable
           /\ ReadTo(r, d, Len(d)) \in Reader /\ ReadTo(r, d, Len(d)).cnt = Len(d)
<1>1. Len(d) \in Nat \ {0} /\ DOMAIN d = 1..Len(d)
  BY EmptySeq, LenProperties
<1>2. r \in Reader /\ r.cnt \in 1..Len(d) /\ r.cmds = FirstTable
  <2>1. CASE r = Begin
    <3>1. 1 \in 1..Len(d)
      BY <1>1
    <3> QED
      BY <2>1, <3>1, BeginTyped
  <2>2. CASE r # Begin
    <3>1. PICK o \in 1..Len(d) :
            r = [ind |-> d[o][2], cnt |-> o, marker |-> o, cmds |-> FirstTable]
      BY <1>1, <2>2 DEF StartsOf
    <3>2. d[o][2] \in Int
      <4>1. d[o] \in Unit
        BY ElementOfSeq
      <4> QED
        BY <4>1 DEF Unit
    <3>3. FirstTable \in [Number -> Nat]
      BY BeginTyped DEF Reader
    <3>4. o \in Nat
      OBVIOUS
    <3> QED
      BY <3>1, <3>2, <3>3, <3>4 DEF Reader
  <2> QED
    BY <2>1, <2>2
<1>3. r.cnt <= Len(d) /\ Len(d) <= Len(d) /\ Len(d) \in Nat
  BY <1>1, <1>2
<1> QED
  BY <1>2, <1>3, ReadTyped

\* Where there are true markers only, all places to start from agree.
LEMMA StartAgrees ==
    ASSUME NEW d \in Seq(Unit), d # <<>>, Marked(d), NEW r \in StartsOf(d)
    PROVE  r.ind = ReadTo(Begin, d, r.cnt).ind
<1>1. DOMAIN d = 1..Len(d)
  BY LenProperties
<1>2. CASE r = Begin
  <2>1. ReadTo(Begin, d, 1) = Begin
    BY BeginTyped, ReadStart
  <2> QED
    BY <1>2, <2>1, BeginTyped
<1>3. CASE r # Begin
  <2>1. PICK o \in 1..Len(d) :
          /\ d[o][1] = "marker"
          /\ r = [ind |-> d[o][2], cnt |-> o, marker |-> o, cmds |-> FirstTable]
    BY <1>1, <1>3 DEF StartsOf
  <2>2. r.ind = d[o][2] /\ r.cnt = o
    BY <2>1
  <2> QED
    BY <2>1, <2>2 DEF Marked
<1> QED
  BY <1>2, <1>3

\* A reading from a place that agrees is right at the end, in all it has read
\* and in all that it knew before.
LEMMA ReadRight ==
    ASSUME NEW d \in Seq(Unit), d # <<>>, NEW r \in Reader, r.cnt \in 1..Len(d),
           Agree(r, ReadTo(Begin, d, r.cnt), Ends(d).cmds)
    PROVE  Correct(ReadTo(r, d, Len(d)), d)
<1> DEFINE w == ReadTo(Begin, d, r.cnt)
           v == Ends(d)
           q == ReadTo(r, d, Len(d))
<1>1. Len(d) \in Nat /\ r.cnt \in Nat /\ r.cnt <= Len(d) /\ Len(d) <= Len(d) /\ Begin.cnt <= r.cnt
  BY LenProperties, BeginTyped
<1>2. w \in Reader /\ w.cnt = r.cnt
  BY WholeTyped
<1>3. ReadTo(w, d, Len(d)) = v
  BY <1>1, BeginTyped, ReadOn DEF Ends
<1>4. v.cnt = Len(d) /\ Len(d) \in 1..Len(d)
  BY EndsTyped
<1>5. q.cnt = Len(d)
  BY <1>1, ReadTyped
<1> HIDE DEF w, v, q
<1>6. Agree(ReadTo(r, d, Len(d)), ReadTo(w, d, Len(d)), v.cmds)
  <2>1. Agree(r, w, v.cmds)
    BY DEF v, w
  <2> QED
    BY <1>1, <1>2, <2>1, ReadAgree
<1>7. Agree(q, v, v.cmds)
  BY <1>3, <1>6 DEF q
<1>8. v = ReadTo(Begin, d, q.cnt)
  BY <1>5 DEF v, Ends
<1> QED
  BY <1>4, <1>5, <1>7, <1>8 DEF Correct, q

LEMMA LoadRight ==
    ASSUME NEW d \in Seq(Unit), d # <<>>, Marked(d),
           NEW near \in StartsOf(d), NEW back \in StartsOf(d)
    PROVE  LET first == ReadTo(near, d, Len(d))
           IN  /\ Correct(first, d) /\ first.ind = Ends(d).ind
               /\ Correct(ReadTo([back EXCEPT !.cmds = first.cmds], d, Len(d)), d)
<1> DEFINE first == ReadTo(near, d, Len(d))
           r == [back EXCEPT !.cmds = first.cmds]
<1>1. ASSUME NEW q \in StartsOf(d)
      PROVE  /\ q \in Reader /\ q.cnt \in 1..Len(d) /\ q.cmds = FirstTable
             /\ q.ind = ReadTo(Begin, d, q.cnt).ind /\ q.cnt = ReadTo(Begin, d, q.cnt).cnt
  BY StartTyped, StartAgrees, WholeTyped
<1>2. Agree(near, ReadTo(Begin, d, near.cnt), Ends(d).cmds)
  BY <1>1 DEF Agree
<1>3. Correct(first, d)
  BY <1>1, <1>2, ReadRight
<1>4. first \in Reader /\ first.cnt = Len(d)
  BY StartTyped
<1>5. first.ind = Ends(d).ind
  BY <1>3, <1>4 DEF Correct, Agree, Ends
<1>6. r \in Reader /\ r.cnt = back.cnt /\ r.ind = back.ind /\ r.cmds = first.cmds
  <2>1. first.cmds \in [Number -> Nat]
    BY <1>4 DEF Reader
  <2>2. back \in Reader
    BY <1>1
  <2> HIDE DEF first
  <2> QED
    BY <2>1, <2>2 DEF Reader
<1>7. \A n \in Number : first.cmds[n] # FirstTable[n] => first.cmds[n] = Ends(d).cmds[n]
  BY <1>3, <1>4 DEF Correct, Agree, Ends
<1> HIDE DEF first, r
<1>8. Agree(r, ReadTo(Begin, d, r.cnt), Ends(d).cmds)
  BY <1>1, <1>6, <1>7 DEF Agree
<1>9. Correct(ReadTo(r, d, Len(d)), d)
  BY <1>1, <1>6, <1>8, ReadRight
<1> QED
  BY <1>3, <1>5, <1>9 DEF first, r

\* hist_eof: who reads on is right at the end when he was right before.
LEMMA EofRight ==
    ASSUME NEW d \in Seq(Unit), d # <<>>, NEW r \in Reader, Correct(r, d)
    PROVE  Correct(ReadTo(r, d, Len(d)), d)
<1> DEFINE w == ReadTo(Begin, d, r.cnt)
           v == Ends(d)
           q == ReadTo(r, d, Len(d))
<1>1. /\ Len(d) \in Nat /\ r.cnt \in 1..Len(d) /\ r.cnt \in Nat /\ r.cnt <= Len(d)
      /\ Len(d) <= Len(d) /\ Begin.cnt <= r.cnt
  BY LenProperties, BeginTyped DEF Correct
<1>2. ReadTo(w, d, Len(d)) = v
  BY <1>1, BeginTyped, ReadOn DEF Ends
<1>3. q.cnt = Len(d) /\ w \in Reader
  BY <1>1, ReadTyped, WholeTyped
<1>4. Len(d) \in 1..Len(d)
  BY EndsTyped
<1>5. Agree(r, w, w.cmds)
  BY DEF Correct
<1> HIDE DEF w, v, q
<1>6. Agree(r, w, FirstTable)
  BY <1>5 DEF Agree
<1>7. Agree(q, v, FirstTable)
  BY <1>1, <1>2, <1>3, <1>6, ReadAgree DEF q
<1>8. Agree(q, v, v.cmds)
  BY <1>7 DEF Agree
<1>9. v = ReadTo(Begin, d, q.cnt)
  BY <1>3 DEF v, Ends
<1> QED
  BY <1>3, <1>4, <1>8, <1>9 DEF Correct, q

-----------------------------------------------------------------------------
(***************************************************************************)
(* The invariant.                                                          *)
(***************************************************************************)
Counting == Working \cup {"copy", "cancel"}
Trim == [fd : File, cmds : [Number -> Nat], next : Int, last : Int]

Typed ==
    /\ files \in File /\ name \in 1..files \cup {None}
    /\ data \in [File -> Seq(Unit)]
    /\ fresh \subseteq File /\ tidy \subseteq File
    /\ pc \in [Shell -> Label] /\ fd \in [Shell -> 1..files \cup {None}]
    /\ ind \in [Shell -> Int] /\ cnt \in [Shell -> Nat] /\ marker \in [Shell -> Nat]
    /\ cmds \in [Shell -> [Number -> Nat]]
    /\ old \in [Shell -> Trim \cup {None}]
    /\ typed \in 0..MaxCommand

\* Where a shell stands, against the file it has open.
PlacedAt(s) ==
    /\ pc[s] # "off" => fd[s] \in 1..files
    /\ pc[s] \in Counting => cnt[s] \in 1..Len(data[fd[s]])
    /\ pc[s] \in {"load", "unlink"} => data[fd[s]] # <<>>
    /\ pc[s] \in {"reopen", "copy"} => old[s] \in Trim
Placed == \A s \in Shell : PlacedAt(s)

Sound == Typed /\ Placed /\ \A f \in File : Formed(data[f])

\* Every table of a shell at work is correct, as long as all that was written
\* to its file was written by such shells.
CorrectAt(s) == pc[s] \in Counting /\ fd[s] \in tidy => Correct(Table(s), data[fd[s]])
TidyCorrect == \A s \in Shell : CorrectAt(s)
TidyMarked == \A f \in tidy : Marked(data[f])

Inv == Sound /\ TidyCorrect /\ TidyMarked

LEMMA TableTyped ==
    ASSUME Typed, NEW s \in Shell
    PROVE  /\ Table(s) \in Reader /\ Table(s).ind = ind[s] /\ Table(s).cnt = cnt[s]
           /\ Table(s).marker = marker[s] /\ Table(s).cmds = cmds[s]
<1>1. ind[s] \in Int /\ cnt[s] \in Nat /\ marker[s] \in Nat /\ cmds[s] \in [Number -> Nat]
  BY DEF Typed
<1> QED
  BY <1>1 DEF Table, Reader

LEMMA TableSet ==
    ASSUME Typed, NEW s \in Shell, NEW r \in Reader, SetTable(s, r)
    PROVE  /\ ind' \in [Shell -> Int] /\ cnt' \in [Shell -> Nat] /\ marker' \in [Shell -> Nat]
           /\ cmds' \in [Shell -> [Number -> Nat]]
           /\ Table(s)' = r /\ cnt'[s] = r.cnt /\ ind'[s] = r.ind
           /\ \A t \in Shell : t # s => Table(t)' = Table(t) /\ cnt'[t] = cnt[t]
<1>1. /\ ind' = [ind EXCEPT ![s] = r.ind] /\ cnt' = [cnt EXCEPT ![s] = r.cnt]
      /\ marker' = [marker EXCEPT ![s] = r.marker]
      /\ cmds' = [cmds EXCEPT ![s] = r.cmds]
  BY DEF SetTable
<1>2. /\ r.ind \in Int /\ r.cnt \in Nat /\ r.marker \in Nat /\ r.cmds \in [Number -> Nat]
      /\ r = [ind |-> r.ind, cnt |-> r.cnt, marker |-> r.marker, cmds |-> r.cmds]
  BY DEF Reader
<1>3. /\ ind \in [Shell -> Int] /\ cnt \in [Shell -> Nat] /\ marker \in [Shell -> Nat]
      /\ cmds \in [Shell -> [Number -> Nat]]
  BY DEF Typed
<1>4. /\ ind' \in [Shell -> Int] /\ cnt' \in [Shell -> Nat] /\ marker' \in [Shell -> Nat]
      /\ cmds' \in [Shell -> [Number -> Nat]]
  BY <1>1, <1>2, <1>3
<1>5. ind'[s] = r.ind /\ cnt'[s] = r.cnt /\ marker'[s] = r.marker /\ cmds'[s] = r.cmds
  BY <1>1, <1>3
<1>6. Table(s)' = r
  BY <1>2, <1>5 DEF Table
<1>7. ASSUME NEW t \in Shell, t # s PROVE Table(t)' = Table(t) /\ cnt'[t] = cnt[t]
  <2>1. ind'[t] = ind[t] /\ cnt'[t] = cnt[t] /\ marker'[t] = marker[t] /\ cmds'[t] = cmds[t]
    BY <1>1, <1>3, <1>7
  <2> QED
    BY <2>1 DEF Table
<1> QED
  BY <1>4, <1>5, <1>6, <1>7

LEMMA FilesGrow ==
    ASSUME Sound, NEW f \in File, NEW u \in Seq(Unit), Formed(u),
           data' = [data EXCEPT ![f] = @ \o u]
    PROVE  /\ data' \in [File -> Seq(Unit)]
           /\ data'[f] = data[f] \o u
           /\ \A g \in File : g # f => data'[g] = data[g]
           /\ \A g \in File : /\ Len(data[g]) \in Nat /\ Len(data'[g]) \in Nat
                              /\ Len(data[g]) <= Len(data'[g])
                              /\ data[g] # <<>> => data'[g] # <<>>
                              /\ Formed(data'[g])
                              /\ \A r : Correct(r, data[g]) => Correct(r, data'[g])
<1>1. data \in [File -> Seq(Unit)] /\ \A g \in File : Formed(data[g])
  BY DEF Sound, Typed
<1> DEFINE e == data[f] \o u
<1>2. data[f] \in Seq(Unit)
  BY <1>1
<1>3. e \in Seq(Unit) /\ Len(e) = Len(data[f]) + Len(u) /\ Len(data[f]) \in Nat /\ Len(u) \in Nat
  BY <1>2, Appended
<1>4. Formed(e) /\ \A r : Correct(r, data[f]) => Correct(r, e)
  BY <1>1, <1>2, FormedAppended, CorrectKept
<1>5. data'[f] = e /\ \A g \in File : g # f => data'[g] = data[g]
  BY <1>1
<1>6. data' = [data EXCEPT ![f] = e]
  OBVIOUS
<1>7. data[f] # <<>> => e # <<>>
  <2> SUFFICES ASSUME data[f] # <<>> PROVE e # <<>>
    OBVIOUS
  <2>1. Len(data[f]) \in Nat \ {0}
    BY <1>2, EmptySeq
  <2> HIDE DEF e
  <2>2. Len(e) # 0
    BY <1>3, <2>1
  <2> QED
    BY <2>2, EmptySeq
<1> HIDE DEF e
<1>8. data' \in [File -> Seq(Unit)]
  BY <1>1, <1>3, <1>6
<1>9. ASSUME NEW g \in File
      PROVE  /\ Len(data[g]) \in Nat /\ Len(data'[g]) \in Nat /\ Len(data[g]) <= Len(data'[g])
             /\ data[g] # <<>> => data'[g] # <<>>
             /\ Formed(data'[g])
             /\ \A r : Correct(r, data[g]) => Correct(r, data'[g])
  <2>1. CASE g = f
    <3>1. Len(e) \in Nat /\ Len(data[f]) <= Len(e)
      BY <1>3
    <3> QED
      BY <1>3, <1>4, <1>5, <1>7, <2>1, <3>1
  <2>2. CASE g # f
    <3>1. data'[g] = data[g] /\ data[g] \in Seq(Unit) /\ Formed(data[g])
      BY <1>1, <1>5, <2>2
    <3>2. Len(data[g]) \in Nat /\ Len(data[g]) <= Len(data[g])
      BY <3>1, LenProperties
    <3> QED
      BY <3>1, <3>2
  <2> QED
    BY <2>1, <2>2
<1> QED
  BY <1>5, <1>8, <1>9 DEF e

\* Those who do nothing while a file grows, or nothing at all.
LEMMA OthersKept ==
    ASSUME Sound, TidyCorrect, NEW t \in Shell,
           /\ pc'[t] = pc[t] /\ fd'[t] = fd[t] /\ old'[t] = old[t]
           /\ cnt'[t] = cnt[t] /\ Table(t)' = Table(t),
           files' \in Nat, files <= files', tidy' \subseteq tidy,
           \A g \in File : /\ Len(data[g]) \in Nat /\ Len(data'[g]) \in Nat
                           /\ Len(data[g]) <= Len(data'[g])
                           /\ data[g] # <<>> => data'[g] # <<>>
                           /\ \A r : Correct(r, data[g]) => Correct(r, data'[g])
    PROVE  PlacedAt(t)' /\ CorrectAt(t)'
<1>1. PlacedAt(t) /\ CorrectAt(t) /\ files \in File
  BY DEF Sound, Placed, TidyCorrect, Typed
<1>2. files \in Nat /\ 1..files \subseteq File /\ 1..files \subseteq 1..files'
  BY <1>1, HistoryAssumption DEF File
<1>3. PlacedAt(t)'
  <2>1. pc'[t] # "off" => fd'[t] \in 1..files'
    BY <1>1, <1>2 DEF PlacedAt
  <2>2. ASSUME pc'[t] \in Counting PROVE cnt'[t] \in 1..Len(data'[fd'[t]])
    <3>1. pc[t] # "off" /\ fd[t] \in File
      BY <1>1, <1>2, <2>2 DEF PlacedAt, Counting, Working
    <3>2. cnt[t] \in 1..Len(data[fd[t]])
      BY <1>1, <2>2 DEF PlacedAt
    <3>3. /\ Len(data[fd[t]]) \in Nat /\ Len(data'[fd[t]]) \in Nat
          /\ Len(data[fd[t]]) <= Len(data'[fd[t]])
      BY <3>1
    <3> QED
      BY <3>2, <3>3
  <2>3. ASSUME pc'[t] \in {"load", "unlink"} PROVE data'[fd'[t]] # <<>>
    <3>1. fd[t] \in File /\ data[fd[t]] # <<>>
      BY <1>1, <1>2, <2>3 DEF PlacedAt
    <3> QED
      BY <3>1
  <2>4. pc'[t] \in {"reopen", "copy"} => old'[t] \in Trim
    BY <1>1 DEF PlacedAt
  <2> QED
    BY <2>1, <2>2, <2>3, <2>4 DEF PlacedAt
<1>4. CorrectAt(t)'
  <2> SUFFICES ASSUME pc'[t] \in Counting, fd'[t] \in tidy'
               PROVE  Correct(Table(t)', data'[fd'[t]])
    BY DEF CorrectAt
  <2>1. Correct(Table(t), data[fd[t]])
    BY <1>1 DEF CorrectAt
  <2>2. fd[t] \in File
    BY DEF Sound, Typed
  <2>3. Correct(Table(t), data'[fd[t]])
    BY <2>1, <2>2
  <2> QED
    BY <2>3
<1> QED
  BY <1>3, <1>4

-----------------------------------------------------------------------------
(***************************************************************************)
(* The steps that write: the file stays tidy only when the table of the    *)
(* writer was at the end of it, and is so again.                           *)
(***************************************************************************)
LEMMA Writes ==
    ASSUME Inv, NEW s \in Shell, pc[s] # "off",
           NEW u \in Seq(Unit), Formed(u), Extend(fd[s], u), Freshen(s, fd[s]),
           NEW r \in Reader, SetTable(s, r), r.cnt \in 1..Len(data[fd[s]] \o u),
           tidy' \subseteq tidy,
           fd[s] \in tidy' => Correct(r, data[fd[s]] \o u) /\ Marked(data[fd[s]] \o u),
           UNCHANGED <<name, files, fd>>, typed' \in 0..MaxCommand,
           pc' \in [Shell -> Label], old' \in [Shell -> Trim \cup {None}],
           pc'[s] \in Counting, pc'[s] = "copy" => old'[s] \in Trim,
           \A t \in Shell : t # s => pc'[t] = pc[t] /\ old'[t] = old[t]
    PROVE  Inv'
<1> DEFINE f == fd[s]
           e == data[f] \o u
<1>1. Sound /\ Typed /\ TidyCorrect /\ TidyMarked /\ PlacedAt(s) /\ CorrectAt(s)
  BY DEF Inv, Sound, Placed, TidyCorrect
<1>2. files \in Nat /\ 1..files \subseteq File /\ f \in 1..files /\ f \in File
  <2>1. pc[s] # "off" /\ files \in File
    BY <1>1 DEF Typed
  <2>2. fd[s] \in 1..files
    BY <1>1, <2>1 DEF PlacedAt
  <2> QED
    BY <2>1, <2>2, HistoryAssumption DEF File
<1>3. data' = [data EXCEPT ![f] = @ \o u] /\ fresh' = fresh \cup {f}
  BY DEF Extend, Freshen
<1>4. /\ data' \in [File -> Seq(Unit)] /\ data'[f] = e
      /\ \A g \in File : g # f => data'[g] = data[g]
      /\ \A g \in File : /\ Len(data[g]) \in Nat /\ Len(data'[g]) \in Nat
                         /\ Len(data[g]) <= Len(data'[g])
                         /\ data[g] # <<>> => data'[g] # <<>>
                         /\ Formed(data'[g])
                         /\ \A q : Correct(q, data[g]) => Correct(q, data'[g])
  BY <1>1, <1>2, <1>3, FilesGrow
<1>5. /\ ind' \in [Shell -> Int] /\ cnt' \in [Shell -> Nat] /\ marker' \in [Shell -> Nat]
      /\ cmds' \in [Shell -> [Number -> Nat]]
      /\ Table(s)' = r /\ cnt'[s] = r.cnt
      /\ \A t \in Shell : t # s => Table(t)' = Table(t) /\ cnt'[t] = cnt[t]
  BY <1>1, TableSet
<1>6. f \in tidy' => Correct(r, e) /\ Marked(e)
  OBVIOUS
<1> HIDE DEF f, e
<1>7. Typed'
  <2>1. fresh' \subseteq File /\ tidy' \subseteq File
    BY <1>1, <1>2, <1>3 DEF Typed
  <2> QED
    BY <1>1, <1>4, <1>5, <2>1 DEF Typed
<1>8. ASSUME NEW t \in Shell PROVE PlacedAt(t)' /\ CorrectAt(t)'
  <2>1. CASE t = s
    <3>1. f = fd'[s] /\ f \in 1..files'
      BY <1>2 DEF f
    <3>2. cnt'[s] \in 1..Len(data'[f])
      BY <1>4, <1>5 DEF e, f
    <3>3. pc'[s] \notin {"load", "unlink", "reopen"}
      BY DEF Counting, Working
    <3>4. PlacedAt(s)'
      BY <3>1, <3>2, <3>3 DEF PlacedAt
    <3>5. CorrectAt(s)'
      BY <1>4, <1>5, <1>6, <3>1 DEF CorrectAt
    <3> QED
      BY <2>1, <3>4, <3>5
  <2>2. CASE t # s
    <3>1. /\ pc'[t] = pc[t] /\ fd'[t] = fd[t] /\ old'[t] = old[t]
          /\ cnt'[t] = cnt[t] /\ Table(t)' = Table(t)
      BY <1>5, <2>2
    <3>2. files' \in Nat /\ files <= files'
      BY <1>2
    <3> QED
      BY <1>1, <1>4, <3>1, <3>2, OthersKept
  <2> QED
    BY <2>1, <2>2
<1>9. TidyMarked'
  <2> SUFFICES ASSUME NEW g \in tidy' PROVE Marked(data'[g])
    BY DEF TidyMarked
  <2>1. CASE g = f
    BY <1>4, <1>6, <2>1
  <2>2. CASE g # f
    <3>1. g \in tidy /\ g \in File
      BY <1>1 DEF Typed
    <3> QED
      BY <1>1, <1>4, <2>2, <3>1 DEF TidyMarked
  <2> QED
    BY <2>1, <2>2
<1>10. Placed' /\ TidyCorrect'
  BY <1>8 DEF Placed, TidyCorrect
<1> QED
  BY <1>4, <1>7, <1>9, <1>10 DEF Inv, Sound

LEMMA NoMarker ==
    ASSUME NEW u \in Seq(Unit), NEW d \in Seq(Unit), Marked(d),
           \A o \in 1..Len(u) : u[o][1] # "marker"
    PROVE  Marked(d \o u)
BY MarkedAppended

\* What Cancelled adds is counted.
LEMMA CancelRight ==
    ASSUME NEW d \in Seq(Unit), d # <<>>, NEW r \in Reader, Correct(r, d), r.cnt = Len(d),
           NEW q, q.cnt = r.cnt + 1, q.ind = r.ind - 1,
           q.cmds = [r.cmds EXCEPT ![r.ind - 1] = r.cnt + 1]
    PROVE  Correct(q, d \o <<Undo>>)
<1> DEFINE u == <<Undo>>
           e == d \o u
<1>1. u \in Seq(Unit) /\ Len(u) = 1
  BY DEF Unit, Undo
<1>2. Grown(d, e, -1)
  BY GrownUndo
<1> HIDE DEF u
<1>3. e \in Seq(Unit) /\ Len(e) = Len(d) + Len(u) /\ Len(d) \in Nat
  BY <1>1, Appended
<1> HIDE DEF e
<1>4. Len(e) = Len(d) + 1 /\ e # <<>>
  <2>1. Len(e) = Len(d) + 1 /\ Len(e) # 0
    BY <1>1, <1>3
  <2> QED
    BY <2>1, EmptySeq
<1>5. r.ind \in Int /\ r.ind - 1 = r.ind + (-1) /\ -1 \in Int
  BY DEF Reader
<1>6. q.cnt = Len(e) /\ q.ind = r.ind + (-1)
      /\ q.cmds = [r.cmds EXCEPT ![r.ind + (-1)] = Len(e)]
  BY <1>4, <1>5
<1> DEFINE k == -1
<1>7. Correct(q, e)
  <2>1. k \in Int /\ Grown(d, e, k) /\ q.ind = r.ind + k
        /\ q.cmds = With(r.cmds, r.ind + k, Len(e))
    BY <1>2, <1>5, <1>6 DEF With
  <2>2. q.cnt = Len(e) /\ e \in Seq(Unit) /\ e # <<>>
    BY <1>3, <1>4, <1>6
  <2> HIDE DEF k
  <2> QED
    BY <2>1, <2>2, CorrectGrown
<1> QED
  BY <1>7 DEF e, u

Counted(r, c, n, m) == [r EXCEPT !.cnt = c, !.ind = n, !.cmds = m]

LEMMA CountedTyped ==
    ASSUME NEW r \in Reader, NEW c \in Nat, NEW n \in Int, NEW m \in [Number -> Nat]
    PROVE  /\ Counted(r, c, n, m) \in Reader /\ Counted(r, c, n, m).cnt = c
           /\ Counted(r, c, n, m).ind = n /\ Counted(r, c, n, m).cmds = m
BY DEF Reader, Counted

LEMMA CancelledKeeps ==
    ASSUME Inv, NEW s \in Shell, pc[s] \in Counting, Cancelled(s),
           UNCHANGED <<fd, typed>>,
           pc' \in [Shell -> Label], old' \in [Shell -> Trim \cup {None}],
           pc'[s] \in Counting \ {"copy"},
           \A t \in Shell : t # s => pc'[t] = pc[t] /\ old'[t] = old[t]
    PROVE  Inv'
<1> DEFINE f == fd[s]
           d == data[f]
           u == <<Undo>>
           r == [Table(s) EXCEPT !.cnt = @ + 1, !.ind = @ - 1, !.cmds[ind[s] - 1] = cnt[s] + 1]
<1>1. Sound /\ Typed /\ TidyMarked /\ PlacedAt(s) /\ CorrectAt(s)
  BY DEF Inv, Sound, Placed, TidyCorrect
<1>2. f \in File /\ d \in Seq(Unit)
  <2>1. pc[s] # "off" /\ files \in File /\ data \in [File -> Seq(Unit)]
    BY <1>1 DEF Counting, Working, Typed
  <2>2. fd[s] \in 1..files
    BY <1>1, <2>1 DEF PlacedAt
  <2> QED
    BY <2>1, <2>2, HistoryAssumption DEF File
<1>3. cnt[s] \in 1..Len(d) /\ Len(d) \in Nat /\ d # <<>>
  <2>1. cnt[s] \in 1..Len(d) /\ Len(d) \in Nat
    BY <1>1, <1>2, LenProperties DEF PlacedAt
  <2> QED
    BY <1>2, <2>1, EmptySeq
<1>4. u \in Seq(Unit) /\ Len(u) = 1 /\ u[1][1] = "undo" /\ Formed(u)
  BY DEF Unit, Undo, Formed
<1>5. /\ Table(s) \in Reader /\ Table(s).cnt = cnt[s] /\ Table(s).ind = ind[s]
      /\ Table(s).cmds = cmds[s]
  BY <1>1, TableTyped
<1>6. /\ r \in Reader /\ r.cnt = cnt[s] + 1 /\ r.ind = ind[s] - 1
      /\ r.cmds = [cmds[s] EXCEPT ![ind[s] - 1] = cnt[s] + 1]
  <2> DEFINE c == cnt[s] + 1
             n == ind[s] - 1
             m == [cmds[s] EXCEPT ![ind[s] - 1] = cnt[s] + 1]
  <2>1. ind[s] \in Int /\ cnt[s] \in Nat /\ cmds[s] \in [Number -> Nat]
    BY <1>1 DEF Typed
  <2>2. c \in Nat /\ n \in Int
    BY <2>1
  <2>3. m \in [Number -> Nat]
    <3>1. m = [cmds[s] EXCEPT ![n] = c]
      OBVIOUS
    <3> HIDE DEF c, n, m
    <3> QED
      BY <2>1, <2>2, <3>1
  <2>4. r = Counted(Table(s), c, n, m)
    BY <1>5 DEF Reader, Counted
  <2> HIDE DEF c, n, m, r
  <2>5. r \in Reader /\ r.cnt = c /\ r.ind = n /\ r.cmds = m
    <3>1. /\ Counted(Table(s), c, n, m) \in Reader /\ Counted(Table(s), c, n, m).cnt = c
          /\ Counted(Table(s), c, n, m).ind = n /\ Counted(Table(s), c, n, m).cmds = m
      <4>1. Table(s) \in Reader
        BY <1>5
      <4> QED
        BY <2>2, <2>3, <4>1, CountedTyped
    <3> QED
      BY <2>4, <3>1
  <2> QED
    BY <2>5 DEF c, n, m
<1>7. Len(d \o u) = Len(d) + 1
  <2> HIDE DEF u
  <2>1. Len(d \o u) = Len(d) + Len(u)
    BY <1>2, <1>4, Appended
  <2> QED
    BY <1>3, <1>4, <2>1
<1>8. r.cnt \in 1..Len(d \o u)
  BY <1>3, <1>6, <1>7
<1>9. Extend(f, u) /\ Freshen(s, f) /\ SetTable(s, r) /\ Tidy(s, TRUE) /\ UNCHANGED <<name, files>>
  BY DEF Cancelled
<1>10. ASSUME cnt[s] = Len(d), f \in tidy PROVE Correct(r, d \o u) /\ Marked(d \o u)
  <2>1. Correct(Table(s), d) /\ Marked(d)
    BY <1>1, <1>10 DEF CorrectAt, TidyMarked
  <2>2. /\ r.cnt = Table(s).cnt + 1 /\ r.ind = Table(s).ind - 1
        /\ r.cmds = [Table(s).cmds EXCEPT ![Table(s).ind - 1] = Table(s).cnt + 1]
    BY <1>5, <1>6
  <2> HIDE DEF r, d
  <2>3. Correct(r, d \o u)
    BY <1>2, <1>3, <1>5, <1>10, <2>1, <2>2, CancelRight
  <2>4. Marked(d \o u)
    <3>1. \A o \in 1..Len(u) : u[o][1] # "marker"
      BY <1>4
    <3> HIDE DEF u
    <3> QED
      BY <1>2, <1>4, <2>1, <3>1, NoMarker
  <2> QED
    BY <2>3, <2>4
<1>11. typed' \in 0..MaxCommand
  BY <1>1 DEF Typed
<1>12. Extend(fd[s], u) /\ Freshen(s, fd[s]) /\ r.cnt \in 1..Len(data[fd[s]] \o u)
  BY <1>8, <1>9
<1>13. /\ tidy' \subseteq tidy
       /\ fd[s] \in tidy' => Correct(r, data[fd[s]] \o u) /\ Marked(data[fd[s]] \o u)
  BY <1>9, <1>10 DEF Tidy
<1>14. pc[s] # "off" /\ pc'[s] \in Counting /\ pc'[s] # "copy"
  BY DEF Counting, Working
<1> HIDE DEF f, d, u, r
<1> QED
  BY <1>4, <1>6, <1>9, <1>11, <1>12, <1>13, <1>14, Writes

\* What Count adds is counted, and the marker holds the number that comes next.
LEMMA CommandRight ==
    ASSUME NEW d \in Seq(Unit), d # <<>>, Marked(d),
           NEW r \in Reader, Correct(r, d), r.cnt = Len(d),
           NEW u \in Seq(Unit), Len(u) = 2, u[1][1] = "head", u[2][1] = "tail",
           NEW q, q.cnt = Len(d) + 2, q.ind = r.ind + 1,
           q.cmds = With(r.cmds, r.ind + 1, Len(d) + 2)
    PROVE  Correct(q, d \o u) /\ Marked(d \o u) /\ q.ind = Ends(d \o u).ind
<1> DEFINE e == d \o u
<1>1. e \in Seq(Unit) /\ Len(e) = Len(d) + Len(u) /\ Len(d) \in Nat
  BY Appended
<1>2. Grown(d, e, 1)
  BY GrownCommand
<1>3. Marked(e)
  <2>1. \A o \in 1..Len(u) : u[o][1] # "marker"
    BY DEF Unit
  <2> QED
    BY <2>1, NoMarker
<1> HIDE DEF e
<1>4. Len(e) = Len(d) + 2 /\ e # <<>>
  <2>1. Len(e) = Len(d) + 2 /\ Len(e) # 0
    BY <1>1
  <2> QED
    BY <2>1, EmptySeq
<1>5. q.cnt = Len(e) /\ q.cmds = With(r.cmds, r.ind + 1, Len(e)) /\ 1 \in Int
  BY <1>4
<1>6. Correct(q, e) /\ q.ind = Ends(e).ind
  BY <1>1, <1>2, <1>4, <1>5, CorrectGrown
<1> QED
  BY <1>3, <1>6 DEF e

LEMMA Associate ==
    ASSUME NEW a \in Seq(Unit), NEW b \in Seq(Unit), NEW c \in Seq(Unit)
    PROVE  (a \o b) \o c = a \o (b \o c)
BY ConcatAssociative, SMT

LEMMA MarkerRight ==
    ASSUME NEW d \in Seq(Unit), d # <<>>, Marked(d),
           NEW r \in Reader, Correct(r, d), r.cnt = Len(d),
           NEW u \in Seq(Unit), Len(u) = 2, u[1][1] = "head", u[2][1] = "tail",
           NEW q, q.cnt = Len(d) + 3, q.ind = r.ind + 1,
           q.cmds = With(r.cmds, r.ind + 1, Len(d) + 3)
    PROVE  /\ Correct(q, d \o (u \o <<Marker(r.ind + 1)>>))
           /\ Marked(d \o (u \o <<Marker(r.ind + 1)>>))
<1> DEFINE n == r.ind + 1
           m == <<Marker(n)>>
           e == d \o u
           g == e \o m
<1>1. e \in Seq(Unit) /\ Len(e) = Len(d) + Len(u) /\ Len(d) \in Nat
  BY Appended
<1>2. n \in Int
  BY DEF Reader
<1>3. m \in Seq(Unit) /\ Len(m) = 1 /\ m[1][1] = "marker" /\ m[1][2] = n
  <2> HIDE DEF n
  <2> QED
    BY <1>2 DEF Unit, Marker
<1>4. Grown(d, e, 1)
  BY GrownCommand
<1>5. Marked(e)
  <2>1. \A o \in 1..Len(u) : u[o][1] # "marker"
    BY DEF Unit
  <2> QED
    BY <2>1, NoMarker
<1>6. d \o (u \o m) = g
  <2>1. m \in Seq(Unit)
    BY <1>3
  <2> HIDE DEF m
  <2>2. (d \o u) \o m = d \o (u \o m)
    BY <2>1, Associate
  <2> QED
    BY <2>2
<1> HIDE DEF e
<1>7. Len(e) = Len(d) + 2 /\ e # <<>>
  <2>1. Len(e) = Len(d) + 2 /\ Len(e) # 0
    BY <1>1
  <2> QED
    BY <2>1, EmptySeq
<1> HIDE DEF n
<1>8. Grown(d, g, 1)
  BY <1>1, <1>2, <1>4, <1>7, GrownMarker
<1> HIDE DEF m
<1>9. g \in Seq(Unit) /\ Len(g) = Len(e) + Len(m)
  BY <1>1, <1>3, Appended
<1> HIDE DEF g
<1>10. Len(g) = Len(d) + 3 /\ g # <<>>
  <2>1. Len(g) = Len(d) + 3 /\ Len(g) # 0
    BY <1>1, <1>3, <1>7, <1>9
  <2> QED
    BY <1>9, <2>1, EmptySeq
<1>11. q.cnt = Len(g) /\ q.cmds = With(r.cmds, r.ind + 1, Len(g)) /\ 1 \in Int
  BY <1>10
<1>12. Correct(q, g) /\ q.ind = Ends(g).ind
  BY <1>8, <1>9, <1>10, <1>11, CorrectGrown
<1>13. Marked(g)
  <2>1. Len(e) + 1 = Len(g)
    BY <1>3, <1>9
  <2>2. ReadTo(Begin, e \o m, Len(e) + 1).ind = n
    BY <1>12, <2>1 DEF Ends, g, n
  <2>3. ASSUME NEW o \in 1..Len(m), m[o][1] = "marker"
        PROVE  m[o][2] = ReadTo(Begin, e \o m, Len(e) + o).ind
    <3>1. o = 1
      BY <1>3
    <3> QED
      BY <1>3, <2>2, <3>1
  <2> QED
    BY <1>1, <1>3, <1>5, <2>3, MarkedAppended DEF g
<1> QED
  BY <1>6, <1>12, <1>13 DEF m, n

LEMMA CountKeeps ==
    ASSUME Inv, NEW s \in Shell, pc[s] \in Counting,
           NEW c \in {cnt[s], Len(data[fd[s]])}, NEW u \in Seq(Unit), u # <<>>, Formed(u),
           NEW clean \in BOOLEAN,
           clean => Len(u) = 2 /\ u[1][1] = "head" /\ u[2][1] = "tail",
           Count(s, ind[s] + 1, c, u), Tidy(s, clean),
           UNCHANGED <<name, files, fd>>, typed' \in 0..MaxCommand,
           pc' \in [Shell -> Label], old' \in [Shell -> Trim \cup {None}],
           pc'[s] \in Counting, pc'[s] = "copy" => old'[s] \in Trim,
           \A t \in Shell : t # s => pc'[t] = pc[t] /\ old'[t] = old[t]
    PROVE  Inv'
<1> DEFINE f == fd[s]
           d == data[f]
           n == ind[s] + 1
           end == c + Len(u)
           due == end > marker[s] + MarkAfter
           o == IF due THEN end + 1 ELSE end
           all == u \o IF due THEN <<Marker(n)>> ELSE <<>>
           r == [ind |-> n, cnt |-> o, marker |-> IF due THEN o ELSE marker[s],
                 cmds |-> [cmds[s] EXCEPT ![n] = o]]
<1>1. Sound /\ Typed /\ TidyMarked /\ PlacedAt(s) /\ CorrectAt(s)
  BY DEF Inv, Sound, Placed, TidyCorrect
<1>2. f \in File /\ d \in Seq(Unit)
  <2>1. pc[s] # "off" /\ files \in File /\ data \in [File -> Seq(Unit)]
    BY <1>1 DEF Counting, Working, Typed
  <2>2. fd[s] \in 1..files
    BY <1>1, <2>1 DEF PlacedAt
  <2> QED
    BY <2>1, <2>2, HistoryAssumption DEF File
<1>3. cnt[s] \in 1..Len(d) /\ Len(d) \in Nat /\ d # <<>> /\ Len(u) \in Nat /\ c \in 1..Len(d)
  <2>1. cnt[s] \in 1..Len(d) /\ Len(d) \in Nat
    BY <1>1, <1>2, LenProperties DEF PlacedAt
  <2>2. Len(u) \in Nat /\ c \in 1..Len(d)
    BY <2>1, LenProperties
  <2> QED
    BY <1>2, <2>1, <2>2, EmptySeq
<1>4. ind[s] \in Int /\ marker[s] \in Nat /\ cmds[s] \in [Number -> Nat]
  BY <1>1 DEF Typed
<1>5. /\ Table(s) \in Reader /\ Table(s).cnt = cnt[s] /\ Table(s).ind = ind[s]
      /\ Table(s).cmds = cmds[s]
  BY <1>1, TableTyped
<1>6. n \in Int /\ end \in Nat
  BY <1>3, <1>4
<1>7. /\ all \in Seq(Unit) /\ Formed(all)
      /\ Len(all) = Len(u) + IF due THEN 1 ELSE 0
      /\ ~due => all = u
  <2> HIDE DEF n, end
  <2>1. CASE due
    <3> DEFINE m == <<Marker(n)>>
    <3>1. m \in Seq(Unit) /\ Len(m) = 1 /\ m[1][1] = "marker"
      BY <1>6 DEF Unit, Marker
    <3> HIDE DEF m
    <3>2. Formed(m)
      BY <3>1 DEF Formed
    <3>3. u \o m \in Seq(Unit) /\ Len(u \o m) = Len(u) + Len(m) /\ Formed(u \o m)
      BY <3>1, <3>2, Appended, FormedAppended
    <3>4. all = u \o m
      BY <2>1 DEF m
    <3> QED
      BY <2>1, <3>1, <3>3, <3>4
  <2>2. CASE ~due
    <3>1. u \o <<>> = u
      BY ConcatEmptySeq
    <3>2. all = u
      BY <2>2, <3>1
    <3> HIDE DEF all, due
    <3> QED
      BY <1>3, <2>2, <3>2
  <2> QED
    BY <2>1, <2>2
<1>8. o \in Nat /\ o = c + Len(all)
  <2>1. /\ Len(all) = Len(u) + IF due THEN 1 ELSE 0
        /\ o = IF due THEN end + 1 ELSE end
    BY <1>7
  <2>2. end = c + Len(u) /\ c \in Nat /\ Len(u) \in Nat
    BY <1>3
  <2> HIDE DEF all, due, end, o
  <2>3. CASE due
    BY <2>1, <2>2, <2>3
  <2>4. CASE ~due
    BY <2>1, <2>2, <2>4
  <2> QED
    BY <2>3, <2>4
<1>9. Extend(f, all) /\ Freshen(s, f) /\ SetTable(s, r)
  BY DEF Count
<1>10. /\ r \in Reader /\ r.ind = n /\ r.cnt = o
       /\ r.cmds = With(cmds[s], n, o)
  <2> HIDE DEF n, o, due
  <2>1. (IF due THEN o ELSE marker[s]) \in Nat
    BY <1>4, <1>8
  <2>2. [cmds[s] EXCEPT ![n] = o] \in [Number -> Nat]
    BY <1>4, <1>8
  <2> QED
    BY <1>6, <1>8, <2>1, <2>2 DEF Reader, With
<1>11. Len(d \o all) = Len(d) + Len(all) /\ Len(all) \in Nat
  <2> HIDE DEF all, d
  <2> QED
    BY <1>2, <1>7, Appended
<1>12. r.cnt \in 1..Len(d \o all)
  <2> HIDE DEF all, r, o
  <2> QED
    BY <1>3, <1>8, <1>10, <1>11
<1>13. ASSUME clean, cnt[s] = Len(d), f \in tidy PROVE Correct(r, d \o all) /\ Marked(d \o all)
  <2>1. Correct(Table(s), d) /\ Marked(d)
    BY <1>1, <1>13 DEF CorrectAt, TidyMarked
  <2>2. c = Len(d) /\ n = Table(s).ind + 1
    BY <1>5, <1>13
  <2>3. /\ Len(u) = 2 /\ u[1][1] = "head" /\ u[2][1] = "tail"
        /\ Table(s) \in Reader /\ Table(s).cnt = Len(d) /\ r.ind = Table(s).ind + 1
    BY <1>5, <1>10, <1>13, <2>2
  <2>4. CASE due
    <3>1. o = Len(d) + 3
      BY <1>3, <2>2, <2>3, <2>4
    <3>2. all = u \o <<Marker(Table(s).ind + 1)>>
      BY <1>5, <2>4
    <3>3. r.cnt = Len(d) + 3 /\ r.cmds = With(Table(s).cmds, Table(s).ind + 1, Len(d) + 3)
      BY <1>5, <1>10, <2>2, <3>1
    <3> HIDE DEF all, r, d, n, o, due
    <3> QED
      BY <1>2, <1>3, <2>1, <2>3, <3>2, <3>3, MarkerRight
  <2>5. CASE ~due
    <3>1. o = Len(d) + 2
      BY <1>3, <2>2, <2>3, <2>5
    <3>2. all = u
      BY <1>7, <2>5
    <3>3. r.cnt = Len(d) + 2 /\ r.cmds = With(Table(s).cmds, Table(s).ind + 1, Len(d) + 2)
      BY <1>5, <1>10, <2>2, <3>1
    <3> HIDE DEF all, r, d, n, o, due
    <3> QED
      BY <1>2, <1>3, <2>1, <2>3, <3>2, <3>3, CommandRight
  <2> QED
    BY <2>4, <2>5
<1>14. Extend(fd[s], all) /\ Freshen(s, fd[s]) /\ r.cnt \in 1..Len(data[fd[s]] \o all)
  BY <1>9, <1>12
<1>15. /\ tidy' \subseteq tidy
       /\ fd[s] \in tidy' => Correct(r, data[fd[s]] \o all) /\ Marked(data[fd[s]] \o all)
  BY <1>13 DEF Tidy
<1>16. pc[s] # "off"
  BY DEF Counting, Working
<1> HIDE DEF f, d, all, r, n, o, due, end
<1> QED
  BY <1>7, <1>9, <1>10, <1>14, <1>15, <1>16, Writes

-----------------------------------------------------------------------------
(***************************************************************************)
(* The steps that leave the files as they are.                             *)
(***************************************************************************)
LEMMA Quiet ==
    ASSUME Inv, NEW s \in Shell, data' = data, Typed', files <= files', tidy' \subseteq tidy,
           PlacedAt(s)', CorrectAt(s)',
           \A t \in Shell : t # s =>
             /\ pc'[t] = pc[t] /\ fd'[t] = fd[t] /\ old'[t] = old[t]
             /\ cnt'[t] = cnt[t] /\ Table(t)' = Table(t)
    PROVE  Inv'
<1>1. /\ Sound /\ TidyCorrect /\ TidyMarked /\ tidy \subseteq File
      /\ data \in [File -> Seq(Unit)] /\ \A f \in File : Formed(data[f])
  BY DEF Inv, Sound, Typed
<1>2. files' \in Nat
  BY HistoryAssumption DEF Typed, File
<1>3. \A g \in File : /\ Len(data[g]) \in Nat /\ Len(data'[g]) \in Nat
                      /\ Len(data[g]) <= Len(data'[g])
                      /\ data[g] # <<>> => data'[g] # <<>>
                      /\ \A r : Correct(r, data[g]) => Correct(r, data'[g])
  <2> SUFFICES ASSUME NEW g \in File PROVE Len(data[g]) \in Nat /\ Len(data[g]) <= Len(data[g])
    OBVIOUS
  <2>1. Len(data[g]) \in Nat
    BY <1>1, LenProperties
  <2> QED
    BY <2>1
<1>4. ASSUME NEW t \in Shell PROVE PlacedAt(t)' /\ CorrectAt(t)'
  <2>1. CASE t = s
    BY <2>1
  <2>2. CASE t # s
    <3>1. /\ pc'[t] = pc[t] /\ fd'[t] = fd[t] /\ old'[t] = old[t]
          /\ cnt'[t] = cnt[t] /\ Table(t)' = Table(t)
      BY <2>2
    <3> QED
      BY <1>1, <1>2, <1>3, <3>1, OthersKept
  <2> QED
    BY <2>1, <2>2
<1>5. Placed' /\ TidyCorrect'
  BY <1>4 DEF Placed, TidyCorrect
<1>6. TidyMarked'
  BY <1>1 DEF TidyMarked
<1> QED
  BY <1>1, <1>5, <1>6 DEF Inv, Sound

LEMMA Standing ==
    ASSUME Inv, NEW s \in Shell
    PROVE  /\ Typed /\ PlacedAt(s) /\ CorrectAt(s) /\ TidyMarked
           /\ files \in Nat /\ files <= files /\ 1..files \subseteq File
           /\ pc[s] # "off" =>
                fd[s] \in 1..files /\ fd[s] \in File /\ data[fd[s]] \in Seq(Unit)
<1>1. Typed /\ PlacedAt(s) /\ CorrectAt(s) /\ TidyMarked
  BY DEF Inv, Sound, Placed, TidyCorrect
<1>2. files \in File /\ data \in [File -> Seq(Unit)]
  BY <1>1 DEF Typed
<1>3. files \in Nat /\ files <= files /\ 1..files \subseteq File
  BY <1>2, HistoryAssumption DEF File
<1>4. pc[s] # "off" => fd[s] \in 1..files
  BY <1>1 DEF PlacedAt
<1> QED
  BY <1>1, <1>2, <1>3, <1>4

LEMMA OpenKeeps ==
    ASSUME Inv, NEW s \in Shell, OpenFile(s), UNCHANGED <<table, old, typed, tidy>>
    PROVE  Inv'
<1>1. /\ Typed /\ files \in File /\ files \in Nat /\ pc \in [Shell -> Label]
      /\ fd \in [Shell -> 1..files \cup {None}]
  BY Standing DEF Typed
<1>2. /\ data' = data /\ files' \in File /\ files' \in Nat /\ files <= files'
      /\ name' \in 1..files' \cup {None} /\ fresh' \subseteq File
      /\ fd'[s] \in 1..files' /\ fd' \in [Shell -> 1..files' \cup {None}]
      /\ \A t \in Shell : t # s => fd'[t] = fd[t]
  <2>1. CASE name # None
    <3>1. fd' = [fd EXCEPT ![s] = name] /\ UNCHANGED disk
      BY <2>1 DEF OpenFile
    <3>2. name \in 1..files
      BY <1>1, <2>1 DEF Typed
    <3> QED
      BY <1>1, <3>1, <3>2 DEF disk, Typed
  <2>2. CASE name = None
    <3>1. /\ files < MaxFile /\ files' = files + 1 /\ name' = files'
          /\ fd' = [fd EXCEPT ![s] = files']
          /\ fresh' = fresh \cup {files'} /\ data' = data
      BY <2>2 DEF OpenFile, Freshen
    <3>2. files' \in File /\ files' \in 1..files' /\ 1..files \subseteq 1..files'
      BY <1>1, <3>1, HistoryAssumption DEF File
    <3>3. fd' \in [Shell -> 1..files' \cup {None}]
      BY <1>1, <3>1, <3>2
    <3> QED
      BY <1>1, <3>1, <3>2, <3>3 DEF Typed
  <2> QED
    BY <2>1, <2>2
<1>3. pc' = [pc EXCEPT ![s] = IF data[fd'[s]] = <<>> THEN "stamp" ELSE "load"]
  BY DEF OpenFile, Goto
<1>4. /\ pc' \in [Shell -> Label]
      /\ pc'[s] = IF data[fd'[s]] = <<>> THEN "stamp" ELSE "load"
      /\ \A t \in Shell : t # s => pc'[t] = pc[t]
  BY <1>1, <1>3 DEF Label
<1>5. Typed'
  BY <1>1, <1>2, <1>4 DEF Typed, table
<1>6. pc'[s] \in {"stamp", "load"} /\ (pc'[s] = "load" => data'[fd'[s]] # <<>>)
  BY <1>2, <1>4
<1>7. PlacedAt(s)'
  BY <1>2, <1>6 DEF PlacedAt, Counting, Working
<1>8. CorrectAt(s)'
  BY <1>6 DEF CorrectAt, Counting, Working
<1>9. \A t \in Shell : t # s =>
        /\ pc'[t] = pc[t] /\ fd'[t] = fd[t] /\ old'[t] = old[t]
        /\ cnt'[t] = cnt[t] /\ Table(t)' = Table(t)
  BY <1>2, <1>4 DEF table, Table
<1>10. tidy' \subseteq tidy
  OBVIOUS
<1> QED
  BY <1>2, <1>5, <1>7, <1>8, <1>9, <1>10, Quiet

LEMMA LoadKeeps ==
    ASSUME Inv, NEW s \in Shell, Load(s)
    PROVE  Inv'
<1> DEFINE f == fd[s]
           d == data[f]
<1>1. /\ pc[s] = "load" /\ UNCHANGED <<disk, fd, old, typed, tidy>>
      /\ Typed /\ f \in 1..files /\ f \in File /\ d \in Seq(Unit) /\ d # <<>>
      /\ TidyMarked /\ files <= files
  <2>1. pc[s] = "load"
    BY DEF Load
  <2> QED
    BY <2>1, Standing DEF Load, PlacedAt
<1>2. PICK near \in StartsOf(d), back \in StartsOf(d) :
        LET first == Read(near, f)
            keep == FirstKept(first.ind)
            again == Read([back EXCEPT !.cmds = first.cmds], f)
        IN  /\ SetTable(s, IF back = near THEN first ELSE again)
            /\ IF MustTrim(f, keep) THEN Goto(s, "unlink") ELSE Loaded(s)
  BY DEF Load, Starts, StartsOf
<1> DEFINE first == ReadTo(near, d, Len(d))
           start == [back EXCEPT !.cmds = first.cmds]
           again == ReadTo(start, d, Len(d))
           r == IF back = near THEN first ELSE again
<1>3. SetTable(s, r)
  BY <1>2 DEF Read
<1>4. pc'[s] \in {"unlink", "ready", "copy"} /\ pc' \in [Shell -> Label]
      /\ (pc'[s] = "copy" => old[s] # None)
      /\ \A t \in Shell : t # s => pc'[t] = pc[t]
  <2>1. pc \in [Shell -> Label] /\ {"unlink", "ready", "copy"} \subseteq Label
    BY <1>1 DEF Typed, Label
  <2>2. Goto(s, "unlink") \/ Goto(s, IF old[s] = None THEN "ready" ELSE "copy")
    BY <1>2 DEF Loaded
  <2> QED
    BY <2>1, <2>2 DEF Goto
<1>5. first \in Reader /\ first.cnt = Len(d)
  BY <1>1, StartTyped
<1>6. start \in Reader /\ start.cnt = back.cnt
  <2>1. first.cmds \in [Number -> Nat]
    BY <1>5 DEF Reader
  <2>2. back \in Reader
    BY <1>1, StartTyped
  <2> HIDE DEF first
  <2> QED
    BY <2>1, <2>2 DEF Reader
<1>7. again \in Reader /\ again.cnt = Len(d)
  <2>1. back.cnt \in 1..Len(d)
    BY <1>1, StartTyped
  <2>2. Len(d) \in Nat /\ start.cnt <= Len(d) /\ Len(d) <= Len(d)
    BY <1>1, <1>6, <2>1, LenProperties
  <2> HIDE DEF start, d
  <2> QED
    BY <1>1, <1>6, <2>2, ReadTyped
<1>8. r \in Reader /\ r.cnt = Len(d) /\ Len(d) \in 1..Len(d)
  <2> HIDE DEF first, again, d
  <2> QED
    BY <1>1, <1>5, <1>7, EndsTyped
<1>9. f \in tidy => Correct(r, d)
  <2> SUFFICES ASSUME f \in tidy PROVE Correct(r, d)
    OBVIOUS
  <2>1. Marked(d)
    BY <1>1 DEF TidyMarked
  <2> HIDE DEF d
  <2>2. Correct(first, d) /\ Correct(again, d)
    BY <1>1, <2>1, LoadRight
  <2> HIDE DEF first, again
  <2> QED
    BY <2>2
<1> HIDE DEF r
<1>10. /\ ind' \in [Shell -> Int] /\ cnt' \in [Shell -> Nat] /\ marker' \in [Shell -> Nat]
       /\ cmds' \in [Shell -> [Number -> Nat]]
       /\ Table(s)' = r /\ cnt'[s] = r.cnt
       /\ \A t \in Shell : t # s => Table(t)' = Table(t) /\ cnt'[t] = cnt[t]
  BY <1>1, <1>3, <1>8, TableSet
<1>11. /\ data' = data /\ files' = files /\ fd' = fd /\ old' = old /\ tidy' = tidy
       /\ fresh' = fresh /\ name' = name /\ typed' = typed
  BY <1>1 DEF disk
<1>12. Typed'
  BY <1>1, <1>4, <1>10, <1>11 DEF Typed
<1>13. PlacedAt(s)'
  <2>1. old[s] # None => old[s] \in Trim
    BY <1>1 DEF Typed
  <2>2. cnt'[s] \in 1..Len(data'[fd'[s]]) /\ fd'[s] \in 1..files' /\ data'[fd'[s]] # <<>>
    BY <1>1, <1>8, <1>10, <1>11
  <2> QED
    BY <1>4, <1>11, <2>1, <2>2 DEF PlacedAt
<1>14. CorrectAt(s)'
  BY <1>9, <1>10, <1>11 DEF CorrectAt
<1> QED
  BY <1>1, <1>4, <1>10, <1>11, <1>12, <1>13, <1>14, Quiet

LEMMA UnlinkKeeps ==
    ASSUME Inv, NEW s \in Shell, Unlink(s)
    PROVE  Inv'
<1> DEFINE o == [fd |-> fd[s], cmds |-> cmds[s], next |-> FirstKept(ind[s]), last |-> -1]
<1>1. /\ pc[s] = "unlink" /\ name' = None
      /\ old' = [old EXCEPT ![s] = o] /\ pc' = [pc EXCEPT ![s] = "reopen"]
      /\ UNCHANGED <<data, files, fresh, fd, table, typed, tidy>>
  BY DEF Unlink, Goto
<1>2. Typed /\ PlacedAt(s) /\ fd[s] \in 1..files /\ fd[s] \in File /\ files <= files
  BY <1>1, Standing
<1>3. pc' \in [Shell -> Label] /\ pc'[s] = "reopen"
      /\ \A t \in Shell : t # s => pc'[t] = pc[t] /\ old'[t] = old[t]
  BY <1>1, <1>2 DEF Typed, Label
<1>4. o \in Trim
  <2>1. ind[s] \in Int /\ cmds[s] \in [Number -> Nat]
    BY <1>2 DEF Typed
  <2>2. FirstKept(ind[s]) \in Int
    BY <2>1, HistoryAssumption DEF FirstKept
  <2> QED
    BY <1>2, <2>1, <2>2 DEF Trim
<1> HIDE DEF o
<1>5. old' \in [Shell -> Trim \cup {None}] /\ old'[s] \in Trim
  BY <1>1, <1>2, <1>4 DEF Typed
<1>6. Typed'
  BY <1>1, <1>2, <1>3, <1>5 DEF Typed, table
<1>7. PlacedAt(s)' /\ CorrectAt(s)'
  BY <1>1, <1>2, <1>3, <1>5 DEF PlacedAt, CorrectAt, Counting, Working
<1>8. \A t \in Shell : Table(t)' = Table(t) /\ cnt'[t] = cnt[t] /\ fd'[t] = fd[t]
  BY <1>1 DEF table, Table
<1> QED
  BY <1>1, <1>2, <1>3, <1>6, <1>7, <1>8, Quiet

LEMMA CopiedKeeps ==
    ASSUME Inv, NEW s \in Shell, Copied(s)
    PROVE  Inv'
<1>1. /\ pc[s] = "copy" /\ pc' = [pc EXCEPT ![s] = "cancel"]
      /\ UNCHANGED <<disk, fd, table, old, typed, tidy>>
  BY DEF Copied, Goto
<1>2. Typed /\ PlacedAt(s) /\ CorrectAt(s) /\ files <= files
  BY Standing
<1>3. pc' \in [Shell -> Label] /\ pc'[s] = "cancel"
      /\ \A t \in Shell : t # s => pc'[t] = pc[t]
  BY <1>1, <1>2 DEF Typed, Label
<1>4. Typed'
  BY <1>1, <1>2, <1>3 DEF Typed, table, disk
<1>5. Table(s)' = Table(s)
  BY <1>1 DEF table, Table
<1>6. PlacedAt(s)' /\ CorrectAt(s)'
  BY <1>1, <1>2, <1>3, <1>5 DEF PlacedAt, CorrectAt, Counting, disk, table
<1>7. \A t \in Shell :
        Table(t)' = Table(t) /\ cnt'[t] = cnt[t] /\ fd'[t] = fd[t] /\ old'[t] = old[t]
  BY <1>1 DEF table, Table
<1> QED
  BY <1>1, <1>2, <1>3, <1>4, <1>6, <1>7, Quiet DEF disk

LEMMA EofKeeps ==
    ASSUME Inv, NEW s \in Shell, Eof(s)
    PROVE  Inv'
<1> DEFINE f == fd[s]
           d == data[f]
           r == ReadTo(Table(s), d, Len(d))
<1>1. /\ pc[s] \in {"ready", "edit"} /\ SetTable(s, r)
      /\ UNCHANGED <<disk, fd, old, typed, tidy>>
  BY DEF Eof, Read
<1>2. /\ Typed /\ PlacedAt(s) /\ CorrectAt(s) /\ files <= files
      /\ f \in 1..files /\ f \in File /\ d \in Seq(Unit)
  BY <1>1, Standing
<1>3. pc' \in [Shell -> Label] /\ pc'[s] \in {"prompt", "again"}
      /\ \A t \in Shell : t # s => pc'[t] = pc[t]
  <2>1. pc' = [pc EXCEPT ![s] = IF pc[s] = "ready" THEN "prompt" ELSE "again"]
    BY DEF Eof, Goto
  <2> QED
    BY <1>2, <2>1 DEF Typed, Label
<1>4. Table(s) \in Reader /\ Table(s).cnt = cnt[s]
  BY <1>2, TableTyped
<1>5. cnt[s] \in 1..Len(d) /\ Len(d) \in Nat /\ d # <<>>
  <2>1. cnt[s] \in 1..Len(d) /\ Len(d) \in Nat
    BY <1>1, <1>2, LenProperties DEF PlacedAt, Counting, Working
  <2> QED
    BY <1>2, <2>1, EmptySeq
<1>6. r \in Reader /\ r.cnt = Len(d)
  <2>1. Table(s).cnt <= Len(d) /\ Len(d) <= Len(d)
    BY <1>4, <1>5
  <2> QED
    BY <1>2, <1>4, <1>5, <2>1, ReadTyped
<1>7. f \in tidy => Correct(r, d)
  <2> SUFFICES ASSUME f \in tidy PROVE Correct(r, d)
    OBVIOUS
  <2>1. Correct(Table(s), d)
    BY <1>1, <1>2 DEF CorrectAt, Counting, Working
  <2> QED
    BY <1>2, <1>4, <1>5, <2>1, EofRight
<1> HIDE DEF r
<1>8. /\ ind' \in [Shell -> Int] /\ cnt' \in [Shell -> Nat] /\ marker' \in [Shell -> Nat]
      /\ cmds' \in [Shell -> [Number -> Nat]]
      /\ Table(s)' = r /\ cnt'[s] = r.cnt
      /\ \A t \in Shell : t # s => Table(t)' = Table(t) /\ cnt'[t] = cnt[t]
  BY <1>1, <1>2, <1>6, TableSet
<1>9. /\ data' = data /\ files' = files /\ fd' = fd /\ old' = old /\ tidy' = tidy
      /\ fresh' = fresh /\ name' = name /\ typed' = typed
  BY <1>1 DEF disk
<1>10. Typed'
  BY <1>2, <1>3, <1>8, <1>9 DEF Typed
<1>11. PlacedAt(s)'
  <2>1. Len(d) \in 1..Len(d)
    BY <1>2, <1>5, EndsTyped
  <2>2. cnt'[s] \in 1..Len(data'[fd'[s]]) /\ fd'[s] \in 1..files'
    BY <1>2, <1>6, <1>8, <1>9, <2>1
  <2> QED
    BY <1>3, <2>2 DEF PlacedAt
<1>12. CorrectAt(s)'
  BY <1>7, <1>8, <1>9 DEF CorrectAt
<1> QED
  BY <1>2, <1>3, <1>8, <1>9, <1>10, <1>11, <1>12, Quiet

LEMMA TypeNothingKeeps ==
    ASSUME Inv, NEW s \in Shell, TypeNothing(s)
    PROVE  Inv'
<1> DEFINE f == fd[s]
           d == data[f]
<1>1. /\ pc[s] = "prompt" /\ cnt' = [cnt EXCEPT ![s] = Len(d)]
      /\ tidy' = IF TRUE /\ cnt[s] = Len(d) THEN tidy ELSE tidy \ {f}
      /\ pc' = [pc EXCEPT ![s] = "ready"]
      /\ UNCHANGED <<disk, fd, ind, marker, cmds, old, typed>>
  BY DEF TypeNothing, AtEnd, Goto, Tidy
<1>2. /\ Typed /\ PlacedAt(s) /\ CorrectAt(s) /\ files <= files
      /\ f \in 1..files /\ f \in File /\ d \in Seq(Unit)
  BY <1>1, Standing
<1>3. pc' \in [Shell -> Label] /\ pc'[s] = "ready" /\ \A t \in Shell : t # s => pc'[t] = pc[t]
  BY <1>1, <1>2 DEF Typed, Label
<1>4. cnt[s] \in 1..Len(d) /\ Len(d) \in Nat /\ Len(d) \in 1..Len(d)
  <2>1. cnt[s] \in 1..Len(d) /\ Len(d) \in Nat
    BY <1>1, <1>2, LenProperties DEF PlacedAt, Counting, Working
  <2> QED
    BY <2>1
<1> HIDE DEF d
<1>5. /\ cnt' \in [Shell -> Nat] /\ cnt'[s] = Len(d)
      /\ \A t \in Shell : t # s => cnt'[t] = cnt[t]
  BY <1>1, <1>2, <1>4 DEF Typed
<1>6. /\ data' = data /\ files' = files /\ fd' = fd /\ old' = old
      /\ fresh' = fresh /\ name' = name /\ typed' = typed
      /\ ind' = ind /\ marker' = marker /\ cmds' = cmds /\ tidy' \subseteq tidy
      /\ (f \in tidy' => cnt[s] = Len(d) /\ f \in tidy)
  BY <1>1 DEF disk
<1>7. Typed'
  BY <1>2, <1>3, <1>5, <1>6 DEF Typed
<1>8. PlacedAt(s)'
  <2>1. cnt'[s] \in 1..Len(data'[fd'[s]]) /\ fd'[s] \in 1..files'
    BY <1>2, <1>4, <1>5, <1>6 DEF d
  <2> QED
    BY <1>3, <2>1 DEF PlacedAt
<1>9. CorrectAt(s)'
  <2> SUFFICES ASSUME f \in tidy' PROVE Correct(Table(s)', d)
    BY <1>6 DEF CorrectAt, d
  <2>1. Table(s)' = Table(s)
    BY <1>5, <1>6 DEF Table
  <2>2. Correct(Table(s), d)
    BY <1>1, <1>2, <1>6 DEF CorrectAt, Counting, Working, d
  <2> QED
    BY <2>1, <2>2
<1>10. \A t \in Shell : t # s => Table(t)' = Table(t) /\ cnt'[t] = cnt[t]
  BY <1>5, <1>6 DEF Table
<1> QED
  BY <1>2, <1>3, <1>6, <1>7, <1>8, <1>9, <1>10, Quiet

LEMMA DoneKeeps ==
    ASSUME Inv, NEW s \in Shell, Done(s)
    PROVE  Inv'
<1>1. /\ pc[s] = "run" /\ UNCHANGED <<disk, fd, table, old, typed, tidy>>
      /\ \E next \in {"ready", "edit"} : pc' = [pc EXCEPT ![s] = next]
  BY DEF Done, Goto
<1>2. Typed /\ PlacedAt(s) /\ CorrectAt(s) /\ files <= files
  BY Standing
<1>3. pc' \in [Shell -> Label] /\ pc'[s] \in {"ready", "edit"}
      /\ \A t \in Shell : t # s => pc'[t] = pc[t]
  BY <1>1, <1>2 DEF Typed, Label
<1>4. Typed'
  BY <1>1, <1>2, <1>3 DEF Typed, table, disk
<1>5. Table(s)' = Table(s)
  BY <1>1 DEF table, Table
<1>6. PlacedAt(s)' /\ CorrectAt(s)'
  BY <1>1, <1>2, <1>3, <1>5 DEF PlacedAt, CorrectAt, Counting, Working, disk, table
<1>7. \A t \in Shell :
        Table(t)' = Table(t) /\ cnt'[t] = cnt[t] /\ fd'[t] = fd[t] /\ old'[t] = old[t]
  BY <1>1 DEF table, Table
<1> QED
  BY <1>1, <1>2, <1>3, <1>4, <1>6, <1>7, Quiet DEF disk

LEMMA ExitKeeps ==
    ASSUME Inv, NEW s \in Shell, Exit(s)
    PROVE  Inv'
<1>1. /\ pc' = [pc EXCEPT ![s] = "off"] /\ fd' = [fd EXCEPT ![s] = None]
      /\ SetTable(s, Begin) /\ old' = [old EXCEPT ![s] = None]
      /\ UNCHANGED <<disk, typed, tidy>>
  BY DEF Exit
<1>2. Typed /\ files <= files
  BY Standing
<1>3. /\ pc' \in [Shell -> Label] /\ pc'[s] = "off"
      /\ fd' \in [Shell -> 1..files \cup {None}] /\ old' \in [Shell -> Trim \cup {None}]
      /\ \A t \in Shell : t # s => pc'[t] = pc[t] /\ fd'[t] = fd[t] /\ old'[t] = old[t]
  BY <1>1, <1>2 DEF Typed, Label
<1>4. /\ ind' \in [Shell -> Int] /\ cnt' \in [Shell -> Nat] /\ marker' \in [Shell -> Nat]
      /\ cmds' \in [Shell -> [Number -> Nat]]
      /\ \A t \in Shell : t # s => Table(t)' = Table(t) /\ cnt'[t] = cnt[t]
  BY <1>1, <1>2, BeginTyped, TableSet
<1>5. Typed'
  BY <1>1, <1>2, <1>3, <1>4 DEF Typed, disk
<1>6. PlacedAt(s)' /\ CorrectAt(s)'
  BY <1>3 DEF PlacedAt, CorrectAt, Counting, Working
<1> QED
  BY <1>1, <1>2, <1>3, <1>4, <1>5, <1>6, Quiet DEF disk

\* A file that only becomes fresh or old.
LEMMA FreshKeeps ==
    ASSUME Inv, fresh' \subseteq File,
           UNCHANGED <<name, data, files, pc, fd, table, old, typed, tidy>>
    PROVE  Inv'
<1>1. Sound /\ Typed /\ TidyCorrect /\ TidyMarked /\ Placed
  BY DEF Inv, Sound
<1>2. Typed'
  BY <1>1 DEF Typed, table
<1>3. ASSUME NEW s \in Shell PROVE PlacedAt(s)' /\ CorrectAt(s)'
  <2>1. PlacedAt(s) /\ CorrectAt(s) /\ Table(s)' = Table(s) /\ cnt'[s] = cnt[s]
    BY <1>1 DEF Placed, TidyCorrect, table, Table
  <2> QED
    BY <2>1 DEF PlacedAt, CorrectAt
<1>4. Placed' /\ TidyCorrect' /\ TidyMarked' /\ \A f \in File : Formed(data'[f])
  BY <1>1, <1>3 DEF Placed, TidyCorrect, TidyMarked, Sound
<1> QED
  BY <1>2, <1>4 DEF Inv, Sound

-----------------------------------------------------------------------------
(***************************************************************************)
(* The steps that write.                                                   *)
(***************************************************************************)
LEMMA Least ==
    ASSUME NEW S \in SUBSET Nat, S # {}
    PROVE  Min(S) \in S /\ \A n \in S : Min(S) <= n
<1>1. PICK m \in S : \A k \in S : <<k, m>> \notin OpToRel(<, Nat)
  BY NatLessThanWellFounded, WFMin
<1>2. \A k \in S : ~(k < m)
  BY <1>1 DEF OpToRel
<1>3. \A k \in S : m <= k
  BY <1>2
<1> QED
  BY <1>1, <1>3 DEF Min

\* What hist_copy finds is a command or one unit that is none.
LEMMA LineFound ==
    ASSUME Typed, NEW o \in Trim, Formed(data[o.fd]), o.next \in Number, Line(o) # <<>>
    PROVE  /\ Line(o) \in Seq(Unit) /\ Formed(Line(o))
           /\ Line(o)[1][1] = "head" => Len(Line(o)) = 2 /\ Line(o)[2][1] = "tail"
<1> DEFINE d == data[o.fd]
           a == From(o)
           ends == {e \in (a + 1)..Len(d) : d[e][1] \notin {"head", "stamp"}}
           m == Min(ends)
           l == SubSeq(d, a + 1, m)
<1>1. d \in Seq(Unit) /\ Len(d) \in Nat
  <2>1. d \in Seq(Unit)
    BY DEF Typed, Trim
  <2> QED
    BY <2>1, LenProperties
<1>2. a \in Nat
  BY DEF From, Trim
<1>3. ends # {} /\ Line(o) = l
  <2>1. Line(o) = IF ends = {} THEN <<>> ELSE l
    BY DEF Line
  <2> HIDE DEF ends, l
  <2> QED
    BY <2>1
<1> HIDE DEF d, a
<1>4. m \in ends /\ \A n \in ends : m <= n
  <2>1. ends \in SUBSET Nat
    BY <1>1, <1>2
  <2> HIDE DEF ends
  <2> QED
    BY <1>3, <2>1, Least
<1> HIDE DEF m
<1>5. m \in Nat /\ a + 1 <= m /\ m <= Len(d) /\ d[m][1] # "head"
  BY <1>1, <1>2, <1>4
<1>6. /\ l \in Seq(Unit) /\ Len(l) = m - a /\ \A i \in 1..(m - a) : l[i] = d[a + i]
  <2>1. a + 1 \in Int /\ m \in Int /\ m - (a + 1) + 1 = m - a
    BY <1>2, <1>5
  <2>2. \A i \in (a + 1)..m : d[i] \in Unit
    <3> SUFFICES ASSUME NEW i \in (a + 1)..m PROVE d[i] \in Unit
      OBVIOUS
    <3>1. i \in 1..Len(d)
      BY <1>1, <1>2, <1>5
    <3> QED
      BY <1>1, <3>1, ElementOfSeq
  <2>3. /\ l \in Seq(Unit)
        /\ Len(l) = IF a + 1 <= m THEN m - (a + 1) + 1 ELSE 0
        /\ \A i \in 1..(m - (a + 1) + 1) : l[i] = d[(a + 1) + i - 1]
    <3> DEFINE k == a + 1
    <3>1. k \in Int /\ m \in Int /\ \A i \in k..m : d[i] \in Unit
      BY <2>1, <2>2
    <3> HIDE DEF k
    <3>2. /\ SubSeq(d, k, m) \in Seq(Unit)
          /\ Len(SubSeq(d, k, m)) = IF k <= m THEN m - k + 1 ELSE 0
          /\ \A i \in 1..(m - k + 1) : SubSeq(d, k, m)[i] = d[k + i - 1]
      BY <3>1, SubSeqProperties
    <3> QED
      BY <3>2 DEF k
  <2> HIDE DEF l
  <2>4. ASSUME NEW i \in 1..(m - a) PROVE l[i] = d[a + i]
    <3>1. i \in 1..(m - (a + 1) + 1) /\ (a + 1) + i - 1 = a + i
      BY <1>2, <1>5, <2>1
    <3>2. l[i] = d[(a + 1) + i - 1]
      BY <2>3, <3>1
    <3> QED
      BY <3>1, <3>2
  <2> QED
    BY <1>5, <2>1, <2>3, <2>4
<1> HIDE DEF l
<1>7. a + 1 \in (a + 1)..Len(d) /\ a + 1 \in 1..Len(d) /\ 1 \in 1..(m - a)
  BY <1>1, <1>2, <1>5
<1>8. l[1] = d[a + 1]
  BY <1>6, <1>7
<1>9. Formed(l)
  <2> SUFFICES ASSUME NEW i \in 1..Len(l), l[i][1] = "head"
               PROVE  i + 1 \in 1..Len(l) /\ l[i + 1][1] = "tail"
    BY DEF Formed
  <2>1. i \in 1..(m - a) /\ l[i] = d[a + i]
    BY <1>6
  <2>2. a + i \in 1..Len(d) /\ a + i # m
    BY <1>1, <1>2, <1>5, <2>1
  <2>3. d[(a + i) + 1][1] = "tail"
    BY <2>1, <2>2 DEF Formed, d
  <2>4. i + 1 \in 1..(m - a) /\ a + (i + 1) = (a + i) + 1
    BY <1>2, <1>5, <2>1, <2>2
  <2>5. l[i + 1] = d[a + (i + 1)]
    BY <1>6, <2>4
  <2> QED
    BY <1>6, <2>3, <2>4, <2>5
<1>10. CASE d[a + 1][1] = "head"
  <2>1. (a + 1) + 1 \in 1..Len(d) /\ d[(a + 1) + 1][1] = "tail"
    BY <1>7, <1>10 DEF Formed, d
  <2>2. (a + 1) + 1 = a + 2
    BY <1>2
  <2>3. a + 2 \in ends
    BY <1>1, <1>2, <2>1, <2>2
  <2>4. m <= a + 2 /\ m # a + 1
    BY <1>4, <1>5, <1>10, <2>3
  <2>5. m = a + 2 /\ m - a = 2
    BY <1>2, <1>5, <2>4
  <2>6. Len(l) = 2 /\ l[2] = d[a + 2]
    BY <1>6, <2>5
  <2>7. l[2][1] = "tail"
    BY <2>1, <2>2, <2>6
  <2> QED
    BY <1>3, <1>6, <1>9, <2>6, <2>7
<1>11. CASE d[a + 1][1] # "head"
  <2>1. l[1][1] # "head"
    BY <1>8, <1>11
  <2> QED
    BY <1>3, <1>6, <1>9, <2>1
<1> QED
  BY <1>10, <1>11

LEMMA CommandTyped ==
    ASSUME NEW c \in Int
    PROVE  /\ Command(c) \in Seq(Unit) /\ Command(c) # <<>> /\ Formed(Command(c))
           /\ Len(Command(c)) = 2 /\ Command(c)[1][1] = "head" /\ Command(c)[2][1] = "tail"
<1> DEFINE u == Command(c)
<1>1. /\ u \in Seq(Unit) /\ u # <<>> /\ Len(u) = 2
      /\ u[1][1] = "head" /\ u[2][1] = "tail"
  BY DEF Command, Unit
<1> HIDE DEF u
<1>2. ASSUME NEW o \in 1..Len(u), u[o][1] = "head"
      PROVE  o + 1 \in 1..Len(u) /\ u[o + 1][1] = "tail"
  <2>1. o = 1
    BY <1>1, <1>2
  <2> QED
    BY <1>1, <2>1
<1>3. Formed(u)
  BY <1>2 DEF Formed
<1> QED
  BY <1>1, <1>3 DEF u

LEMMA StampKeeps ==
    ASSUME Inv, NEW s \in Shell, WriteStamp(s)
    PROVE  Inv'
<1> DEFINE f == fd[s]
           d == data[f]
           u == <<Stamp>>
<1>1. /\ pc[s] = "stamp" /\ Extend(f, u) /\ Freshen(s, f) /\ SetTable(s, Begin)
      /\ pc' = [pc EXCEPT ![s] = IF old[s] = None THEN "ready" ELSE "copy"]
      /\ UNCHANGED <<name, files, fd, old, typed, tidy>>
  BY DEF WriteStamp, Loaded, Goto
<1>2. Typed /\ TidyMarked /\ f \in File /\ d \in Seq(Unit) /\ pc[s] # "off"
  BY <1>1, Standing
<1>3. /\ pc' \in [Shell -> Label] /\ pc'[s] \in Counting
      /\ pc'[s] = "copy" => old[s] # None
      /\ \A t \in Shell : t # s => pc'[t] = pc[t] /\ old'[t] = old[t]
  BY <1>1, <1>2 DEF Typed, Label, Counting, Working
<1>4. old' \in [Shell -> Trim \cup {None}] /\ (pc'[s] = "copy" => old'[s] \in Trim)
  BY <1>1, <1>2, <1>3 DEF Typed
<1>5. u \in Seq(Unit) /\ Len(u) = 1 /\ u[1][1] = "stamp" /\ Formed(u)
  BY DEF Unit, Stamp, Formed
<1> HIDE DEF u
<1>6. 1 \in 1..Len(d \o u) /\ Begin.cnt = 1 /\ Begin \in Reader
  <2> DEFINE e == d \o u
  <2>1. Len(e) = Len(d) + Len(u) /\ Len(d) \in Nat
    BY <1>2, <1>5, Appended
  <2> HIDE DEF e
  <2>2. 1 \in 1..Len(e)
    BY <1>5, <2>1
  <2> QED
    BY <2>2, BeginTyped DEF e
<1>7. Correct(Begin, d \o u)
  <2>1. ReadTo(Begin, d \o u, 1) = Begin
    BY <1>6, ReadStart
  <2> QED
    BY <1>6, <2>1 DEF Correct, Agree
<1>8. f \in tidy => Marked(d \o u)
  <2> SUFFICES ASSUME f \in tidy PROVE Marked(d \o u)
    OBVIOUS
  <2>1. Marked(d)
    BY <1>2 DEF TidyMarked
  <2>2. \A o \in 1..Len(u) : u[o][1] # "marker"
    BY <1>5
  <2> QED
    BY <1>2, <1>5, <2>1, <2>2, NoMarker
<1>9. typed' \in 0..MaxCommand /\ tidy' \subseteq tidy
  BY <1>1, <1>2 DEF Typed
<1>10. fd[s] \in tidy' => Correct(Begin, data[fd[s]] \o u) /\ Marked(data[fd[s]] \o u)
  BY <1>1, <1>7, <1>8
<1>11. Begin.cnt \in 1..Len(data[fd[s]] \o u)
  BY <1>6
<1> HIDE DEF d, f
<1> QED
  BY <1>1, <1>2, <1>3, <1>4, <1>5, <1>6, <1>9, <1>10, <1>11, Writes DEF f

LEMMA CopyKeeps ==
    ASSUME Inv, NEW s \in Shell, Copy(s)
    PROVE  Inv'
<1> DEFINE u == Line(old[s])
           clean == u[1][1] = "head"
<1>1. /\ pc[s] = "copy" /\ Copying(old[s])
      /\ Count(s, ind[s] + 1, cnt[s], u) /\ Tidy(s, clean)
      /\ old' = [old EXCEPT ![s].next = @ + 1, ![s].last = From(old[s])]
      /\ UNCHANGED <<name, files, pc, fd, typed>>
  BY DEF Copy
<1>2. Typed /\ old[s] \in Trim /\ \A f \in File : Formed(data[f])
  BY <1>1, Standing DEF PlacedAt, Inv, Sound
<1>3. old[s].next \in Number /\ u # <<>>
  BY <1>1 DEF Copying
<1>4. u \in Seq(Unit) /\ Formed(u) /\ (clean => Len(u) = 2 /\ u[2][1] = "tail")
  <2>1. Formed(data[old[s].fd])
    BY <1>2 DEF Trim
  <2> QED
    BY <1>2, <1>3, <2>1, LineFound
<1>5. /\ old' \in [Shell -> Trim \cup {None}] /\ old'[s] \in Trim
      /\ \A t \in Shell : t # s => old'[t] = old[t]
  <2> DEFINE o == [old[s] EXCEPT !.next = old[s].next + 1, !.last = From(old[s])]
  <2>1. old \in [Shell -> Trim \cup {None}]
    BY <1>2 DEF Typed
  <2>2. old' = [old EXCEPT ![s] = o]
    BY <1>1, <2>1
  <2>3. From(old[s]) \in Int /\ old[s].next + 1 \in Int
    BY <1>2, <1>3 DEF From, Trim
  <2>4. o \in Trim
    BY <1>2, <2>3 DEF Trim
  <2> HIDE DEF o
  <2> QED
    BY <2>1, <2>2, <2>4
<1>6. clean \in BOOLEAN /\ cnt[s] \in {cnt[s], Len(data[fd[s]])}
  OBVIOUS
<1>7. /\ pc' \in [Shell -> Label] /\ pc'[s] = "copy" /\ typed' \in 0..MaxCommand
      /\ \A t \in Shell : t # s => pc'[t] = pc[t]
  BY <1>1, <1>2 DEF Typed
<1>8. pc[s] \in Counting /\ pc'[s] \in Counting
  BY <1>1, <1>7 DEF Counting
<1>9. clean => Len(u) = 2 /\ u[1][1] = "head" /\ u[2][1] = "tail"
  BY <1>4
<1>10. UNCHANGED <<name, files, fd>>
  BY <1>1
<1> HIDE DEF u, clean
<1> QED
  BY <1>1, <1>3, <1>4, <1>5, <1>6, <1>7, <1>8, <1>9, <1>10, CountKeeps

LEMMA TrimCancelKeeps ==
    ASSUME Inv, NEW s \in Shell, TrimCancel(s)
    PROVE  Inv'
<1>1. /\ pc[s] = "cancel" /\ Cancelled(s) /\ old' = [old EXCEPT ![s] = None]
      /\ pc' = [pc EXCEPT ![s] = "ready"] /\ UNCHANGED <<fd, typed>>
  BY DEF TrimCancel, Goto
<1>2. Typed
  BY Standing
<1>3. /\ pc' \in [Shell -> Label] /\ pc'[s] = "ready" /\ old' \in [Shell -> Trim \cup {None}]
      /\ \A t \in Shell : t # s => pc'[t] = pc[t] /\ old'[t] = old[t]
  BY <1>1, <1>2 DEF Typed, Label
<1>4. pc[s] \in Counting /\ pc'[s] \in Counting \ {"copy"}
  BY <1>1, <1>3 DEF Counting, Working
<1> QED
  BY <1>1, <1>3, <1>4, CancelledKeeps

LEMMA FcKeeps ==
    ASSUME Inv, NEW s \in Shell, Fc(s)
    PROVE  Inv'
<1>1. /\ pc[s] = "again" /\ Cancelled(s) /\ UNCHANGED <<fd, old, typed>>
      /\ pc' = [pc EXCEPT ![s] = "prompt"]
  BY DEF Fc, Goto
<1>2. Typed
  BY Standing
<1>3. /\ pc' \in [Shell -> Label] /\ pc'[s] = "prompt" /\ old' \in [Shell -> Trim \cup {None}]
      /\ \A t \in Shell : t # s => pc'[t] = pc[t] /\ old'[t] = old[t]
  BY <1>1, <1>2 DEF Typed, Label
<1>4. pc[s] \in Counting /\ pc'[s] \in Counting \ {"copy"}
  BY <1>1, <1>3 DEF Counting, Working
<1> QED
  BY <1>1, <1>3, <1>4, CancelledKeeps

LEMMA TypeKeeps ==
    ASSUME Inv, NEW s \in Shell, Type(s)
    PROVE  Inv'
<1> DEFINE u == Command(typed + 1)
<1>1. /\ pc[s] = "prompt" /\ typed < MaxCommand /\ typed' = typed + 1
      /\ Count(s, ind[s] + 1, Len(data[fd[s]]), u) /\ Tidy(s, TRUE)
      /\ pc' = [pc EXCEPT ![s] = "run"] /\ UNCHANGED <<name, files, fd, old>>
  BY DEF Type, Written, AtEnd, Goto
<1>2. Typed
  BY Standing
<1>3. /\ pc' \in [Shell -> Label] /\ pc'[s] = "run" /\ old' \in [Shell -> Trim \cup {None}]
      /\ \A t \in Shell : t # s => pc'[t] = pc[t] /\ old'[t] = old[t]
  BY <1>1, <1>2 DEF Typed, Label
<1>4. typed + 1 \in Int /\ typed' \in 0..MaxCommand
  BY <1>1, <1>2, HistoryAssumption DEF Typed
<1>5. /\ u \in Seq(Unit) /\ u # <<>> /\ Formed(u)
      /\ Len(u) = 2 /\ u[1][1] = "head" /\ u[2][1] = "tail"
  BY <1>4, CommandTyped
<1>6. pc[s] \in Counting /\ pc'[s] \in Counting /\ pc'[s] # "copy"
  BY <1>1, <1>3 DEF Counting, Working
<1>7. TRUE \in BOOLEAN /\ Len(data[fd[s]]) \in {cnt[s], Len(data[fd[s]])}
  OBVIOUS
<1>8. UNCHANGED <<name, files, fd>>
  BY <1>1
<1> HIDE DEF u
<1> QED
  BY <1>1, <1>3, <1>4, <1>5, <1>6, <1>7, <1>8, CountKeeps

-----------------------------------------------------------------------------
LEMMA InitInv == Init => Inv
<1> SUFFICES ASSUME Init PROVE Inv
  OBVIOUS
<1>1. /\ name = 1 /\ files = 1 /\ fresh = {} /\ typed = 0 /\ tidy = File
      /\ data = [f \in File |-> IF f = 1 THEN <<Stamp>> ELSE <<>>]
      /\ pc = [s \in Shell |-> "off"] /\ fd = [s \in Shell |-> None]
      /\ ind = [s \in Shell |-> 1] /\ cnt = [s \in Shell |-> 1]
      /\ marker = [s \in Shell |-> 1] /\ cmds = [s \in Shell |-> FirstTable]
      /\ old = [s \in Shell |-> None]
  BY DEF Init
<1>2. FirstTable \in [Number -> Nat]
  BY BeginTyped DEF Reader
<1>3. ASSUME NEW f \in File
      PROVE  data[f] \in Seq(Unit) /\ \A o \in 1..Len(data[f]) : data[f][o] = Stamp
  <2>1. Stamp \in Unit
    BY DEF Unit, Stamp
  <2>2. data[f] = <<Stamp>> \/ data[f] = <<>>
    BY <1>1
  <2>3. ASSUME NEW c \in Unit
        PROVE  <<c>> \in Seq(Unit) /\ \A o \in 1..Len(<<c>>) : <<c>>[o] = c
    OBVIOUS
  <2>4. <<>> \in Seq(Unit) /\ \A o \in 1..Len(<<>>) : FALSE
    BY EmptySeq
  <2>5. CASE data[f] = <<Stamp>>
    BY <2>1, <2>3, <2>5
  <2>6. CASE data[f] = <<>>
    BY <2>4, <2>6
  <2> QED
    BY <2>2, <2>5, <2>6
<1>4. Typed
  <2>1. 1 \in File /\ 0 \in 0..MaxCommand /\ data \in [File -> Seq(Unit)]
    BY <1>1, <1>3, HistoryAssumption DEF File
  <2> QED
    BY <1>1, <1>2, <2>1 DEF Typed, Label
<1>5. Placed /\ TidyCorrect
  BY <1>1 DEF Placed, PlacedAt, TidyCorrect, CorrectAt, Counting, Working
<1>6. Stamp[1] = "stamp"
  BY DEF Stamp
<1>7. \A f \in File : Formed(data[f]) /\ Marked(data[f])
  BY <1>3, <1>6 DEF Formed, Marked
<1> QED
  BY <1>1, <1>4, <1>5, <1>7 DEF Inv, Sound, TidyMarked

LEMMA NextInv == Inv /\ [Next]_vars => Inv'
<1> SUFFICES ASSUME Inv, [Next]_vars PROVE Inv'
  OBVIOUS
<1>1. ASSUME NEW s \in Shell, Open(s) PROVE Inv'
  BY <1>1, OpenKeeps DEF Open
<1>2. ASSUME NEW s \in Shell, Reopen(s) PROVE Inv'
  BY <1>2, OpenKeeps DEF Reopen
<1>3. ASSUME NEW s \in Shell, Touch(s) PROVE Inv'
  <2>1. name \in File /\ fresh \subseteq File
    BY <1>3, Standing DEF Touch, Typed
  <2> QED
    BY <1>3, <2>1, FreshKeeps DEF Touch, Freshen
<1>4. ASSUME NEW f \in File, Age(f) PROVE Inv'
  <2>1. fresh \subseteq File
    BY DEF Inv, Sound, Typed
  <2> QED
    BY <1>4, <2>1, FreshKeeps DEF Age
<1>5. CASE UNCHANGED vars
  <2>1. UNCHANGED <<name, data, files, pc, fd, table, old, typed, tidy>> /\ fresh' = fresh
    BY <1>5 DEF vars, disk
  <2>2. fresh \subseteq File
    BY DEF Inv, Sound, Typed
  <2> QED
    BY <2>1, <2>2, FreshKeeps
<1> QED
  BY <1>1, <1>2, <1>3, <1>4, <1>5, LoadKeeps, StampKeeps, UnlinkKeeps, CopyKeeps,
     CopiedKeeps, TrimCancelKeeps, EofKeeps, TypeKeeps, TypeNothingKeeps, DoneKeeps,
     FcKeeps, ExitKeeps DEF Next

\* Types and places, and that every shell at a tidy file agrees with a reader of
\* all of it, at every step of the start, of hist_trim and of hist_flush.
THEOREM InvCorrect == Spec => []Inv
BY InitInv, NextInv, PTL DEF Spec

\* In every file that only readers of all of it have written to, each marker
\* holds the number that a reader of the whole file has there: hist_nearend
\* may start behind any of them.
THEOREM MarkersCorrect == Spec => []MarkersTrue
<1>1. ASSUME Inv PROVE MarkersTrue
  <2> SUFFICES ASSUME NEW f \in tidy, NEW o \in DOMAIN data[f], data[f][o][1] = "marker"
               PROVE  data[f][o][2] = Whole(f, o).ind
    BY DEF MarkersTrue
  <2>1. Marked(data[f]) /\ data[f] \in Seq(Unit)
    BY <1>1 DEF Inv, Sound, Typed, TidyMarked
  <2>2. o \in 1..Len(data[f])
    BY <2>1, LenProperties
  <2> QED
    BY <2>1, <2>2 DEF Marked, Whole
<1> QED
  BY <1>1, InvCorrect, PTL

\* A shell at such a file has the number of a reader of the whole file, and
\* every command it finds by its table stands where that reader has it: what
\* fc, ! and the prompt say of a number is the same in all shells.
THEOREM StepCorrect == Spec => []InStep
<1>1. ASSUME Inv PROVE InStep
  <2> SUFFICES ASSUME NEW s \in Shell, pc[s] \in Working, fd[s] \in tidy
               PROVE  /\ ind[s] = Whole(fd[s], cnt[s]).ind
                      /\ \A n \in Number :
                           n \in FirstKept(ind[s])..ind[s] /\ cmds[s][n] # FirstTable[n] =>
                             cmds[s][n] = Whole(fd[s], cnt[s]).cmds[n]
    BY DEF InStep
  <2>1. Typed /\ Correct(Table(s), data[fd[s]])
    BY <1>1, Standing DEF CorrectAt, Counting
  <2>2. Table(s).ind = ind[s] /\ Table(s).cnt = cnt[s] /\ Table(s).cmds = cmds[s]
    BY <2>1, TableTyped
  <2>3. Agree(Table(s), Whole(fd[s], cnt[s]), Whole(fd[s], cnt[s]).cmds)
    BY <2>1, <2>2 DEF Correct, Whole
  <2> QED
    BY <2>2, <2>3 DEF Agree
<1> QED
  BY <1>1, InvCorrect, PTL

-----------------------------------------------------------------------------
(***************************************************************************)
(* Attached, as long as no two shells start up at once: the file with the  *)
(* name stays fresh once it has changed in the time of a shell that runs,  *)
(* so that who finds it old and trims it finds at work on it only shells   *)
(* that have not seen it change; and nobody joins before it has gone.      *)
(***************************************************************************)
Alone == \A s, t \in Shell : pc[s] \in Initialising /\ pc[t] \in Initialising => s = t
Empty == \A f \in File : f > files => data[f] = <<>>
AtName(s) ==
    /\ pc[s] \in Initialising \ {"reopen"} => fd[s] = name
    /\ pc[s] = "reopen" => name = None
    /\ pc[s] \in {"off", "load"} => old[s] = None
    /\ pc[s] \in Working /\ s \notin late => fd[s] = name
Apart(s) ==
    pc[s] = "unlink" => \A t \in Shell : pc[t] \in Working => fd[t] # fd[s] \/ t \in late
Kept ==
    /\ seen \in [Shell -> SUBSET File]
    /\ name # None => \A s \in Shell : name \in seen[s] => name \in fresh

Joined == Alone /\ Empty /\ Kept /\ \A s \in Shell : AtName(s) /\ Apart(s)

\* The others are where they were, as long as the name stays.
LEMMA OtherAtName ==
    ASSUME Joined, NEW t \in Shell,
           pc'[t] = pc[t], fd'[t] = fd[t], old'[t] = old[t],
           name' = name, t \in late => t \in late'
    PROVE  AtName(t)'
BY DEF Joined, AtName

LEMMA JoinedKept ==
    ASSUME Inv, Joined, NEW s \in Shell, UNCHANGED <<name, files>>, Kept',
           \A f \in File : f > files => data'[f] = data[f],
           \A t \in Shell : t # s => /\ pc'[t] = pc[t] /\ fd'[t] = fd[t] /\ old'[t] = old[t]
                                     /\ t \in late => t \in late',
           pc'[s] \in Initialising => pc[s] \in Initialising,
           pc'[s] \in Working => /\ pc[s] # "off" /\ fd'[s] = fd[s]
                                 /\ s \in late => s \in late',
           AtName(s)', Apart(s)'
    PROVE  Joined'
<1>1. Alone /\ Empty /\ \A t \in Shell : AtName(t) /\ Apart(t) /\ pc[t] \in Label
  BY DEF Joined, Inv, Sound, Typed
<1>2. Alone'
  BY <1>1 DEF Alone
<1>3. Empty'
  BY <1>1 DEF Empty
<1>4. ASSUME NEW t \in Shell PROVE AtName(t)'
  BY OtherAtName
<1>5. ASSUME NEW t \in Shell PROVE Apart(t)'
  <2>1. CASE t = s
    BY <2>1
  <2>2. CASE t # s
    <3> SUFFICES ASSUME pc'[t] = "unlink", NEW q \in Shell, pc'[q] \in Working
                 PROVE  fd'[q] # fd'[t] \/ q \in late'
      BY DEF Apart
    <3>1. pc[t] = "unlink" /\ fd'[t] = fd[t]
      BY <2>2
    <3>2. pc[q] \in Working /\ fd'[q] = fd[q] /\ (q \in late => q \in late')
      <4>1. CASE q # s
        BY <4>1
      <4>2. CASE q = s
        <5>1. /\ pc[q] # "off" /\ fd'[q] = fd[q] /\ pc[q] \in Label
              /\ q \in late => q \in late'
          BY <1>1, <4>2
        <5>2. pc[q] \notin Initialising
          BY <1>1, <2>2, <3>1, <4>2 DEF Alone, Initialising
        <5> QED
          BY <5>1, <5>2 DEF Label, Initialising, Working
      <4> QED
        BY <4>1, <4>2
    <3> QED
      BY <1>1, <3>1, <3>2 DEF Apart
  <2> QED
    BY <2>1, <2>2
<1> QED
  BY <1>2, <1>3, <1>4, <1>5 DEF Joined

\* A file that is written to or touched is fresh for all to see.
LEMMA KeptFresh ==
    ASSUME Kept, NEW s \in Shell, NEW f \in File, Freshen(s, f), name' = name
    PROVE  Kept'
<1>1. /\ fresh' = fresh \cup {f}
      /\ seen' = [t \in Shell |-> IF t = s \/ pc[t] # "off" THEN seen[t] \cup {f} ELSE seen[t]]
  BY DEF Freshen
<1>2. seen' \in [Shell -> SUBSET File]
  BY <1>1 DEF Kept
<1>3. \A t \in Shell : seen'[t] \subseteq seen[t] \cup {f}
  BY <1>1
<1> QED
  BY <1>1, <1>2, <1>3 DEF Kept

\* A write to a file that is open.
LEMMA WriteFresh ==
    ASSUME Inv, NEW s \in Shell, pc[s] # "off", NEW u, Extend(fd[s], u)
    PROVE  \A f \in File : f > files => data'[f] = data[f]
<1>1. fd[s] \in 1..files /\ files \in Nat /\ data \in [File -> Seq(Unit)]
  BY Standing DEF Typed
<1>2. data' = [data EXCEPT ![fd[s]] = @ \o u]
  BY DEF Extend
<1>3. ASSUME NEW f \in File, f > files PROVE data'[f] = data[f]
  <2>1. f # fd[s]
    BY <1>1, <1>3 DEF File
  <2> QED
    BY <1>1, <1>2, <2>1
<1> QED
  BY <1>3

\* Who writes to the file with the name keeps it.
LEMMA WriterAtName ==
    ASSUME Joined, NEW s \in Shell, UNCHANGED <<name, fd, late>>,
           pc[s] \in Counting \cup {"stamp"}, pc'[s] \in Counting,
           pc[s] \in Working => pc'[s] \in Working
    PROVE  AtName(s)' /\ Apart(s)'
<1>1. AtName(s)
  BY DEF Joined
<1>2. pc[s] \in {"stamp", "copy", "cancel"} => fd[s] = name
  BY <1>1 DEF AtName, Initialising
<1>3. pc[s] \in Working \/ pc[s] \in {"stamp", "copy", "cancel"}
  BY DEF Counting
<1>4. pc[s] \in Working /\ s \notin late => fd[s] = name
  BY <1>1 DEF AtName
<1>5. pc'[s] \in Working \/ pc'[s] \in {"copy", "cancel"}
  BY DEF Counting
<1>6. CASE pc'[s] \in Working
  BY <1>2, <1>3, <1>4, <1>6 DEF AtName, Apart, Working, Initialising
<1>7. CASE pc'[s] \in {"copy", "cancel"}
  <2>1. fd[s] = name
    BY <1>2, <1>3, <1>7 DEF Working
  <2> QED
    BY <1>7, <2>1 DEF AtName, Apart, Working, Initialising
<1> QED
  BY <1>5, <1>6, <1>7

LEMMA JoinedLoad ==
    ASSUME Inv, Joined, NEW s \in Shell, Load(s)
    PROVE  Joined'
<1> DEFINE f == fd[s]
           found == late \cup {t \in Shell : /\ pc[t] \in Working
                                           /\ fd[t] = f /\ f \notin seen[t]}
<1>1. /\ pc[s] = "load" /\ UNCHANGED <<name, data, files, fresh, fd, old, seen>>
      /\ pc \in [Shell -> Label] /\ f \in File
  <2>1. pc[s] = "load"
    BY DEF Load
  <2> QED
    BY <2>1, Standing DEF Load, disk, Typed
<1>2. f = name /\ old[s] = None /\ name # None /\ Kept
  BY <1>1, HistoryAssumption DEF Joined, AtName, Initialising, File
<1>3. \/ f \notin fresh /\ Goto(s, "unlink") /\ late' = found
      \/ Goto(s, "ready") /\ late' = late
  BY <1>2 DEF Load, Loaded, MustTrim, Old
<1>4. pc'[s] \in {"unlink", "ready"} /\ \A t \in Shell : t # s => pc'[t] = pc[t]
  BY <1>1, <1>3 DEF Goto
<1>5. late \subseteq late'
  BY <1>3
<1>6. AtName(s)'
  BY <1>1, <1>2, <1>4 DEF AtName, Working, Initialising
<1>7. Apart(s)'
  <2> SUFFICES ASSUME pc'[s] = "unlink", NEW t \in Shell, pc'[t] \in Working, fd[t] = f
               PROVE  t \in late'
    BY <1>1 DEF Apart
  <2>1. f \notin fresh /\ late' = found
    BY <1>1, <1>3 DEF Goto
  <2>2. t # s /\ pc[t] \in Working
    <3>1. t # s
      BY DEF Working
    <3> QED
      BY <1>4, <3>1
  <2>3. f \notin seen[t]
    BY <1>2, <2>1 DEF Kept
  <2> QED
    BY <2>1, <2>2, <2>3
<1>8. pc[s] \in Initialising
  BY <1>1 DEF Initialising
<1>9. Kept'
  BY <1>1 DEF Joined, Kept
<1> QED
  BY <1>1, <1>4, <1>5, <1>6, <1>7, <1>8, <1>9, JoinedKept

LEMMA JoinedWrite ==
    ASSUME Inv, Joined, NEW s \in Shell,
           WriteStamp(s) \/ Copy(s) \/ TrimCancel(s) \/ Type(s) \/ Fc(s)
    PROVE  Joined'
<1>1. /\ pc[s] \in Counting \cup {"stamp"} /\ pc'[s] \in Counting
      /\ pc[s] \in Working => pc'[s] \in Working
      /\ pc'[s] \in Initialising => pc[s] \in Initialising
      /\ \A t \in Shell : t # s => pc'[t] = pc[t]
  <2> pc \in [Shell -> Label]
    BY DEF Inv, Sound, Typed
  <2>1. CASE WriteStamp(s)
    BY <2>1 DEF WriteStamp, Loaded, Goto, Counting, Working, Initialising
  <2>2. CASE Copy(s)
    BY <2>2 DEF Copy, Counting, Working, Initialising
  <2>3. CASE TrimCancel(s)
    BY <2>3 DEF TrimCancel, Goto, Counting, Working, Initialising
  <2>4. CASE Type(s)
    BY <2>4 DEF Type, Goto, Counting, Working, Initialising
  <2>5. CASE Fc(s)
    BY <2>5 DEF Fc, Goto, Counting, Working, Initialising
  <2> QED
    BY <2>1, <2>2, <2>3, <2>4, <2>5
<1>2. UNCHANGED <<name, files, fd, late>> /\ Freshen(s, fd[s])
  BY DEF WriteStamp, Copy, TrimCancel, Type, Written, Fc, Cancelled, Count
<1>3. \A t \in Shell : t # s => old'[t] = old[t]
  <2> old \in [Shell -> Trim \cup {None}]
    BY DEF Inv, Sound, Typed
  <2> QED
    BY DEF WriteStamp, Copy, TrimCancel, Type, Fc
<1>4. \E u : Extend(fd[s], u)
  BY DEF WriteStamp, Copy, TrimCancel, Type, Written, Fc, Cancelled, Count
<1>5. pc[s] # "off" /\ fd'[s] = fd[s]
  BY <1>1, <1>2 DEF Counting, Working
<1>6. \A f \in File : f > files => data'[f] = data[f]
  BY <1>4, <1>5, WriteFresh
<1>7. AtName(s)' /\ Apart(s)'
  BY <1>1, <1>2, WriterAtName
<1>8. Kept'
  <2>1. fd[s] \in File /\ Kept
    BY <1>5, Standing DEF Joined
  <2> QED
    BY <1>2, <2>1, KeptFresh
<1> QED
  BY <1>1, <1>2, <1>3, <1>5, <1>6, <1>7, <1>8, JoinedKept

\* A shell that goes on with the files as they are, or ends.
LEMMA JoinedQuiet ==
    ASSUME Inv, Joined, NEW s \in Shell,
           Copied(s) \/ Eof(s) \/ TypeNothing(s) \/ Done(s) \/ Exit(s)
    PROVE  Joined'
<1>1. pc \in [Shell -> Label] /\ fd \in [Shell -> 1..files \cup {None}]
      /\ old \in [Shell -> Trim \cup {None}] /\ AtName(s)
  BY DEF Inv, Sound, Typed, Joined
<1>2. /\ UNCHANGED disk
      /\ \A t \in Shell : t # s => /\ pc'[t] = pc[t] /\ fd'[t] = fd[t] /\ old'[t] = old[t]
                                   /\ t \in late => t \in late'
      /\ UNCHANGED ages \/ seen' = [seen EXCEPT ![s] = {}]
  BY <1>1 DEF Copied, Eof, TypeNothing, Done, Exit, Goto, ages
<1>3. \/ pc[s] = "copy" /\ pc'[s] = "cancel" /\ fd'[s] = fd[s]
      \/ pc[s] \in Working /\ pc'[s] \in Working /\ fd'[s] = fd[s] /\ late' = late
      \/ pc'[s] = "off" /\ old'[s] = None
  <2>1. CASE Copied(s)
    BY <1>1, <2>1 DEF Copied, Goto
  <2>2. CASE Eof(s)
    BY <1>1, <2>2 DEF Eof, Goto, Working, ages
  <2>3. CASE TypeNothing(s)
    BY <1>1, <2>3 DEF TypeNothing, Goto, Working, ages
  <2>4. CASE Done(s)
    BY <1>1, <2>4 DEF Done, Goto, Working, ages
  <2>5. CASE Exit(s)
    BY <1>1, <2>5 DEF Exit
  <2> QED
    BY <2>1, <2>2, <2>3, <2>4, <2>5
<1>4. /\ data' = data /\ files' = files /\ fresh' = fresh /\ name' = name
      /\ \A f \in File : data'[f] = data[f]
  BY <1>2 DEF disk
<1>5. Kept'
  BY <1>2, <1>4 DEF Joined, Kept, ages
<1>6. AtName(s)' /\ Apart(s)'
  BY <1>1, <1>3, <1>4 DEF AtName, Apart, Working, Initialising
<1>7. /\ pc'[s] \in Initialising => pc[s] \in Initialising
      /\ pc'[s] \in Working => pc[s] # "off" /\ fd'[s] = fd[s] /\ (s \in late => s \in late')
  BY <1>3 DEF Working, Initialising
<1> QED
  BY <1>2, <1>4, <1>5, <1>6, <1>7, JoinedKept

LEMMA JoinedUnlink ==
    ASSUME Inv, Joined, NEW s \in Shell, Unlink(s)
    PROVE  Joined'
<1>1. /\ pc[s] = "unlink" /\ name' = None /\ pc' = [pc EXCEPT ![s] = "reopen"]
      /\ UNCHANGED <<data, files, fresh, fd, seen, late>>
      /\ \A t \in Shell : t # s => old'[t] = old[t]
  BY DEF Unlink, Goto, Inv, Sound, Typed, ages
<1>2. /\ pc \in [Shell -> Label] /\ Alone /\ Empty
      /\ \A t \in Shell : AtName(t) /\ Apart(t)
  BY DEF Inv, Sound, Typed, Joined
<1>3. pc'[s] = "reopen" /\ \A t \in Shell : t # s => pc'[t] = pc[t]
  BY <1>1, <1>2
<1>4. \A t \in Shell : t # s => pc'[t] \notin Initialising
  BY <1>1, <1>2, <1>3 DEF Alone, Initialising
<1>5. fd[s] = name
  BY <1>1, <1>2 DEF AtName, Initialising
<1>6. ASSUME NEW t \in Shell PROVE AtName(t)' /\ Apart(t)'
  <2>1. CASE t = s
    BY <1>1, <1>3, <2>1 DEF AtName, Apart, Working, Initialising
  <2>2. CASE t # s
    <3>1. pc'[t] = pc[t] /\ pc'[t] \notin Initialising /\ old'[t] = old[t] /\ fd'[t] = fd[t]
      BY <1>1, <1>3, <1>4, <2>2
    <3>2. ~(pc[t] \in Working /\ t \notin late)
      BY <1>1, <1>2, <1>5 DEF AtName, Apart
    <3>3. pc[t] = "off" => old[t] = None
      BY <1>2 DEF AtName
    <3> QED
      BY <1>1, <3>1, <3>2, <3>3 DEF AtName, Apart, Initialising
  <2> QED
    BY <2>1, <2>2
<1>7. Alone' /\ Empty'
  BY <1>1, <1>2, <1>4 DEF Alone, Empty
<1>8. Kept'
  BY <1>1 DEF Joined, Kept
<1> QED
  BY <1>6, <1>7, <1>8 DEF Joined

\* There is no other shell at start-up: it opens the file with the name, or
\* gives it to a new one.
LEMMA JoinedOpen ==
    ASSUME Inv, Joined, NEW s \in Shell, OpenFile(s), UNCHANGED <<table, old, typed, tidy, late>>,
           old[s] = None \/ name = None,
           \A t \in Shell : t # s => pc[t] \notin Initialising
    PROVE  Joined'
<1>1. /\ pc \in [Shell -> Label] /\ fd \in [Shell -> 1..files \cup {None}]
      /\ files \in Nat /\ name \in 1..files \cup {None} /\ None \notin 1..files
      /\ 1..files \subseteq File
      /\ Empty /\ Kept /\ \A t \in Shell : AtName(t)
  BY Standing, HistoryAssumption DEF Joined, Typed, File
<1>2. /\ pc' = [pc EXCEPT ![s] = IF data[fd'[s]] = <<>> THEN "stamp" ELSE "load"]
      /\ data' = data /\ old' = old /\ late' = late
  BY DEF OpenFile, Goto, disk
<1>3. /\ pc'[s] = IF data[fd'[s]] = <<>> THEN "stamp" ELSE "load"
      /\ \A t \in Shell : t # s => pc'[t] = pc[t]
  BY <1>1, <1>2
<1>4. CASE name # None
  <2>1. /\ fd' = [fd EXCEPT ![s] = name] /\ name' = name /\ files' = files
        /\ fresh' = fresh /\ seen' = seen
    BY <1>4 DEF OpenFile, disk
  <2>2. fd'[s] = name' /\ \A t \in Shell : t # s => fd'[t] = fd[t]
    BY <1>1, <2>1
  <2>3. AtName(s)'
    BY <1>2, <1>3, <1>4, <2>2 DEF AtName, Working, Initialising
  <2>4. ASSUME NEW t \in Shell, t # s PROVE AtName(t)'
    <3>1. pc'[t] = pc[t] /\ fd'[t] = fd[t] /\ old'[t] = old[t]
      BY <1>2, <1>3, <2>2, <2>4
    <3> QED
      BY <1>2, <2>1, <3>1, OtherAtName
  <2>5. ASSUME NEW t \in Shell PROVE Apart(t)'
    BY <1>3 DEF Apart, Initialising
  <2>6. Alone' /\ Empty'
    BY <1>1, <1>2, <1>3, <2>1 DEF Alone, Empty
  <2>7. Kept'
    BY <1>1, <2>1 DEF Kept
  <2> QED
    BY <2>3, <2>4, <2>5, <2>6, <2>7 DEF Joined
<1>5. CASE name = None
  <2>1. /\ files < MaxFile /\ files' = files + 1 /\ name' = files'
        /\ fd' = [fd EXCEPT ![s] = files'] /\ Freshen(s, files')
    BY <1>5 DEF OpenFile
  <2>2. files' \in File /\ files' > files /\ data[files'] = <<>>
    <3>1. files' \in File /\ files' > files
      BY <1>1, <2>1, HistoryAssumption DEF File
    <3> QED
      BY <1>1, <3>1 DEF Empty
  <2>3. fd'[s] = files' /\ \A t \in Shell : t # s => fd'[t] = fd[t]
    BY <1>1, <2>1
  <2>4. pc'[s] = "stamp"
    BY <1>3, <2>2, <2>3
  <2>5. AtName(s)'
    BY <2>1, <2>3, <2>4 DEF AtName, Working, Initialising
  <2>6. ASSUME NEW t \in Shell, t # s PROVE AtName(t)'
    <3>1. pc'[t] = pc[t] /\ fd'[t] = fd[t] /\ old'[t] = old[t] /\ pc[t] \notin Initialising
      BY <1>2, <1>3, <2>3, <2>6
    <3>2. AtName(t) /\ fd[t] \in 1..files \cup {None}
      BY <1>1
    <3>3. ASSUME pc[t] \in Working, t \notin late PROVE FALSE
      <4>1. fd[t] \in 1..files
        <5>1. pc[t] # "off"
          BY <3>3 DEF Working
        <5> QED
          BY <5>1, Standing
      <4>2. fd[t] = None
        BY <1>5, <3>2, <3>3 DEF AtName
      <4> QED
        BY <1>1, <4>1, <4>2
    <3>4. pc[t] \in {"off", "load"} => old[t] = None
      BY <3>2 DEF AtName
    <3> QED
      BY <1>2, <3>1, <3>3, <3>4 DEF AtName, Initialising
  <2>7. ASSUME NEW t \in Shell PROVE Apart(t)'
    BY <1>3 DEF Apart, Initialising
  <2>8. Alone' /\ Empty'
    <3>1. \A f \in File : f > files' => f > files
      BY <1>1, <2>1 DEF File
    <3> QED
      BY <1>1, <1>2, <1>3, <3>1 DEF Alone, Empty
  <2>9. Kept'
    <3>1. fresh' = fresh \cup {files'}
      BY <2>1 DEF Freshen
    <3>2. seen' \in [Shell -> SUBSET File]
      BY <1>1, <2>1, <2>2 DEF Freshen, Kept
    <3> QED
      BY <2>1, <3>1, <3>2 DEF Kept
  <2> QED
    BY <2>5, <2>6, <2>7, <2>8, <2>9 DEF Joined
<1> QED
  BY <1>4, <1>5

LEMMA JoinedTouch ==
    ASSUME Inv, Joined, NEW s \in Shell, Touch(s)
    PROVE  Joined'
<1>1. /\ Freshen(s, name) /\ name # None
      /\ UNCHANGED <<name, data, files, pc, fd, old, late>>
  BY DEF Touch
<1>2. Alone' /\ Empty'
  BY <1>1 DEF Joined, Alone, Empty
<1>3. ASSUME NEW t \in Shell PROVE AtName(t)' /\ Apart(t)'
  BY <1>1 DEF Joined, AtName, Apart
<1>4. Kept'
  <2>1. name \in File
    BY <1>1, Standing DEF Typed
  <2> QED
    BY <1>1, <2>1, KeptFresh DEF Joined
<1> QED
  BY <1>2, <1>3, <1>4 DEF Joined

LEMMA JoinedAge ==
    ASSUME Joined, NEW f \in File, Age(f)
    PROVE  Joined'
<1>1. /\ fresh' = fresh \ {f}
      /\ f = name => \A s \in Shell : f \notin seen[s]
      /\ UNCHANGED <<name, data, files, pc, fd, old, seen, late>>
  BY DEF Age, ages
<1>2. Alone' /\ Empty'
  BY <1>1 DEF Joined, Alone, Empty
<1>3. ASSUME NEW t \in Shell PROVE AtName(t)' /\ Apart(t)'
  BY <1>1 DEF Joined, AtName, Apart
<1>4. Kept'
  BY <1>1 DEF Joined, Kept
<1> QED
  BY <1>2, <1>3, <1>4 DEF Joined

LEMMA InitJoined == Init => Joined
<1> SUFFICES ASSUME Init PROVE Joined
  OBVIOUS
<1>1. /\ files = 1 /\ data = [f \in File |-> IF f = 1 THEN <<Stamp>> ELSE <<>>]
      /\ pc = [s \in Shell |-> "off"] /\ old = [s \in Shell |-> None]
      /\ seen = [s \in Shell |-> {}]
  BY DEF Init
<1>2. Empty
  BY <1>1 DEF Empty, File
<1>3. Alone /\ \A s \in Shell : AtName(s) /\ Apart(s)
  BY <1>1 DEF Alone, AtName, Apart, Working, Initialising
<1>4. Kept
  BY <1>1 DEF Kept
<1> QED
  BY <1>2, <1>3, <1>4 DEF Joined

LEMMA NextJoined ==
    ASSUME Together = FALSE, Inv, Joined, [Next]_vars
    PROVE  Joined'
<1>1. ASSUME NEW s \in Shell, Open(s) PROVE Joined'
  <2>1. /\ pc[s] = "off" /\ OpenFile(s) /\ UNCHANGED <<table, old, typed, tidy, late>>
        /\ \A t \in Shell : pc[t] \notin Initialising
    BY <1>1 DEF Open
  <2>2. old[s] = None
    BY <2>1 DEF Joined, AtName
  <2> QED
    BY <2>1, <2>2, JoinedOpen
<1>2. ASSUME NEW s \in Shell, Reopen(s) PROVE Joined'
  <2>1. pc[s] = "reopen" /\ OpenFile(s) /\ UNCHANGED <<table, old, typed, tidy, late>>
    BY <1>2 DEF Reopen
  <2>2. name = None /\ \A t \in Shell : t # s => pc[t] \notin Initialising
    BY <2>1 DEF Joined, AtName, Alone, Initialising
  <2> QED
    BY <2>1, <2>2, JoinedOpen
<1>3. CASE UNCHANGED vars
  <2>1. UNCHANGED <<name, data, files, fresh, pc, fd, old, seen, late>>
    BY <1>3 DEF vars, disk, ages
  <2>2. \A s \in Shell : AtName(s)' /\ Apart(s)'
    BY <2>1 DEF Joined, AtName, Apart
  <2>3. Alone' /\ Empty' /\ Kept'
    BY <2>1 DEF Joined, Alone, Empty, Kept
  <2> QED
    BY <2>2, <2>3 DEF Joined
<1> QED
  BY <1>1, <1>2, <1>3, JoinedLoad, JoinedWrite, JoinedQuiet, JoinedUnlink, JoinedTouch,
     JoinedAge DEF Next

\* Where shells start up one at a time, a shell at work writes to the file
\* that HISTFILE names, so that its commands reach the others, unless that
\* file grew old in its time, before its first touch, and was found so by the
\* next shell to start; HistoryTogether shows that two at once lose more.
THEOREM AttachedCorrect ==
    ASSUME Together = FALSE
    PROVE  Spec => []Attached
<1>1. Init => Inv /\ Joined
  BY InitInv, InitJoined
<1>2. (Inv /\ Joined) /\ [Next]_vars => (Inv /\ Joined)'
  BY NextInv, NextJoined
<1>3. Inv /\ Joined => Attached
  BY DEF Joined, AtName, Attached
<1> QED
  BY <1>1, <1>2, <1>3, PTL DEF Spec


-----------------------------------------------------------------------------
(***************************************************************************)
(* The types, for tables that have room for every number.                  *)
(***************************************************************************)
Known == fresh \subseteq 1..files

LEMMA OpenKnown ==
    ASSUME Inv, Known, NEW s \in Shell, OpenFile(s)
    PROVE  Known'
<1>1. files \in Nat
  BY Standing
<1>2. CASE name # None
  BY <1>2 DEF OpenFile, Known, disk
<1>3. CASE name = None
  <2>1. files' = files + 1 /\ fresh' = fresh \cup {files'}
    BY <1>3 DEF OpenFile, Freshen
  <2> QED
    BY <1>1, <2>1 DEF Known
<1> QED
  BY <1>2, <1>3

\* Whoever writes has a file open.
LEMMA WriteKnown ==
    ASSUME Inv, Known, NEW s \in Shell, pc[s] # "off", Freshen(s, fd[s]), files' = files
    PROVE  Known'
BY Standing DEF Freshen, Known

LEMMA NextKnown ==
    ASSUME Inv, Known, [Next]_vars
    PROVE  Known'
<1>1. ASSUME NEW s \in Shell, Open(s) \/ Reopen(s) PROVE Known'
  BY <1>1, OpenKnown DEF Open, Reopen
<1>2. ASSUME NEW s \in Shell, WriteStamp(s) PROVE Known'
  BY <1>2, WriteKnown DEF WriteStamp
<1>3. ASSUME NEW s \in Shell, Copy(s) PROVE Known'
  BY <1>3, WriteKnown DEF Copy, Count
<1>4. ASSUME NEW s \in Shell, TrimCancel(s) \/ Fc(s) PROVE Known'
  BY <1>4, WriteKnown DEF TrimCancel, Fc, Cancelled
<1>5. ASSUME NEW s \in Shell, Type(s) PROVE Known'
  BY <1>5, WriteKnown DEF Type, Written, Count
<1>6. ASSUME NEW s \in Shell, Touch(s) PROVE Known'
  <2>1. name \in 1..files
    BY <1>6, Standing DEF Touch, Typed
  <2> QED
    BY <1>6, <2>1 DEF Touch, Freshen, Known
<1>7. ASSUME NEW f \in File, Age(f) PROVE Known'
  BY <1>7 DEF Age, Known
<1>8. ASSUME fresh' = fresh, files' = files PROVE Known'
  BY <1>8 DEF Known
<1>9. ASSUME NEW s \in Shell,
             Load(s) \/ Copied(s) \/ Eof(s) \/ TypeNothing(s) \/ Done(s) \/ Exit(s)
      PROVE  Known'
  BY <1>8, <1>9 DEF Load, Copied, Eof, TypeNothing, Done, Exit, disk
<1>10. ASSUME NEW s \in Shell, Unlink(s) PROVE Known'
  BY <1>8, <1>10 DEF Unlink
<1>11. CASE UNCHANGED vars
  BY <1>8, <1>11 DEF vars, disk
<1> QED
  BY <1>1, <1>2, <1>3, <1>4, <1>5, <1>6, <1>7, <1>9, <1>10, <1>11 DEF Next

\* The types; and a shell at work never counts beyond the end of the file it
\* has open, whoever else writes to it, trims it or gives it up: its offsets
\* are offsets of the file, and hist_flush and hist_cancel count on from there.
THEOREM TypeCorrect ==
    ASSUME Number = Int
    PROVE  Spec => []TypeOK
<1>1. Init => Inv /\ Known
  BY InitInv DEF Init, Known
<1>2. (Inv /\ Known) /\ [Next]_vars => (Inv /\ Known)'
  BY NextInv, NextKnown
<1>3. ASSUME Inv, Known PROVE TypeOK
  <2>1. Typed /\ Placed
    BY <1>3 DEF Inv, Sound
  <2>2. ASSUME NEW s \in Shell
        PROVE  /\ pc[s] \in Label /\ fd[s] \in 1..files \cup {None} /\ ind[s] \in Number
               /\ pc[s] \in Working => cnt[s] \in 1..Len(data[fd[s]])
    BY <2>1 DEF Typed, Placed, PlacedAt, Counting
  <2> QED
    BY <1>3, <2>1, <2>2 DEF TypeOK, Typed, Known
<1> QED
  BY <1>1, <1>2, <1>3, PTL DEF Spec

=============================================================================
