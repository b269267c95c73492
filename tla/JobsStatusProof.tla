--------------------------- MODULE JobsStatusProof ---------------------------
(***************************************************************************)
(* Exit statuses are true, told once and kept (TrueReport, NoSecondReport, *)
(* StatusKept): theorems about Jobs.                                       *)
(***************************************************************************)
EXTENDS JobsTableProof

-----------------------------------------------------------------------------
(***************************************************************************)
(* Lists of saved statuses.                                                *)
(***************************************************************************)
Who(b) == {b[i].who : i \in DOMAIN b}
Distinct(b) == \A i, j \in DOMAIN b : b[i].who = b[j].who => i = j

\* Pushing the status of a process that is not on the list.
LEMMA PushWho ==
    ASSUME NEW b \in Seq(SavedStatus), NEW c \in Child, NEW v \in Status,
           Distinct(b), c \notin Who(b)
    PROVE  /\ Distinct(Push(b, c, v))
           /\ c \in Who(Push(b, c, v)) /\ Who(Push(b, c, v)) \subseteq Who(b) \cup {c}
           /\ Who(b) \subseteq Who(Push(b, c, v)) \cup Evict(b)
           /\ \A i \in DOMAIN Push(b, c, v) :
                \/ Push(b, c, v)[i] = [who |-> c, val |-> v]
                \/ \E j \in DOMAIN b : Push(b, c, v)[i] = b[j]
<1> DEFINE p == Push(b, c, v)
<1>1. Len(b) \in Nat /\ DOMAIN b = 1..Len(b)
  BY LenProperties
<1>0. PICK n \in Nat : Pushed(p, b, c, v, n)
  BY PushElements
<1> HIDE DEF p
<1>2. /\ DOMAIN p = 1..(n + 1)
      /\ p[1] = [who |-> c, val |-> v]
      /\ \A k \in 1..n : p[k + 1] = b[k]
      /\ n = Len(b) \/ (n = Len(b) - 1 /\ Evict(b) = {b[Len(b)].who})
  BY <1>0 DEF Pushed
<1>3. \A i \in DOMAIN p :
        i = 1 \/ (i - 1 \in DOMAIN b /\ i - 1 \in 1..n /\ p[i] = b[i - 1])
  <2>1. ASSUME NEW i \in 1..(n + 1), i # 1
        PROVE  i - 1 \in 1..Len(b) /\ i - 1 \in 1..n /\ p[i] = b[i - 1]
    <3>1. i - 1 \in 1..n /\ (i - 1) + 1 = i
      BY <2>1
    <3>2. n <= Len(b)
      BY <1>1, <1>2
    <3>3. i - 1 \in 1..Len(b)
      BY <1>1, <3>1, <3>2
    <3> QED
      BY <1>2, <3>1, <3>3, Zenon
  <2> QED
    BY <1>1, <1>2, <2>1, Zenon
<1>4. 1 \in DOMAIN p /\ p[1].who = c
  BY <1>2
<1>5. \A i \in DOMAIN p : i # 1 => p[i].who \in Who(b)
  BY <1>3 DEF Who
<1>6. Distinct(p)
  <2> SUFFICES ASSUME NEW i \in DOMAIN p, NEW j \in DOMAIN p, p[i].who = p[j].who
               PROVE  i = j
    BY DEF Distinct
  <2>1. i \in Int /\ j \in Int
    BY <1>2
  <2>2. CASE i = 1 \/ j = 1
    BY <1>4, <1>5, <2>2
  <2>3. CASE i # 1 /\ j # 1
    <3>1. i - 1 = j - 1
      BY <1>3, <2>3 DEF Distinct
    <3> QED
      BY <2>1, <3>1
  <2> QED
    BY <2>2, <2>3
<1>7. c \in Who(p) /\ Who(p) \subseteq Who(b) \cup {c}
  BY <1>4, <1>5 DEF Who
<1>8. Who(b) \subseteq Who(p) \cup Evict(b)
  <2> SUFFICES ASSUME NEW k \in DOMAIN b, b[k].who \notin Evict(b)
               PROVE  b[k].who \in Who(p)
    BY DEF Who
  <2>1. k \in 1..n
    <3>1. CASE n = Len(b)
      BY <1>1, <3>1
    <3>2. CASE n = Len(b) - 1 /\ Evict(b) = {b[Len(b)].who}
      <4>1. k # Len(b)
        BY <3>2
      <4> QED
        BY <1>1, <3>2, <4>1
    <3> QED
      BY <1>2, <3>1, <3>2
  <2>2. k + 1 \in DOMAIN p /\ p[k + 1] = b[k]
    BY <1>2, <2>1
  <2> QED
    BY <2>2 DEF Who
<1>9. \A i \in DOMAIN p : \/ p[i] = [who |-> c, val |-> v]
                          \/ \E j \in DOMAIN b : p[i] = b[j]
  BY <1>2, <1>3
<1> QED
  BY <1>6, <1>7, <1>8, <1>9 DEF p

\* Taking the status at place i from the list.
LEMMA RemoveWho ==
    ASSUME NEW b \in Seq(SavedStatus), NEW i \in DOMAIN b, Distinct(b)
    PROVE  /\ Distinct(RemoveAt(b, i))
           /\ Who(RemoveAt(b, i)) = Who(b) \ {b[i].who}
           /\ \A k \in DOMAIN RemoveAt(b, i) :
                \E j \in DOMAIN b : RemoveAt(b, i)[k] = b[j]
<1> DEFINE r == RemoveAt(b, i)
<1>1. /\ Len(b) \in Nat /\ DOMAIN b = 1..Len(b) /\ DOMAIN r = 1..(Len(b) - 1)
      /\ \A k \in 1..(Len(b) - 1) : r[k] = IF k < i THEN b[k] ELSE b[k + 1]
  <2>1. /\ r \in Seq(SavedStatus) /\ Len(r) = Len(b) - 1
        /\ \A k \in 1..(Len(b) - 1) : r[k] = IF k < i THEN b[k] ELSE b[k + 1]
    BY RemoveAtProperties
  <2> HIDE DEF r
  <2> QED
    BY <2>1, LenProperties
<1> HIDE DEF r
<1> DEFINE Old(k) == IF k < i THEN k ELSE k + 1
<1>2. \A k \in DOMAIN r : /\ Old(k) \in DOMAIN b /\ Old(k) # i
                          /\ r[k] = b[Old(k)]
  <2> SUFFICES ASSUME NEW k \in 1..(Len(b) - 1)
               PROVE  Old(k) \in 1..Len(b) /\ Old(k) # i /\ r[k] = b[Old(k)]
    BY <1>1
  <2>1. CASE k < i
    BY <1>1, <2>1
  <2>2. CASE ~(k < i)
    BY <1>1, <2>2
  <2> QED
    BY <2>1, <2>2
<1>3. \A k, l \in DOMAIN r : Old(k) = Old(l) => k = l
  BY <1>1
<1>4. \A j \in DOMAIN b : j # i => \E k \in DOMAIN r : Old(k) = j
  <2> SUFFICES ASSUME NEW j \in 1..Len(b), j # i
               PROVE  \E k \in 1..(Len(b) - 1) : Old(k) = j
    BY <1>1
  <2>1. CASE j < i
    <3>1. j \in 1..(Len(b) - 1) /\ Old(j) = j
      BY <1>1, <2>1
    <3> QED
      BY <3>1
  <2>2. CASE ~(j < i)
    <3>1. j - 1 \in 1..(Len(b) - 1) /\ Old(j - 1) = j
      BY <1>1, <2>2
    <3> QED
      BY <3>1
  <2> QED
    BY <2>1, <2>2
<1> HIDE DEF Old
<1>5. Distinct(r)
  BY <1>2, <1>3 DEF Distinct
<1>6. Who(r) \subseteq Who(b) \ {b[i].who}
  BY <1>2 DEF Who, Distinct
<1>7. Who(b) \ {b[i].who} \subseteq Who(r)
  <2> SUFFICES ASSUME NEW j \in DOMAIN b, b[j].who # b[i].who
               PROVE  b[j].who \in Who(r)
    BY DEF Who
  <2>1. PICK k \in DOMAIN r : Old(k) = j
    BY <1>4
  <2> QED
    BY <1>2, <2>1 DEF Who
<1>8. \A k \in DOMAIN r : \E j \in DOMAIN b : r[k] = b[j]
  BY <1>2
<1> QED
  BY <1>5, <1>6, <1>7, <1>8 DEF r

-----------------------------------------------------------------------------
(***************************************************************************)
(* The invariant.  A status is in at most one place: in the entry of its   *)
(* process, on one of the saved lists, or in the hands of the script; and  *)
(* unless the process has been stopped on the way it is the true one.      *)
(***************************************************************************)
\* A process that was never stopped has no trace of a stop.
Unstopped ==
    \A c \in Child : stops[c] = 0 =>
      /\ news[c] = "none" /\ proc[c] # "stopped" /\ "STOPPED" \notin flag[c]
      /\ "SIGNALLED" \in flag[c] => proc[c] = "reaped"

\* The end of a process that job_post wrote over is known no more.
EntriesTrue ==
    \A c \in Listed \ erased :
      "DONE" \in flag[c] /\ stops[c] = 0 => EntryValue(c) = TrueValue(c)

\* The processes whose status is in their entries.  That of a process reaped
\* before it was linked into the table waits on the list for job_post.
Entered == IF Linked /\ lastpid # 0 THEN Listed \ {px} ELSE Listed

Sound(b) ==
    /\ Distinct(b)
    /\ \A i \in DOMAIN b :
         /\ proc[b[i].who] = "reaped"
         /\ b[i].who \notin Entered /\ b[i].who \notin told
         /\ stops[b[i].who] = 0 /\ b[i].who \notin erased =>
              b[i].val = TrueValue(b[i].who)

Lists ==
    /\ Sound(bck)
    /\ \A k \in DOMAIN saved :
         /\ Sound(saved[k].list)
         /\ Who(saved[k].list) \cap Who(bck) = {}
         /\ \A l \in DOMAIN saved :
              k # l => Who(saved[k].list) \cap Who(saved[l].list) = {}

Told ==
    /\ \A c \in bg \cup told : proc[c] # "unborn" /\ (pc \in Making => c # px)
    /\ told \cap Listed = {}

\* Whoever waits without being asked by the script gives up the right to have
\* the status saved.
Waiter ==
    /\ pc \in {"idle", "fork"} \cup Making => w.pw = None
    /\ ~w.intr /\ w.pw # None => "EXITSAVE" \notin flag[w.pw]

StatusInv == Unstopped /\ EntriesTrue /\ Lists /\ Told

\* Of the processes whose status is given out in this step, it is the truth.
TrulyTold ==
    \A c \in (told' \ told) \ erased : stops[c] = 0 => exitval' = TrueValue(c)

\* No step sets EXITSAVE but that of job_post.
LEMMA ExitSaveOfReap ==
    ASSUME TypeInv, NEW c \in Child, NEW cont \in BOOLEAN, Reap(c, cont)
    PROVE  \A d \in Child : "EXITSAVE" \in flag'[d] <=> "EXITSAVE" \in flag[d]
<1>1. flag \in [Child -> SUBSET Flag] /\ pwlist \in Seq(Child)
  BY DEF TypeInv, TypeOK
<1>2. ASSUME NEW i \in DOMAIN pwlist,
             NoteEnd(c, i) \/ NoteStop(c, i) \/ NoteContinue(c, i)
      PROVE  \A d \in Child : "EXITSAVE" \in flag'[d] <=> "EXITSAVE" \in flag[d]
  <2>1. pwlist[i] \in Child
    BY <1>1, ElementOfSeq, LenProperties
  <2> QED
    BY <1>1, <1>2, <2>1 DEF NoteEnd, NoteStop, NoteContinue, EndFlags
<1> QED
  BY <1>2 DEF Reap, NoteUnknown

LEMMA ExitSaveOfUnpost ==
    ASSUME TypeInv, NEW i \in DOMAIN pwlist, Unpost(i)
    PROVE  \A d \in Child : "EXITSAVE" \in flag'[d] => "EXITSAVE" \in flag[d]
<1>1. flag \in [Child -> SUBSET Flag]
  BY DEF TypeInv, TypeOK
<1>2. \/ flag' = flag
      \/ flag' = [flag EXCEPT ![pwlist[i]] = @ \ {"EXITSAVE", "DONE"}]
  BY Zenon DEF Unpost
<1> QED
  BY <1>1, <1>2

LEMMA ReportedFlags ==
    ASSUME TypeInv
    PROVE  /\ Reported \in [Child -> SUBSET Flag]
           /\ \A c \in Child : /\ Reported[c] \subseteq flag[c]
                               /\ flag[c] \ {"NOTIFY"} \subseteq Reported[c]
  BY DEF Reported, TypeInv, TypeOK

\* Coming back from job_waitsafe the main program forgets its wait, or goes
\* on with it.
LEMMA WaiterReturn ==
    ASSUME TypeInv, Waiter, Return, flag' = flag
    PROVE  Waiter'
  BY DEF Return, NoWait, Waiter, TypeInv, TypeOK, Making

\* The first part: what the main program waits for.
LEMMA WaiterStep ==
    ASSUME TypeInv, Waiter, [Next]_vars
    PROVE  Waiter'
<1>1. /\ flag \in [Child -> SUBSET Flag] /\ w \in WaitCall
      /\ pwlist \in Seq(Child) /\ None \notin Child
  BY ChildAssumption DEF TypeInv, TypeOK, WaitCall
<1>2. ASSUME w' = w,
             \A c \in Child : "EXITSAVE" \in flag'[c] => "EXITSAVE" \in flag[c],
             \/ pc' = pc \/ pc' \notin {"idle", "fork"} \cup Making
             \/ pc \in {"idle", "fork"} \cup Making
      PROVE  Waiter'
  BY <1>1, <1>2 DEF Waiter, WaitCall
<1>3. ASSUME w'.pw = None PROVE Waiter'
  BY <1>3 DEF Waiter
<1>4. CASE ChildStep
  BY <1>2, <1>4 DEF ChildStep, ChildEnd, ChildStop, ChildContinue, Changes,
     main, jobs, table, call
<1>5. CASE Handler \/ HandlerReturn \/ MainReapDone \/ Flush \/ Signal
  <2>1. flag' = flag /\ (Return \/ (w' = w /\ (pc' = pc \/ pc' = "reap")))
    BY <1>5 DEF Handler, HandlerReturn, MainReapDone, Flush, Signal,
       Interrupted, jobs, table, call
  <2> QED
    BY <1>2, <2>1, WaiterReturn DEF Making
<1>6. ASSUME NEW c \in Child, HandlerReap(c) \/ MainReap(c) PROVE Waiter'
  <2>1. /\ Reap(c, TRUE) \/ Reap(c, reap.cont)
        /\ w' = w /\ pc' = pc /\ reap.cont \in BOOLEAN
    BY <1>6 DEF HandlerReap, MainReap, call, TypeInv, TypeOK
  <2> QED
    BY <1>2, <2>1, ExitSaveOfReap
<1>7. CASE Command
  <2>1. ASSUME NEW p \in Pid \cup {1}, StartWait(p) PROVE Waiter'
    BY <1>3, <2>1 DEF StartWait
  <2>2. CASE ~\E p \in Pid \cup {1} : StartWait(p)
    <3>1. /\ flag' = flag /\ w' = w /\ pc = "idle"
      BY <1>7, <2>2 DEF Command, StartFork, StartUnpost, RunTraps, EndTrap,
         EnterSubshell, LeaveSubshell, At, jobs, table, call
    <3> QED
      BY <1>2, <3>1
  <2> QED
    BY <2>1, <2>2
<1>8. CASE ForkStep
  <2>1. ASSUME NEW c \in Child, NEW p \in Pid, Fork(c, p) PROVE Waiter'
    BY <1>2, <2>1 DEF Fork, At, jobs, table, call
  <2>2. CASE ForkFails
    BY <1>3, <2>2 DEF ForkFails, NoWait
  <2>3. CASE PostUnpost
    BY <1>2, <2>3, ExitSaveOfUnpost DEF PostUnpost, At, call, Making
  <2>4. CASE PostLink \/ PostFlag \/ PostExit \/ PostSaved
    <3>1. w' = w \/ w' = [NoWait EXCEPT !.arg = pid[px]]
      BY <2>4 DEF PostLink, PostFlag, PostExit, PostSaved, call
    <3>2. w.pw = None
      BY <2>4 DEF PostLink, PostFlag, PostExit, PostSaved, At, Waiter, Making
    <3> QED
      BY <1>3, <3>1, <3>2 DEF NoWait
  <2> QED
    BY <1>8, <2>1, <2>2, <2>3, <2>4 DEF ForkStep
<1>9. CASE WaitFor
  <2>1. PICK i \in DOMAIN pwlist :
          /\ w' = [w EXCEPT !.pw = pwlist[i]]
          /\ flag' = IF w.intr THEN flag
                     ELSE [flag EXCEPT ![pwlist[i]] = @ \ {"EXITSAVE"}]
    BY <1>9 DEF WaitFor
  <2>2. pwlist[i] \in Child /\ pc' = "top"
    BY <1>1, <1>9, ElementOfSeq, LenProperties DEF WaitFor
  <2> QED
    BY <1>1, <2>1, <2>2 DEF Waiter, WaitCall, Making
<1>10. CASE TopPending \/ TopDone
  <2>1. /\ w' = w /\ pc' \in {"unlock", "flush"}
        /\ \/ flag' = Reported
           \/ \E F : flag' = [Reported EXCEPT ![w.pw] = @ \ F]
    BY <1>10 DEF TopPending, TopDone, call
  <2>2. \A c \in Child : "EXITSAVE" \in flag'[c] => "EXITSAVE" \in flag[c]
    BY <2>1, ReportedFlags
  <2> QED
    BY <1>2, <2>1, <2>2 DEF Making
<1>11. CASE WaitAny \/ WaitSaved \/ WaitForeign \/ Unlock \/ Clear \/ Enter \/ Check
            \/ ExitSet \/ UnpostEnd
  <2>1. /\ flag' = flag
        /\ w' = NoWait \/ (w' = w /\ pc' \notin {"idle", "fork"} \cup Making)
    BY <1>11 DEF WaitAny, WaitSaved, WaitForeign, Unlock, Clear, Enter, Check,
       ExitSet, UnpostEnd, jobs, table, call, Making
  <2> QED
    BY <1>2, <1>3, <2>1 DEF NoWait
<1>12. CASE UnpostNext
  BY <1>2, <1>12, ExitSaveOfUnpost DEF UnpostNext, call
<1>13. CASE UNCHANGED vars
  BY <1>2, <1>13 DEF vars, main, jobs, table, call
<1> QED
  BY <1>4, <1>5, <1>6, <1>7, <1>8, <1>9, <1>10, <1>11, <1>12, <1>13
  DEF Next, HandlerStep, ReapStep, WaitStep

-----------------------------------------------------------------------------
(***************************************************************************)
(* The second part: where the statuses are.                                *)
(***************************************************************************)
LEMMA OnList ==
    ASSUME TypeInv
    PROVE  /\ bck \in Seq(SavedStatus) /\ Who(bck) \subseteq Child
           /\ \A k \in DOMAIN saved : /\ saved[k].list \in Seq(SavedStatus)
                                      /\ Who(saved[k].list) \subseteq Child
<1>1. ASSUME NEW b \in Seq(SavedStatus) PROVE Who(b) \subseteq Child
  <2>1. \A i \in DOMAIN b : b[i] \in SavedStatus
    BY LenProperties, ElementOfSeq
  <2> QED
    BY <2>1 DEF Who, SavedStatus
<1>2. \A k \in DOMAIN saved : saved[k].list \in Seq(SavedStatus)
  <2>1. saved \in Seq([list : Seq(SavedStatus), env : 0..MaxEnv, intrap : BOOLEAN])
    BY DEF TypeInv, TypeOK
  <2>2. \A k \in DOMAIN saved :
          saved[k] \in
            [list : Seq(SavedStatus), env : 0..MaxEnv, intrap : BOOLEAN]
    BY <2>1, LenProperties, ElementOfSeq
  <2> QED
    BY <2>2
<1>3. bck \in Seq(SavedStatus)
  BY DEF TypeInv, TypeOK
<1> QED
  BY <1>1, <1>2, <1>3

\* A step that leaves the lists of the enclosing shells alone, and records
\* only what none of them holds.
LEMMA ListsFrame ==
    ASSUME TypeInv, Lists, saved' = saved, Sound(bck)',
           erased \subseteq erased',
           \A c \in Child : proc[c] = "reaped" =>
                              proc'[c] = "reaped" /\ stops'[c] = stops[c],
           \A c \in Child :
              c \in Entered' \cup told' \cup Who(bck') =>
                c \in Entered \cup told \cup Who(bck) \/ proc[c] # "reaped"
    PROVE  Lists'
<1> SUFFICES ASSUME NEW k \in DOMAIN saved
             PROVE  /\ Sound(saved[k].list)'
                    /\ (Who(saved[k].list) \cap Who(bck))' = {}
                    /\ \A l \in DOMAIN saved : k # l =>
                         (Who(saved[k].list) \cap Who(saved[l].list))' = {}
  BY DEF Lists
<1> DEFINE b == saved[k].list
<1>1. b' = b /\ Sound(b) /\ Who(b) \subseteq Child /\ Who(b) \cap Who(bck) = {}
  BY OnList DEF Lists
<1>2. \A i \in DOMAIN b : b[i].who \in Who(b)
  BY DEF Who
<1>3. \A c \in Who(b) : /\ proc[c] = "reaped"
                        /\ c \notin Entered /\ c \notin told /\ c \notin Who(bck)
  BY <1>1 DEF Sound, Who
<1>4. \A c \in Who(b) :
         /\ proc'[c] = "reaped" /\ stops'[c] = stops[c]
         /\ c \notin Entered' /\ c \notin told' /\ c \notin Who(bck')
  BY <1>1, <1>3
<1>5. \A l \in DOMAIN saved :
        k # l => (Who(saved[k].list) \cap Who(saved[l].list))' = {}
  <2>1. \A l \in DOMAIN saved : Who(saved[l].list)' = Who(saved[l].list)
    BY DEF Who
  <2> QED
    BY <2>1 DEF Lists
<1>6. Who(b)' = Who(b)
  BY <1>1 DEF Who
<1>7. Sound(b)'
  <2> HIDE DEF b
  <2> QED
    BY <1>1, <1>2, <1>4 DEF Sound, Distinct, TrueValue
<1>8. (Who(b) \cap Who(bck))' = {}
  <2>1. Who(bck)' = Who(bck')
    BY DEF Who
  <2>2. Who(b) \cap Who(bck') = {}
    BY <1>4
  <2> QED
    BY <1>6, <2>1, <2>2
<1> QED
  BY <1>5, <1>7, <1>8

\* A step that leaves the making of a process where it is, or has nothing to do
\* with it.
Aside ==
    \/ UNCHANGED <<pc, px>>
    \/ AtPost /\ AtPost' /\ px' = px
    \/ pc \notin Making /\ pc' \notin Making

LEMMA EnteredSame ==
    ASSUME TableInv, Aside, lastpid' = lastpid
    PROVE  /\ Listed' = Listed => Entered' = Entered
           /\ ~Linked => Entered = Listed /\ Entered' = Listed'
           /\ pc' \in Making => pc \in Making /\ px' = px
<1>1. ~AtPost \/ (~Linked /\ pc \in Making)
  BY DEF AtPost, Linked, Making
<1>2. AtPost' => ~Linked' /\ pc' \in Making
  BY DEF AtPost, Linked, Making
<1>3. pc \notin Making => ~Linked
  BY DEF Linked, Making
<1>4. pc' \notin Making => ~Linked'
  BY DEF Linked, Making
<1>5. UNCHANGED <<pc, px>> => Linked' = Linked
  BY DEF Linked
<1> QED
  BY <1>1, <1>2, <1>3, <1>4, <1>5 DEF Aside, Entered

\* A step that takes part in none of this: at most flags go that say nothing
\* of how a process has ended.
Passive ==
    /\ UNCHANGED <<proc, news, pid, stops, pwlist, pexit, bck, lastpid, saved, bg,
                   told, evicted, erased>>
    /\ \A c \in Child :
         /\ flag'[c] \subseteq flag[c]
         /\ "DONE" \in flag[c] => "DONE" \in flag'[c]
         /\ stops[c] = 0 /\ "SIGNALLED" \in flag[c] => "SIGNALLED" \in flag'[c]
    /\ Aside

LEMMA StatusPassive ==
    ASSUME TableInv, TypeInv', StatusInv, Passive
    PROVE  StatusInv' /\ TrulyTold
<1>1. /\ Listed' = Listed /\ Listed \subseteq Child /\ Entered' = Entered
      /\ pc' \in Making => pc \in Making /\ px' = px
  <2>1. Listed' = Listed /\ Listed \subseteq Child
    BY RangeOfSeq DEF Passive, Listed, TableInv, TypeInv, TypeOK
  <2> QED
    BY <2>1, EnteredSame DEF Passive
<1>2. Unstopped'
  BY DEF Passive, StatusInv, Unstopped
<1>3. EntriesTrue'
  <2> SUFFICES ASSUME NEW c \in Listed' \ erased', "DONE" \in flag'[c],
                      stops'[c] = 0
               PROVE  EntryValue(c)' = TrueValue(c)
    BY DEF EntriesTrue, TrueValue
  <2>1. /\ c \in Listed \ erased /\ c \in Child /\ "DONE" \in flag[c] /\ stops[c] = 0
        /\ "SIGNALLED" \in flag'[c] <=> "SIGNALLED" \in flag[c]
        /\ pexit' = pexit
    BY <1>1 DEF Passive
  <2>2. EntryValue(c) = TrueValue(c)
    BY <2>1 DEF StatusInv, EntriesTrue
  <2> QED
    BY <2>1, <2>2 DEF EntryValue, Value
<1>4. Lists'
  <2>1. Sound(bck)'
    BY <1>1 DEF Passive, StatusInv, Lists, Sound, Distinct, TrueValue
  <2> QED
    BY <1>1, <2>1, ListsFrame DEF Passive, StatusInv, TableInv, Who
<1>5. Told'
  BY <1>1 DEF Passive, StatusInv, Told
<1> QED
  BY <1>2, <1>3, <1>4, <1>5 DEF StatusInv, TrulyTold, Passive

\* A child ends, stops or continues.
LEMMA StatusChild ==
    ASSUME TableInv, TypeInv', StatusInv, NEW c \in Child,
           ChildEnd(c) \/ ChildStop(c) \/ ChildContinue(c)
    PROVE  StatusInv' /\ TrulyTold
<1>1. /\ UNCHANGED <<pid, pwlist, flag, pexit, bck, lastpid, saved, bg, told,
                     erased, pc, px>>
      /\ Listed' = Listed /\ Listed \subseteq Child /\ Entered' = Entered
  BY RangeOfSeq
  DEF ChildEnd, ChildStop, ChildContinue, Changes, main, jobs, table, shell,
      scopes, command, history, Listed, Entered, Linked, TableInv, TypeInv, TypeOK
<1>2. /\ proc[c] \in {"running", "stopped"}
      /\ \A d \in Child \ {c} :
           proc'[d] = proc[d] /\ news'[d] = news[d] /\ stops'[d] = stops[d]
      /\ \/ proc'[c] = "zombie" /\ news'[c] = "none" /\ stops'[c] = stops[c]
         \/ stops[c] # 0 /\ stops'[c] = stops[c] /\ proc'[c] = "running"
         \/ stops'[c] # 0 /\ proc'[c] = "stopped"
  <2>1. /\ proc \in [Child ->
              {"unborn", "running", "stopped", "zombie", "reaped"}]
        /\ news \in [Child -> {"none", "stop", "cont"}]
        /\ stops \in [Child -> 0..MaxStops]
    BY DEF TableInv, TypeInv, TypeOK
  <2>2. CASE ChildEnd(c)
    BY <2>1, <2>2 DEF ChildEnd, Changes
  <2>3. CASE ChildStop(c)
    <3>1. stops[c] \in Nat
      BY <2>1, BoundAssumption
    <3>2. stops[c] + 1 # 0
      BY <3>1
    <3> QED
      BY <2>1, <2>3, <3>2 DEF ChildStop, Changes
  <2>4. CASE ChildContinue(c)
    <3>1. stops[c] # 0
      BY <2>4 DEF ChildContinue, StatusInv, Unstopped
    <3> QED
      BY <2>1, <2>4, <3>1 DEF ChildContinue, Changes
  <2> QED
    BY <2>2, <2>3, <2>4
<1>3. \A d \in Child : stops'[d] = 0 => stops[d] = 0
  BY <1>2
<1>4. Unstopped'
  <2> SUFFICES ASSUME NEW d \in Child, stops'[d] = 0
               PROVE  /\ news'[d] = "none" /\ proc'[d] # "stopped"
                      /\ "STOPPED" \notin flag[d]
                      /\ "SIGNALLED" \in flag[d] => proc'[d] = "reaped"
    BY <1>1 DEF Unstopped
  <2> QED
    BY <1>2, <1>3 DEF StatusInv, Unstopped
<1>5. EntriesTrue'
  BY <1>1, <1>3 DEF StatusInv, EntriesTrue, EntryValue, TrueValue
<1>6. Lists'
  <2>1. Sound(bck)'
    <3>1. Who(bck) \subseteq Child
      BY OnList DEF TableInv
    <3>2. \A i \in DOMAIN bck : bck[i].who \in Child
      BY <3>1 DEF Who
    <3> QED
      BY <1>1, <1>2, <3>2 DEF StatusInv, Lists, Sound, Distinct, TrueValue
  <2> QED
    BY <1>1, <1>2, <2>1, ListsFrame DEF StatusInv, TableInv, Who
<1>7. Told'
  <2>1. bg \subseteq Child /\ told \subseteq Child
    BY DEF TableInv, TypeInv, TypeOK
  <2> QED
    BY <1>1, <1>2, <2>1 DEF StatusInv, Told
<1> QED
  BY <1>1, <1>4, <1>5, <1>6, <1>7 DEF StatusInv, TrulyTold

\* A new process has no status anywhere.
LEMMA StatusFork ==
    ASSUME TableInv, TypeInv', StatusInv, NEW c \in Child, NEW p \in Pid,
           Fork(c, p)
    PROVE  StatusInv' /\ TrulyTold
<1>1. /\ UNCHANGED <<news, stops, pwlist, flag, pexit, bck, saved, bg, told,
                     erased>>
      /\ proc[c] = "unborn" /\ proc' = [proc EXCEPT ![c] = "running"]
      /\ proc \in [Child ->
            {"unborn", "running", "stopped", "zombie", "reaped"}]
      /\ px' = c /\ Listed' = Listed /\ Listed \subseteq Child
      /\ Entered' = Entered
  BY RangeOfSeq
  DEF Fork, Forkable, At, jobs, table, shell, scopes, history, Listed, Entered,
      Linked, TableInv, TypeInv, TypeOK
<1>2. Unstopped'
  <2> SUFFICES ASSUME NEW d \in Child, stops[d] = 0
               PROVE  /\ news[d] = "none" /\ proc'[d] # "stopped"
                      /\ "STOPPED" \notin flag[d]
                      /\ "SIGNALLED" \in flag[d] => proc'[d] = "reaped"
    BY <1>1 DEF Unstopped
  <2> QED
    BY <1>1 DEF StatusInv, Unstopped
<1>3. EntriesTrue'
  BY <1>1 DEF StatusInv, EntriesTrue, EntryValue, TrueValue
<1>4. Lists'
  <2>1. Sound(bck)'
    <3>1. Who(bck) \subseteq Child
      BY OnList DEF TableInv
    <3>2. \A i \in DOMAIN bck : bck[i].who \in Child
      BY <3>1 DEF Who
    <3> QED
      BY <1>1, <3>2 DEF StatusInv, Lists, Sound, Distinct, TrueValue
  <2> QED
    BY <1>1, <2>1, ListsFrame DEF StatusInv, TableInv, Who
<1>5. Told'
  <2>1. bg \subseteq Child /\ told \subseteq Child
    BY DEF TableInv, TypeInv, TypeOK
  <2> QED
    BY <1>1, <2>1 DEF StatusInv, Told
<1> QED
  BY <1>1, <1>2, <1>3, <1>4, <1>5 DEF StatusInv, TrulyTold

\* Who it is that waitpid reports, and where job_waitsafe records it.
LEMMA ReapCases ==
    ASSUME TableInv, NEW c \in Child, NEW cont \in BOOLEAN, Reap(c, cont),
           MaxFails = 0 => pc \notin Making
    PROVE  \/ \E i \in DOMAIN pwlist :
                /\ pwlist[i] = c
                /\ NoteEnd(c, i) \/ NoteStop(c, i) \/ NoteContinue(c, i)
                /\ UNCHANGED <<bck, lastpid, evicted>>
           \/ /\ c = px /\ AtPost /\ MaxFails # 0 /\ proc[c] = "zombie"
              /\ bck' = Push(bck, c, TrueValue(c))
              /\ evicted' = evicted \cup Evict(bck)
              /\ UNCHANGED <<pwlist, flag, pexit>>
<1>1. Alive(c)
  BY DEF Reap, Reportable, TableInv, Pids, Alive
<1>2. CASE /\ c \in Listed /\ ~NoEntry(pid[c])
           /\ \A i \in DOMAIN pwlist : IsEntry(i, pid[c]) => pwlist[i] = c
  BY <1>2 DEF Reap, NoteUnknown
<1>3. CASE c = px /\ AtPost /\ MaxFails # 0 /\ NoEntry(pid[c])
  <2>1. NoteUnknown(c)
    BY <1>3 DEF Reap, IsEntry, NoEntry
  <2>2. proc[c] = "zombie"
    BY <1>3 DEF Reap, Reportable, TableInv, Orderly, Pids
  <2> QED
    BY <1>3, <2>1, <2>2 DEF NoteUnknown
<1>4. MaxFails = 0 => ~AtPost
  BY DEF AtPost, Making
<1> QED
  BY <1>1, <1>2, <1>3, <1>4, EntryOfChild

LEMMA StatusReapListed ==
    ASSUME TableInv, TypeInv', StatusInv,
           NEW c \in Child, NEW cont \in BOOLEAN, Reap(c, cont),
           NEW i \in DOMAIN pwlist, pwlist[i] = c,
           NoteEnd(c, i) \/ NoteStop(c, i) \/ NoteContinue(c, i),
           UNCHANGED <<bck, lastpid, pc, px, stops, saved, bg, told, erased>>
    PROVE  StatusInv'
<1>1. /\ Listed' = Listed /\ Listed \subseteq Child /\ Entered' = Entered
  <2>1. /\ IsInjective(pwlist) /\ pwlist \in Seq(Child)
    BY DEF TableInv, TypeInv, TypeOK, Entries
  <2>2. Listed \subseteq Child
    BY <2>1, RangeOfSeq DEF Listed
  <2>3. pwlist' = pwlist \/ pwlist' = <<pwlist[i]>> \o RemoveAt(pwlist, i)
    BY DEF NoteEnd, NoteStop, NoteContinue
  <2>4. Listed' = Listed
    BY <2>1, <2>3, MoveToFrontRange DEF Listed
  <2> QED
    BY <2>2, <2>4 DEF Entered, Linked
<1>2. /\ proc \in [Child ->
            {"unborn", "running", "stopped", "zombie", "reaped"}]
      /\ flag \in [Child -> SUBSET Flag] /\ pexit \in [Child -> Status]
      /\ news \in [Child -> {"none", "stop", "cont"}]
  BY DEF TableInv, TypeInv, TypeOK
<1>3. /\ \A d \in Child \ {c} :
           /\ proc'[d] = proc[d] /\ news'[d] = news[d]
           /\ flag'[d] = flag[d] /\ pexit'[d] = pexit[d]
      /\ \A d \in Child : proc[d] = "reaped" => proc'[d] = "reaped"
      /\ \A d \in Child : proc'[d] = "unborn" => proc[d] = "unborn"
  BY <1>2 DEF Reap, NoteEnd, NoteStop, NoteContinue
<1>4. stops[c] = 0 =>
        /\ proc'[c] = "reaped" /\ news'[c] = "none"
        /\ flag'[c] = EndFlags(flag[c], Ending[c].sig)
        /\ pexit'[c] = Ending[c].n
        /\ "STOPPED" \notin flag[c] /\ "SIGNALLED" \notin flag[c]
  <2> SUFFICES ASSUME stops[c] = 0
               PROVE  /\ proc'[c] = "reaped" /\ news'[c] = "none"
                      /\ flag'[c] = EndFlags(flag[c], Ending[c].sig)
                      /\ pexit'[c] = Ending[c].n
                      /\ "STOPPED" \notin flag[c] /\ "SIGNALLED" \notin flag[c]
    OBVIOUS
  <2>1. news[c] = "none" /\ proc[c] = "zombie"
    BY DEF Reap, Reportable, StatusInv, Unstopped
  <2> QED
    BY <1>2, <2>1
    DEF Reap, NoteEnd, NoteStop, NoteContinue, StatusInv, Unstopped
<1>5. Unstopped'
  <2> SUFFICES ASSUME NEW d \in Child, stops[d] = 0
               PROVE  /\ news'[d] = "none" /\ proc'[d] # "stopped"
                      /\ "STOPPED" \notin flag'[d]
                      /\ "SIGNALLED" \in flag'[d] => proc'[d] = "reaped"
    BY DEF Unstopped
  <2>1. CASE d = c
    BY <1>4, <2>1 DEF EndFlags
  <2>2. CASE d # c
    BY <1>3, <2>2 DEF StatusInv, Unstopped
  <2> QED
    BY <2>1, <2>2
<1>6. EntriesTrue'
  <2> SUFFICES ASSUME NEW d \in Listed \ erased, "DONE" \in flag'[d],
                      stops[d] = 0
               PROVE  EntryValue(d)' = TrueValue(d)
    BY <1>1 DEF EntriesTrue, TrueValue
  <2>0. d \in Child
    BY <1>1
  <2>1. CASE d = c
    <3>1. "SIGNALLED" \in flag'[c] <=> Ending[c].sig
      BY <1>4, <2>1 DEF EndFlags
    <3>2. pexit'[c] = Ending[c].n
      BY <1>4, <2>1
    <3>3. Ending[c].sig \in BOOLEAN
      BY EndingAssumption
    <3> QED
      BY <2>1, <3>1, <3>2, <3>3 DEF EntryValue, TrueValue, Value
  <2>2. CASE d # c
    BY <1>3, <2>0, <2>2 DEF StatusInv, EntriesTrue, EntryValue, TrueValue
  <2> QED
    BY <2>1, <2>2
<1>7. Lists'
  <2>1. Sound(bck)'
    <3>1. Who(bck) \subseteq Child
      BY OnList DEF TableInv
    <3>2. \A j \in DOMAIN bck : bck[j].who \in Child
      BY <3>1 DEF Who
    <3> QED
      BY <1>1, <1>3, <3>2 DEF StatusInv, Lists, Sound, Distinct, TrueValue
  <2> QED
    BY <1>1, <1>3, <2>1, ListsFrame DEF StatusInv, TableInv, Who
<1>8. Told'
  <2>1. bg \subseteq Child /\ told \subseteq Child
    BY DEF TableInv, TypeInv, TypeOK
  <2> QED
    BY <1>1, <1>3, <2>1 DEF StatusInv, Told
<1> QED
  BY <1>5, <1>6, <1>7, <1>8 DEF StatusInv

\* A true status is pushed on the list.
LEMMA SoundPush ==
    ASSUME TypeInv, Sound(bck), NEW c \in Child, NEW v \in Status,
           c \notin Who(bck), bck' = Push(bck, c, v),
           proc'[c] = "reaped", c \notin Entered', c \notin told',
           stops'[c] = 0 /\ c \notin erased' => v = TrueValue(c),
           erased \subseteq erased',
           \A d \in Who(bck) :
             /\ proc'[d] = "reaped" /\ stops'[d] = stops[d]
             /\ d \notin Entered' /\ d \notin told'
    PROVE  Sound(bck)' /\ Who(bck') \subseteq Who(bck) \cup {c}
<1>1. bck \in Seq(SavedStatus) /\ Distinct(bck)
  BY DEF TypeInv, TypeOK, Sound
<1>2. /\ Distinct(bck') /\ Who(bck') \subseteq Who(bck) \cup {c}
      /\ \A i \in DOMAIN bck' : \/ bck'[i] = [who |-> c, val |-> v]
                                \/ \E j \in DOMAIN bck : bck'[i] = bck[j]
  BY <1>1, PushWho
<1>3. ASSUME NEW i \in DOMAIN bck'
      PROVE  /\ proc'[bck'[i].who] = "reaped"
             /\ bck'[i].who \notin Entered' /\ bck'[i].who \notin told'
             /\ stops'[bck'[i].who] = 0 /\ bck'[i].who \notin erased' =>
                  bck'[i].val = TrueValue(bck'[i].who)
  <2>1. CASE bck'[i] = [who |-> c, val |-> v]
    BY <2>1
  <2>2. ASSUME NEW j \in DOMAIN bck, bck'[i] = bck[j]
        PROVE  /\ proc'[bck'[i].who] = "reaped"
               /\ bck'[i].who \notin Entered' /\ bck'[i].who \notin told'
               /\ stops'[bck'[i].who] = 0 /\ bck'[i].who \notin erased' =>
                    bck'[i].val = TrueValue(bck'[i].who)
    <3>1. bck[j].who \in Who(bck)
      BY DEF Who
    <3> QED
      BY <2>2, <3>1 DEF Sound
  <2> QED
    BY <1>2, <2>1, <2>2
<1>4. Distinct(bck)'
  BY <1>2 DEF Distinct
<1> QED
  BY <1>2, <1>3, <1>4 DEF Sound, TrueValue

\* A status is taken from the list.
LEMMA SoundRemove ==
    ASSUME TypeInv, Sound(bck), NEW i \in DOMAIN bck,
           bck' = RemoveAt(bck, i), erased \subseteq erased',
           \A d \in Who(bck) \ {bck[i].who} :
             /\ proc'[d] = "reaped" /\ stops'[d] = stops[d]
             /\ d \notin Entered' /\ d \notin told'
    PROVE  Sound(bck)' /\ Who(bck') = Who(bck) \ {bck[i].who}
<1>1. bck \in Seq(SavedStatus) /\ Distinct(bck)
  BY DEF TypeInv, TypeOK, Sound
<1>2. /\ Distinct(bck') /\ Who(bck') = Who(bck) \ {bck[i].who}
      /\ \A k \in DOMAIN bck' : \E j \in DOMAIN bck : bck'[k] = bck[j]
  BY <1>1, RemoveWho
<1>3. ASSUME NEW k \in DOMAIN bck'
      PROVE  /\ proc'[bck'[k].who] = "reaped"
             /\ bck'[k].who \notin Entered' /\ bck'[k].who \notin told'
             /\ stops'[bck'[k].who] = 0 /\ bck'[k].who \notin erased' =>
                  bck'[k].val = TrueValue(bck'[k].who)
  <2>1. PICK j \in DOMAIN bck : bck'[k] = bck[j]
    BY <1>2
  <2>2. bck'[k].who \in Who(bck')
    BY DEF Who
  <2>3. bck[j].who \in Who(bck) \ {bck[i].who}
    BY <1>2, <2>1, <2>2
  <2> QED
    BY <2>1, <2>3 DEF Sound
<1>4. Distinct(bck)'
  BY <1>2 DEF Distinct
<1> QED
  BY <1>2, <1>3, <1>4 DEF Sound, TrueValue

\* One turn of job_waitsafe's loop.
LEMMA StatusReap ==
    ASSUME TableInv, TypeInv', StatusInv,
           NEW c \in Child, NEW cont \in BOOLEAN, Reap(c, cont),
           MaxFails = 0 => pc \notin Making,
           UNCHANGED <<pc, px, stops, saved, bg, told, erased>>
    PROVE  StatusInv' /\ TrulyTold
<1>1. ASSUME NEW i \in DOMAIN pwlist, pwlist[i] = c, UNCHANGED <<bck, lastpid>>,
             NoteEnd(c, i) \/ NoteStop(c, i) \/ NoteContinue(c, i)
      PROVE  StatusInv'
  BY <1>1, StatusReapListed
<1>2. CASE /\ c = px /\ AtPost /\ MaxFails # 0 /\ proc[c] = "zombie"
           /\ bck' = Push(bck, c, TrueValue(c))
           /\ UNCHANGED <<pwlist, flag, pexit>>
  <2>1. /\ proc \in [Child ->
              {"unborn", "running", "stopped", "zombie", "reaped"}]
        /\ news \in [Child -> {"none", "stop", "cont"}]
        /\ TrueValue(c) \in Status /\ Listed \subseteq Child
        /\ Listed' = Listed /\ Entered' = Listed /\ Entered = Listed
    BY <1>2, ValueType, RangeOfSeq
    DEF TableInv, TypeInv, TypeOK, Listed, Entered, Linked, AtPost
  <2>2. proc' = [proc EXCEPT ![c] = "reaped"] /\ news' = [news EXCEPT ![c] = "none"]
    BY <1>2 DEF Reap
  <2>3. c \notin Listed /\ c \notin told /\ c \notin Who(bck)
    BY <1>2, <2>1 DEF TableInv, Posted, StatusInv, Told, Lists, Sound, Who,
       AtPost, Making
  <2>4. \A d \in Who(bck) : /\ proc'[d] = "reaped" /\ d \in Child
                            /\ d \notin Listed /\ d \notin told
    BY <2>1, <2>2, OnList DEF TableInv, StatusInv, Lists, Sound, Who
  <2>5. Sound(bck)' /\ Who(bck') \subseteq Who(bck) \cup {c}
    <3>1. /\ proc'[c] = "reaped" /\ c \notin Entered' /\ c \notin told'
          /\ \A d \in Who(bck) :
               /\ proc'[d] = "reaped" /\ stops'[d] = stops[d]
               /\ d \notin Entered' /\ d \notin told'
      BY <2>1, <2>2, <2>3, <2>4
    <3>2. TypeInv /\ Sound(bck)
      BY DEF TableInv, StatusInv, Lists
    <3> QED
      BY <1>2, <2>1, <2>3, <3>1, <3>2, SoundPush
  <2>6. Lists'
    <3>1. \A d \in Child : proc[d] = "reaped" =>
                             proc'[d] = "reaped" /\ stops'[d] = stops[d]
      BY <2>1, <2>2
    <3>2. \A d \in Child : d \in Entered' \cup told' \cup Who(bck') =>
             d \in Entered \cup told \cup Who(bck) \/ proc[d] # "reaped"
      BY <1>2, <2>1, <2>5
    <3> QED
      BY <2>5, <3>1, <3>2, ListsFrame DEF StatusInv, TableInv
  <2>7. Unstopped'
    <3> SUFFICES ASSUME NEW d \in Child, stops[d] = 0
                 PROVE  /\ news'[d] = "none" /\ proc'[d] # "stopped"
                        /\ "STOPPED" \notin flag[d]
                        /\ "SIGNALLED" \in flag[d] => proc'[d] = "reaped"
      BY <1>2 DEF Unstopped
    <3> QED
      BY <2>1, <2>2 DEF StatusInv, Unstopped
  <2>8. EntriesTrue'
    BY <1>2, <2>1 DEF StatusInv, EntriesTrue, EntryValue, TrueValue
  <2>9. Told'
    <3>1. bg \subseteq Child /\ told \subseteq Child
      BY DEF TableInv, TypeInv, TypeOK
    <3> QED
      BY <2>1, <2>2, <3>1 DEF StatusInv, Told
  <2> QED
    BY <2>6, <2>7, <2>8, <2>9 DEF StatusInv, TrulyTold
<1>3. StatusInv'
  BY <1>1, <1>2, ReapCases
<1> QED
  BY <1>3 DEF TrulyTold

\* The entry at place i goes, and its status is saved if EXITSAVE says so.
LEMMA StatusRemove ==
    ASSUME TableInv, TypeInv', StatusInv,
           UNCHANGED <<proc, news, stops, pexit, lastpid, saved, bg, erased>>,
           NEW i \in DOMAIN pwlist, NEW c, c = pwlist[i], "DONE" \in flag[c],
           pwlist' = RemoveAt(pwlist, i),
           NEW keep \in BOOLEAN, SaveStatus(c, keep),
           told' = told \/ (~keep /\ told' = told \cup {c}),
           \A d \in Child :
             /\ flag'[d] \subseteq flag[d]
             /\ d # c /\ "SIGNALLED" \in flag[d] => "SIGNALLED" \in flag'[d],
           ~Linked, Aside
    PROVE  StatusInv'
<1>0. /\ Entered = Listed /\ Entered' = Listed'
      /\ pc' \in Making => pc \in Making /\ px' = px
  BY EnteredSame
<1>1. /\ Listed' = Listed \ {c} /\ Listed \subseteq Child /\ c \in Listed
  <2>1. pwlist \in Seq(Child) /\ IsInjective(pwlist)
    BY DEF TableInv, Entries, TypeInv, TypeOK
  <2>2. Range(pwlist') = Range(pwlist) \ {c} /\ Range(pwlist) \subseteq Child
    BY <2>1, RemoveAtRange, RangeOfSeq
  <2> QED
    BY <2>2 DEF Listed, Range
<1>2. /\ proc[c] = "reaped" /\ c \notin told /\ c \notin Who(bck)
      /\ c \in Child /\ (pc \in Making => c # px)
  BY <1>0, <1>1 DEF TableInv, Entries, Posted, StatusInv, Told, Lists, Sound, Who,
     AtPost, Linked, Making
<1>3. /\ EntryValue(c) \in Status
      /\ stops[c] = 0 /\ c \notin erased => EntryValue(c) = TrueValue(c)
  <2>1. pexit[c] \in Status
    BY <1>2 DEF TableInv, TypeInv, TypeOK
  <2>2. EntryValue(c) \in Status
    <3>1. ("SIGNALLED" \in flag[c]) \in BOOLEAN
      OBVIOUS
    <3> QED
      BY <2>1, <3>1, ValueType, Zenon DEF EntryValue
  <2> QED
    BY <1>1, <2>2 DEF StatusInv, EntriesTrue
<1>4. \A d \in Who(bck) : /\ proc'[d] = "reaped" /\ stops'[d] = stops[d]
                          /\ d \notin Entered' /\ d \notin told'
  BY <1>0, <1>1, <1>2 DEF StatusInv, Lists, Sound, Who
<1>5. Sound(bck)' /\ Who(bck') \subseteq Who(bck) \cup {c}
  <2>1. CASE keep
    <3>1. bck' = Push(bck, c, EntryValue(c)) /\ told' = told
      BY <2>1 DEF SaveStatus
    <3>2. proc'[c] = "reaped" /\ c \notin Entered' /\ c \notin told'
      BY <1>0, <1>1, <1>2, <3>1
    <3>3. /\ TypeInv /\ Sound(bck)
          /\ stops'[c] = 0 /\ c \notin erased' => EntryValue(c) = TrueValue(c)
      BY <1>3 DEF TableInv, StatusInv, Lists
    <3> QED
      BY <1>2, <1>3, <1>4, <3>1, <3>2, <3>3, SoundPush
  <2>2. CASE ~keep
    <3>1. bck' = bck
      BY <2>2 DEF SaveStatus
    <3>2. \A j \in DOMAIN bck : bck[j].who \in Who(bck)
      BY DEF Who
    <3> QED
      BY <1>4, <3>1, <3>2
      DEF StatusInv, Lists, Sound, Distinct, TrueValue, Who
  <2> QED
    BY <2>1, <2>2
<1>6. Lists'
  <2>1. \A d \in Child : d \in Entered' \cup told' \cup Who(bck') =>
          d \in Entered \cup told \cup Who(bck) \/ proc[d] # "reaped"
    BY <1>0, <1>1, <1>5
  <2> QED
    BY <1>5, <2>1, ListsFrame DEF StatusInv, TableInv
<1>7. Unstopped'
  BY DEF StatusInv, Unstopped
<1>8. EntriesTrue'
  <2> SUFFICES ASSUME NEW d \in Listed' \ erased', "DONE" \in flag'[d],
                      stops'[d] = 0
               PROVE  EntryValue(d)' = TrueValue(d)
    BY DEF EntriesTrue, TrueValue
  <2>1. /\ d \in Listed \ erased /\ d \in Child /\ "DONE" \in flag[d] /\ stops[d] = 0
        /\ "SIGNALLED" \in flag'[d] <=> "SIGNALLED" \in flag[d]
    BY <1>1
  <2>2. EntryValue(d) = TrueValue(d)
    BY <2>1 DEF StatusInv, EntriesTrue
  <2> QED
    BY <2>1, <2>2 DEF EntryValue, Value
<1>9. Told'
  BY <1>0, <1>1, <1>2 DEF StatusInv, Told
<1> QED
  BY <1>6, <1>7, <1>8, <1>9 DEF StatusInv

\* job_unpost of the entry at place i.
LEMMA StatusUnpost ==
    ASSUME TableInv, TypeInv', StatusInv,
           UNCHANGED <<proc, news, pid, stops, pexit, lastpid, saved, bg, told,
                       erased>>,
           NEW i \in DOMAIN pwlist, Unpost(i), ~Linked, Aside
    PROVE  StatusInv' /\ TrulyTold
<1>1. CASE Unpostable(pwlist[i])
  <2> DEFINE keep == "EXITSAVE" \in flag[pwlist[i]]
  <2>1. /\ pwlist' = RemoveAt(pwlist, i)
        /\ flag' = [flag EXCEPT ![pwlist[i]] = @ \ {"EXITSAVE", "DONE"}]
        /\ SaveStatus(pwlist[i], keep)
    BY <1>1, Zenon DEF Unpost
  <2>2. /\ "DONE" \in flag[pwlist[i]] /\ keep \in BOOLEAN
    BY <1>1 DEF Unpostable
  <2>3. \A d \in Child :
          /\ flag'[d] \subseteq flag[d]
          /\ d # pwlist[i] /\ "SIGNALLED" \in flag[d] => "SIGNALLED" \in flag'[d]
    BY <2>1 DEF TableInv, TypeInv, TypeOK
  <2> HIDE DEF keep
  <2>4. StatusInv'
    BY <2>1, <2>2, <2>3, StatusRemove
  <2> QED
    BY <2>4 DEF TrulyTold
<1>2. CASE ~Unpostable(pwlist[i])
  <2>1. UNCHANGED <<pwlist, flag, bck, evicted>>
    BY <1>2, Zenon DEF Unpost
  <2>2. Passive
    BY <2>1 DEF Passive
  <2> QED
    BY <2>2, StatusPassive
<1> QED
  BY <1>1, <1>2

\* job_post: the status of a process with the same pid is saved,
LEMMA StatusPostUnpost ==
    ASSUME TableInv, TypeInv', StatusInv, PostUnpost
    PROVE  StatusInv' /\ TrulyTold
<1>1. /\ UNCHANGED <<proc, news, pid, stops, pexit, lastpid, saved, bg, told,
                     erased>>
      /\ Aside /\ ~Linked
  BY DEF PostUnpost, At, outside, shell, scopes, command, AtPost, Aside, Linked
<1>2. CASE UNCHANGED <<pwlist, flag, bck, evicted>>
  <2>1. Passive
    BY <1>1, <1>2 DEF Passive
  <2> QED
    BY <2>1, StatusPassive
<1> QED
  BY <1>1, <1>2, StatusUnpost DEF PostUnpost

\* the new process is linked into the table,
LEMMA StatusPostLink ==
    ASSUME TableInv, TypeInv', StatusInv, PostLink
    PROVE  StatusInv' /\ TrulyTold
<1>1. /\ AtPost /\ pc \in Making /\ ~Linked /\ Linked'
      /\ pwlist' = <<px>> \o pwlist
      /\ UNCHANGED <<proc, news, pid, stops, flag, pexit, bck, lastpid, saved, bg,
                     told, erased, px>>
  BY DEF PostLink, At, AtPost, Linked, Making, outside, shell, scopes, command,
     history
<1>2. /\ px \in Child /\ px \notin Listed /\ px \notin told /\ flag[px] = {}
      /\ proc[px] = "reaped" => lastpid # 0
  BY <1>1 DEF TableInv, Posted, Early, TypeInv, Posting, StatusInv, Told
<1>3. Listed' = {px} \cup Listed /\ Listed \subseteq Child
  <2>1. /\ pwlist \in Seq(Child) /\ IsInjective(pwlist)
        /\ px \notin Range(pwlist)
    BY <1>2 DEF TableInv, Entries, TypeInv, TypeOK, Listed
  <2>2. Range(<<px>> \o pwlist) = {px} \cup Range(pwlist)
        /\ Range(pwlist) \subseteq Child
    BY <1>2, <2>1, ConsRange, RangeOfSeq
  <2> QED
    BY <1>1, <2>2 DEF Listed
<1>4. Entered = Listed /\ Entered' = IF lastpid # 0 THEN Listed ELSE Listed'
  BY <1>1, <1>2, <1>3 DEF Entered
<1>5. Sound(bck)'
  <2>1. \A j \in DOMAIN bck : bck[j].who \notin Entered'
    BY <1>2, <1>3, <1>4 DEF StatusInv, Lists, Sound
  <2> QED
    BY <1>1, <2>1 DEF StatusInv, Lists, Sound, Distinct, TrueValue
<1>6. Lists'
  <2>1. \A d \in Child : d \in Entered' \cup told' \cup Who(bck') =>
          d \in Entered \cup told \cup Who(bck) \/ proc[d] # "reaped"
    BY <1>1, <1>2, <1>3, <1>4
  <2> QED
    BY <1>1, <1>5, <2>1, ListsFrame DEF StatusInv, TableInv
<1>7. Unstopped'
  BY <1>1 DEF StatusInv, Unstopped
<1>8. EntriesTrue'
  BY <1>1, <1>2, <1>3 DEF StatusInv, EntriesTrue, EntryValue, TrueValue
<1>9. Told'
  BY <1>1, <1>2, <1>3 DEF StatusInv, Told
<1> QED
  BY <1>1, <1>6, <1>7, <1>8, <1>9 DEF StatusInv, TrulyTold

\* what the handler may have noted of it meanwhile is written over,
LEMMA StatusPostFlag ==
    ASSUME TableInv, TypeInv', StatusInv, PostFlag \/ PostExit
    PROVE  StatusInv' /\ TrulyTold
<1>1. /\ pc \in Making /\ Linked /\ Linked' /\ erased' = Overwritten
      /\ UNCHANGED <<proc, news, pid, stops, pwlist, bck, lastpid, saved, bg, told,
                     px>>
  BY DEF PostFlag, PostExit, At, Linked, Making, outside, shell, scopes, command
<1>2. px \in Child /\ Listed \subseteq Child
  BY <1>1, RangeOfSeq DEF Listed, TableInv, TypeInv, TypeOK, Posting
<1>3. /\ Listed' = Listed /\ Entered' = Entered
      /\ erased \subseteq erased' /\ ("DONE" \in flag[px] => px \in erased')
  BY <1>1 DEF Listed, Entered, Overwritten
<1>4. /\ flag \in [Child -> SUBSET Flag] /\ pexit \in [Child -> Status]
      /\ \/ flag' = [flag EXCEPT ![px] = {"EXITSAVE"}] /\ pexit' = pexit
         \/ flag' = flag /\ pexit' = [pexit EXCEPT ![px] = 0]
  BY DEF PostFlag, PostExit, TableInv, TypeInv, TypeOK
<1>5. /\ \A d \in Child \ {px} : flag'[d] = flag[d] /\ pexit'[d] = pexit[d]
      /\ flag'[px] = flag[px] \/ flag'[px] = {"EXITSAVE"}
  BY <1>2, <1>4
<1>6. Lists'
  <2>1. Sound(bck)'
    BY <1>1, <1>3 DEF StatusInv, Lists, Sound, Distinct, TrueValue
  <2> QED
    BY <1>1, <1>3, <2>1, ListsFrame DEF StatusInv, TableInv
<1>7. Unstopped'
  <2> SUFFICES ASSUME NEW d \in Child, stops[d] = 0
               PROVE  /\ news[d] = "none" /\ proc[d] # "stopped"
                      /\ "STOPPED" \notin flag'[d]
                      /\ "SIGNALLED" \in flag'[d] => proc[d] = "reaped"
    BY <1>1 DEF Unstopped
  <2> QED
    BY <1>5 DEF StatusInv, Unstopped
<1>8. EntriesTrue'
  <2> SUFFICES ASSUME NEW d \in Listed \ erased', "DONE" \in flag'[d], stops[d] = 0
               PROVE  EntryValue(d)' = TrueValue(d)
    BY <1>1, <1>3 DEF EntriesTrue, TrueValue
  <2>1. d # px
    BY <1>3, <1>5
  <2> QED
    BY <1>2, <1>3, <1>5, <2>1 DEF StatusInv, EntriesTrue, EntryValue, Value
<1>9. Told'
  <2>1. pc' \in Making
    BY <1>1 DEF Linked, Making
  <2> QED
    BY <1>1, <1>3, <2>1 DEF StatusInv, Told
<1> QED
  BY <1>1, <1>6, <1>7, <1>8, <1>9 DEF StatusInv, TrulyTold

\* and it gets the status it has left if it had ended before.
LEMMA StatusPostSaved ==
    ASSUME TableInv, TypeInv', StatusInv, PostSaved
    PROVE  StatusInv' /\ TrulyTold
<1>1. /\ pc = "saved" /\ pc \in Making /\ Linked /\ ~Linked' /\ pc' \notin Making
      /\ bg' \subseteq bg \cup {px}
      /\ UNCHANGED <<proc, news, pid, stops, pwlist, saved, told, erased>>
  BY DEF PostSaved, At, Linked, Making, outside, shell, scopes
<1>2. /\ px \in Child /\ px \in Listed /\ proc[px] # "unborn" /\ px \notin told
      /\ Listed \subseteq Child
  BY <1>1, RangeOfSeq DEF TableInv, Posted, Entries, Listed, TypeInv, TypeOK,
     Posting, StatusInv, Told
<1>3. Listed' = Listed /\ Entered' = Listed
  BY <1>1 DEF Listed, Entered
<1>4. /\ flag \in [Child -> SUBSET Flag] /\ pexit \in [Child -> Status]
      /\ TypeInv /\ TypeInv' /\ Sound(bck)
      /\ \A d \in Who(bck) : d \in Child /\ proc[d] = "reaped"
                             /\ d \notin Entered /\ d \notin told
  <2>1. TypeInv /\ TypeInv' /\ Sound(bck)
    BY DEF TableInv, StatusInv, Lists
  <2>2. flag \in [Child -> SUBSET Flag] /\ pexit \in [Child -> Status]
    BY <2>1 DEF TypeInv, TypeOK
  <2> QED
    BY <2>1, <2>2, OnList DEF Sound, Who
<1>5. \/ Entered = Listed /\ UNCHANGED <<flag, pexit, bck>>
      \/ /\ proc[px] = "reaped" /\ 1 \in DOMAIN bck
         /\ Entered = Listed \ {px}
         /\ bck[1] = [who |-> px, val |-> TrueValue(px)]
         /\ bck' = RemoveAt(bck, 1)
         /\ flag' = [flag EXCEPT ![px] = {"EXITSAVE", "DONE", "NOTIFY"}]
         /\ pexit' = [pexit EXCEPT ![px] = TrueValue(px)]
  BY <1>1, ChkSaveOf DEF PostSaved, Entered
<1>6. /\ \A d \in Child \ {px} : flag'[d] = flag[d] /\ pexit'[d] = pexit[d]
      /\ \/ flag'[px] = flag[px] /\ pexit'[px] = pexit[px]
         \/ /\ "STOPPED" \notin flag'[px] /\ "SIGNALLED" \notin flag'[px]
            /\ "DONE" \in flag'[px] => pexit'[px] = TrueValue(px)
  BY <1>2, <1>4, <1>5
<1>7. Sound(bck)' /\ Who(bck') \subseteq Who(bck)
  <2>1. CASE Entered = Listed /\ UNCHANGED bck
    BY <1>1, <1>3, <1>4, <2>1 DEF Sound, Distinct, TrueValue, Who
  <2>2. CASE /\ 1 \in DOMAIN bck /\ Entered = Listed \ {px}
             /\ bck[1] = [who |-> px, val |-> TrueValue(px)]
             /\ bck' = RemoveAt(bck, 1)
    <3>1. \A d \in Who(bck) \ {bck[1].who} :
            /\ proc'[d] = "reaped" /\ stops'[d] = stops[d]
            /\ d \notin Entered' /\ d \notin told'
      BY <1>1, <1>3, <1>4, <2>2
    <3>2. Sound(bck)' /\ Who(bck') = Who(bck) \ {bck[1].who}
      BY <1>1, <1>4, <2>2, <3>1, SoundRemove
    <3> QED
      BY <3>2
  <2> QED
    BY <1>5, <2>1, <2>2
<1>8. Lists'
  <2>1. px \in Who(bck) \/ Entered = Listed
    BY <1>5 DEF Who
  <2>2. \A d \in Child : d \in Entered' \cup told' \cup Who(bck') =>
          d \in Entered \cup told \cup Who(bck) \/ proc[d] # "reaped"
    BY <1>1, <1>3, <1>5, <1>7, <2>1
  <2>3. \A d \in Child : proc[d] = "reaped" =>
                           proc'[d] = "reaped" /\ stops'[d] = stops[d]
    BY <1>1
  <2>4. Lists /\ saved' = saved /\ erased \subseteq erased'
    BY <1>1 DEF StatusInv
  <2> QED
    BY <1>4, <1>7, <2>2, <2>3, <2>4, ListsFrame
<1>9. Unstopped'
  <2> SUFFICES ASSUME NEW d \in Child, stops[d] = 0
               PROVE  /\ news[d] = "none" /\ proc[d] # "stopped"
                      /\ "STOPPED" \notin flag'[d]
                      /\ "SIGNALLED" \in flag'[d] => proc[d] = "reaped"
    BY <1>1 DEF Unstopped
  <2> QED
    BY <1>6 DEF StatusInv, Unstopped
<1>10. EntriesTrue'
  <2> SUFFICES ASSUME NEW d \in Listed \ erased, "DONE" \in flag'[d], stops[d] = 0
               PROVE  EntryValue(d)' = TrueValue(d)
    BY <1>1, <1>3 DEF EntriesTrue, TrueValue
  <2>1. CASE flag'[d] = flag[d] /\ pexit'[d] = pexit[d]
    BY <2>1 DEF StatusInv, EntriesTrue, EntryValue, Value
  <2>2. CASE d = px /\ "SIGNALLED" \notin flag'[px] /\ pexit'[px] = TrueValue(px)
    BY <2>2 DEF EntryValue, Value
  <2> QED
    BY <1>2, <1>6, <2>1, <2>2
<1>11. Told'
  BY <1>1, <1>2, <1>3 DEF StatusInv, Told
<1> QED
  BY <1>1, <1>8, <1>9, <1>10, <1>11 DEF StatusInv, TrulyTold

\* job_wait gives out a status that was saved.
LEMMA StatusWaitSaved ==
    ASSUME TableInv, TypeInv', StatusInv, WaitSaved
    PROVE  StatusInv' /\ TrulyTold
<1>1. /\ UNCHANGED <<proc, news, pid, stops, pwlist, flag, pexit, lastpid, saved,
                     bg, evicted, erased>>
      /\ Listed' = Listed /\ Listed \subseteq Child
      /\ pc \notin Making /\ pc' \notin Making
      /\ Aside /\ Entered = Listed /\ Entered' = Listed
  BY RangeOfSeq DEF WaitSaved, At, Making, Aside, Entered, Linked, outside, table,
     scopes, Listed, TableInv, TypeInv, TypeOK
<1>2. CASE UNCHANGED <<told, bck>>
  <2>1. Passive
    BY <1>1, <1>2 DEF Passive
  <2> QED
    BY <2>1, StatusPassive
<1>3. ASSUME NEW i \in DOMAIN bck, exitval' = bck[i].val,
             told' = told \cup {bck[i].who}, bck' = RemoveAt(bck, i)
      PROVE  StatusInv' /\ TrulyTold
  <2>1. /\ TypeInv /\ Sound(bck) /\ bck[i].who \in Who(bck)
        /\ \A d \in Who(bck) : d \in Child /\ proc[d] = "reaped"
                               /\ d \notin Listed /\ d \notin told
    BY <1>1, OnList DEF TableInv, StatusInv, Lists, Sound, Who
  <2>0. erased \subseteq erased'
    BY <1>1
  <2>2. Sound(bck)' /\ Who(bck') = Who(bck) \ {bck[i].who}
    <3>1. \A d \in Who(bck) \ {bck[i].who} :
            /\ proc'[d] = "reaped" /\ stops'[d] = stops[d]
            /\ d \notin Entered' /\ d \notin told'
      BY <1>1, <1>3, <2>1
    <3> QED
      BY <1>3, <2>0, <2>1, <3>1, SoundRemove
  <2>3. Lists'
    <3>1. \A d \in Child : d \in Entered' \cup told' \cup Who(bck') =>
            d \in Entered \cup told \cup Who(bck) \/ proc[d] # "reaped"
      BY <1>1, <1>3, <2>1, <2>2
    <3>2. \A d \in Child : proc[d] = "reaped" =>
                             proc'[d] = "reaped" /\ stops'[d] = stops[d]
      BY <1>1
    <3>3. Lists /\ saved' = saved
      BY <1>1 DEF StatusInv
    <3> QED
      BY <2>0, <2>1, <2>2, <3>1, <3>2, <3>3, ListsFrame
  <2>4. Unstopped' /\ EntriesTrue'
    BY <1>1 DEF StatusInv, Unstopped, EntriesTrue, EntryValue, TrueValue
  <2>5. Told'
    BY <1>1, <1>3, <2>1 DEF StatusInv, Told
  <2>6. TrulyTold
    BY <1>3 DEF StatusInv, Lists, Sound, TrulyTold
  <2> QED
    BY <2>3, <2>4, <2>5, <2>6 DEF StatusInv
<1> QED
  BY <1>2, <1>3 DEF WaitSaved

\* job_wait gives out the status of the process it has waited for.
LEMMA StatusTopDone ==
    ASSUME TableInv, TypeInv', StatusInv, Waiter, TopDone
    PROVE  StatusInv' /\ TrulyTold
<1>1. PICK i \in DOMAIN pwlist :
        pwlist[i] = w.pw /\ pwlist' = RemoveAt(pwlist, i)
  BY DEF TopDone
<1>2. /\ UNCHANGED <<proc, news, stops, pexit, lastpid, saved, bg, erased>>
      /\ Aside /\ ~Linked /\ w.pw # None /\ "DONE" \in flag[w.pw]
      /\ exitval' = EntryValue(w.pw) /\ told' = told \cup {w.pw}
      /\ flag' = [Reported EXCEPT ![w.pw] = @ \ {"NOTIFY", "EXITSAVE", "DONE"}]
  BY DEF TopDone, Waited, At, Aside, Linked, Making, outside, scopes
<1>3. SaveStatus(w.pw, FALSE)
  <2>1. ~(~w.intr /\ "EXITSAVE" \in flag[w.pw])
    BY <1>2 DEF Waiter
  <2>2. SaveStatus(w.pw, ~w.intr /\ "EXITSAVE" \in flag[w.pw])
    BY Zenon DEF TopDone
  <2> QED
    BY <2>1, <2>2 DEF SaveStatus
<1>4. /\ Reported \in [Child -> SUBSET Flag]
      /\ \A c \in Child : /\ Reported[c] \subseteq flag[c]
                          /\ flag[c] \ {"NOTIFY"} \subseteq Reported[c]
  BY ReportedFlags DEF TableInv
<1>5. \A d \in Child :
        /\ flag'[d] \subseteq flag[d]
        /\ d # w.pw /\ "SIGNALLED" \in flag[d] => "SIGNALLED" \in flag'[d]
  BY <1>2, <1>4
<1>6. StatusInv'
  BY <1>1, <1>2, <1>3, <1>5, StatusRemove
<1>7. TrulyTold
  <2>1. w.pw \in Listed
    BY <1>1 DEF Listed, Range
  <2> QED
    BY <1>2, <2>1 DEF StatusInv, EntriesTrue, TrulyTold
<1> QED
  BY <1>6, <1>7

\* sh_subshell puts the list aside and starts with an empty one,
LEMMA StatusEnter ==
    ASSUME TableInv, TypeInv', StatusInv, EnterSubshell
    PROVE  StatusInv' /\ TrulyTold
<1>1. /\ UNCHANGED <<proc, news, pid, stops, pwlist, flag, pexit, lastpid, bg, told,
                     erased>>
      /\ Listed' = Listed /\ UNCHANGED <<pc, px>> /\ bck' = <<>>
      /\ saved' = <<[list |-> bck, env |-> curenv, intrap |-> intrap]>> \o saved
  BY DEF EnterSubshell, outside, table, command, history, Listed
<1>2. Unstopped' /\ EntriesTrue' /\ Told' /\ Entered' = Entered
  BY <1>1 DEF StatusInv, Unstopped, EntriesTrue, EntryValue, TrueValue, Told,
     Entered, Linked
<1>3. /\ 1 \in DOMAIN saved' /\ saved'[1].list = bck
      /\ \A k \in DOMAIN saved' : k # 1 =>
           /\ k - 1 \in DOMAIN saved /\ saved'[k].list = saved[k - 1].list
           /\ k \in Int
  <2> DEFINE Scope ==
               [list : Seq(SavedStatus), env : 0..MaxEnv, intrap : BOOLEAN]
             outer == [list |-> bck, env |-> curenv, intrap |-> intrap]
  <2>1. outer \in Scope /\ saved \in Seq(Scope) /\ outer.list = bck
    BY DEF TableInv, TypeInv, TypeOK
  <2> HIDE DEF Scope
  <2>2. /\ saved' \in Seq(Scope) /\ Len(saved') = Len(saved) + 1
        /\ \A k \in 1..(Len(saved) + 1) :
             saved'[k] = IF k = 1 THEN outer ELSE saved[k - 1]
    BY <1>1, <2>1, ConsProperties
  <2> HIDE DEF outer
  <2>3. /\ Len(saved) \in Nat /\ DOMAIN saved = 1..Len(saved)
        /\ DOMAIN saved' = 1..(Len(saved) + 1)
    BY <2>1, <2>2, LenProperties
  <2> QED
    BY <2>1, <2>2, <2>3
<1>4. \A k \in DOMAIN saved' : k # 1 =>
        /\ Sound(saved'[k].list) /\ Who(saved'[k].list) \cap Who(bck) = {}
        /\ \A l \in DOMAIN saved' : l # 1 /\ k # l =>
             Who(saved'[k].list) \cap Who(saved'[l].list) = {}
  <2> SUFFICES ASSUME NEW k \in DOMAIN saved', k # 1
               PROVE  /\ Sound(saved'[k].list)
                      /\ Who(saved'[k].list) \cap Who(bck) = {}
                      /\ \A l \in DOMAIN saved' : l # 1 /\ k # l =>
                           Who(saved'[k].list) \cap Who(saved'[l].list) = {}
    OBVIOUS
  <2>1. k - 1 \in DOMAIN saved /\ saved'[k].list = saved[k - 1].list /\ k \in Int
    BY <1>3
  <2>2. ASSUME NEW l \in DOMAIN saved', l # 1, k # l
        PROVE  Who(saved'[k].list) \cap Who(saved'[l].list) = {}
    <3>1. l - 1 \in DOMAIN saved /\ saved'[l].list = saved[l - 1].list
          /\ k - 1 # l - 1
      BY <1>3, <2>1, <2>2
    <3> QED
      BY <2>1, <3>1, Zenon DEF StatusInv, Lists
  <2> QED
    BY <2>1, <2>2, Zenon DEF StatusInv, Lists
<1>5. Sound(saved'[1].list) /\ Who(bck') = {}
  BY <1>1, <1>3 DEF StatusInv, Lists, Who
<1>6. Sound(bck)'
  BY <1>1 DEF Sound, Distinct
<1>7. Lists'
  <2>1. \A k, l \in DOMAIN saved' :
           k # l => Who(saved'[k].list) \cap Who(saved'[l].list) = {}
    BY <1>3, <1>4, Zenon
  <2>2. \A k \in DOMAIN saved' : Sound(saved[k].list)'
    <3>1. \A k \in DOMAIN saved' : Sound(saved'[k].list)
      BY <1>4, <1>5, Zenon
    <3> QED
      BY <1>1, <1>2, <3>1 DEF Sound, Distinct, TrueValue
  <2> QED
    BY <1>5, <1>6, <2>1, <2>2 DEF Lists, Who
<1> QED
  BY <1>1, <1>2, <1>7 DEF StatusInv, TrulyTold

\* and takes it back when it is left: the statuses of the inner list are lost.
LEMMA StatusLeave ==
    ASSUME TableInv, TypeInv', StatusInv, LeaveSubshell
    PROVE  StatusInv' /\ TrulyTold
<1>1. /\ UNCHANGED <<proc, news, pid, stops, pwlist, flag, pexit, lastpid, bg, told,
                     erased>>
      /\ Listed' = Listed /\ UNCHANGED <<pc, px>> /\ bck' = saved[1].list
      /\ saved # <<>> /\ saved' = Tail(saved)
  BY DEF LeaveSubshell, outside, table, command, history, Listed
<1>2. Unstopped' /\ EntriesTrue' /\ Told' /\ Entered' = Entered
  BY <1>1 DEF StatusInv, Unstopped, EntriesTrue, EntryValue, TrueValue, Told,
     Entered, Linked
<1>3. /\ 1 \in DOMAIN saved
      /\ \A k \in DOMAIN saved' :
           /\ k + 1 \in DOMAIN saved /\ k + 1 # 1 /\ k \in Int
           /\ saved'[k] = saved[k + 1]
  <2> DEFINE Scope ==
               [list : Seq(SavedStatus), env : 0..MaxEnv, intrap : BOOLEAN]
  <2>1. saved \in Seq(Scope)
    BY DEF TableInv, TypeInv, TypeOK
  <2> HIDE DEF Scope
  <2>2. /\ saved' \in Seq(Scope) /\ Len(saved') = Len(saved) - 1
        /\ \A k \in 1..Len(saved') : saved'[k] = saved[k + 1]
    BY <1>1, <2>1, HeadTailProperties, Zenon
  <2>3. /\ Len(saved) \in Nat /\ DOMAIN saved = 1..Len(saved)
        /\ DOMAIN saved' = 1..Len(saved') /\ 1 \in DOMAIN saved
    BY <1>1, <2>1, <2>2, LenProperties, EmptySeq
  <2> QED
    BY <2>2, <2>3
<1>4. Sound(bck)'
  <2>1. Sound(bck')
    BY <1>1, <1>3 DEF StatusInv, Lists
  <2> QED
    BY <1>1, <1>2, <2>1 DEF Sound, Distinct, TrueValue
<1>5. Lists'
  <2>1. \A k, l \in DOMAIN saved' :
           k # l => Who(saved'[k].list) \cap Who(saved'[l].list) = {}
    <3> SUFFICES ASSUME NEW k \in DOMAIN saved', NEW l \in DOMAIN saved', k # l
                 PROVE  Who(saved'[k].list) \cap Who(saved'[l].list) = {}
      OBVIOUS
    <3>1. k + 1 # l + 1
      BY <1>3
    <3> QED
      BY <1>3, <3>1, Zenon DEF StatusInv, Lists
  <2>2. \A k \in DOMAIN saved' : Sound(saved[k].list)'
    <3>1. \A k \in DOMAIN saved' : Sound(saved'[k].list)
      BY <1>3, Zenon DEF StatusInv, Lists
    <3> QED
      BY <1>1, <1>2, <3>1 DEF Sound, Distinct, TrueValue
  <2>3. \A k \in DOMAIN saved' : Who(saved'[k].list) \cap Who(bck') = {}
    BY <1>1, <1>3, Zenon DEF StatusInv, Lists
  <2> QED
    BY <1>4, <2>1, <2>2, <2>3 DEF Lists, Who
<1> QED
  BY <1>1, <1>2, <1>5 DEF StatusInv, TrulyTold

\* The steps that neither end a process nor move a status.
LEMMA PassiveSteps ==
    ASSUME TypeInv, StatusInv,
           \/ Handler \/ HandlerReturn \/ MainReapDone \/ Flush \/ Signal
           \/ RunTraps \/ EndTrap \/ StartUnpost \/ ForkFails
           \/ \E a \in BOOLEAN : StartFork(a)
           \/ \E p \in Pid \cup {1} : StartWait(p)
           \/ WaitAny \/ WaitForeign \/ WaitFor \/ TopPending
           \/ Unlock \/ Clear \/ Enter \/ Check \/ ExitSet \/ UnpostEnd
           \/ UNCHANGED vars
    PROVE  Passive /\ (flag' = flag \/ WaitFor \/ TopPending)
<1>1. /\ flag \in [Child -> SUBSET Flag] /\ pwlist \in Seq(Child)
      /\ reap.ret \notin Making
  BY DEF TypeInv, TypeOK, Making
<1>2. ASSUME UNCHANGED <<proc, news, pid, stops, pwlist, pexit, bck, lastpid,
                         saved, bg, told, evicted, erased>>,
             flag' = flag,
             UNCHANGED <<pc, px>> \/ (pc \notin Making /\ pc' \notin Making)
      PROVE  Passive
  BY <1>2 DEF Passive, Aside
<1>3. CASE Handler \/ HandlerReturn \/ MainReapDone \/ Flush \/ Signal
  <2>1. /\ UNCHANGED <<proc, news, pid, stops, pwlist, pexit, bck, lastpid,
                       saved, bg, told, evicted, erased>>
        /\ flag' = flag
    BY <1>3 DEF Handler, HandlerReturn, MainReapDone, Flush, Signal, outside,
       jobs, table, shell, scopes, history
  <2>2. UNCHANGED <<pc, px>> \/ (pc \notin Making /\ pc' \notin Making)
    BY <1>1, <1>3 DEF Handler, HandlerReturn, MainReapDone, Flush, Signal,
       Interrupted, Return, command, At, Making
  <2> QED
    BY <1>2, <2>1, <2>2
<1>4. CASE \/ RunTraps \/ EndTrap \/ StartUnpost \/ ForkFails
           \/ \E a \in BOOLEAN : StartFork(a)
           \/ \E p \in Pid \cup {1} : StartWait(p)
  <2>1. /\ UNCHANGED <<proc, news, pid, stops, pwlist, pexit, bck, lastpid,
                       saved, bg, told, evicted, erased>>
        /\ flag' = flag
    BY <1>4 DEF RunTraps, EndTrap, StartUnpost, ForkFails, StartFork, StartWait,
       outside, jobs, table, shell, scopes, history
  <2>2. UNCHANGED <<pc, px>> \/ (pc \notin Making /\ pc' \notin Making)
    BY <1>4 DEF RunTraps, EndTrap, StartUnpost, ForkFails, StartFork, StartWait,
       command, At, Making
  <2> QED
    BY <1>2, <2>1, <2>2
<1>5. CASE \/ WaitAny \/ WaitForeign \/ Unlock \/ Clear \/ Enter \/ Check
           \/ ExitSet \/ UnpostEnd \/ UNCHANGED vars
  <2>1. /\ UNCHANGED <<proc, news, pid, stops, pwlist, pexit, bck, lastpid,
                       saved, bg, told, evicted, erased>>
        /\ flag' = flag
    BY <1>5 DEF WaitAny, WaitForeign, Unlock, Clear, Enter, Check, ExitSet,
       UnpostEnd, vars, main, outside, jobs, table, shell, scopes, history
  <2>2. UNCHANGED <<pc, px>> \/ (pc \notin Making /\ pc' \notin Making)
    BY <1>5 DEF WaitAny, WaitForeign, Unlock, Clear, Enter, Check, ExitSet,
       UnpostEnd, vars, main, command, At, Making
  <2> QED
    BY <1>2, <2>1, <2>2
<1>6. CASE WaitFor
  <2>1. /\ UNCHANGED <<proc, news, pid, stops, pwlist, pexit, bck, lastpid,
                       saved, bg, told, evicted, erased>>
        /\ Aside
    BY <1>6 DEF WaitFor, At, Aside, Making, outside, shell, scopes, history
  <2>2. \A c \in Child : /\ flag'[c] \subseteq flag[c]
                         /\ flag[c] \ {"EXITSAVE"} \subseteq flag'[c]
    BY <1>1, <1>6 DEF WaitFor
  <2> QED
    BY <1>6, <2>1, <2>2 DEF Passive
<1>7. CASE TopPending
  <2>1. /\ UNCHANGED <<proc, news, pid, stops, pwlist, pexit, bck, lastpid,
                       saved, bg, told, evicted, erased>>
        /\ Aside
    BY <1>7 DEF TopPending, At, Aside, Making, outside, shell, scopes, history
  <2>2. /\ Reported \in [Child -> SUBSET Flag]
        /\ \A c \in Child : /\ Reported[c] \subseteq flag[c]
                            /\ flag[c] \ {"NOTIFY"} \subseteq Reported[c]
    BY ReportedFlags
  <2>3. CASE flag' = Reported
    BY <1>7, <2>1, <2>2, <2>3 DEF Passive
  <2>4. CASE /\ Waited("STOPPED")
             /\ flag' = [Reported EXCEPT ![w.pw] =
                           @ \ {"NOTIFY", "SIGNALLED", "STOPPED", "EXITSAVE"}]
    <3>1. w.pw \in Child => stops[w.pw] # 0
      BY <2>4 DEF Waited, StatusInv, Unstopped
    <3>2. \A c \in Child :
            /\ flag'[c] \subseteq flag[c]
            /\ "DONE" \in flag[c] => "DONE" \in flag'[c]
            /\ c # w.pw /\ "SIGNALLED" \in flag[c] => "SIGNALLED" \in flag'[c]
      BY <2>2, <2>4
    <3> QED
      BY <1>7, <2>1, <3>1, <3>2 DEF Passive
  <2> QED
    BY <1>7, <2>3, <2>4 DEF TopPending
<1> QED
  BY <1>3, <1>4, <1>5, <1>6, <1>7

\* A new shell has no statuses.
LEMMA StatusInit == Init => StatusInv /\ Waiter
<1> SUFFICES ASSUME Init PROVE StatusInv /\ Waiter
  OBVIOUS
<1>1. Unstopped /\ Told /\ Waiter
  BY DEF Init, Unstopped, Told, Waiter, NoWait, Making
<1>2. EntriesTrue /\ Lists
  BY DEF Init, EntriesTrue, Listed, Range, Lists, Sound, Distinct
<1> QED
  BY <1>1, <1>2 DEF StatusInv

\* Every step keeps the statuses true, and gives out none that is not.
LEMMA StatusStep ==
    ASSUME TableInv, TableInv', StatusInv, Waiter, [Next]_vars
    PROVE  StatusInv' /\ TrulyTold
<1>1. TypeInv /\ TypeInv'
  BY DEF TableInv
<1>2. ASSUME NEW c \in Child, HandlerReap(c) \/ MainReap(c)
      PROVE  StatusInv' /\ TrulyTold
  <2>1. /\ Reap(c, TRUE) \/ (Reap(c, reap.cont) /\ reap.cont \in BOOLEAN)
        /\ UNCHANGED <<pc, px, stops, saved, bg, told, erased>>
        /\ hand \/ pc = "reap"
    BY <1>1, <1>2 DEF HandlerReap, MainReap, At, shell, scopes, command, TypeInv,
       TypeOK
  <2>2. MaxFails = 0 => pc \notin Making
    BY <2>1 DEF TableInv, Quiet, Making
  <2> QED
    BY <1>1, <2>1, <2>2, StatusReap
<1>3. CASE UnpostNext
  <2>1. PICK i \in DOMAIN pwlist : Unpost(i)
    BY <1>3 DEF UnpostNext
  <2>2. /\ UNCHANGED <<proc, news, pid, stops, pexit, lastpid, saved, bg, told,
                       erased>>
        /\ ~Linked /\ Aside
    BY <1>3 DEF UnpostNext, At, Linked, Aside, Making, outside, shell, scopes
  <2> QED
    BY <1>1, <2>1, <2>2, StatusUnpost
<1>4. CASE ChildStep
  BY <1>1, <1>4, StatusChild DEF ChildStep
<1>5. CASE HandlerStep \/ ReapStep \/ Signal
  BY <1>1, <1>2, <1>5, PassiveSteps, StatusPassive DEF HandlerStep, ReapStep
<1>6. CASE Command
  BY <1>1, <1>6, PassiveSteps, StatusPassive, StatusEnter, StatusLeave
  DEF Command
<1>7. CASE ForkStep
  BY <1>1, <1>7, PassiveSteps, StatusPassive, StatusFork, StatusPostUnpost,
     StatusPostLink, StatusPostFlag, StatusPostSaved DEF ForkStep
<1>8. CASE WaitStep
  BY <1>1, <1>3, <1>8, PassiveSteps, StatusPassive, StatusWaitSaved,
     StatusTopDone DEF WaitStep
<1>9. CASE UNCHANGED vars
  BY <1>1, <1>9, PassiveSteps, StatusPassive
<1> QED
  BY <1>4, <1>5, <1>6, <1>7, <1>8, <1>9 DEF Next

\* What the provers need of the three invariants together.
LEMMA StatusAlways ==
    ASSUME Orderly
    PROVE  Spec => [](TableInv /\ StatusInv /\ Waiter)
<1>1. Init => TableInv /\ StatusInv /\ Waiter
  BY TableInit, StatusInit
<1>2. TableInv /\ StatusInv /\ Waiter /\ [Next]_vars
        => (TableInv /\ StatusInv /\ Waiter)'
  <2> SUFFICES ASSUME TableInv, StatusInv, Waiter, [Next]_vars
               PROVE  TableInv' /\ StatusInv' /\ Waiter'
    OBVIOUS
  <2>1. TableInv' /\ Waiter'
    BY TableStep, WaiterStep DEF TableInv
  <2> QED
    BY <2>1, StatusStep
<1> QED
  BY <1>1, <1>2, PTL DEF Spec

\* When job_wait puts the status of a process into sh.exitval, from its entry
\* in the table or from the list of saved statuses, it is the one the process
\* has ended with, unless it was stopped on the way or job_post wrote over the
\* note of its end: whatever the handler, failing forks and other commands have
\* done to the table in between.
THEOREM ReportCorrect == ASSUME Orderly PROVE Spec => TrueReport
<1>1. Spec => [](TableInv /\ StatusInv /\ Waiter)
  BY StatusAlways
<1>2. TableInv /\ StatusInv /\ Waiter /\ [Next]_vars
        => [\A c \in (told' \ told) \ erased :
              stops[c] = 0 => exitval' = TrueValue(c)]_vars
  <2> SUFFICES ASSUME TableInv, StatusInv, Waiter, [Next]_vars
               PROVE  TrulyTold
    BY DEF TrulyTold
  <2>1. TableInv'
    BY TableStep
  <2> QED
    BY <2>1, StatusStep
<1> QED
  BY <1>1, <1>2, PTL DEF Spec, TrueReport

\* A status that job_wait has given out is nowhere left for a second wait to
\* find: neither in the entry of the process, nor on any list of saved
\* statuses, those of the enclosing shells included.
THEOREM OnceCorrect == ASSUME Orderly PROVE Spec => []NoSecondReport
<1>1. Spec => [](TableInv /\ StatusInv /\ Waiter)
  BY StatusAlways
<1>2. StatusInv => NoSecondReport
  <2> SUFFICES ASSUME StatusInv, NEW c \in bg \cap told
               PROVE  /\ c \in Listed => "EXITSAVE" \notin flag[c]
                      /\ \A v \in {pexit[c], TrueValue(c)} : ~IsKept(c, v)
    BY DEF NoSecondReport
  <2>1. c \notin Listed
    BY DEF StatusInv, Told
  <2>2. ASSUME NEW v, IsKept(c, v) PROVE FALSE
    <3>1. PICK b \in {bck} \cup {saved[k].list : k \in DOMAIN saved} :
            \E i \in DOMAIN b : b[i] = [who |-> c, val |-> v]
      BY <2>2 DEF IsKept
    <3>2. Sound(b)
      BY DEF StatusInv, Lists
    <3> QED
      BY <3>1, <3>2 DEF Sound
  <2> QED
    BY <2>1, <2>2
<1> QED
  BY <1>1, <1>2, PTL

-----------------------------------------------------------------------------
(***************************************************************************)
(* The third part: what the statuses of background processes are kept in.  *)
(* Without virtual subshells there is one list, and none of it is thrown   *)
(* away.                                                                   *)
(***************************************************************************)
Kept(c) ==
    \/ c \in told \cup evicted
    \/ c \in Listed /\ "EXITSAVE" \in flag[c]
    \/ c \in Who(bck)

BgKept == \A c \in bg : stops[c] = 0 => Kept(c)

\* The shell waits of its own accord only for the foreground process it has
\* just forked, and no background process has that pid.
AboutToWait == pc = "wait" \/ (pc \in {"flush", "reap"} /\ reap.ret = "wait")
Foreground ==
    AboutToWait /\ ~w.intr => \A c \in Listed : pid[c] = w.arg => c \notin bg

KeptInv == saved = <<>> /\ Foreground /\ BgKept

\* job_waitsafe takes no entry out of the table.
LEMMA ReapListed ==
    ASSUME TableInv, NEW c \in Child, NEW cont \in BOOLEAN, Reap(c, cont),
           MaxFails = 0 => pc \notin Making
    PROVE  Listed' = Listed
<1>1. ASSUME NEW i \in DOMAIN pwlist,
             NoteEnd(c, i) \/ NoteStop(c, i) \/ NoteContinue(c, i)
      PROVE  Listed' = Listed
  <2>1. IsInjective(pwlist) /\ pwlist \in Seq(Child)
    BY DEF TableInv, TypeInv, TypeOK, Entries
  <2>2. pwlist' = pwlist \/ pwlist' = <<pwlist[i]>> \o RemoveAt(pwlist, i)
    BY <1>1 DEF NoteEnd, NoteStop, NoteContinue
  <2> QED
    BY <2>1, <2>2, MoveToFrontRange DEF Listed
<1> QED
  BY <1>1, ReapCases DEF Listed

\* The foreground process stays the only one the shell waits for.
LEMMA ForegroundStep ==
    ASSUME TableInv, TableInv', StatusInv, Foreground, [Next]_vars
    PROVE  Foreground'
<1>1. /\ reap \in ReapCall /\ w \in WaitCall /\ TypeInv
  BY DEF TableInv, TypeInv, TypeOK, ReapCall, WaitCall
<1>2. ASSUME UNCHANGED <<pid, pwlist, bg>>, AboutToWait' => AboutToWait /\ w' = w
      PROVE  Foreground'
  BY <1>2 DEF Foreground, Listed
<1>3. ASSUME ~AboutToWait' PROVE Foreground'
  BY <1>3 DEF Foreground
<1>4. CASE ChildStep \/ UNCHANGED vars
  <2>1. UNCHANGED <<pid, pwlist, bg, pc, reap, w>>
    BY <1>4 DEF ChildStep, ChildEnd, ChildStop, ChildContinue, Changes, vars,
       main, outside, jobs, table, call, history
  <2> QED
    BY <1>2, <2>1 DEF AboutToWait
<1>5. CASE Handler \/ HandlerReturn \/ MainReapDone \/ Flush \/ Signal
  <2>1. UNCHANGED <<pid, pwlist, bg>>
    BY <1>5 DEF Handler, HandlerReturn, MainReapDone, Flush, Signal,
       outside, jobs, table, history
  <2>2. \/ UNCHANGED <<pc, w, reap>>
        \/ pc = "flush" /\ pc' = "reap" /\ UNCHANGED <<w, reap>>
        \/ pc \in {"flush", "reap"} /\ Return
    BY <1>5 DEF Handler, HandlerReturn, MainReapDone, Flush, Signal,
       Interrupted, At, call
  <2>3. AboutToWait' => AboutToWait /\ w' = w
    BY <1>1, <2>2 DEF AboutToWait, Return, ReapCall
  <2> QED
    BY <1>2, <2>1, <2>3
<1>6. ASSUME NEW c \in Child, HandlerReap(c) \/ MainReap(c) PROVE Foreground'
  <2>1. /\ Reap(c, TRUE) \/ Reap(c, reap.cont)
        /\ UNCHANGED <<pid, bg, pc, w>> /\ reap.cont \in BOOLEAN
        /\ reap'.ret = reap.ret /\ (hand \/ pc = "reap")
    BY <1>1, <1>6
    DEF HandlerReap, MainReap, At, call, ReapCall
  <2>2. MaxFails = 0 => pc \notin Making
    BY <2>1 DEF TableInv, Quiet, Making
  <2>3. Listed' = Listed
    BY <2>1, <2>2, ReapListed
  <2> QED
    BY <2>1, <2>3 DEF Foreground, AboutToWait
<1>7. CASE Command
  <2>1. ASSUME NEW p \in Pid \cup {1}, StartWait(p) PROVE Foreground'
    BY <2>1 DEF StartWait, Foreground
  <2>2. CASE ~\E p \in Pid \cup {1} : StartWait(p)
    <3>1. pc' \in {"idle", "fork", "exitset"}
      BY <1>7, <2>2 DEF Command, StartFork, StartUnpost, RunTraps, EndTrap,
         EnterSubshell, LeaveSubshell, At
    <3> QED
      BY <1>3, <3>1 DEF AboutToWait
  <2> QED
    BY <2>1, <2>2
<1>8. CASE PostSaved
  <2>1. /\ pc = "saved" /\ Linked /\ pc \in Making /\ UNCHANGED <<pid, pwlist>>
        /\ amp => reap'.ret = "idle" /\ pc' = "flush"
        /\ ~amp => bg' = bg /\ w'.arg = pid[px]
    BY <1>8 DEF PostSaved, At, Linked, Making, outside, NoWait, Poll
  <2>2. CASE amp
    BY <1>3, <2>1, <2>2 DEF AboutToWait
  <2>3. CASE ~amp
    <3>1. /\ px \in Listed /\ px \notin bg /\ Listed' = Listed
          /\ \A c \in Listed : pid[c] = pid[px] => c = px
      BY <2>1 DEF TableInv, Posted, Entries, StatusInv, Told, Listed
    <3> QED
      BY <2>1, <2>3, <3>1 DEF Foreground
  <2> QED
    BY <2>2, <2>3
<1>9. CASE ForkStep
  <2>1. PostSaved \/ pc' \in {"post", "top", "link", "flag", "exit", "saved"}
    BY <1>9 DEF ForkStep, Fork, ForkFails, PostUnpost, PostLink, PostFlag, PostExit
  <2> QED
    BY <1>3, <1>8, <2>1 DEF AboutToWait
<1>10. CASE WaitStep
  <2>1. \/ pc' \notin {"wait", "flush", "reap"}
        \/ reap'.ret \in {"idle", "exitset", "check", "fork"} /\ pc' # "wait"
    BY <1>10 DEF WaitStep, WaitAny, WaitSaved, WaitForeign, WaitFor, TopPending,
       TopDone, Unlock, Clear, Enter, Check, ExitSet, UnpostNext, UnpostEnd,
       Poll, At
  <2> QED
    BY <1>3, <2>1 DEF AboutToWait
<1> QED
  BY <1>4, <1>5, <1>6, <1>7, <1>9, <1>10 DEF Next, HandlerStep, ReapStep

\* A step in which every status that was kept stays kept.
LEMMA KeptFrame ==
    ASSUME BgKept, bg' = bg, stops' = stops,
           \A c \in bg : stops[c] = 0 /\ Kept(c) =>
             \/ c \in told' \cup evicted'
             \/ c \in Listed' /\ "EXITSAVE" \in flag'[c]
             \/ c \in Who(bck')
    PROVE  BgKept'
<1>1. Who(bck)' = Who(bck')
  BY DEF Who
<1> QED
  BY <1>1 DEF BgKept, Kept

\* One turn of job_waitsafe's loop.
LEMMA KeptReap ==
    ASSUME TableInv, StatusInv, BgKept,
           NEW c \in Child, NEW cont \in BOOLEAN, Reap(c, cont),
           MaxFails = 0 => pc \notin Making, UNCHANGED <<stops, bg, told>>
    PROVE  BgKept'
<1>1. Listed' = Listed /\ Listed \subseteq Child
  BY ReapListed, RangeOfSeq DEF Listed, TableInv, TypeInv, TypeOK
<1>2. \A d \in Child : "EXITSAVE" \in flag'[d] <=> "EXITSAVE" \in flag[d]
  BY ExitSaveOfReap DEF TableInv
<1>3. evicted \subseteq evicted' /\ Who(bck) \subseteq Who(bck') \cup evicted'
  <2>1. CASE UNCHANGED <<bck, evicted>>
    BY <2>1
  <2>2. CASE /\ proc[c] = "zombie" /\ bck' = Push(bck, c, TrueValue(c))
             /\ evicted' = evicted \cup Evict(bck)
    <3>1. /\ bck \in Seq(SavedStatus) /\ TrueValue(c) \in Status
          /\ Distinct(bck) /\ c \notin Who(bck)
      <4>1. bck \in Seq(SavedStatus) /\ TrueValue(c) \in Status
        BY ValueType DEF TableInv, TypeInv, TypeOK
      <4>2. Distinct(bck) /\ c \notin Who(bck)
        BY <2>2 DEF StatusInv, Lists, Sound, Who
      <4> QED
        BY <4>1, <4>2
    <3>2. Who(bck) \subseteq Who(Push(bck, c, TrueValue(c))) \cup Evict(bck)
      BY <3>1, PushWho
    <3> QED
      BY <2>2, <3>2
  <2> QED
    BY <2>1, <2>2, ReapCases
<1> QED
  BY <1>1, <1>2, <1>3, KeptFrame DEF Kept

\* An entry goes, and its status is either saved or told.
LEMMA KeptRemove ==
    ASSUME TableInv, StatusInv, BgKept, UNCHANGED <<stops, bg>>,
           NEW i \in DOMAIN pwlist, NEW c, c = pwlist[i], "DONE" \in flag[c],
           pwlist' = RemoveAt(pwlist, i), ~Linked,
           NEW keep \in BOOLEAN, SaveStatus(c, keep), told \subseteq told',
           c \in told' \/ ("EXITSAVE" \in flag[c] => keep),
           \A d \in Child \ {c} : "EXITSAVE" \in flag[d] => "EXITSAVE" \in flag'[d]
    PROVE  BgKept'
<1>1. Listed' = Listed \ {c} /\ Listed \subseteq Child /\ c \in Listed
  <2>1. pwlist \in Seq(Child) /\ IsInjective(pwlist)
    BY DEF TableInv, Entries, TypeInv, TypeOK
  <2>2. Range(pwlist') = Range(pwlist) \ {c} /\ Range(pwlist) \subseteq Child
    BY <2>1, RemoveAtRange, RangeOfSeq
  <2> QED
    BY <2>2 DEF Listed, Range
<1>2. /\ evicted \subseteq evicted' /\ Who(bck) \subseteq Who(bck') \cup evicted'
      /\ keep => c \in Who(bck')
  <2>1. CASE keep
    <3>1. bck' = Push(bck, c, EntryValue(c)) /\ evicted' = evicted \cup Evict(bck)
      BY <2>1 DEF SaveStatus
    <3>2. c \in Child /\ pexit[c] \in Status
      BY <1>1 DEF TableInv, TypeInv, TypeOK
    <3>3. EntryValue(c) \in Status
      <4>1. ("SIGNALLED" \in flag[c]) \in BOOLEAN
        OBVIOUS
      <4> QED
        BY <3>2, <4>1, ValueType, Zenon DEF EntryValue
    <3>4. bck \in Seq(SavedStatus)
      BY DEF TableInv, TypeInv, TypeOK
    <3>5. Distinct(bck) /\ c \notin Who(bck)
      BY <1>1 DEF StatusInv, Lists, Sound, Who, Entered
    <3>6. /\ c \in Who(Push(bck, c, EntryValue(c)))
          /\ Who(bck) \subseteq Who(Push(bck, c, EntryValue(c))) \cup Evict(bck)
      BY <3>2, <3>3, <3>4, <3>5, PushWho
    <3> QED
      BY <3>1, <3>6
  <2>2. CASE ~keep
    BY <2>2 DEF SaveStatus
  <2> QED
    BY <2>1, <2>2
<1> QED
  BY <1>1, <1>2, KeptFrame DEF Kept

LEMMA KeptUnpost ==
    ASSUME TableInv, StatusInv, BgKept, UNCHANGED <<stops, bg, told>>,
           NEW i \in DOMAIN pwlist, Unpost(i), ~Linked
    PROVE  BgKept'
<1>1. CASE Unpostable(pwlist[i])
  <2> DEFINE keep == "EXITSAVE" \in flag[pwlist[i]]
  <2>1. /\ pwlist' = RemoveAt(pwlist, i)
        /\ flag' = [flag EXCEPT ![pwlist[i]] = @ \ {"EXITSAVE", "DONE"}]
        /\ SaveStatus(pwlist[i], keep)
    BY <1>1, Zenon DEF Unpost
  <2>2. "DONE" \in flag[pwlist[i]] /\ keep \in BOOLEAN
    BY <1>1 DEF Unpostable
  <2>3. \A d \in Child \ {pwlist[i]} :
          "EXITSAVE" \in flag[d] => "EXITSAVE" \in flag'[d]
    BY <2>1 DEF TableInv, TypeInv, TypeOK
  <2>4. "EXITSAVE" \in flag[pwlist[i]] => keep
    OBVIOUS
  <2> HIDE DEF keep
  <2> QED
    BY <2>1, <2>2, <2>3, <2>4, KeptRemove
<1>2. CASE ~Unpostable(pwlist[i])
  <2>1. UNCHANGED <<pwlist, flag, bck, evicted>>
    BY <1>2, Zenon DEF Unpost
  <2> QED
    BY <2>1, KeptFrame DEF Kept, Listed
<1> QED
  BY <1>1, <1>2

\* job_post marks the status of a process as one to be saved before the script
\* has its pid,
LEMMA KeptPostFlag ==
    ASSUME TableInv, StatusInv, BgKept, PostLink \/ PostFlag \/ PostExit
    PROVE  BgKept'
<1>1. /\ pc \in Making /\ UNCHANGED <<bck, stops, bg, told, evicted>>
  BY DEF PostLink, PostFlag, PostExit, At, Making, outside, history
<1>2. px \in Child /\ px \notin bg /\ bg \subseteq Child
  BY <1>1 DEF TableInv, TypeInv, TypeOK, Posting, StatusInv, Told
<1>3. Listed \subseteq Listed'
  <2>1. CASE PostLink
    <3>1. /\ pwlist' = <<px>> \o pwlist /\ px \notin Listed
      BY <2>1 DEF PostLink, At, TableInv, Posted, AtPost
    <3>2. /\ pwlist \in Seq(Child) /\ IsInjective(pwlist)
          /\ px \notin Range(pwlist)
      BY <3>1 DEF TableInv, Entries, TypeInv, TypeOK, Listed
    <3>3. Range(<<px>> \o pwlist) = {px} \cup Range(pwlist)
      BY <1>2, <3>2, ConsRange
    <3> QED
      BY <3>1, <3>3 DEF Listed
  <2>2. CASE PostFlag \/ PostExit
    BY <2>2 DEF PostFlag, PostExit, Listed
  <2> QED
    BY <2>1, <2>2
<1>4. \A d \in Child \ {px} : flag'[d] = flag[d]
  <2>1. flag' = flag \/ flag' = [flag EXCEPT ![px] = {"EXITSAVE"}]
    BY DEF PostLink, PostFlag, PostExit
  <2> QED
    BY <2>1 DEF TableInv, TypeInv, TypeOK
<1> QED
  BY <1>1, <1>2, <1>3, <1>4, KeptFrame DEF Kept

\* and takes only that process's own status from the list.
LEMMA KeptPostSaved ==
    ASSUME TableInv, StatusInv, BgKept, PostSaved
    PROVE  BgKept'
<1>1. /\ pc = "saved" /\ Linked /\ Listed' = Listed
      /\ bg' \subseteq bg \cup {px}
      /\ UNCHANGED <<stops, told, evicted>>
  BY DEF PostSaved, At, Linked, outside, Listed
<1>2. /\ px \in Child /\ px \in Listed /\ Listed \subseteq Child
      /\ "EXITSAVE" \in flag[px]
  BY <1>1, RangeOfSeq
  DEF TableInv, Posted, TypeInv, TypeOK, Posting, Making, Listed
<1>3. /\ "EXITSAVE" \in flag'[px]
      /\ \A d \in Child \ {px} : flag'[d] = flag[d]
      /\ Who(bck) \subseteq Who(bck') \cup {px}
  <2>1. \/ UNCHANGED <<bck, flag>>
        \/ /\ 1 \in DOMAIN bck
           /\ bck[1] = [who |-> px, val |-> TrueValue(px)]
           /\ bck' = RemoveAt(bck, 1)
           /\ flag' = [flag EXCEPT ![px] = {"EXITSAVE", "DONE", "NOTIFY"}]
    BY <1>1, ChkSaveOf DEF PostSaved
  <2>2. bck \in Seq(SavedStatus) /\ Distinct(bck)
        /\ flag \in [Child -> SUBSET Flag]
    BY DEF TableInv, TypeInv, TypeOK, StatusInv, Lists, Sound
  <2>3. 1 \in DOMAIN bck => Who(RemoveAt(bck, 1)) = Who(bck) \ {bck[1].who}
    BY <2>2, RemoveWho
  <2>4. Who(bck) \subseteq Who(bck') \cup {px}
    BY <2>1, <2>3
  <2> QED
    BY <1>2, <2>1, <2>2, <2>4
<1>4. ASSUME NEW c \in bg', stops'[c] = 0
      PROVE  \/ c \in told' \cup evicted'
             \/ c \in Listed' /\ "EXITSAVE" \in flag'[c]
             \/ c \in Who(bck')
  <2>1. CASE c = px
    BY <1>1, <1>2, <1>3, <2>1
  <2>2. CASE c # px
    BY <1>1, <1>2, <1>3, <1>4, <2>2 DEF BgKept, Kept
  <2> QED
    BY <2>1, <2>2
<1>5. Who(bck)' = Who(bck')
  BY DEF Who
<1> QED
  BY <1>4, <1>5 DEF BgKept, Kept

\* Steps that move no status: job_wait takes EXITSAVE from the process it
\* waits for, and from one that has stopped.
LEMMA KeptPassive ==
    ASSUME TableInv, StatusInv, Foreground, BgKept, Passive,
           flag' = flag \/ WaitFor \/ TopPending
    PROVE  BgKept'
<1>1. /\ bg' = bg /\ stops' = stops /\ Listed' = Listed /\ told' = told
      /\ evicted' = evicted /\ Who(bck') = Who(bck)
      /\ Listed \subseteq Child /\ flag \in [Child -> SUBSET Flag]
  BY RangeOfSeq DEF Passive, Listed, TableInv, TypeInv, TypeOK
<1>2. ASSUME \A c \in bg \cap Listed :
                stops[c] = 0 /\ "EXITSAVE" \in flag[c] => "EXITSAVE" \in flag'[c]
      PROVE  BgKept'
  BY <1>1, <1>2, KeptFrame DEF Kept
<1>3. CASE flag' = flag
  BY <1>2, <1>3
<1>4. CASE WaitFor
  <2>1. PICK i \in DOMAIN pwlist :
          /\ IsEntry(i, w.arg)
          /\ flag' = IF w.intr THEN flag
                     ELSE [flag EXCEPT ![pwlist[i]] = @ \ {"EXITSAVE"}]
    BY <1>4 DEF WaitFor
  <2>2. pwlist[i] \in Listed /\ pid[pwlist[i]] = w.arg
    BY <2>1 DEF IsEntry, Listed, Range
  <2>3. w.intr \/ pwlist[i] \notin bg
    BY <1>4, <2>2 DEF WaitFor, At, Foreground, AboutToWait
  <2> QED
    BY <1>1, <1>2, <2>1, <2>3
<1>5. CASE TopPending
  <2>1. /\ Reported \in [Child -> SUBSET Flag]
        /\ \A c \in Child : flag[c] \ {"NOTIFY"} \subseteq Reported[c]
    BY ReportedFlags DEF TableInv
  <2>2. CASE flag' = Reported
    BY <1>1, <1>2, <2>1, <2>2
  <2>3. CASE /\ Waited("STOPPED")
             /\ flag' = [Reported EXCEPT ![w.pw] =
                           @ \ {"NOTIFY", "SIGNALLED", "STOPPED", "EXITSAVE"}]
    <3>1. w.pw \in Child => stops[w.pw] # 0
      BY <2>3 DEF Waited, StatusInv, Unstopped
    <3> QED
      BY <1>1, <1>2, <2>1, <2>3, <3>1
  <2> QED
    BY <1>5, <2>2, <2>3 DEF TopPending
<1> QED
  BY <1>3, <1>4, <1>5

\* Every step keeps what is kept.
LEMMA KeptStep ==
    ASSUME MaxEnv = 0, TableInv, TableInv', StatusInv, Waiter, KeptInv, [Next]_vars
    PROVE  KeptInv'
<1>1. TypeInv
  BY DEF TableInv
<1>2. saved' = <<>>
  <2>1. ~EnterSubshell /\ ~LeaveSubshell
    BY DEF EnterSubshell, LeaveSubshell, KeptInv
  <2>2. saved' = saved
    <3>1. CASE ChildStep \/ HandlerStep \/ ReapStep \/ Signal \/ UNCHANGED vars
      BY <3>1 DEF ChildStep, ChildEnd, ChildStop, ChildContinue, Changes,
         HandlerStep, Handler, HandlerReap, HandlerReturn, ReapStep, MainReap,
         MainReapDone, Flush, Signal, vars, main, shell, scopes
    <3>2. CASE Command \/ ForkStep
      BY <2>1, <3>2 DEF Command, StartFork, StartWait, StartUnpost, RunTraps,
         EndTrap, ForkStep, Fork, ForkFails, PostUnpost, PostLink, PostFlag,
         PostExit, PostSaved, shell, scopes
    <3>3. CASE WaitStep
      BY <3>3 DEF WaitStep, WaitAny, WaitSaved, WaitForeign, WaitFor,
         TopPending, TopDone, Unlock, Clear, Enter, Check, ExitSet, UnpostNext,
         UnpostEnd, shell, scopes
    <3> QED
      BY <3>1, <3>2, <3>3 DEF Next
  <2> QED
    BY <2>2 DEF KeptInv
<1>3. Foreground'
  BY ForegroundStep DEF KeptInv
<1>4. Foreground /\ BgKept
  BY DEF KeptInv
<1>5. ASSUME NEW c \in Child, ChildEnd(c) \/ ChildStop(c) \/ ChildContinue(c)
      PROVE  BgKept'
  <2>1. UNCHANGED <<pwlist, flag, bck, bg, told, evicted>>
    BY <1>5 DEF ChildEnd, ChildStop, ChildContinue, Changes, main, jobs, table,
       history
  <2>2. \A d \in Child : stops'[d] = 0 => stops[d] = 0
    <3>1. stops \in [Child -> 0..MaxStops]
      BY <1>1 DEF TypeInv, TypeOK
    <3>2. CASE ChildStop(c)
      <4>1. stops[c] \in Nat
        BY <3>1, BoundAssumption
      <4>2. stops[c] + 1 # 0
        BY <4>1
      <4> QED
        BY <3>1, <3>2, <4>2 DEF ChildStop
    <3> QED
      BY <1>5, <3>2 DEF ChildEnd, ChildContinue
  <2>3. bg \subseteq Child
    BY <1>1 DEF TypeInv, TypeOK
  <2> QED
    BY <1>4, <2>1, <2>2, <2>3 DEF BgKept, Kept, Listed, Who
<1>6. ASSUME NEW c \in Child, HandlerReap(c) \/ MainReap(c) PROVE BgKept'
  <2>1. /\ Reap(c, TRUE) \/ (Reap(c, reap.cont) /\ reap.cont \in BOOLEAN)
        /\ UNCHANGED <<stops, bg, told>>
        /\ hand \/ pc = "reap"
    BY <1>1, <1>6 DEF HandlerReap, MainReap, At, TypeInv, TypeOK
  <2>2. MaxFails = 0 => pc \notin Making
    BY <2>1 DEF TableInv, Quiet, Making
  <2> QED
    BY <1>4, <2>1, <2>2, KeptReap
<1>7. ASSUME NEW c \in Child, NEW p \in Pid, Fork(c, p) PROVE BgKept'
  <2>1. UNCHANGED <<pwlist, flag, bck, stops, bg, told, evicted>>
    BY <1>7 DEF Fork, jobs, table, history
  <2> QED
    BY <1>4, <2>1, KeptFrame DEF Kept, Listed
<1>8. ASSUME PostUnpost \/ UnpostNext PROVE BgKept'
  <2>1. UNCHANGED <<stops, bg, told>> /\ ~Linked
    BY <1>8 DEF PostUnpost, UnpostNext, At, Linked, outside
  <2>2. CASE UNCHANGED <<pwlist, flag, bck, evicted>>
    BY <1>4, <2>1, <2>2, KeptFrame DEF Kept, Listed
  <2> QED
    BY <1>4, <1>8, <2>1, <2>2, KeptUnpost DEF PostUnpost, UnpostNext
<1>9. ASSUME WaitSaved PROVE BgKept'
  <2>1. UNCHANGED <<pwlist, flag, stops, bg, evicted>>
    BY <1>9 DEF WaitSaved, outside, table
  <2>2. told \subseteq told' /\ Who(bck) \subseteq Who(bck') \cup told'
    <3>1. bck \in Seq(SavedStatus) /\ Distinct(bck)
      BY DEF TableInv, TypeInv, TypeOK, StatusInv, Lists, Sound
    <3>2. \A i \in DOMAIN bck : Who(RemoveAt(bck, i)) = Who(bck) \ {bck[i].who}
      BY <3>1, RemoveWho
    <3> QED
      BY <1>9, <3>2 DEF WaitSaved
  <2> QED
    BY <1>4, <2>1, <2>2, KeptFrame DEF Kept, Listed
<1>10. ASSUME TopDone PROVE BgKept'
  <2>1. PICK i \in DOMAIN pwlist :
          pwlist[i] = w.pw /\ pwlist' = RemoveAt(pwlist, i)
    BY <1>10 DEF TopDone
  <2>2. /\ UNCHANGED <<stops, bg>> /\ "DONE" \in flag[w.pw]
        /\ told' = told \cup {w.pw} /\ w.pw # None /\ ~Linked
        /\ flag' = [Reported EXCEPT ![w.pw] = @ \ {"NOTIFY", "EXITSAVE", "DONE"}]
    BY <1>10 DEF TopDone, Waited, At, Linked, outside
  <2>3. SaveStatus(w.pw, FALSE)
    <3>1. ~(~w.intr /\ "EXITSAVE" \in flag[w.pw])
      BY <2>2 DEF Waiter
    <3>2. SaveStatus(w.pw, ~w.intr /\ "EXITSAVE" \in flag[w.pw])
      BY <1>10, Zenon DEF TopDone
    <3> QED
      BY <3>1, <3>2 DEF SaveStatus
  <2>4. \A d \in Child \ {w.pw} : "EXITSAVE" \in flag[d] => "EXITSAVE" \in flag'[d]
    <3>1. /\ Reported \in [Child -> SUBSET Flag]
          /\ \A d \in Child : flag[d] \ {"NOTIFY"} \subseteq Reported[d]
      BY <1>1, ReportedFlags
    <3> QED
      BY <2>2, <3>1
  <2> QED
    BY <1>4, <2>1, <2>2, <2>3, <2>4, KeptRemove
<1>11. ASSUME \/ Handler \/ HandlerReturn \/ MainReapDone \/ Flush \/ Signal
              \/ RunTraps \/ EndTrap \/ StartUnpost \/ ForkFails
              \/ \E a \in BOOLEAN : StartFork(a)
              \/ \E p \in Pid \cup {1} : StartWait(p)
              \/ WaitAny \/ WaitForeign \/ WaitFor \/ TopPending
              \/ Unlock \/ Clear \/ Enter \/ Check \/ ExitSet \/ UnpostEnd
              \/ UNCHANGED vars
       PROVE  BgKept'
  BY <1>1, <1>4, <1>11, PassiveSteps, KeptPassive
<1>12. BgKept'
  <2>1. CASE ChildStep \/ HandlerStep \/ ReapStep \/ Signal
    BY <1>5, <1>6, <1>11, <2>1 DEF ChildStep, HandlerStep, ReapStep
  <2>2. CASE Command
    BY <1>4, <1>11, <2>2
    DEF Command, EnterSubshell, LeaveSubshell, KeptInv
  <2>3. CASE ForkStep
    BY <1>4, <1>7, <1>8, <1>11, <2>3, KeptPostFlag, KeptPostSaved DEF ForkStep
  <2>4. CASE WaitStep
    BY <1>8, <1>9, <1>10, <1>11, <2>4 DEF WaitStep
  <2>5. CASE UNCHANGED vars
    BY <1>11, <2>5
  <2> QED
    BY <2>1, <2>2, <2>3, <2>4, <2>5 DEF Next
<1> QED
  BY <1>2, <1>3, <1>12 DEF KeptInv

\* The status of a background process that has ended is not lost, as long as
\* no virtual subshell throws its list away and job_post has not written over
\* the note of its end: until the script has waited for it, or child_max younger
\* ones have pushed it out, the true value is in the entry of the process or on
\* the saved list.
THEOREM KeptCorrect == ASSUME Orderly, MaxEnv = 0 PROVE Spec => []StatusKept
<1>1. Spec => [](TableInv /\ StatusInv /\ Waiter)
  BY StatusAlways
<1>2. Init => KeptInv
  BY DEF Init, KeptInv, Foreground, BgKept
<1>3. TableInv /\ StatusInv /\ Waiter /\ KeptInv /\ [Next]_vars => KeptInv'
  BY TableStep, KeptStep
<1>4. TableInv /\ StatusInv /\ KeptInv => StatusKept
  <2> SUFFICES ASSUME TableInv, StatusInv, BgKept,
                      NEW c \in bg, proc[c] = "reaped", stops[c] = 0
               PROVE  \/ c \in told \cup evicted \cup erased
                      \/ /\ c \in Listed
                         /\ {"DONE", "EXITSAVE"} \subseteq flag[c]
                         /\ EntryValue(c) = TrueValue(c)
                      \/ IsKept(c, TrueValue(c))
    BY DEF KeptInv, StatusKept
  <2>1. CASE c \in Listed \ erased /\ "EXITSAVE" \in flag[c]
    <3>1. c # px \/ pc \notin Making
      BY DEF StatusInv, Told
    <3>2. "DONE" \in flag[c]
      BY <2>1, <3>1 DEF TableInv, Entries, Linked, Making
    <3> QED
      BY <2>1, <3>2 DEF StatusInv, EntriesTrue
  <2>2. CASE c \in Who(bck) \ erased
    <3>1. PICK i \in DOMAIN bck : bck[i].who = c
      BY <2>2 DEF Who
    <3>2. bck[i] \in SavedStatus /\ bck[i].val = TrueValue(c)
      <4>1. bck \in Seq(SavedStatus)
        BY DEF TableInv, TypeInv, TypeOK
      <4>2. bck[i] \in SavedStatus
        BY <3>1, <4>1, LenProperties, ElementOfSeq
      <4>3. c \notin erased
        BY <2>2
      <4> QED
        BY <3>1, <4>2, <4>3 DEF StatusInv, Lists, Sound
    <3>3. bck[i] = [who |-> c, val |-> TrueValue(c)]
      BY <3>1, <3>2 DEF SavedStatus
    <3> QED
      BY <3>3 DEF IsKept
  <2> QED
    BY <2>1, <2>2 DEF BgKept, Kept
<1> QED
  BY <1>1, <1>2, <1>3, <1>4, PTL DEF Spec
-----------------------------------------------------------------------------
(***************************************************************************)
(* The fourth part: Jobs keeps the promise of StatusReports.  A status     *)
(* that was pushed out is nowhere left, so that it is never told.          *)
(***************************************************************************)
OnSaved == UNION {Who(saved[k].list) : k \in DOMAIN saved}
Seen ==
    Listed \cup told \cup Who(bck) \cup OnSaved \cup {c \in Child : AtPost /\ c = px}

Gone ==
    /\ \A c \in evicted \cup told : proc[c] = "reaped"
    /\ evicted \cap Seen = {}

\* The process that job_wait waits for is the one that was asked for.
Asked == w.pw # None => pid[w.pw] = w.arg

LEMMA AskedReturn ==
    ASSUME TypeInv, Asked, Return, pid' = pid
    PROVE  Asked'
  BY DEF Return, NoWait, Asked

\* No step but WaitFor picks a process to wait for.
LEMMA AskedStep ==
    ASSUME TypeInv, TypeInv', Waiter, Asked, [Next]_vars
    PROVE  Asked'
<1>0. w \in WaitCall
  BY DEF TypeInv, TypeOK, WaitCall
<1>1. ASSUME UNCHANGED <<w, pid>> PROVE Asked'
  BY <1>1 DEF Asked
<1>2. CASE ChildStep \/ Command
  <2>1. ASSUME NEW p \in Pid \cup {1}, StartWait(p) PROVE Asked'
    BY <2>1 DEF StartWait, Asked
  <2>2. CASE ChildStep
    BY <1>1, <2>2
    DEF ChildStep, ChildEnd, ChildStop, ChildContinue, Changes, main, call
  <2>3. CASE StartUnpost \/ RunTraps \/ EndTrap \/ EnterSubshell \/ LeaveSubshell
    BY <1>1, <2>3
    DEF StartUnpost, RunTraps, EndTrap, EnterSubshell, LeaveSubshell, outside, call
  <2>4. ASSUME NEW a \in BOOLEAN, StartFork(a) PROVE Asked'
    BY <1>1, <2>4 DEF StartFork, outside, call
  <2> QED
    BY <1>2, <2>1, <2>2, <2>3, <2>4 DEF Command
<1>3. CASE HandlerStep \/ ReapStep \/ Signal
  <2>1. pid' = pid
    BY <1>3 DEF HandlerStep, Handler, HandlerReturn, HandlerReap, ReapStep,
       MainReap, MainReapDone, Flush, Signal, outside
  <2>2. UNCHANGED call \/ w' = w \/ Interrupted \/ Return
    BY <1>3 DEF HandlerStep, Handler, HandlerReturn, HandlerReap, ReapStep,
       MainReap, MainReapDone, Flush, Signal
  <2>3. UNCHANGED call \/ w' = w \/ Return
    BY <2>2 DEF Interrupted
  <2> QED
    BY <1>1, <2>1, <2>3, AskedReturn DEF call
<1>4. ASSUME NEW c \in Child, NEW p \in Pid, Fork(c, p) PROVE Asked'
  BY <1>4 DEF Fork, At, Waiter, call, Asked, Making
<1>5. CASE ForkFails
  BY <1>5 DEF ForkFails, NoWait, Asked
<1>6. CASE PostUnpost
  BY <1>1, <1>6 DEF PostUnpost, outside, call
<1>7. CASE PostLink \/ PostFlag \/ PostExit \/ PostSaved
  BY <1>1, <1>7 DEF PostLink, PostFlag, PostExit, PostSaved, NoWait, outside, call,
     Asked
<1>8. CASE WaitStep
  <2>1. CASE WaitFor
    <3>1. PICK i \in DOMAIN pwlist :
            IsEntry(i, w.arg) /\ w' = [w EXCEPT !.pw = pwlist[i]]
      BY <2>1 DEF WaitFor
    <3>2. pid' = pid
      BY <2>1 DEF WaitFor, outside
    <3> QED
      BY <1>0, <3>1, <3>2 DEF IsEntry, Asked, WaitCall
  <2>2. CASE WaitForeign \/ UnpostEnd
    BY <2>2 DEF WaitForeign, UnpostEnd, NoWait, Asked
  <2>3. CASE ~WaitFor /\ ~WaitForeign /\ ~UnpostEnd
    <3>1. UNCHANGED <<w, pid>>
      BY <1>8, <2>3 DEF WaitStep, WaitAny, WaitSaved, TopPending, TopDone, Unlock,
         Clear, Enter, Check, ExitSet, UnpostNext, outside, call
    <3> QED
      BY <1>1, <3>1
  <2> QED
    BY <2>1, <2>2, <2>3
<1>9. CASE UNCHANGED vars
  BY <1>1, <1>9 DEF vars, outside, main, call
<1> QED
  BY <1>2, <1>3, <1>4, <1>5, <1>6, <1>7, <1>8, <1>9 DEF Next, ForkStep

\* The one pushed out of a full list is nowhere left, and the others on the
\* list are child_max, which make Room with the newcomer.
LEMMA PushedOut ==
    ASSUME TypeInv, Lists, NEW c \in Child, NEW v \in Status,
           c \notin Who(bck), Full(bck), ~Linked
    PROVE  \E z \in Who(bck) :
             /\ Evict(bck) = {z} /\ z \notin Who(Push(bck, c, v)) /\ z # c
             /\ proc[z] = "reaped" /\ z \notin Listed \cup told \cup OnSaved
             /\ \E f \in [1..(ChildMax + 1) -> (Who(bck) \cup {c}) \ {z}] :
                  \A i, j \in 1..(ChildMax + 1) : f[i] = f[j] => i = j
<1> DEFINE p == Push(bck, c, v)
           z == Last(bck).who
<1>1. /\ bck \in Seq(SavedStatus) /\ Len(bck) \in Nat /\ DOMAIN bck = 1..Len(bck)
      /\ Len(bck) <= ChildMax + 1 /\ ChildMax \in Nat
      /\ Distinct(bck) /\ Sound(bck)
  BY LenProperties, BoundAssumption DEF TypeInv, TypeOK, Lists, Sound
<1>2. Len(bck) = ChildMax + 1 /\ Len(bck) \in DOMAIN bck /\ Len(bck) # 0
  <2>1. Len(bck) > ChildMax
    BY Zenon DEF Full
  <2>2. Len(bck) = ChildMax + 1
    <3>1. Len(bck) \in Nat /\ ChildMax \in Nat /\ Len(bck) <= ChildMax + 1
      BY <1>1
    <3> QED
      BY <2>1, <3>1
  <2> QED
    BY <1>1, <2>2
<1>3. Last(bck) = bck[Len(bck)] /\ z = bck[Len(bck)].who /\ z \in Who(bck)
  BY <1>2 DEF Last, Who
<1>4. Evict(bck) = {z}
  BY DEF Evict
<1>5. z \notin Who(p) /\ z # c
  <2>1. PICK n \in Nat : Pushed(p, bck, c, v, n)
    BY <1>1, PushElements
  <2> HIDE DEF p, z
  <2>2. /\ DOMAIN p = 1..(n + 1) /\ p[1] = [who |-> c, val |-> v]
        /\ \A k \in 1..n : p[k + 1] = bck[k]
    BY <2>1 DEF Pushed
  <2>3. n = Len(bck) - 1
    <3>1. Len(p) <= ChildMax + 1 /\ p \in Seq(SavedStatus)
      BY <1>1, PushProperties DEF p
    <3>2. Len(p) = n + 1
      BY <2>2, <3>1, LenProperties
    <3>3. n = Len(bck) \/ n = Len(bck) - 1
      BY <2>1 DEF Pushed
    <3> QED
      BY <1>1, <1>2, <3>1, <3>2, <3>3
  <2>4. ASSUME NEW k \in 1..(n + 1) PROVE p[k].who # z
    <3>1. CASE k = 1
      BY <1>3, <2>2, <3>1
    <3>2. CASE k # 1
      <4>1. k - 1 \in 1..n /\ (k - 1) + 1 = k /\ k - 1 \in DOMAIN bck
            /\ k - 1 # Len(bck)
        BY <1>1, <2>3, <3>2
      <4>2. p[k] = bck[k - 1]
        BY <2>2, <4>1, Zenon
      <4> QED
        BY <1>1, <1>2, <1>3, <4>1, <4>2 DEF Distinct
    <3> QED
      BY <3>1, <3>2
  <2> QED
    BY <1>3, <2>2, <2>4 DEF Who
<1>6. proc[z] = "reaped" /\ z \notin Listed /\ z \notin told /\ z \notin OnSaved
  <2> HIDE DEF z
  <2> QED
    BY <1>1, <1>2, <1>3 DEF Lists, Sound, OnSaved, Entered
<1>7. \E f \in [1..(ChildMax + 1) -> (Who(bck) \cup {c}) \ {z}] :
        \A i, j \in 1..(ChildMax + 1) : f[i] = f[j] => i = j
  <2> DEFINE f == [i \in 1..(ChildMax + 1) |-> IF i = 1 THEN c ELSE bck[i - 1].who]
  <2> HIDE DEF z
  <2>1. ASSUME NEW i \in 1..(ChildMax + 1), i # 1
        PROVE  /\ i - 1 \in DOMAIN bck /\ f[i] = bck[i - 1].who
               /\ f[i] \in Who(bck) /\ f[i] # z /\ f[i] # c
    <3>1. i - 1 \in DOMAIN bck /\ i - 1 # Len(bck)
      BY <1>1, <1>2, <2>1
    <3> QED
      BY <1>1, <1>2, <1>3, <2>1, <3>1 DEF Distinct, Who
  <2>2. f \in [1..(ChildMax + 1) -> (Who(bck) \cup {c}) \ {z}]
    BY <1>5, <2>1
  <2>3. ASSUME NEW i \in 1..(ChildMax + 1), NEW j \in 1..(ChildMax + 1), f[i] = f[j]
        PROVE  i = j
    <3>1. CASE i = 1 \/ j = 1
      <4>1. 1 \in 1..(ChildMax + 1) /\ f[1] = c
        BY <1>1
      <4> QED
        BY <2>1, <2>3, <3>1, <4>1
    <3>2. CASE i # 1 /\ j # 1
      <4>1. i - 1 \in DOMAIN bck /\ j - 1 \in DOMAIN bck
            /\ bck[i - 1].who = bck[j - 1].who
        BY <2>1, <2>3, <3>2
      <4>2. i - 1 = j - 1
        BY <1>1, <4>1 DEF Distinct
      <4> QED
        BY <4>2
    <3> QED
      BY <3>1, <3>2
  <2> HIDE DEF f
  <2> QED
    BY <2>2, <2>3
<1> HIDE DEF z
<1> QED
  BY <1>3, <1>4, <1>5, <1>6, <1>7


Ended == {d \in Child : Life(d) = "ended"}

\* What Life says of the processes that nobody has been told of.
LEMMA LifeOf ==
    ASSUME TypeInv, NEW d \in Child, d \notin told, d \notin evicted
    PROVE  /\ proc[d] = "unborn" => Life(d) = "unborn"
           /\ proc[d] \in {"running", "stopped"} => Life(d) = "running"
           /\ proc[d] \in {"zombie", "reaped"} => Life(d) = "ended"
  BY DEF Life, TypeInv, TypeOK

\* One status makes room for another.
Loses(z) ==
    /\ z \in Ended /\ z \notin evicted /\ evicted' = evicted \cup {z}
    /\ \E f \in [1..(ChildMax + 1) -> Ended \ {z}] :
         \A i, j \in 1..(ChildMax + 1) : f[i] = f[j] => i = j

\* A step that pushes nobody out and brings nobody back.
LEMMA GoneFrame ==
    ASSUME TypeInv, Gone, evicted' = evicted,
           \A d \in Child : proc[d] = "reaped" => proc'[d] = "reaped",
           \A d \in told' : d \in told \/ proc'[d] = "reaped",
           \A d \in Seen' : d \in Seen \/ proc[d] # "reaped"
    PROVE  Gone'
<1>1. evicted \subseteq Child /\ told \subseteq Child
  BY DEF TypeInv, TypeOK
<1> QED
  BY <1>1 DEF Gone

\* The status of a process that has ended is pushed on the list.
LEMMA GonePush ==
    ASSUME TableInv, StatusInv, Gone, NEW c \in Child, NEW v \in Status,
           proc[c] \in {"zombie", "reaped"}, proc'[c] = "reaped",
           c \notin Who(bck) \cup told \cup evicted \cup OnSaved,
           bck' = Push(bck, c, v), evicted' = evicted \cup Evict(bck),
           UNCHANGED <<saved, told>>, Listed' \subseteq Listed, ~Linked,
           AtPost' => AtPost /\ px' = px /\ px \notin Who(bck),
           \A d \in Child : proc[d] = "reaped" => proc'[d] = "reaped"
    PROVE  Gone' /\ (evicted' = evicted \/ \E z \in Child : Loses(z))
<1>1. /\ TypeInv /\ Lists /\ evicted \subseteq Child /\ told \subseteq Child
      /\ Who(bck) \subseteq Child /\ bck \in Seq(SavedStatus) /\ Distinct(bck)
  BY OnList DEF TableInv, TypeInv, TypeOK, StatusInv, Lists, Sound
<1>2. Who(bck') \subseteq Who(bck) \cup {c}
  BY <1>1, PushWho
<1>3. OnSaved' = OnSaved /\ Who(bck)' = Who(bck')
  BY DEF OnSaved, Who
<1>4. ASSUME NEW d \in Seen' PROVE d \in Seen \cup {c}
  BY <1>2, <1>3 DEF Seen
<1>5. CASE Full(bck)
  <2>1. PICK z \in Who(bck) :
          /\ Evict(bck) = {z} /\ z \notin Who(Push(bck, c, v)) /\ z # c
          /\ proc[z] = "reaped" /\ z \notin Listed \cup told \cup OnSaved
          /\ \E f \in [1..(ChildMax + 1) -> (Who(bck) \cup {c}) \ {z}] :
               \A i, j \in 1..(ChildMax + 1) : f[i] = f[j] => i = j
    BY <1>1, <1>5, PushedOut
  <2>2. z \in Child /\ z \notin evicted /\ evicted' = evicted \cup {z}
    BY <1>1, <2>1 DEF Gone, Seen
  <2>3. z \notin Seen'
    BY <1>3, <2>1 DEF Seen
  <2>4. Gone'
    BY <1>1, <1>4, <2>1, <2>2, <2>3 DEF Gone
  <2>5. Who(bck) \cup {c} \subseteq Ended
    <3> SUFFICES ASSUME NEW d \in Who(bck) \cup {c} PROVE Life(d) = "ended"
      BY <1>1 DEF Ended
    <3>1. proc[d] \in {"zombie", "reaped"} /\ d \notin told /\ d \notin evicted
      BY <1>1 DEF Lists, Sound, Who, Gone, Seen
    <3> QED
      BY <1>1, <3>1, LifeOf
  <2>6. PICK f \in [1..(ChildMax + 1) -> (Who(bck) \cup {c}) \ {z}] :
               \A i, j \in 1..(ChildMax + 1) : f[i] = f[j] => i = j
    BY <2>1
  <2>7. f \in [1..(ChildMax + 1) -> Ended \ {z}]
    BY <2>5, <2>6
  <2>8. Loses(z)
    BY <2>1, <2>2, <2>5, <2>6, <2>7 DEF Loses
  <2> QED
    BY <2>2, <2>4, <2>8
<1>6. CASE ~Full(bck)
  <2>1. evicted' = evicted
    BY <1>6 DEF Evict
  <2>2. c \notin evicted'
    BY <2>1
  <2> QED
    BY <1>1, <1>4, <2>1, <2>2 DEF Gone
<1> QED
  BY <1>5, <1>6


\* One turn of job_waitsafe's loop.
LEMMA GoneReap ==
    ASSUME TableInv, StatusInv, Gone,
           NEW c \in Child, NEW cont \in BOOLEAN, Reap(c, cont),
           MaxFails = 0 => pc \notin Making, UNCHANGED <<pc, px, saved, told>>
    PROVE  Gone' /\ (evicted' = evicted \/ \E z \in Child : Loses(z))
<1>1. /\ TypeInv /\ Listed' = Listed
      /\ proc \in [Child -> {"unborn", "running", "stopped", "zombie", "reaped"}]
  <2>1. Listed' = Listed
    BY ReapListed
  <2> QED
    BY <2>1 DEF TableInv, TypeInv, TypeOK
<1>2. \A d \in Child : proc[d] = "reaped" => proc'[d] = "reaped"
  BY <1>1 DEF Reap
<1>3. CASE UNCHANGED <<bck, evicted>>
  <2>1. Seen' = Seen
    BY <1>1, <1>3 DEF Seen, OnSaved, Who, AtPost
  <2> QED
    BY <1>1, <1>2, <1>3, <2>1, GoneFrame
<1>4. CASE /\ c = px /\ AtPost /\ MaxFails # 0 /\ proc[c] = "zombie"
           /\ bck' = Push(bck, c, TrueValue(c))
           /\ evicted' = evicted \cup Evict(bck)
  <2>1. TrueValue(c) \in Status /\ proc'[c] = "reaped" /\ ~Linked
    BY <1>1, <1>4, ValueType DEF Reap, AtPost, Linked
  <2>2. c \notin Who(bck) \cup told \cup evicted \cup OnSaved
    BY <1>4 DEF StatusInv, Lists, Sound, Who, OnSaved, Gone
  <2>3. AtPost' => AtPost /\ px' = px /\ px \notin Who(bck)
    BY <1>4, <2>2
  <2> QED
    BY <1>1, <1>2, <1>4, <2>1, <2>2, <2>3, GonePush
<1> QED
  BY <1>3, <1>4, ReapCases

\* An entry goes, and its status is saved.
LEMMA GoneRemove ==
    ASSUME TableInv, StatusInv, Gone, UNCHANGED <<proc, saved, told>>,
           NEW i \in DOMAIN pwlist, "DONE" \in flag[pwlist[i]],
           pwlist' = RemoveAt(pwlist, i),
           NEW keep \in BOOLEAN, SaveStatus(pwlist[i], keep), ~Linked,
           AtPost' => AtPost /\ px' = px /\ px \notin Who(bck)
    PROVE  Gone' /\ (evicted' = evicted \/ \E z \in Child : Loses(z))
<1> DEFINE c == pwlist[i]
<1>1. Listed' = Listed \ {c} /\ Listed \subseteq Child /\ c \in Listed
  <2>1. pwlist \in Seq(Child) /\ IsInjective(pwlist)
    BY DEF TableInv, Entries, TypeInv, TypeOK
  <2>2. Range(pwlist') = Range(pwlist) \ {c} /\ Range(pwlist) \subseteq Child
    BY <2>1, RemoveAtRange, RangeOfSeq
  <2> QED
    BY <2>2 DEF Listed, Range
<1> HIDE DEF c
<1>2. SaveStatus(c, keep) /\ "DONE" \in flag[c]
  BY DEF c
<1>3. proc[c] = "reaped"
  BY <1>1, <1>2 DEF TableInv, Entries
<1>4. c \notin Who(bck) \cup told \cup evicted \cup OnSaved
  BY <1>1 DEF StatusInv, Lists, Sound, Told, Who, OnSaved, Gone, Seen, Entered
<1>5. CASE keep
  <2>1. bck' = Push(bck, c, EntryValue(c)) /\ evicted' = evicted \cup Evict(bck)
    BY <1>2, <1>5 DEF SaveStatus
  <2>2. EntryValue(c) \in Status
    <3>1. pexit[c] \in Status /\ ("SIGNALLED" \in flag[c]) \in BOOLEAN
      BY <1>1 DEF TableInv, TypeInv, TypeOK
    <3> QED
      BY <3>1, ValueType, Zenon DEF EntryValue
  <2> QED
    BY <1>1, <1>3, <1>4, <2>1, <2>2, GonePush
<1>6. CASE ~keep
  <2>1. UNCHANGED <<bck, evicted>>
    BY <1>2, <1>6 DEF SaveStatus
  <2>2. \A d \in Seen' : d \in Seen
    BY <1>1, <2>1 DEF Seen, OnSaved, Who
  <2> QED
    BY <2>1, <2>2, GoneFrame DEF TableInv
<1> QED
  BY <1>5, <1>6

\* job_unpost of the entry at place i.
LEMMA GoneUnpost ==
    ASSUME TableInv, StatusInv, Gone, UNCHANGED <<proc, saved, told>>,
           NEW i \in DOMAIN pwlist, Unpost(i), ~Linked,
           AtPost' => AtPost /\ px' = px /\ px \notin Who(bck)
    PROVE  Gone' /\ (evicted' = evicted \/ \E z \in Child : Loses(z))
<1>1. CASE Unpostable(pwlist[i])
  <2> DEFINE keep == "EXITSAVE" \in flag[pwlist[i]]
  <2>1. pwlist' = RemoveAt(pwlist, i) /\ SaveStatus(pwlist[i], keep)
    BY <1>1, Zenon DEF Unpost
  <2>2. "DONE" \in flag[pwlist[i]] /\ keep \in BOOLEAN
    BY <1>1 DEF Unpostable
  <2> HIDE DEF keep
  <2> QED
    BY <2>1, <2>2, GoneRemove
<1>2. CASE ~Unpostable(pwlist[i])
  <2>1. UNCHANGED <<pwlist, bck, evicted>>
    BY <1>2, Zenon DEF Unpost
  <2>2. \A d \in Seen' : d \in Seen
    BY <2>1 DEF Seen, OnSaved, Who, Listed
  <2> QED
    BY <2>1, <2>2, GoneFrame DEF TableInv
<1> QED
  BY <1>1, <1>2

\* job_post: it is never the status of the new process that is pushed out.
LEMMA GonePostUnpost ==
    ASSUME TableInv, StatusInv, Gone, PostUnpost
    PROVE  Gone' /\ (evicted' = evicted \/ \E z \in Child : Loses(z))
<1>1. UNCHANGED <<proc, saved, told, px>> /\ AtPost /\ ~Linked /\ px \in Child
  BY DEF PostUnpost, At, outside, shell, scopes, command, AtPost, Linked, Making,
     TableInv, TypeInv, Posting
<1>2. CASE UNCHANGED <<pwlist, bck, evicted>>
  <2>1. \A d \in Seen' : d \in Seen
    BY <1>1, <1>2 DEF Seen, OnSaved, Who, Listed
  <2> QED
    BY <1>1, <1>2, <2>1, GoneFrame DEF TableInv
<1>3. ASSUME NEW i \in DOMAIN pwlist, IsEntry(i, pid[px]), Unpost(i)
      PROVE  Gone' /\ (evicted' = evicted \/ \E z \in Child : Loses(z))
  <2>1. pwlist[i] \in Listed /\ Listed \subseteq Child /\ px \notin Listed
        /\ pid[pwlist[i]] = pid[px] /\ proc[px] # "unborn"
    BY <1>1, <1>3, RangeOfSeq
    DEF IsEntry, Listed, Range, TableInv, TypeInv, TypeOK, Posted
  <2>2. MaxFails = 0
    BY <1>1, <2>1 DEF TableInv, Orderly, Pids
  <2>3. px \notin Who(bck)
    BY <1>1, <2>2 DEF TableInv, Early, StatusInv, Lists, Sound, Who, AtPost, Making
  <2> QED
    BY <1>1, <1>3, <2>3, GoneUnpost
<1> QED
  BY <1>2, <1>3 DEF PostUnpost


\* The steps that push no status out.
LEMMA GonePassive ==
    ASSUME TableInv, Gone, Passive
    PROVE  Gone' /\ evicted' = evicted
<1>1. \A d \in Seen' : d \in Seen
  BY DEF Passive, Aside, AtPost, Making, Seen, OnSaved, Who, Listed
<1> QED
  BY <1>1, GoneFrame DEF Passive, TableInv

LEMMA GoneChild ==
    ASSUME TableInv, Gone, NEW c \in Child,
           ChildEnd(c) \/ ChildStop(c) \/ ChildContinue(c)
    PROVE  Gone' /\ evicted' = evicted
<1>1. UNCHANGED <<pwlist, bck, saved, told, evicted, pc, px>>
  BY DEF ChildEnd, ChildStop, ChildContinue, Changes, main, jobs, table, shell,
     scopes, command, history
<1>2. \A d \in Seen' : d \in Seen
  BY <1>1 DEF Seen, OnSaved, Who, Listed, AtPost
<1>3. /\ \E s : proc' = [proc EXCEPT ![c] = s]
      /\ proc[c] # "reaped"
  BY DEF ChildEnd, ChildStop, ChildContinue, Changes
<1>4. \A d \in Child : proc[d] = "reaped" => proc'[d] = "reaped"
  BY <1>3 DEF TableInv, TypeInv, TypeOK
<1> QED
  BY <1>1, <1>2, <1>4, GoneFrame DEF TableInv

LEMMA GoneFork ==
    ASSUME TableInv, Gone, NEW c \in Child, NEW p \in Pid, Fork(c, p)
    PROVE  Gone' /\ evicted' = evicted
<1>1. /\ UNCHANGED <<pwlist, bck, saved, told, evicted>> /\ px' = c
      /\ proc[c] = "unborn" /\ proc' = [proc EXCEPT ![c] = "running"]
  BY DEF Fork, Forkable, jobs, table, shell, scopes, history
<1>2. \A d \in Seen' : d \in Seen \/ d = c
  BY <1>1 DEF Seen, OnSaved, Who, Listed
<1>3. \A d \in Child : proc[d] = "reaped" => proc'[d] = "reaped"
  BY <1>1 DEF TableInv, TypeInv, TypeOK
<1> QED
  BY <1>1, <1>2, <1>3, GoneFrame DEF TableInv

LEMMA GonePost ==
    ASSUME TableInv, StatusInv, Gone, PostLink \/ PostFlag \/ PostExit \/ PostSaved
    PROVE  Gone' /\ evicted' = evicted
<1>1. /\ UNCHANGED <<proc, saved, told, evicted>> /\ ~AtPost'
      /\ bck' = bck \/ \E i \in DOMAIN bck : bck' = RemoveAt(bck, i)
  <2>1. CASE PostLink \/ PostFlag \/ PostExit
    BY <2>1
    DEF PostLink, PostFlag, PostExit, AtPost, outside, shell, scopes, history
  <2>2. CASE PostSaved
    BY <2>2 DEF PostSaved, ChkSave, AtPost, outside, shell, scopes
  <2> QED
    BY <2>1, <2>2
<1>2. Listed' \subseteq Listed \cup {c \in Child : AtPost /\ c = px}
  <2>1. CASE PostLink
    <3>1. AtPost /\ px \in Child /\ pwlist' = <<px>> \o pwlist /\ px \notin Listed
      BY <2>1
      DEF PostLink, At, AtPost, Making, TableInv, Posted, TypeInv, Posting
    <3>2. pwlist \in Seq(Child) /\ IsInjective(pwlist) /\ px \notin Range(pwlist)
      BY <3>1 DEF TableInv, Entries, TypeInv, TypeOK, Listed
    <3>3. Range(<<px>> \o pwlist) = {px} \cup Range(pwlist)
      BY <3>1, <3>2, ConsRange
    <3> QED
      BY <3>1, <3>3 DEF Listed
  <2>2. CASE PostFlag \/ PostExit \/ PostSaved
    BY <2>2 DEF PostFlag, PostExit, PostSaved, Listed
  <2> QED
    BY <2>1, <2>2
<1>3. Who(bck') \subseteq Who(bck)
  <2>1. bck \in Seq(SavedStatus) /\ Distinct(bck)
    BY DEF TableInv, TypeInv, TypeOK, StatusInv, Lists, Sound
  <2>2. \A i \in DOMAIN bck : Who(RemoveAt(bck, i)) = Who(bck) \ {bck[i].who}
    BY <2>1, RemoveWho
  <2> QED
    BY <1>1, <2>2
<1>4. \A d \in Seen' : d \in Seen
  <2>1. Who(bck)' = Who(bck') /\ OnSaved' = OnSaved
    BY <1>1 DEF Who, OnSaved
  <2> QED
    BY <1>1, <1>2, <1>3, <2>1 DEF Seen
<1> QED
  BY <1>1, <1>4, GoneFrame DEF TableInv

LEMMA GoneWaitSaved ==
    ASSUME TableInv, StatusInv, Gone, WaitSaved
    PROVE  Gone' /\ evicted' = evicted
<1>1. UNCHANGED <<proc, pwlist, saved, evicted>> /\ ~AtPost'
  BY DEF WaitSaved, AtPost, outside, table, scopes
<1>2. CASE UNCHANGED <<told, bck>>
  <2>1. \A d \in Seen' : d \in Seen
    BY <1>1, <1>2 DEF Seen, OnSaved, Who, Listed
  <2> QED
    BY <1>1, <1>2, <2>1, GoneFrame DEF TableInv
<1>3. ASSUME NEW i \in DOMAIN bck, told' = told \cup {bck[i].who},
             bck' = RemoveAt(bck, i)
      PROVE  Gone' /\ evicted' = evicted
  <2>1. bck \in Seq(SavedStatus) /\ Distinct(bck)
    BY DEF TableInv, TypeInv, TypeOK, StatusInv, Lists, Sound
  <2>2. Who(bck') = Who(bck) \ {bck[i].who}
    BY <1>3, <2>1, RemoveWho
  <2>3. bck[i].who \in Who(bck) /\ proc[bck[i].who] = "reaped"
    BY DEF Who, StatusInv, Lists, Sound
  <2>4. Who(bck)' = Who(bck')
    BY DEF Who
  <2>5. \A d \in Seen' : d \in Seen
    BY <1>1, <1>3, <2>2, <2>3, <2>4 DEF Seen, OnSaved, Who, Listed
  <2> QED
    BY <1>1, <1>3, <2>3, <2>5, GoneFrame DEF TableInv
<1> QED
  BY <1>2, <1>3 DEF WaitSaved

LEMMA GoneTopDone ==
    ASSUME TableInv, StatusInv, Waiter, Gone, TopDone
    PROVE  Gone' /\ UNCHANGED <<bck, evicted>> /\ proc[w.pw] = "reaped"
           /\ w.pw \in Listed
<1>1. PICK i \in DOMAIN pwlist :
        pwlist[i] = w.pw /\ pwlist' = RemoveAt(pwlist, i)
  BY DEF TopDone
<1>2. /\ UNCHANGED <<proc, saved>> /\ ~AtPost'
      /\ w.pw # None /\ "DONE" \in flag[w.pw] /\ told' = told \cup {w.pw}
  BY DEF TopDone, Waited, AtPost, outside, scopes
<1>3. UNCHANGED <<bck, evicted>>
  <2>1. ~(~w.intr /\ "EXITSAVE" \in flag[w.pw])
    BY <1>2 DEF Waiter
  <2>2. SaveStatus(w.pw, ~w.intr /\ "EXITSAVE" \in flag[w.pw])
    BY Zenon DEF TopDone
  <2> QED
    BY <2>1, <2>2 DEF SaveStatus
<1>4. Listed' = Listed \ {w.pw} /\ w.pw \in Listed
  <2>1. pwlist \in Seq(Child) /\ IsInjective(pwlist)
    BY DEF TableInv, Entries, TypeInv, TypeOK
  <2>2. Range(pwlist') = Range(pwlist) \ {pwlist[i]}
    BY <1>1, <2>1, RemoveAtRange
  <2> QED
    BY <1>1, <2>2 DEF Listed, Range
<1>5. proc[w.pw] = "reaped"
  BY <1>2, <1>4 DEF TableInv, Entries
<1>6. \A d \in Seen' : d \in Seen
  BY <1>2, <1>3, <1>4 DEF Seen, OnSaved, Who
<1>7. Gone'
  BY <1>2, <1>3, <1>5, <1>6, GoneFrame DEF TableInv
<1> QED
  BY <1>3, <1>4, <1>5, <1>7


LEMMA GoneEnter ==
    ASSUME TableInv, Gone, EnterSubshell
    PROVE  Gone' /\ evicted' = evicted
<1>1. /\ UNCHANGED <<proc, pwlist, told, evicted, pc, px>> /\ bck' = <<>>
      /\ saved' = <<[list |-> bck, env |-> curenv, intrap |-> intrap]>> \o saved
  BY DEF EnterSubshell, outside, table, command, history
<1>2. \A k \in DOMAIN saved' :
        \/ saved'[k].list = bck
        \/ \E l \in DOMAIN saved : saved'[k].list = saved[l].list
  <2> DEFINE Scope ==
               [list : Seq(SavedStatus), env : 0..MaxEnv, intrap : BOOLEAN]
             outer == [list |-> bck, env |-> curenv, intrap |-> intrap]
  <2>1. outer \in Scope /\ saved \in Seq(Scope) /\ outer.list = bck
    BY DEF TableInv, TypeInv, TypeOK
  <2> HIDE DEF Scope
  <2>2. /\ saved' \in Seq(Scope) /\ Len(saved') = Len(saved) + 1
        /\ \A k \in 1..(Len(saved) + 1) :
             saved'[k] = IF k = 1 THEN outer ELSE saved[k - 1]
    BY <1>1, <2>1, ConsProperties
  <2> HIDE DEF outer
  <2>3. /\ Len(saved) \in Nat /\ DOMAIN saved = 1..Len(saved)
        /\ DOMAIN saved' = 1..(Len(saved) + 1)
    BY <2>1, <2>2, LenProperties
  <2>4. ASSUME NEW k \in DOMAIN saved', k # 1
        PROVE  k - 1 \in DOMAIN saved /\ saved'[k] = saved[k - 1]
    BY <2>2, <2>3, <2>4
  <2>5. 1 \in DOMAIN saved' => saved'[1] = outer
    BY <2>2, <2>3
  <2> QED
    BY <2>1, <2>4, <2>5
<1>3. OnSaved' \subseteq OnSaved \cup Who(bck)
  BY <1>2 DEF OnSaved, Who
<1>4. \A d \in Seen' : d \in Seen
  <2>1. Who(bck)' = {}
    BY <1>1 DEF Who
  <2> QED
    BY <1>1, <1>3, <2>1 DEF Seen, Listed, AtPost
<1> QED
  BY <1>1, <1>4, GoneFrame DEF TableInv

LEMMA GoneLeave ==
    ASSUME TableInv, Gone, LeaveSubshell
    PROVE  Gone' /\ evicted' = evicted
<1>1. /\ UNCHANGED <<proc, pwlist, told, evicted, pc, px>>
      /\ bck' = saved[1].list /\ saved # <<>> /\ saved' = Tail(saved)
  BY DEF LeaveSubshell, outside, table, command, history
<1>2. /\ 1 \in DOMAIN saved
      /\ \A k \in DOMAIN saved' : k + 1 \in DOMAIN saved /\ saved'[k] = saved[k + 1]
  <2> DEFINE Scope ==
               [list : Seq(SavedStatus), env : 0..MaxEnv, intrap : BOOLEAN]
  <2>1. saved \in Seq(Scope)
    BY DEF TableInv, TypeInv, TypeOK
  <2> HIDE DEF Scope
  <2>2. /\ saved' \in Seq(Scope) /\ Len(saved') = Len(saved) - 1
        /\ \A k \in 1..Len(saved') : saved'[k] = saved[k + 1]
    BY <1>1, <2>1, HeadTailProperties, Zenon
  <2>3. /\ Len(saved) \in Nat /\ DOMAIN saved = 1..Len(saved)
        /\ DOMAIN saved' = 1..Len(saved') /\ 1 \in DOMAIN saved
    BY <1>1, <2>1, <2>2, LenProperties, EmptySeq
  <2> QED
    BY <2>2, <2>3
<1>3. OnSaved' \subseteq OnSaved /\ Who(bck)' \subseteq OnSaved
  BY <1>1, <1>2 DEF OnSaved, Who
<1>4. \A d \in Seen' : d \in Seen
  BY <1>1, <1>3 DEF Seen, Listed, AtPost
<1> QED
  BY <1>1, <1>4, GoneFrame DEF TableInv

LEMMA GoneUnpostNext ==
    ASSUME TableInv, StatusInv, Gone, UnpostNext
    PROVE  Gone' /\ (evicted' = evicted \/ \E z \in Child : Loses(z))
<1>1. PICK i \in DOMAIN pwlist : Unpost(i)
  BY DEF UnpostNext
<1>2. UNCHANGED <<proc, saved, told>> /\ ~AtPost' /\ ~Linked
  BY DEF UnpostNext, At, AtPost, Linked, outside, shell, scopes
<1> QED
  BY <1>1, <1>2, GoneUnpost

LEMMA GoneReapStep ==
    ASSUME TableInv, StatusInv, Gone, NEW c \in Child, HandlerReap(c) \/ MainReap(c)
    PROVE  Gone' /\ (evicted' = evicted \/ \E z \in Child : Loses(z))
<1>1. /\ Reap(c, TRUE) \/ (Reap(c, reap.cont) /\ reap.cont \in BOOLEAN)
      /\ UNCHANGED <<pc, px, saved, told>>
      /\ hand \/ pc = "reap"
  BY DEF HandlerReap, MainReap, At, shell, scopes, command, TableInv, TypeInv, TypeOK
<1>2. MaxFails = 0 => pc \notin Making
  BY <1>1 DEF TableInv, Quiet, Making
<1> QED
  BY <1>1, <1>2, GoneReap

\* Every step keeps what has been pushed out away.
LEMMA GoneStep ==
    ASSUME TableInv, StatusInv, Waiter, Gone, [Next]_vars
    PROVE  Gone'
<1>1. TypeInv
  BY DEF TableInv
<1>2. CASE ChildStep \/ HandlerStep \/ ReapStep \/ Signal \/ UNCHANGED vars
  BY <1>1, <1>2, GoneChild, GoneReapStep, PassiveSteps, GonePassive
  DEF ChildStep, HandlerStep, ReapStep
<1>3. CASE Command \/ ForkStep
  BY <1>1, <1>3, PassiveSteps, GonePassive, GoneEnter, GoneLeave, GoneFork,
     GonePostUnpost, GonePost DEF Command, ForkStep
<1>4. CASE WaitStep
  BY <1>1, <1>4, PassiveSteps, GonePassive, GoneWaitSaved, GoneTopDone,
     GoneUnpostNext DEF WaitStep
<1> QED
  BY <1>2, <1>3, <1>4 DEF Next


-----------------------------------------------------------------------------
\* A process of which nothing new is known.
LEMMA LifeSame ==
    ASSUME NEW d \in Child, d \in told' <=> d \in told,
           d \in evicted' <=> d \in evicted, proc'[d] = proc[d]
    PROVE  Life(d)' = Life(d)
  BY DEF Life

LEMMA LivesExcept ==
    ASSUME NEW c \in Child, NEW s, Life(c)' = s,
           \A d \in Child \ {c} : Life(d)' = Life(d)
    PROVE  [d \in Child |-> Life(d)]' = [[d \in Child |-> Life(d)] EXCEPT ![c] = s]
  OBVIOUS

\* A step that the script learns nothing from: at most it asks for another
\* process.
LEMMA ReportsQuiet ==
    ASSUME TypeInv, TypeInv', UNCHANGED <<pid, bg, stops, erased>>,
           \A d \in Child : Life(d)' = Life(d), exitval' \in {exitval, 0}
    PROVE  Reports!ReportsNext
<1>1. w'.arg \in Pid \cup {0, 1}
  BY DEF TypeInv, TypeOK
<1>2. [d \in Child |-> Life(d)]' = [d \in Child |-> Life(d)]
  OBVIOUS
<1>3. Reports!Ask(w'.arg)
  BY <1>2 DEF Reports!Ask
<1> QED
  BY <1>1, <1>3 DEF Reports!ReportsNext


\* The kernel: a process ends, is stopped, goes on.
LEMMA ReportsChild ==
    ASSUME TypeInv, TypeInv', Gone, NEW c \in Child,
           ChildEnd(c) \/ ChildStop(c) \/ ChildContinue(c)
    PROVE  Reports!ReportsNext
<1>1. /\ UNCHANGED <<pid, bg, told, evicted, erased, w, exitval>>
      /\ proc[c] \in {"running", "stopped"}
  BY DEF ChildEnd, ChildStop, ChildContinue, Changes, main, shell, call, history
<1>2. /\ c \notin told \cup evicted /\ \A d \in Child : stops[d] \in Nat
      /\ proc \in [Child -> {"unborn", "running", "stopped", "zombie", "reaped"}]
      /\ stops \in [Child -> 0..MaxStops]
  <2>1. c \notin told \cup evicted
    BY <1>1 DEF Gone
  <2>2. /\ stops \in [Child -> 0..MaxStops]
        /\ proc \in [Child -> {"unborn", "running", "stopped", "zombie", "reaped"}]
    BY DEF TypeInv, TypeOK
  <2> QED
    BY <2>1, <2>2, BoundAssumption
<1>3. \E s \in {"running", "stopped", "zombie"} : proc' = [proc EXCEPT ![c] = s]
  BY DEF ChildEnd, ChildStop, ChildContinue, Changes
<1>4. \A d \in Child \ {c} : Life(d)' = Life(d)
  BY <1>1, <1>2, <1>3, LifeSame
<1>5. Life(c) = "running"
  BY <1>1, <1>2, LifeOf
<1>6. CASE ChildEnd(c)
  <2>1. UNCHANGED stops /\ proc'[c] = "zombie"
    BY <1>2, <1>6 DEF ChildEnd, Changes
  <2>2. Life(c)' = "ended"
    BY <1>1, <1>2, <2>1 DEF Life
  <2>3. Reports!End(c)
    BY <1>1, <1>4, <1>5, <2>1, <2>2, LivesExcept DEF Reports!End
  <2> QED
    BY <2>3 DEF Reports!ReportsNext
<1>7. CASE ChildStop(c) \/ ChildContinue(c)
  <2>1. proc'[c] \in {"running", "stopped"}
    BY <1>2, <1>7 DEF ChildStop, ChildContinue, Changes
  <2>2. Life(c)' = "running"
    BY <1>1, <1>2, <2>1 DEF Life
  <2>3. \A d \in Child : Life(d)' = Life(d)
    BY <1>4, <1>5, <2>2
  <2>4. CASE ChildStop(c)
    <3>1. {d \in Child : stops'[d] > 0} \cup erased
            = ({d \in Child : stops[d] > 0} \cup erased) \cup {c}
      <4>1. stops' = [stops EXCEPT ![c] = @ + 1]
        BY <2>4 DEF ChildStop
      <4> QED
        BY <1>2, <4>1
    <3>2. Reports!Doubt(c)
      BY <1>1, <1>5, <2>3, <3>1 DEF Reports!Doubt
    <3> QED
      BY <3>2 DEF Reports!ReportsNext
  <2>5. CASE ChildContinue(c)
    BY <1>1, <2>3, <2>5, ReportsQuiet DEF ChildContinue
  <2> QED
    BY <1>7, <2>4, <2>5
<1> QED
  BY <1>6, <1>7

\* A status is pushed out, or none: of the others nothing new is known.
LEMMA ReportsForget ==
    ASSUME TypeInv, TypeInv', Gone,
           UNCHANGED <<pid, bg, stops, told, erased, w, exitval>>,
           evicted' = evicted \/ \E z \in Child : Loses(z),
           \A d \in Child : \/ proc'[d] = proc[d]
                            \/ proc[d] = "zombie" /\ proc'[d] = "reaped"
    PROVE  Reports!ReportsNext
<1>1. ASSUME NEW d \in Child, d \in evicted' <=> d \in evicted
      PROVE  Life(d)' = Life(d)
  BY <1>1 DEF Life
<1>2. CASE evicted' = evicted
  BY <1>1, <1>2, ReportsQuiet
<1>3. ASSUME NEW z \in Child, Loses(z)
      PROVE  Reports!ReportsNext
  <2>1. /\ evicted' = evicted \cup {z} /\ Life(z) = "ended"
    BY <1>3 DEF Loses, Ended
  <2>2. z \notin told
    BY <2>1 DEF Life
  <2>3. Life(z)' = "lost"
    BY <2>1, <2>2 DEF Life
  <2>4. [d \in Child |-> Life(d)]'
          = [[d \in Child |-> Life(d)] EXCEPT ![z] = "lost"]
    BY <1>1, <2>1, <2>3, LivesExcept
  <2>5. Ended = {d \in Child : [e \in Child |-> Life(e)][d] = "ended"}
    BY DEF Ended
  <2>6. PICK f \in [1..(ChildMax + 1) -> Ended \ {z}] :
          \A i, j \in 1..(ChildMax + 1) : f[i] = f[j] => i = j
    BY <1>3 DEF Loses
  <2>7. f \in Reports!Injection(1..(ChildMax + 1), Ended \ {z})
    BY <2>6 DEF Reports!Injection, Reports!IsInjective
  <2>8. Reports!Forget(z)
    BY <1>3, <2>4, <2>5, <2>7
    DEF Reports!Forget, Reports!Ended, Reports!ExistsInjection, Loses
  <2> QED
    BY <2>8 DEF Reports!ReportsNext
<1> QED
  BY <1>2, <1>3


\* sh_fork: a process lives,
LEMMA ReportsFork ==
    ASSUME TableInv, Gone, NEW c \in Child, NEW p \in Pid, Fork(c, p)
    PROVE  Reports!ReportsNext
<1>1. /\ UNCHANGED <<bg, told, evicted, erased, stops, w, exitval>>
      /\ Forkable(c, p)
      /\ proc' = [proc EXCEPT ![c] = "running"] /\ pid' = [pid EXCEPT ![c] = p]
      /\ proc[c] = "unborn"
  BY DEF Fork, Forkable, shell, call, history
<1>2. /\ TypeInv /\ pid \in [Child -> Pid \cup {0}]
      /\ proc \in [Child -> {"unborn", "running", "stopped", "zombie", "reaped"}]
  BY DEF TableInv, TypeInv, TypeOK
<1>3. c \notin told \cup evicted
  BY <1>1 DEF Gone
<1>4. Life(c) = "unborn"
  BY <1>1, <1>2, <1>3, LifeOf
<1>5. Life(c)' = "running"
  <2>1. proc'[c] = "running"
    BY <1>1, <1>2
  <2> QED
    BY <1>1, <1>3, <2>1 DEF Life
<1>6. \A d \in Child \ {c} : Life(d)' = Life(d)
  BY <1>1, <1>2, LifeSame
<1>7. ASSUME NEW d \in Child, pid[d] = p PROVE Life(d) # "running"
  <2>1. proc[d] \in {"unborn", "reaped"}
    BY <1>1, <1>2, <1>7 DEF Forkable, Alive
  <2> QED
    BY <2>1 DEF Life
<1>8. Reports!Start(c, p)
  BY <1>1, <1>4, <1>5, <1>6, <1>7, LivesExcept DEF Reports!Start
<1> QED
  BY <1>8 DEF Reports!ReportsNext

\* which is posted; where the note of its end is written over, nothing is said
\* of its status,
LEMMA ReportsPostFlag ==
    ASSUME TableInv, TypeInv', StatusInv, Gone, PostLink \/ PostFlag \/ PostExit
    PROVE  Reports!ReportsNext
<1>1. /\ UNCHANGED <<proc, pid, bg, told, evicted, stops, w, exitval>>
      /\ pc \in Making
  BY DEF PostLink, PostFlag, PostExit, At, Making, outside, shell, call, history
<1>2. \A d \in Child : Life(d)' = Life(d)
  BY <1>1, LifeSame
<1>3. CASE erased' = erased
  BY <1>1, <1>2, <1>3, ReportsQuiet DEF TableInv
<1>4. CASE Linked /\ erased' = erased \cup {px} /\ "DONE" \in flag[px]
  <2>1. /\ TypeInv /\ px \in Child /\ px \in Listed /\ proc[px] = "reaped"
    BY <1>1, <1>4 DEF TableInv, Posted, Entries, TypeInv, Posting
  <2>2. px \notin bg /\ px \notin told /\ px \notin evicted
    BY <1>1, <2>1 DEF StatusInv, Told, Gone, Seen
  <2>3. Life(px) = "ended"
    BY <2>1, <2>2, LifeOf
  <2>4. PICK c \in Child : c = px
    BY <2>1
  <2>5. Reports!Doubt(c)
    BY <1>1, <1>2, <1>4, <2>1, <2>2, <2>3, <2>4 DEF Reports!Doubt
  <2> QED
    BY <2>5 DEF Reports!ReportsNext
<1> QED
  BY <1>3, <1>4
  DEF PostLink, PostFlag, PostExit, Overwritten, At, Linked, history

\* and its pid is given to the script, or waited for.
LEMMA ReportsPostSaved ==
    ASSUME TableInv, TypeInv', PostSaved
    PROVE  Reports!ReportsNext
<1>1. /\ UNCHANGED <<proc, pid, told, evicted, erased, stops, exitval>>
      /\ pc = "saved"
      /\ bg' = IF amp THEN bg \cup {px} ELSE bg
      /\ amp => w' = w
  BY DEF PostSaved, At, outside, shell
<1>2. TypeInv /\ px \in Child /\ proc[px] # "unborn"
  BY <1>1 DEF TableInv, TypeInv, Posting, Posted, Entries, Linked, Making
<1>3. \A d \in Child : Life(d)' = Life(d)
  BY <1>1, LifeSame
<1>4. CASE amp
  <2>1. Life(px) # "unborn"
    BY <1>2 DEF Life, TypeInv, TypeOK
  <2>2. Reports!Give(px)
    BY <1>1, <1>2, <1>3, <1>4, <2>1 DEF Reports!Give
  <2> QED
    BY <1>2, <2>2 DEF Reports!ReportsNext
<1>5. CASE ~amp
  BY <1>1, <1>2, <1>3, <1>5, ReportsQuiet
<1> QED
  BY <1>4, <1>5

\* A status is told: it is the true one, and of the process that was asked
\* for.
LEMMA ReportsTell ==
    ASSUME TypeInv, NEW c \in Child, c \notin told, c \notin evicted,
           proc[c] = "reaped", pid[c] = w.arg, told' = told \cup {c},
           UNCHANGED <<proc, pid, bg, stops, evicted, erased, w>>,
           stops[c] = 0 /\ c \notin erased => exitval' = TrueValue(c)
    PROVE  Reports!ReportsNext
<1>1. Life(c) = "ended"
  BY LifeOf
<1>2. Life(c)' = "told"
  BY DEF Life
<1>3. \A d \in Child \ {c} : Life(d)' = Life(d)
  BY LifeSame
<1>4. c \notin {d \in Child : stops[d] > 0} \cup erased =>
        exitval' = TrueValue(c)
  BY BoundAssumption DEF TypeInv, TypeOK
<1>5. Reports!Tell(c)
  BY <1>1, <1>2, <1>3, <1>4, LivesExcept DEF Reports!Tell
<1> QED
  BY <1>5 DEF Reports!ReportsNext

\* job_wait knows nothing of the process.
LEMMA ReportsUnknown ==
    ASSUME TypeInv, UNCHANGED <<proc, pid, bg, stops, told, evicted, erased>>,
           exitval' = NOENT, w'.arg \in {w.arg, 0},
           \/ MaxEnv > 0
           \/ \A c \in bg : stops[c] = 0 /\ pid[c] = w.arg => c \in told \cup evicted
    PROVE  Reports!ReportsNext
<1>1. \A d \in Child : Life(d)' = Life(d)
  BY LifeSame
<1>2. bg \subseteq Child /\ \A d \in Child : stops[d] \in Nat
  BY BoundAssumption DEF TypeInv, TypeOK
<1>3. \/ MaxEnv > 0
      \/ \A c \in bg \ ({d \in Child : stops[d] > 0} \cup erased) :
           pid[c] = w.arg => [d \in Child |-> Life(d)][c] \in {"told", "lost"}
  <2>1. ASSUME NEW c \in Child, c \in told \cup evicted
        PROVE  Life(c) \in {"told", "lost"}
    BY <2>1 DEF Life
  <2>2. \A c \in bg \ ({d \in Child : stops[d] > 0} \cup erased) :
          c \in Child /\ stops[c] = 0
    BY <1>2
  <2> QED
    BY <2>1, <2>2
<1>4. Reports!TellUnknown
  BY <1>1, <1>3 DEF Reports!TellUnknown
<1> QED
  BY <1>4 DEF Reports!ReportsNext


LEMMA ReportsWaitSaved ==
    ASSUME TableInv, StatusInv, Gone, MaxEnv = 0 => KeptInv, WaitSaved, TrulyTold
    PROVE  Reports!ReportsNext
<1>1. /\ UNCHANGED <<proc, pid, bg, stops, evicted, erased, w>> /\ NoEntry(w.arg)
      /\ TypeInv
  BY DEF WaitSaved, outside, TableInv
<1>2. ASSUME NEW i \in DOMAIN bck, IsSaved(bck, i, w.arg),
             told' = told \cup {bck[i].who}
      PROVE  Reports!ReportsNext
  <2> DEFINE c == bck[i].who
  <2>1. c \in Child /\ c \in Who(bck) /\ proc[c] = "reaped" /\ c \notin told
    BY <1>1, OnList DEF Who, StatusInv, Lists, Sound
  <2>2. c \notin evicted /\ pid[c] = w.arg
    BY <1>2, <2>1 DEF Gone, Seen, IsSaved
  <2>3. told' = told \cup {c}
    BY <1>2
  <2> HIDE DEF c
  <2>4. stops[c] = 0 /\ c \notin erased => exitval' = TrueValue(c)
    BY <2>1, <2>3 DEF TrulyTold
  <2> QED
    BY <1>1, <2>1, <2>2, <2>3, <2>4, ReportsTell
<1>3. CASE NotSaved(bck, w.arg) /\ exitval' = NOENT /\ told' = told
  <2>1. ASSUME MaxEnv = 0, NEW c \in bg, stops[c] = 0, pid[c] = w.arg
        PROVE  c \in told \cup evicted
    <3>1. Kept(c)
      BY <2>1 DEF KeptInv, BgKept
    <3>2. c \notin Listed
      BY <1>1, <2>1 DEF NoEntry, Listed, Range
    <3>3. c \notin Who(bck)
      BY <1>3, <2>1 DEF NotSaved, Who
    <3> QED
      BY <3>1, <3>2, <3>3 DEF Kept
  <2>2. MaxEnv = 0 \/ MaxEnv > 0
    BY BoundAssumption
  <2> QED
    BY <1>1, <1>3, <2>1, <2>2, ReportsUnknown
<1> QED
  BY <1>2, <1>3 DEF WaitSaved

\* A process of another environment is found only in a virtual subshell.
LEMMA ReportsWaitForeign ==
    ASSUME TypeInv, WaitForeign
    PROVE  Reports!ReportsNext
<1>1. /\ UNCHANGED <<proc, pid, bg, stops, told, evicted, erased>>
      /\ exitval' = NOENT /\ w'.arg = 0
  BY DEF WaitForeign, NoWait, outside, history
<1>2. PICK i \in DOMAIN pwlist : env[pwlist[i]] # curenv
  BY DEF WaitForeign
<1>3. MaxEnv > 0
  <2>1. pwlist[i] \in Child
    BY ElementOfSeq, LenProperties DEF TypeInv, TypeOK
  <2>2. env[pwlist[i]] \in 0..MaxEnv /\ curenv \in 0..MaxEnv
    BY <2>1 DEF TypeInv, TypeOK
  <2> QED
    BY <1>2, <2>2, BoundAssumption
<1> QED
  BY <1>1, <1>3, ReportsUnknown

LEMMA ReportsTopDone ==
    ASSUME TableInv, StatusInv, Waiter, Gone, Asked, TopDone, TrulyTold
    PROVE  Reports!ReportsNext
<1>1. /\ UNCHANGED <<proc, pid, bg, stops, erased, w>> /\ w.pw # None
      /\ told' = told \cup {w.pw}
  BY DEF TopDone, Waited, outside
<1>2. /\ evicted' = evicted /\ proc[w.pw] = "reaped" /\ w.pw \in Listed
  BY GoneTopDone
<1>3. w.pw \in Child /\ w.pw \notin told \cup evicted /\ pid[w.pw] = w.arg
  <2>1. w.pw \in Child
    BY <1>2, RangeOfSeq DEF Listed, TableInv, TypeInv, TypeOK
  <2> QED
    BY <1>1, <1>2, <2>1 DEF StatusInv, Told, Gone, Seen, Asked
<1>4. stops[w.pw] = 0 /\ w.pw \notin erased => exitval' = TrueValue(w.pw)
  BY <1>1, <1>3 DEF TrulyTold
<1> QED
  BY <1>1, <1>2, <1>3, <1>4, ReportsTell DEF TableInv

\* The steps that neither change a process nor set sh.exitval.
LEMMA ReportsPassive ==
    ASSUME TypeInv, TypeInv', Passive, exitval' \in {exitval, 0}
    PROVE  Reports!ReportsNext
<1>1. \A d \in Child : Life(d)' = Life(d)
  BY LifeSame DEF Passive
<1> QED
  BY <1>1, ReportsQuiet DEF Passive

LEMMA ReportsCommand ==
    ASSUME TypeInv, TypeInv', StatusInv, Command
    PROVE  Reports!ReportsNext
<1>1. exitval' \in {exitval, 0}
  BY DEF Command, StartFork, StartWait, StartUnpost, RunTraps, EndTrap,
     EnterSubshell, LeaveSubshell, shell
<1>2. CASE EnterSubshell \/ LeaveSubshell
  <2>1. UNCHANGED <<proc, pid, bg, stops, told, evicted, erased>>
    BY <1>2 DEF EnterSubshell, LeaveSubshell, outside, history
  <2>2. \A d \in Child : Life(d)' = Life(d)
    BY <2>1, LifeSame
  <2> QED
    BY <1>1, <2>1, <2>2, ReportsQuiet
<1>3. CASE ~EnterSubshell /\ ~LeaveSubshell
  BY <1>1, <1>3, PassiveSteps, ReportsPassive DEF Command
<1> QED
  BY <1>2, <1>3

\* job_waitsafe and job_unpost.
LEMMA ReportsReap ==
    ASSUME TableInv, TypeInv', StatusInv, Gone,
           NEW c \in Child, HandlerReap(c) \/ MainReap(c)
    PROVE  Reports!ReportsNext
<1>1. /\ Reap(c, TRUE) \/ Reap(c, reap.cont)
      /\ UNCHANGED <<pid, bg, stops, told, erased, w, exitval>>
  BY DEF HandlerReap, MainReap, shell, call
<1>2. \A d \in Child : \/ proc'[d] = proc[d]
                       \/ proc[d] = "zombie" /\ proc'[d] = "reaped"
  <2>1. proc' = proc \/ (proc[c] = "zombie" /\ proc' = [proc EXCEPT ![c] = "reaped"])
    BY <1>1 DEF Reap
  <2> QED
    BY <2>1 DEF TableInv, TypeInv, TypeOK
<1>3. evicted' = evicted \/ \E z \in Child : Loses(z)
  BY GoneReapStep
<1> QED
  BY <1>1, <1>2, <1>3, ReportsForget DEF TableInv

LEMMA ReportsUnpost ==
    ASSUME TableInv, TypeInv', StatusInv, Gone, PostUnpost \/ UnpostNext
    PROVE  Reports!ReportsNext
<1>1. UNCHANGED <<proc, pid, bg, stops, told, erased, w, exitval>>
  BY DEF PostUnpost, UnpostNext, outside, shell, call
<1>2. evicted' = evicted \/ \E z \in Child : Loses(z)
  BY GonePostUnpost, GoneUnpostNext
<1> QED
  BY <1>1, <1>2, ReportsForget DEF TableInv

\* Every step of the job table is one of the promise.
LEMMA ReportsStep ==
    ASSUME TableInv, TableInv', StatusInv, Waiter, Gone, Asked,
           MaxEnv = 0 => KeptInv, Next
    PROVE  Reports!ReportsNext
<1>1. TypeInv /\ TypeInv'
  BY DEF TableInv
<1>2. TrulyTold
  BY StatusStep
<1>3. CASE ChildStep
  BY <1>1, <1>3, ReportsChild DEF ChildStep
<1>4. CASE HandlerStep \/ ReapStep \/ Signal
  <2>1. CASE Handler \/ HandlerReturn \/ MainReapDone \/ Flush \/ Signal
    <3>1. exitval' = exitval
      BY <2>1 DEF Handler, HandlerReturn, MainReapDone, Flush, Signal, shell
    <3> QED
      BY <1>1, <2>1, <3>1, PassiveSteps, ReportsPassive
  <2> QED
    BY <1>1, <1>4, <2>1, ReportsReap DEF HandlerStep, ReapStep
<1>5. CASE ForkStep
  <2>1. CASE ForkFails
    <3>1. exitval' = exitval
      BY <2>1 DEF ForkFails, shell
    <3> QED
      BY <1>1, <2>1, <3>1, PassiveSteps, ReportsPassive
  <2> QED
    BY <1>1, <1>5, <2>1, ReportsFork, ReportsUnpost, ReportsPostFlag,
       ReportsPostSaved DEF ForkStep
<1>6. CASE WaitStep
  <2>1. CASE \/ WaitAny \/ WaitFor \/ TopPending \/ Unlock \/ Clear \/ Enter
             \/ Check \/ ExitSet \/ UnpostEnd
    <3>1. exitval' = exitval
      BY <2>1 DEF WaitAny, WaitFor, TopPending, Unlock, Clear, Enter, Check,
         ExitSet, UnpostEnd, shell
    <3> QED
      BY <1>1, <2>1, <3>1, PassiveSteps, ReportsPassive
  <2> QED
    BY <1>1, <1>2, <1>6, <2>1, ReportsWaitSaved, ReportsWaitForeign,
       ReportsTopDone, ReportsUnpost DEF WaitStep
<1> QED
  BY <1>1, <1>3, <1>4, <1>5, <1>6, ReportsCommand DEF Next

LEMMA ReportsStart == Init => Reports!ReportsInit /\ Gone /\ Asked
<1> SUFFICES ASSUME Init PROVE Reports!ReportsInit /\ Gone /\ Asked
  OBVIOUS
<1>1. Gone /\ Asked
  BY DEF Init, Gone, Asked, NoWait
<1>2. \A c \in Child : Life(c) = "unborn"
  BY DEF Init, Life
<1>3. {c \in Child : stops[c] > 0} \cup erased = {}
  BY DEF Init
<1>4. /\ pid = [c \in Child |-> 0] /\ bg = {} /\ w.arg = 0 /\ exitval = 0
  BY DEF Init, NoWait
<1>5. Reports!ReportsInit
  BY <1>2, <1>3, <1>4 DEF Reports!ReportsInit
<1> QED
  BY <1>1, <1>5

\* sh_fork, the SIGCHLD handler and job_wait together do for the script what
\* StatusReports says, whatever the order in which processes end, signals
\* arrive and commands are run: a status is told once, to who asked for that
\* process, and it is the true one; it is given up only when child_max and
\* one others take its place; and without virtual subshells wait never says of
\* a background process that there is none before that.
THEOREM ImplementsReports == ASSUME Orderly PROVE Spec => IsReports
<1> DEFINE Inv == /\ TableInv /\ StatusInv /\ Waiter /\ Gone /\ Asked
                  /\ MaxEnv = 0 => KeptInv
<1>1. Init => Inv /\ Reports!ReportsInit
  <2>1. Init => KeptInv
    BY DEF Init, KeptInv, Foreground, BgKept
  <2> QED
    BY <2>1, TableInit, StatusInit, ReportsStart
<1>2. Inv /\ [Next]_vars => Inv'
  <2> SUFFICES ASSUME TableInv, StatusInv, Waiter, Gone, Asked,
                      MaxEnv = 0 => KeptInv, [Next]_vars
               PROVE  Inv'
    OBVIOUS
  <2>1. TableInv' /\ Waiter'
    BY TableStep, WaiterStep DEF TableInv
  <2>2. StatusInv' /\ Gone'
    BY <2>1, StatusStep, GoneStep
  <2>3. Asked'
    BY <2>1, AskedStep DEF TableInv
  <2>4. (MaxEnv = 0 => KeptInv)'
    BY <2>1, KeptStep
  <2> QED
    BY <2>1, <2>2, <2>3, <2>4
<1>3. Inv /\ Inv' /\ [Next]_vars
        => [Reports!ReportsNext]_(Reports!reportVars)
  <2> SUFFICES ASSUME Inv, Inv', [Next]_vars
               PROVE  [Reports!ReportsNext]_(Reports!reportVars)
    OBVIOUS
  <2>1. CASE Next
    BY <2>1, ReportsStep
  <2>2. CASE UNCHANGED vars
    <3>1. UNCHANGED <<proc, pid, bg, stops, told, evicted, erased, w, exitval>>
      BY <2>2 DEF vars, outside, main, shell, call, history
    <3>2. \A d \in Child : Life(d)' = Life(d)
      BY <3>1, LifeSame
    <3> QED
      BY <3>1, <3>2 DEF Reports!reportVars
  <2> QED
    BY <2>1, <2>2
<1> HIDE DEF Inv
<1> QED
  BY <1>1, <1>2, <1>3, PTL DEF Spec, IsReports, Reports!ReportsSpec

=============================================================================
