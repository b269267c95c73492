------------------------------ MODULE JobsProof ------------------------------
(***************************************************************************)
(* Theorems about Jobs for every value of its constants.                   *)
(***************************************************************************)
EXTENDS Jobs, JobLists

-----------------------------------------------------------------------------
\* The saved list keeps its type and its length when a status is pushed, and
\* only an element of Child is ever pushed out.
LEMMA PushProperties ==
    ASSUME NEW b \in Seq(SavedStatus), Len(b) <= ChildMax + 1,
           NEW c \in Child, NEW v \in Status
    PROVE  /\ Push(b, c, v) \in Seq(SavedStatus)
           /\ Len(Push(b, c, v)) <= ChildMax + 1
           /\ Evict(b) \subseteq Child
<1>1. ChildMax \in Nat /\ Len(b) \in Nat
  BY BoundAssumption, LenProperties
<1>2. [who |-> c, val |-> v] \in SavedStatus
  BY DEF SavedStatus
<1>3. CASE Full(b)
  <2>1. Len(b) \in 1..Len(b) /\ Len(b) = ChildMax + 1
    BY <1>1, <1>3 DEF Full
  <2>2. Front(b) \in Seq(SavedStatus) /\ Len(Front(b)) = Len(b) - 1
    <3>1. \A k \in 1..(Len(b) - 1) : b[k] \in SavedStatus
      BY <1>1, ElementOfSeq
    <3> QED
      BY <1>1, <2>1, <3>1, SubSeqProperties DEF Front
  <2>3. Last(b) \in SavedStatus
    BY <2>1, ElementOfSeq DEF Last
  <2> QED
    BY <1>1, <1>2, <1>3, <2>1, <2>2, <2>3, ConsProperties
    DEF Push, Evict, SavedStatus
<1>4. CASE ~Full(b)
  BY <1>1, <1>2, <1>4, ConsProperties DEF Push, Evict, Full
<1> QED
  BY <1>3, <1>4

\* A pushed status comes first, the others move back by one, and the last of
\* a full list falls off.
Pushed(p, b, c, v, n) ==
    /\ DOMAIN p = 1..(n + 1)
    /\ p[1] = [who |-> c, val |-> v]
    /\ \A k \in 1..n : p[k + 1] = b[k]
    /\ n = Len(b) \/ (n = Len(b) - 1 /\ Evict(b) = {b[Len(b)].who})

LEMMA PushElements ==
    ASSUME NEW b \in Seq(SavedStatus), NEW c \in Child, NEW v \in Status
    PROVE  \E n \in Nat : Pushed(Push(b, c, v), b, c, v, n)
<1> DEFINE n == IF Full(b) THEN Len(b) - 1 ELSE Len(b)
           e == [who |-> c, val |-> v]
           rest == IF Full(b) THEN Front(b) ELSE b
<1>1. ChildMax \in Nat /\ Len(b) \in Nat /\ DOMAIN b = 1..Len(b)
  BY BoundAssumption, LenProperties
<1>2. e \in SavedStatus
  BY DEF SavedStatus
<1>3. /\ rest \in Seq(SavedStatus) /\ Len(rest) = n /\ n \in Nat
      /\ \A k \in 1..n : rest[k] = b[k]
  <2>1. CASE Full(b)
    <3>1. Len(b) > 0
      BY <1>1, <2>1 DEF Full
    <3>2. \A k \in 1..(Len(b) - 1) : b[k] \in SavedStatus
      BY <1>1, ElementOfSeq
    <3>3. /\ Front(b) \in Seq(SavedStatus) /\ Len(Front(b)) = Len(b) - 1
          /\ \A k \in 1..(Len(b) - 1) : Front(b)[k] = b[k]
      BY <1>1, <3>1, <3>2, SubSeqProperties DEF Front
    <3>4. rest = Front(b) /\ n = Len(b) - 1
      BY <2>1
    <3>5. n \in Nat
      <4>1. Len(b) - 1 \in Nat
        BY <1>1, <3>1
      <4> QED
        BY <3>4, <4>1, Zenon
    <3> HIDE DEF rest, n
    <3> QED
      BY <3>3, <3>4, <3>5, Zenon
  <2>2. CASE ~Full(b)
    BY <1>1, <2>2
  <2> QED
    BY <2>1, <2>2
<1>4. Push(b, c, v) = <<e>> \o rest
  BY DEF Push
<1>5. n = Len(b) \/ (n = Len(b) - 1 /\ Evict(b) = {b[Len(b)].who})
  BY Zenon DEF Evict, Last
<1> HIDE DEF n, e, rest
<1>6. /\ <<e>> \o rest \in Seq(SavedStatus) /\ Len(<<e>> \o rest) = n + 1
      /\ \A k \in 1..(n + 1) :
           (<<e>> \o rest)[k] = IF k = 1 THEN e ELSE rest[k - 1]
  BY <1>2, <1>3, ConsProperties
<1>7. DOMAIN Push(b, c, v) = 1..(n + 1)
  BY <1>4, <1>6, LenProperties
<1>8. Push(b, c, v)[1] = e
  BY <1>3, <1>4, <1>6
<1>9. ASSUME NEW k \in 1..n PROVE Push(b, c, v)[k + 1] = b[k]
  BY <1>3, <1>4, <1>6
<1> QED
  BY <1>3, <1>5, <1>7, <1>8, <1>9 DEF e, Pushed

\* The exit values: 16 bits, whatever the flags say.
LEMMA Widths == /\ NOSTATUS \in Nat /\ NOSTATUS > 600
                /\ NOENT \in Status /\ STOPSIG \in Status
                /\ SIGSTOP \in Status /\ 0 \in Status /\ NOSTATUS \in Status
<1>1. NOSTATUS \in Nat /\ NOSTATUS > 600
  BY DEF NOSTATUS
<1> QED
  BY <1>1 DEF Status, NOENT, STOPSIG, SIGSTOP

\* A status with its signal bit is still a status.
LEMMA ValueType ==
    /\ \A n \in Status, sig \in BOOLEAN : Value(n, sig) \in Status
    /\ \A c \in Child : TrueValue(c) \in Status
<1>1. ASSUME NEW n \in Status, NEW sig \in BOOLEAN
      PROVE  Value(n, sig) \in Status
  <2>1. CASE sig /\ n < EXITSIG
    <3>1. n < EXITSIG /\ Value(n, sig) = n + EXITSIG
      BY <2>1, Zenon DEF Value
    <3>2. n + EXITSIG \in Status
      BY <3>1, Widths DEF Status, EXITSIG
    <3> QED
      BY <3>1, <3>2, Zenon
  <2>2. CASE ~(sig /\ n < EXITSIG)
    BY <2>2, Zenon DEF Value
  <2> QED
    BY <2>1, <2>2
<1>2. ASSUME NEW c \in Child
      PROVE  TrueValue(c) \in Status
  <2>1. Ending[c].n \in 0..255
    BY EndingAssumption
  <2>2. Ending[c].n \in Status
    BY <2>1, Widths DEF Status
  <2>3. Ending[c].sig \in BOOLEAN
    BY EndingAssumption
  <2> QED
    BY <1>1, <2>2, <2>3, Zenon DEF TrueValue
<1> QED
  BY <1>1, <1>2
-----------------------------------------------------------------------------
(***************************************************************************)
(* Type correctness.  It needs one fact more: that a process being posted  *)
(* is a process.                                                           *)
(***************************************************************************)
Making == {"post", "link", "flag", "exit", "saved"}
Posting == pc \in Making => px \in Child
TypeInv == TypeOK /\ Posting
ReapCall == [block : BOOLEAN, cont : BOOLEAN,
             ret : {"idle", "fork", "wait", "check", "exitset"}]
WaitCall == [arg : Pid \cup {0, 1}, intr : BOOLEAN, pw : Child \cup {None}]

\* FALSE is a Boolean, in the form the provers can use.
LEMMA FalseType == \A x : x = FALSE => x \in BOOLEAN
  BY Zenon

LEMMA TrueType == \A x : x = TRUE => x \in BOOLEAN
  BY Zenon

\* The initial state is well typed.
LEMMA TypeInit == Init => TypeInv
<1> SUFFICES ASSUME Init PROVE TypeInv
  OBVIOUS
<1>1. ChildMax \in Nat /\ MaxEnv \in Nat /\ MaxFails \in Nat
      /\ MaxStops \in Nat /\ MaxSignals \in Nat
  BY BoundAssumption
<1>2. /\ pwlist \in Seq(Child)
      /\ bck \in Seq(SavedStatus) /\ Len(bck) = 0
      /\ saved \in Seq([list : Seq(SavedStatus), env : 0..MaxEnv, intrap : BOOLEAN])
      /\ DOMAIN saved = {}
  BY DEF Init
<1>3. w \in WaitCall /\ reap \in ReapCall
  BY DEF Init, NoWait, NoReap, ReapCall, WaitCall
<1>4. /\ pc \in Label /\ Posting
      /\ pexit \in [Child -> Status] /\ exitval \in Status
  BY Widths DEF Init, Label, Making, Posting
<1>5. /\ stops \in [Child -> 0..MaxStops] /\ fails \in 0..MaxFails
      /\ signals \in 0..MaxSignals /\ env \in [Child -> 0..MaxEnv]
      /\ curenv \in 0..MaxEnv /\ subenv \in 0..MaxEnv
  BY <1>1 DEF Init
<1>6. Len(bck) <= ChildMax + 1
  BY <1>1, <1>2
<1> QED
  BY FalseType, <1>2, <1>3, <1>4, <1>5, <1>6 DEF Init, TypeInv, TypeOK, Flag, ReapCall, WaitCall

ReapTyped ==
    /\ proc \in [Child -> {"unborn", "running", "stopped", "zombie", "reaped"}]
    /\ news \in [Child -> {"none", "stop", "cont"}]
    /\ waitsafe \in BOOLEAN
    /\ pwlist \in Seq(Child)
    /\ flag \in [Child -> SUBSET Flag]
    /\ pexit \in [Child -> Status]
    /\ bck \in Seq(SavedStatus) /\ Len(bck) <= ChildMax + 1
    /\ lastpid \in Pid \cup {0}
    /\ evicted \subseteq Child
    /\ env \in [Child -> 0..MaxEnv]

\* One turn of job_waitsafe's loop keeps the table and the saved list typed.
LEMMA ReapType ==
    ASSUME TypeOK, NEW c \in Child, NEW cont \in BOOLEAN, Reap(c, cont)
    PROVE  ReapTyped'
<1> USE DEF ReapTyped
<1>1. /\ proc' \in [Child ->
            {"unborn", "running", "stopped", "zombie", "reaped"}]
      /\ news' \in [Child -> {"none", "stop", "cont"}]
      /\ waitsafe' \in BOOLEAN
      /\ env' \in [Child -> 0..MaxEnv]
  BY DEF Reap, TypeOK
<1>2. ASSUME NEW i \in DOMAIN pwlist,
             NoteEnd(c, i) \/ NoteStop(c, i) \/ NoteContinue(c, i)
      PROVE  /\ pwlist' \in Seq(Child)
             /\ flag' \in [Child -> SUBSET Flag]
             /\ pexit' \in [Child -> Status]
  <2>1. pwlist \in Seq(Child) /\ pwlist[i] \in Child
    BY ElementOfSeq, LenProperties DEF TypeOK
  <2>2. CASE NoteEnd(c, i)
    <3>1. Ending[c].n \in Status
      BY EndingAssumption, Widths DEF Status
    <3>2. EndFlags(flag[pwlist[i]], Ending[c].sig) \in SUBSET Flag
      BY <2>1 DEF EndFlags, Flag, TypeOK
    <3> QED
      BY <2>1, <2>2, <3>1, <3>2 DEF NoteEnd, TypeOK
  <2>3. CASE NoteStop(c, i)
    BY <2>1, <2>3, MoveToFrontType, Widths DEF NoteStop, TypeOK, Flag
  <2>4. CASE NoteContinue(c, i)
    BY <2>1, <2>4 DEF NoteContinue, TypeOK, Flag
  <2> QED
    BY <1>2, <2>2, <2>3, <2>4
<1>3. CASE NoteUnknown(c)
  <2>1. PICK v \in {0, STOPSIG, TrueValue(c)} : bck' = Push(bck, c, v)
    BY <1>3 DEF NoteUnknown
  <2>2. v \in Status
    BY <2>1, Widths, ValueType
  <2>3. /\ bck' \in Seq(SavedStatus) /\ Len(bck') <= ChildMax + 1
        /\ Evict(bck) \subseteq Child
    BY <2>1, <2>2, PushProperties DEF TypeOK
  <2> QED
    BY <1>1, <1>3, <2>3 DEF NoteUnknown, TypeOK
<1> QED
  BY SMTT(150), <1>1, <1>2, <1>3 DEF Reap, TypeOK

\* A status that is saved, or not, when its entry goes.
LEMMA SaveType ==
    ASSUME TypeOK, NEW c \in Child, NEW keep \in BOOLEAN, SaveStatus(c, keep)
    PROVE  /\ bck' \in Seq(SavedStatus) /\ Len(bck') <= ChildMax + 1
           /\ evicted' \subseteq Child
<1>1. EntryValue(c) \in Status
  <2>1. pexit[c] \in Status
    BY DEF TypeOK
  <2>2. ("SIGNALLED" \in flag[c]) \in BOOLEAN
    OBVIOUS
  <2> QED
    BY <2>1, <2>2, ValueType, Zenon DEF EntryValue
<1>2. /\ Push(bck, c, EntryValue(c)) \in Seq(SavedStatus)
      /\ Len(Push(bck, c, EntryValue(c))) <= ChildMax + 1
      /\ Evict(bck) \subseteq Child
  BY <1>1, PushProperties DEF TypeOK
<1> QED
  BY <1>2 DEF SaveStatus, TypeOK

\* Coming back from job_waitsafe.
LEMMA ReturnType ==
    ASSUME TypeOK, Return
    PROVE  /\ pc' \in Label \ Making
           /\ w' \in WaitCall /\ reap' \in ReapCall
  BY DEF Return, TypeOK, Label, Making, NoWait, NoReap, WaitCall, ReapCall

\* job_unpost.
LEMMA UnpostType ==
    ASSUME TypeOK, NEW i \in DOMAIN pwlist, Unpost(i)
    PROVE  /\ pwlist' \in Seq(Child)
           /\ flag' \in [Child -> SUBSET Flag]
           /\ bck' \in Seq(SavedStatus) /\ Len(bck') <= ChildMax + 1
           /\ evicted' \subseteq Child
<1>1. pwlist \in Seq(Child) /\ pwlist[i] \in Child
  BY ElementOfSeq, LenProperties DEF TypeOK
<1>2. ("EXITSAVE" \in flag[pwlist[i]]) \in BOOLEAN
  OBVIOUS
<1>3. CASE Unpostable(pwlist[i])
  <2>1. /\ pwlist' = RemoveAt(pwlist, i)
        /\ flag' = [flag EXCEPT ![pwlist[i]] = @ \ {"EXITSAVE", "DONE"}]
        /\ SaveStatus(pwlist[i], "EXITSAVE" \in flag[pwlist[i]])
    BY <1>3, Zenon DEF Unpost
  <2>2. /\ bck' \in Seq(SavedStatus) /\ Len(bck') <= ChildMax + 1
        /\ evicted' \subseteq Child
    BY <1>1, <1>2, <2>1, SaveType, Zenon
  <2> QED
    BY <1>1, <2>1, <2>2, RemoveAtProperties DEF TypeOK
<1>4. CASE ~Unpostable(pwlist[i])
  BY <1>4 DEF Unpost, TypeOK
<1> QED
  BY <1>3, <1>4

\* job_post's call of job_chksave.
LEMMA ChkSaveType ==
    ASSUME TypeOK, NEW c \in Child, ChkSave(c)
    PROVE  /\ flag' \in [Child -> SUBSET Flag]
           /\ pexit' \in [Child -> Status]
           /\ bck' \in Seq(SavedStatus) /\ Len(bck') <= ChildMax + 1
<1>1. \A v \in Status : NewFlags(flag[c], v) \in SUBSET Flag
  BY DEF NewFlags, Flag, TypeOK
<1>2. ASSUME NEW i \in DOMAIN bck
      PROVE  /\ bck[i].val \in Status
             /\ RemoveAt(bck, i) \in Seq(SavedStatus)
             /\ Len(RemoveAt(bck, i)) <= ChildMax + 1
  <2>1. bck[i] \in SavedStatus /\ Len(bck) \in Nat
    BY LenProperties, ElementOfSeq DEF TypeOK
  <2>2. /\ RemoveAt(bck, i) \in Seq(SavedStatus)
        /\ Len(RemoveAt(bck, i)) = Len(bck) - 1
    BY RemoveAtProperties DEF TypeOK
  <2>3. ChildMax \in Nat
    BY BoundAssumption
  <2> QED
    BY <2>1, <2>2, <2>3 DEF SavedStatus, TypeOK
<1>3. CASE UNCHANGED <<flag, pexit, bck>>
  BY <1>3 DEF TypeOK
<1>4. CASE /\ flag' = [flag EXCEPT ![c] = NewFlags(@, NOSTATUS)]
           /\ pexit' = [pexit EXCEPT ![c] = NOSTATUS] /\ UNCHANGED bck
  BY <1>1, <1>4, Widths DEF TypeOK
<1>5. ASSUME NEW i \in DOMAIN bck,
             flag' = [flag EXCEPT ![c] = NewFlags(@, bck[i].val)],
             pexit' = [pexit EXCEPT ![c] =
                         IF bck[i].val = STOPSIG THEN 0 ELSE bck[i].val],
             bck' = RemoveAt(bck, i)
      PROVE  /\ flag' \in [Child -> SUBSET Flag]
             /\ pexit' \in [Child -> Status]
             /\ bck' \in Seq(SavedStatus) /\ Len(bck') <= ChildMax + 1
  BY <1>1, <1>2, <1>5, Widths DEF TypeOK
<1> QED
  BY <1>3, <1>4, <1>5 DEF ChkSave

\* Every step keeps the types.
LEMMA TypeStep == TypeInv /\ [Next]_vars => TypeInv'
<1> SUFFICES ASSUME TypeInv, [Next]_vars PROVE TypeInv'
  OBVIOUS
<1> USE DEF TypeInv
<1>1. ASSUME NEW c \in Child, ChildEnd(c) PROVE TypeInv'
  BY SMTT(60), <1>1 DEF ChildEnd, Changes, main, jobs, table, flags, critical, shell,
     scopes, call, command, history, TypeOK, Posting
<1>2. ASSUME NEW c \in Child, ChildStop(c) PROVE TypeInv'
  BY SMTT(60), <1>2, BoundAssumption DEF ChildStop, Changes, main, jobs, table, flags, critical, shell,
     scopes, call, command, history, TypeOK, Posting
<1>3. ASSUME NEW c \in Child, ChildContinue(c) PROVE TypeInv'
  BY SMTT(150), <1>3 DEF ChildContinue, Changes, main, jobs, table, flags, critical,
     shell, scopes, call, command, history, TypeOK, Posting
<1>4. CASE Handler
  <2>1. CASE Interrupted /\ NoteTrap
    BY <1>4, <2>1, ReturnType
    DEF Handler, Interrupted, NoteTrap, jobs, table, scopes, command, history,
        TypeOK, Posting, ReapCall, WaitCall
  <2>2. CASE UNCHANGED <<pc, call, echild, trapnote>>
    BY FalseType, <1>4, <2>2
    DEF Handler, jobs, table, scopes, command, history, call, TypeOK, Posting
  <2> QED
    BY <1>4, <2>1, <2>2 DEF Handler
<1>5. ASSUME NEW c \in Child, HandlerReap(c) PROVE TypeInv'
  <2>1. ReapTyped'
    BY <1>5, ReapType DEF HandlerReap
  <2> QED
    BY SMTT(60), <1>5, <2>1
    DEF ReapTyped, HandlerReap, critical, shell, scopes, call, command, TypeOK, Posting
<1>6. CASE HandlerReturn
  <2>1. CASE Interrupted
    BY ZenonT(60), <1>6, <2>1, ReturnType
    DEF HandlerReturn, Interrupted, NoteTrap, jobs, table, scopes, command,
        history, critical, TypeOK, Posting, ReapCall, WaitCall
  <2>2. CASE echild' = (echild \/ NoChildren) /\ UNCHANGED <<pc, call>>
    BY FalseType, <1>6, <2>2
    DEF HandlerReturn, NoteTrap, jobs, table, scopes, command, history,
        critical, call, TypeOK, Posting
  <2> QED
    BY <1>6, <2>1, <2>2 DEF HandlerReturn
<1>7. ASSUME NEW c \in Child, MainReap(c) PROVE TypeInv'
  <2>1. reap.cont \in BOOLEAN
    BY DEF TypeOK
  <2>2. ReapTyped'
    BY <1>7, <2>1, ReapType DEF MainReap
  <2>3. reap' \in ReapCall
    BY <1>7, FalseType DEF MainReap, ReapCall, TypeOK
  <2> QED
    BY SMTT(60), <1>7, <2>2, <2>3
    DEF ReapCall, ReapTyped, MainReap, At, critical, shell, scopes, command, TypeOK, Posting
<1>8. CASE MainReapDone
  BY SMTT(150), <1>8, ReturnType
  DEF MainReapDone, NoteTrap, outside, jobs, table, critical, scopes, command,
      history, TypeOK, Posting, ReapCall, WaitCall
<1>9. CASE Flush
  <2>1. CASE Return
    BY ZenonT(60), <1>9, <2>1, ReturnType
    DEF Flush, outside, jobs, table, shell, scopes, command, history, TypeOK,
        Posting, ReapCall, WaitCall
  <2>2. CASE pc' = "reap" /\ UNCHANGED call
    BY FalseType, <1>9, <2>2
    DEF Flush, outside, jobs, table, shell, scopes, command, history, call,
        TypeOK, Making, Posting, Label
  <2> QED
    BY <1>9, <2>1, <2>2 DEF Flush
<1>10. CASE Signal
  <2>1. signals' \in 0..MaxSignals
    BY <1>10, BoundAssumption DEF Signal, TypeOK
  <2>2. trapnote' \in BOOLEAN
    BY <1>10 DEF Signal, TypeOK
  <2>3. CASE Interrupted
    BY ZenonT(60), <1>10, <2>1, <2>2, <2>3, ReturnType
    DEF Signal, Interrupted, jobs, table, critical, scopes, command, history,
        TypeOK, Posting, ReapCall, WaitCall
  <2>4. CASE echild' = FALSE /\ UNCHANGED <<pc, call>>
    <3>1. echild' \in BOOLEAN
      BY <2>4, FalseType
    <3> QED
      BY SMTT(150), <1>10, <2>1, <2>2, <2>4, <3>1
      DEF Signal, jobs, table, critical, scopes, command, history, call, TypeOK,
          Posting
  <2> QED
    BY <1>10, <2>3, <2>4 DEF Signal
<1>11. CASE RunTraps \/ EndTrap
  <2>1. intrap' \in BOOLEAN /\ trapnote' \in BOOLEAN
    BY <1>11, FalseType, TrueType DEF RunTraps, EndTrap, TypeOK
  <2> QED
    BY SMTT(150), <1>11, <2>1 DEF RunTraps, EndTrap, outside, jobs, table, flags,
       critical, scopes, call, command, history, TypeOK, Posting
<1>12. ASSUME NEW a \in BOOLEAN, StartFork(a) PROVE TypeInv'
  BY SMTT(60), FalseType, <1>12, Widths DEF StartFork, outside, jobs, table, scopes, call, history,
     TypeOK, Making, Posting, Label
<1>13. ASSUME NEW c \in Child, NEW p \in Pid, Fork(c, p) PROVE TypeInv'
  BY <1>13 DEF Fork, jobs, table, flags, critical, shell, scopes, call,
     history, TypeOK, Making, Posting, Label
<1>14. CASE ForkFails
  <2>1. fails' \in 0..MaxFails
    BY SMTT(150), <1>14, BoundAssumption DEF ForkFails, TypeOK
  <2>2. w' \in WaitCall
    BY <1>14 DEF ForkFails, NoWait, WaitCall
  <2> QED
    BY SMTT(60), FalseType, <1>14, <2>1, <2>2 DEF ForkFails, jobs, table, shell, scopes, command,
       history, TypeOK, Making, Posting, Label, WaitCall
<1>15. CASE PostUnpost
  <2>1. /\ pwlist' \in Seq(Child)
        /\ flag' \in [Child -> SUBSET Flag]
        /\ bck' \in Seq(SavedStatus) /\ Len(bck') <= ChildMax + 1
        /\ evicted' \subseteq Child
    BY <1>15, UnpostType DEF PostUnpost, TypeOK
  <2> QED
    BY <1>15, <2>1 DEF PostUnpost, At, outside, flags, critical, shell, scopes,
       call, command, TypeOK, Making, Posting, Label
<1>16. CASE PostLink
  <2>1. px \in Child
    BY <1>16 DEF PostLink, At, Making, Posting
  <2>2. pwlist' \in Seq(Child)
    BY <1>16, <2>1, ConsProperties DEF PostLink, TypeOK
  <2> QED
    BY <1>16, <2>1, <2>2 DEF PostLink, outside, flags, critical, shell, scopes,
       call, command, history, TypeOK, Making, Posting, Label
<1>36. CASE PostFlag
  <2>1. px \in Child
    BY <1>36 DEF PostFlag, At, Making, Posting
  <2>2. flag' \in [Child -> SUBSET Flag] /\ erased' \subseteq Child
    BY <1>36, <2>1 DEF PostFlag, Overwritten, Flag, TypeOK
  <2> QED
    BY <1>36, <2>1, <2>2 DEF PostFlag, outside, flags, critical, shell, scopes,
       call, command, TypeOK, Making, Posting, Label
<1>37. CASE PostExit
  <2>1. px \in Child
    BY <1>37 DEF PostExit, At, Making, Posting
  <2>2. pexit' \in [Child -> Status] /\ erased' \subseteq Child
    BY <1>37, <2>1, Widths DEF PostExit, Overwritten, TypeOK
  <2> QED
    BY <1>37, <2>1, <2>2 DEF PostExit, outside, flags, critical, shell, scopes,
       call, command, TypeOK, Making, Posting, Label
<1>38. CASE PostSaved
  <2>1. px \in Child
    BY <1>38 DEF PostSaved, At, Making, Posting
  <2>2. /\ flag' \in [Child -> SUBSET Flag] /\ pexit' \in [Child -> Status]
        /\ bck' \in Seq(SavedStatus) /\ Len(bck') <= ChildMax + 1
    BY <1>38, <2>1, ChkSaveType DEF PostSaved
  <2>3. w' \in WaitCall /\ reap' \in ReapCall
    BY <1>38, <2>1 DEF PostSaved, Poll, NoWait, WaitCall, ReapCall, TypeOK
  <2>4. bg' \subseteq Child /\ px' \in Child \cup {None} /\ inCritical' \in BOOLEAN
    BY <1>38, <2>1, FalseType DEF PostSaved, TypeOK
  <2>5. pc' \in Label /\ Posting' /\ lastpid' \in Pid \cup {0}
    BY <1>38 DEF PostSaved, Posting, Making, Label
  <2> QED
    BY SMTT(60), <1>38, <2>2, <2>3, <2>4, <2>5 DEF PostSaved, outside, shell,
       scopes, TypeOK, WaitCall, ReapCall
<1>17. ASSUME NEW p \in Pid \cup {1}, StartWait(p) PROVE TypeInv'
  BY SMTT(150), <1>17, Widths DEF StartWait, outside, jobs, table, flags, critical, scopes,
     command, history, TypeOK, Making, Posting, Label
<1>18. CASE StartUnpost
  BY <1>18 DEF StartUnpost, outside, jobs, table, flags, critical, shell,
     scopes, call, command, history, TypeOK, Making, Posting, Label
<1>19. CASE WaitAny
  BY FalseType, <1>19 DEF WaitAny, outside, jobs, table, shell, scopes, call, command,
     history, TypeOK, Making, Posting, Label
<1>20. CASE WaitSaved
  <2> DEFINE Typed == /\ exitval' \in Status /\ told' \subseteq Child
                      /\ bck' \in Seq(SavedStatus)
                      /\ Len(bck') <= ChildMax + 1
  <2>1. Typed
    <3>1. CASE NotSaved(bck, w.arg) /\ exitval' = NOENT /\ UNCHANGED <<told, bck>>
      BY <3>1, Widths DEF TypeOK
    <3>2. ASSUME NEW i \in DOMAIN bck, exitval' = bck[i].val,
                 told' = told \cup {bck[i].who}, bck' = RemoveAt(bck, i)
          PROVE  Typed
      <4>1. bck[i] \in SavedStatus /\ Len(bck) \in Nat
        BY LenProperties, ElementOfSeq DEF TypeOK
      <4>2. /\ RemoveAt(bck, i) \in Seq(SavedStatus)
            /\ Len(RemoveAt(bck, i)) = Len(bck) - 1
        BY RemoveAtProperties DEF TypeOK
      <4>3. ChildMax \in Nat
        BY BoundAssumption
      <4>4. bck[i].val \in Status /\ bck[i].who \in Child
        BY <4>1 DEF SavedStatus
      <4>5. told' \subseteq Child
        BY <3>2, <4>4 DEF TypeOK
      <4>6. Len(bck) - 1 <= ChildMax + 1
        BY <4>1, <4>3 DEF TypeOK
      <4> QED
        BY <3>2, <4>2, <4>4, <4>5, <4>6
    <3> HIDE DEF Typed
    <3> QED
      BY <1>20, <3>1, <3>2 DEF WaitSaved
  <2> QED
    BY SMTT(150), FalseType, <1>20, <2>1 DEF WaitSaved, Poll, outside, table, scopes, command,
       TypeOK, Making, Posting, Label
<1>21. CASE WaitForeign
  BY SMTT(150), FalseType, <1>21, Widths DEF WaitForeign, NoWait, outside, jobs, table, scopes,
     command, history, TypeOK, Making, Posting, Label
<1>22. CASE WaitFor
  <2>1. PICK i \in DOMAIN pwlist :
          /\ w' = [w EXCEPT !.pw = pwlist[i]]
          /\ flag' = IF w.intr THEN flag
                     ELSE [flag EXCEPT ![pwlist[i]] = @ \ {"EXITSAVE"}]
    BY <1>22 DEF WaitFor
  <2>2. pwlist[i] \in Child
    BY ElementOfSeq, LenProperties DEF TypeOK
  <2>3. w' \in WaitCall
    BY <2>1, <2>2 DEF TypeOK, WaitCall
  <2>4. flag' \in [Child -> SUBSET Flag]
    BY <2>1, <2>2 DEF TypeOK
  <2> QED
    BY SMTT(150), FalseType, <1>22, <2>3, <2>4 DEF WaitFor, outside, shell, scopes, command, history,
       TypeOK, Making, Posting, Label, WaitCall
<1>23. Reported \in [Child -> SUBSET Flag]
  BY DEF Reported, TypeOK
<1>24. CASE TopPending
  <2>1. flag' \in [Child -> SUBSET Flag]
    <3>1. CASE flag' = Reported
      BY <1>23, <3>1
    <3>2. CASE /\ Waited("STOPPED")
               /\ flag' = [Reported EXCEPT ![w.pw] =
                       @ \ {"NOTIFY", "SIGNALLED", "STOPPED", "EXITSAVE"}]
      <4>1. w.pw \in Child
        BY <3>2 DEF Waited, TypeOK
      <4> HIDE DEF Reported
      <4> QED
        BY <1>23, <3>2, <4>1
    <3> QED
      BY <1>24, <3>1, <3>2 DEF TopPending
  <2> QED
    BY <1>24, <2>1 DEF TopPending, outside, shell, scopes, call, command,
     history, TypeOK, Making, Posting, Label
<1>25. CASE TopDone
  <2>1. w.pw \in Child
    BY <1>25 DEF TopDone, Waited, TypeOK
  <2>2. PICK i \in DOMAIN pwlist : pwlist' = RemoveAt(pwlist, i)
    BY <1>25 DEF TopDone
  <2>3. pwlist' \in Seq(Child)
    BY <2>2, RemoveAtProperties DEF TypeOK
  <2>4. /\ bck' \in Seq(SavedStatus) /\ Len(bck') <= ChildMax + 1
        /\ evicted' \subseteq Child
    <3>1. (~w.intr /\ "EXITSAVE" \in flag[w.pw]) \in BOOLEAN
      OBVIOUS
    <3>2. SaveStatus(w.pw, ~w.intr /\ "EXITSAVE" \in flag[w.pw])
      BY <1>25, Zenon DEF TopDone
    <3> QED
      BY <2>1, <3>1, <3>2, SaveType, Zenon
  <2>5. exitval' \in Status
    <3>1. pexit[w.pw] \in Status
      BY <2>1 DEF TypeOK
    <3>2. ("SIGNALLED" \in flag[w.pw]) \in BOOLEAN
      OBVIOUS
    <3> QED
      BY <1>25, <3>1, <3>2, ValueType, Zenon DEF TopDone, EntryValue
  <2>6. flag' \in [Child -> SUBSET Flag]
    BY <1>23, <1>25, <2>1 DEF TopDone
  <2>7. reap' \in ReapCall
    BY <1>25 DEF TopDone, Poll, ReapCall
  <2> QED
    BY SMTT(60), <2>7, FalseType, <1>25, <2>1, <2>3, <2>4, <2>5, <2>6 DEF TopDone, outside, scopes,
       command, TypeOK, Making, Posting, Label, ReapCall
<1>26. CASE Unlock
  BY <1>26 DEF Unlock, outside, jobs, table, shell, scopes, call, command,
     history, TypeOK, Making, Posting, Label
<1>27. CASE Clear
  BY FalseType, <1>27 DEF Clear, outside, jobs, table, critical, shell, scopes, call,
     command, history, TypeOK, Making, Posting, Label
<1>28. CASE Enter
  BY SMTT(60), FalseType, <1>28 DEF Enter, outside, jobs, table, shell, scopes, command, history,
     TypeOK, Making, Posting, Label
<1>29. CASE Check
  <2>1. reap' \in ReapCall
    <3>1. reap \in ReapCall
      BY DEF TypeOK, ReapCall
    <3>2. \A ret \in {"exitset", "idle", "fork"} : Poll(ret) \in ReapCall
      BY FalseType DEF Poll, ReapCall
    <3> QED
      BY <1>29, <3>1, <3>2 DEF Check
  <2> QED
    BY SMTT(150), FalseType, <1>29, <2>1 DEF Check, ReapCall, outside, jobs, table, shell, scopes, command,
     history, TypeOK, Making, Posting, Label
<1>30. CASE ExitSet
  <2>1. pwlist # <<>> => Head(pwlist) \in Child
    BY HeadTailProperties DEF TypeOK
  <2> QED
    BY <1>30, <2>1 DEF ExitSet, outside, jobs, table, flags, critical, shell,
       scopes, call, history, TypeOK, Making, Posting, Label
<1>31. CASE UnpostNext
  <2>1. PICK i \in DOMAIN pwlist :
          /\ px' = IF i = Len(pwlist) THEN None ELSE pwlist[i + 1]
          /\ Unpost(i)
    BY <1>31 DEF UnpostNext
  <2>2. px' \in Child \cup {None}
    <3>1. i \in 1..Len(pwlist) /\ Len(pwlist) \in Nat
      BY SMTT(150), LenProperties DEF TypeOK
    <3>2. i # Len(pwlist) => pwlist[i + 1] \in Child
      BY <3>1, ElementOfSeq DEF TypeOK
    <3> QED
      BY <2>1, <3>2
  <2>3. /\ pwlist' \in Seq(Child)
        /\ flag' \in [Child -> SUBSET Flag]
        /\ bck' \in Seq(SavedStatus) /\ Len(bck') <= ChildMax + 1
        /\ evicted' \subseteq Child
    BY <2>1, UnpostType
  <2> QED
    BY SMTT(150), <1>31, <2>2, <2>3 DEF UnpostNext, At, outside, flags,
       critical, shell, scopes, call, TypeOK, Making, Posting
<1>32. CASE UnpostEnd
  BY <1>32 DEF UnpostEnd, NoWait, outside, jobs, table, flags, critical, shell,
     scopes, command, history, TypeOK, Making, Posting, Label
<1>33. CASE EnterSubshell
  <2> DEFINE outer == [list |-> bck, env |-> curenv, intrap |-> intrap]
             Scope == [list : Seq(SavedStatus), env : 0..MaxEnv, intrap : BOOLEAN]
  <2>1. curenv' \in 0..MaxEnv /\ subenv' \in 0..MaxEnv
    <3>1. MaxEnv \in Nat
      BY BoundAssumption
    <3> QED
      BY <1>33, <3>1 DEF EnterSubshell, TypeOK
  <2>2. outer \in Scope /\ saved \in Seq(Scope)
    BY DEF TypeOK
  <2>3. /\ saved' \in Seq(Scope) /\ Len(saved') = Len(saved) + 1
        /\ \A k \in 1..(Len(saved) + 1) :
             saved'[k] = IF k = 1 THEN outer ELSE saved[k - 1]
    BY <1>33, <2>2, ConsProperties DEF EnterSubshell
  <2>4. \A k \in DOMAIN saved' : Len(saved'[k].list) <= ChildMax + 1
    <3>1. DOMAIN saved = 1..Len(saved) /\ DOMAIN saved' = 1..Len(saved')
          /\ Len(saved) \in Nat
      BY <2>2, <2>3, LenProperties
    <3>2. ASSUME NEW k \in 1..(Len(saved) + 1)
          PROVE  Len(saved'[k].list) <= ChildMax + 1
      <4>1. CASE k = 1
        BY <2>3, <4>1 DEF TypeOK
      <4>2. CASE k # 1
        <5>1. k - 1 \in DOMAIN saved /\ saved'[k] = saved[k - 1]
          BY <2>3, <3>1, <4>2
        <5> QED
          BY <5>1 DEF TypeOK
      <4> QED
        BY <4>1, <4>2
    <3> QED
      BY <2>3, <3>1, <3>2
  <2>5. bck' \in Seq(SavedStatus) /\ Len(bck') <= ChildMax + 1
    BY <1>33, BoundAssumption DEF EnterSubshell
  <2> QED
    BY SMTT(150), FalseType, <1>33, <2>1, <2>3, <2>4, <2>5 DEF EnterSubshell, At,
       outside, table, flags, critical, call, command, history, TypeOK, Making, Posting
<1>34. CASE LeaveSubshell
  <2> DEFINE Scope == [list : Seq(SavedStatus), env : 0..MaxEnv, intrap : BOOLEAN]
  <2>1. saved \in Seq(Scope) /\ saved # <<>>
    BY <1>34 DEF LeaveSubshell, TypeOK
  <2>2. /\ Len(saved) \in Nat /\ 1 \in DOMAIN saved
        /\ DOMAIN saved = 1..Len(saved)
    BY <2>1, LenProperties, EmptySeq
  <2>3. /\ bck' \in Seq(SavedStatus) /\ Len(bck') <= ChildMax + 1
        /\ curenv' \in 0..MaxEnv
    <3>1. saved[1] \in Scope
      BY <2>1, <2>2, ElementOfSeq
    <3> QED
      BY <1>34, <2>2, <3>1 DEF LeaveSubshell, TypeOK
  <2>4. /\ saved' \in Seq(Scope)
        /\ \A k \in DOMAIN saved' : Len(saved'[k].list) <= ChildMax + 1
    <3>1. /\ Tail(saved) \in Seq(Scope) /\ Len(Tail(saved)) = Len(saved) - 1
          /\ \A k \in 1..Len(Tail(saved)) : Tail(saved)[k] = saved[k + 1]
      BY <2>1, HeadTailProperties, Zenon
    <3>2. DOMAIN Tail(saved) = 1..Len(Tail(saved))
      BY <3>1, LenProperties
    <3>3. saved' = Tail(saved)
      BY <1>34 DEF LeaveSubshell
    <3>4. ASSUME NEW k \in DOMAIN Tail(saved)
          PROVE  Len(Tail(saved)[k].list) <= ChildMax + 1
      <4>1. k + 1 \in DOMAIN saved /\ Tail(saved)[k] = saved[k + 1]
        BY <2>2, <3>1, <3>2
      <4> QED
        BY <4>1 DEF TypeOK
    <3> QED
      BY <3>1, <3>3, <3>4
  <2> QED
    BY SMTT(150), FalseType, <1>34, <2>3, <2>4 DEF LeaveSubshell, At, outside, table, flags, critical,
       call, command, history, TypeOK, Posting
<1>35. CASE UNCHANGED vars
  BY <1>35 DEF vars, main, outside, jobs, table, flags, critical, shell, scopes,
     call, command, history, TypeOK, Posting
<1> QED
  BY <1>1, <1>2, <1>3, <1>4, <1>5, <1>6, <1>7, <1>8, <1>9, <1>10, <1>11, <1>12,
     <1>13, <1>14, <1>15, <1>16, <1>17, <1>18, <1>19, <1>20, <1>21, <1>22,
     <1>24, <1>25, <1>26, <1>27, <1>28, <1>29, <1>30, <1>31, <1>32, <1>33,
     <1>34, <1>35, <1>36, <1>37, <1>38
  DEF Next, ChildStep, HandlerStep, Command, ForkStep, WaitStep, ReapStep

\* Type correctness: in particular no list of saved statuses ever holds more
\* than child_max + 1 of them, and every p_exit fits its 16 bits.
THEOREM TypeCorrect == Spec => []TypeOK
<1>1. Spec => []TypeInv
  BY TypeInit, TypeStep, PTL DEF Spec
<1>2. TypeInv => TypeOK
  BY DEF TypeInv
<1> QED
  BY <1>1, <1>2, PTL

-----------------------------------------------------------------------------
(***************************************************************************)
(* No zombie is left stranded.  The critical region is over when the main  *)
(* program asks whether a signal was held off in it, and the word the      *)
(* handler leaves is not lost until job_waitsafe has been called.  The     *)
(* early return of job_wait for a process of another environment, which    *)
(* leaves the region on, needs a virtual subshell.                         *)
(***************************************************************************)
Region ==
    /\ pc = "flush" => ~inCritical
    /\ pc \in {"idle", "exitset", "done"} => ~inCritical /\ ~savesig
    /\ pc = "reap" /\ reap.ret # "check" => ~inCritical /\ ~savesig

Noted ==
    (\E c \in Child : proc[c] = "zombie") =>
      sigchld \/ hand \/ savesig \/ pc = "reap"

\* A return to the main program when there is nothing to collect.
LEMMA RegionReturn ==
    ASSUME TypeOK, Region, pc \in {"reap", "flush"}, Return,
           pc = "flush" => ~savesig, UNCHANGED inCritical,
           savesig' = savesig \/ reap.ret = "check"
    PROVE  Region'
  BY DEF Region, Return, TypeOK, NoReap

\* Every step keeps the word of a signal.
LEMMA RegionStep ==
    ASSUME MaxEnv = 0, TypeOK, Region, Noted, [Next]_vars
    PROVE  Region' /\ Noted'
<1>1. /\ env \in [Child -> 0..0] /\ curenv \in 0..0 /\ pwlist \in Seq(Child)
      /\ proc \in [Child ->
            {"unborn", "running", "stopped", "zombie", "reaped"}]
      /\ reap \in ReapCall /\ inCritical \in BOOLEAN /\ savesig \in BOOLEAN
      /\ hand \in BOOLEAN
  BY DEF TypeOK, ReapCall
<1>2. ASSUME UNCHANGED <<proc, sigchld, hand, savesig>>, pc # "reap" PROVE Noted'
  BY <1>2 DEF Noted
<1>3. ASSUME NothingFor(FALSE) \/ NothingFor(TRUE), proc' = proc PROVE Noted'
  BY <1>3 DEF NothingFor, Reportable, Noted
<1>4. ASSUME UNCHANGED <<pc, reap, inCritical, savesig>> PROVE Region'
  BY <1>4 DEF Region
<1>5. CASE ChildStep
  BY <1>4, <1>5 DEF ChildStep, ChildEnd, ChildStop, ChildContinue, Changes,
     main, flags, critical, call, Noted
<1>6. CASE Handler
  <2>1. Noted'
    BY <1>1, <1>6 DEF Handler, Noted
  <2>2. CASE inCritical /\ Interrupted
    <3>1. pc = "reap" /\ Return /\ inCritical' = inCritical
          /\ reap.ret = "check"
      BY <1>6, <2>2 DEF Handler, Interrupted, Region
    <3> QED
      BY <2>1, <3>1, RegionReturn
  <2>3. CASE UNCHANGED <<pc, call>>
    BY <1>6, <2>1, <2>3 DEF Handler, call, Region
  <2> QED
    BY <1>6, <2>2, <2>3 DEF Handler
<1>7. ASSUME NEW c \in Child, HandlerReap(c) PROVE Region' /\ Noted'
  BY <1>4, <1>7 DEF HandlerReap, critical, call, Noted
<1>8. CASE HandlerReturn
  <2>1. Noted'
    BY <1>3, <1>8 DEF HandlerReturn
  <2>2. CASE Interrupted
    BY <1>8, <2>1, <2>2, RegionReturn DEF HandlerReturn, Interrupted, critical
  <2>3. CASE UNCHANGED <<pc, call>>
    BY <1>4, <1>8, <2>1, <2>3 DEF HandlerReturn, critical, call
  <2> QED
    BY <1>8, <2>2, <2>3 DEF HandlerReturn
<1>9. ASSUME NEW c \in Child, MainReap(c) PROVE Region' /\ Noted'
  BY <1>1, <1>9 DEF MainReap, At, critical, Region, Noted, ReapCall
<1>10. CASE MainReapDone
  <2>1. Noted'
    <3>1. reap.cont \in BOOLEAN
      BY <1>1 DEF ReapCall
    <3> QED
      BY <1>3, <1>10, <3>1 DEF MainReapDone, outside
  <2> QED
    BY <1>10, <2>1, RegionReturn DEF MainReapDone, At, critical
<1>11. CASE Flush
  <2>1. CASE savesig /\ pc' = "reap" /\ UNCHANGED call
    BY <1>11, <2>1 DEF Flush, At, call, Region, Noted
  <2>2. CASE ~savesig /\ Return
    <3>1. Noted'
      BY <1>11, <2>2 DEF Flush, At, outside, Noted
    <3>2. savesig' = savesig
      BY <1>1, <1>11, <2>2 DEF Flush
    <3> QED
      BY <1>11, <2>2, <3>1, <3>2, RegionReturn DEF Flush, At
  <2> QED
    BY <1>11, <2>1, <2>2 DEF Flush
<1>12. CASE Signal
  <2>1. CASE Interrupted
    BY <1>3, <1>12, <2>1, RegionReturn DEF Signal, Interrupted, critical
  <2>2. CASE UNCHANGED <<pc, call>>
    BY <1>4, <1>12, <2>2 DEF Signal, critical, call, Noted
  <2> QED
    BY <1>12, <2>1, <2>2 DEF Signal
<1>13. CASE Command
  <2>1. /\ pc = "idle" /\ UNCHANGED <<proc, sigchld, hand, savesig>>
        /\ \/ inCritical' = inCritical /\ pc' \in {"idle", "wait", "exitset"}
           \/ pc' = "fork"
    BY <1>13 DEF Command, StartFork, StartWait, StartUnpost, RunTraps, EndTrap,
       EnterSubshell, LeaveSubshell, At, outside, flags, critical
  <2> QED
    BY <1>2, <2>1 DEF Region
<1>14. CASE ForkStep
  <2>1. /\ pc \in {"fork"} \cup Making /\ savesig' = savesig
        /\ hand' = hand /\ sigchld' = sigchld
        /\ pc' \in Making \cup {"top"} \/ (pc' = "flush" /\ ~inCritical')
    BY <1>14 DEF ForkStep, Fork, ForkFails, PostUnpost, PostLink, PostFlag,
       PostExit, PostSaved, Making, At, outside, flags, critical
  <2>2. (\E c \in Child : proc'[c] = "zombie") => \E c \in Child : proc[c] = "zombie"
    BY <1>1, <1>14 DEF ForkStep, Fork, ForkFails, PostUnpost, PostLink, PostFlag,
       PostExit, PostSaved, outside
  <2> QED
    BY <2>1, <2>2 DEF Region, Noted, Making
<1>15. CASE WaitStep
  <2>1. ~WaitForeign
    <3>1. \A i \in DOMAIN pwlist : env[pwlist[i]] = curenv
      BY <1>1, LenProperties, ElementOfSeq
    <3> QED
      BY <3>1 DEF WaitForeign
  <2>2. CASE Enter
    BY <2>2 DEF Enter, At, outside, Region, Noted
  <2>3. CASE WaitAny \/ WaitSaved \/ WaitFor \/ TopPending \/ TopDone \/ Unlock
             \/ Clear \/ Check \/ ExitSet \/ UnpostNext \/ UnpostEnd
    <3>1. /\ UNCHANGED <<proc, sigchld, hand, savesig>>
          /\ \/ pc \in {"wait", "top", "unlock", "clear", "check"}
                /\ pc' \in {"top", "unlock", "clear", "enter"}
             \/ pc \in {"wait", "top", "check"} /\ pc' = "flush" /\ ~inCritical'
             \/ pc \in {"exitset", "done"} /\ pc' \in {"done", "idle"}
                /\ inCritical' = inCritical
      BY <2>3 DEF WaitAny, WaitSaved, WaitFor, TopPending, TopDone, Unlock,
         Clear, Check, ExitSet, UnpostNext, UnpostEnd, At, outside, flags,
         critical
    <3> QED
      BY <1>2, <3>1 DEF Region
  <2> QED
    BY <1>15, <2>1, <2>2, <2>3 DEF WaitStep
<1>16. CASE UNCHANGED vars
  BY <1>4, <1>16 DEF vars, main, outside, flags, critical, call, Noted
<1> QED
  BY <1>5, <1>6, <1>7, <1>8, <1>9, <1>10, <1>11, <1>12, <1>13, <1>14, <1>15,
     <1>16 DEF Next, HandlerStep, ReapStep

\* A SIGCHLD that arrives in the critical region is not forgotten: between two
\* commands of a shell without virtual subshells no ended process is left
\* uncollected with no signal pending and no handler running, however the
\* handler cuts into fork, job_post and job_wait.
THEOREM ZombieCorrect == ASSUME MaxEnv = 0 PROVE Spec => []NoStrandedZombie
<1>1. Init => Region /\ Noted
  BY DEF Init, Region, Noted
<1>2. Spec => []TypeOK
  BY TypeCorrect
<1>3. TypeOK /\ Region /\ Noted /\ [Next]_vars => Region' /\ Noted'
  BY RegionStep
<1>4. Region /\ Noted => NoStrandedZombie
  BY DEF Region, Noted, NoStrandedZombie
<1> QED
  BY <1>1, <1>2, <1>3, <1>4, PTL DEF Spec
=============================================================================
