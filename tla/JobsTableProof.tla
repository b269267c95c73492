--------------------------- MODULE JobsTableProof ---------------------------
(***************************************************************************)
(* The job table agrees with the kernel (TableMatchesKernel): a theorem    *)
(* about Jobs.                                                             *)
(***************************************************************************)
EXTENDS JobsProof

-----------------------------------------------------------------------------
(***************************************************************************)
(* When fork does not fail, a process is posted in the same critical       *)
(* region in which it was forked: no handler ever meets a process it does  *)
(* not know, and job_bypid is never led to the entry of an older process   *)
(* with the same pid, however the kernel uses its pids again.  When fork   *)
(* may fail, a process may end before it is posted; its status then waits  *)
(* on the saved list for job_post, which knows it by its pid.  That is     *)
(* sound if no pid is used again and what waits there is an end, no stop.  *)
(***************************************************************************)
Orderly == MaxFails = 0 \/ (~Reuse /\ MaxStops = 0)
AtPost == pc \in {"post", "link"}
Linked == pc \in {"flag", "exit", "saved"}

\* Without a failing fork nobody looks at the table while a process is being
\* forked and posted.
Quiet == MaxFails = 0 /\ pc \in {"fork"} \cup Making => inCritical /\ ~hand
NoRetry == MaxFails = 0 => (w.arg = 1 => w.intr) /\ reap.ret # "fork"

\* Processes, their pids and what waitpid has to say about them.
Pids ==
    /\ \A c \in Child : pid[c] = 0 <=> proc[c] = "unborn"
    /\ \A c \in Child : news[c] # "none" => proc[c] \in {"running", "stopped"}
    /\ \A c, d \in Child : Alive(c) /\ Alive(d) /\ pid[c] = pid[d] => c = d
    /\ ~Reuse => \A c, d \in Child : pid[c] = pid[d] => c = d \/ pid[c] = 0
    /\ MaxStops = 0 => \A c \in Child : news[c] = "none" /\ proc[c] # "stopped"

\* The entries: one for each pid, and one for each process not yet reaped.
Entries ==
    /\ IsInjective(pwlist)
    /\ \A c \in Listed : proc[c] # "unborn"
    /\ \A c, d \in Listed : pid[c] = pid[d] => c = d
    /\ \A c \in Child : Alive(c) => c \in Listed \/ (c = px /\ AtPost)
    /\ \A c \in Listed : "DONE" \in flag[c] => proc[c] = "reaped"
    /\ \A c \in Listed \ erased :
         proc[c] = "reaped" => \/ "DONE" \in flag[c]
                               \/ c = px /\ Linked /\ lastpid # 0
    /\ MaxFails = 0 =>
         \A c \in Listed : "DONE" \in flag[c] => "NOTIFY" \notin flag[c]

\* The process being posted, and what its flags are until the handler notes
\* its end.
Posted ==
    /\ AtPost => px \notin Listed /\ proc[px] # "unborn"
    /\ pc = "link" => \A c \in Listed : pid[c] # pid[px]
    /\ Linked => px \in Listed
    /\ \A c \in Child :
         proc[c] = "unborn" \/ (c = px /\ AtPost) => flag[c] = {}
    /\ pc = "flag" /\ "DONE" \notin flag[px] => flag[px] = {}
    /\ pc \in {"exit", "saved"} =>
         /\ "EXITSAVE" \in flag[px]
         /\ "DONE" \notin flag[px] => flag[px] = {"EXITSAVE"}

\* It may have ended already: then its status is the newest one saved, unless
\* it had its entry by then.
Early ==
    /\ lastpid # 0 =>
         /\ pc \in Making /\ proc[px] = "reaped"
         /\ lastpid = pid[px] /\ 1 \in DOMAIN bck
         /\ bck[1] = [who |-> px, val |-> TrueValue(px)]
         /\ Linked => px \notin erased /\ "DONE" \notin flag[px]
    /\ AtPost /\ proc[px] = "reaped" => lastpid # 0
    /\ pc \in Making /\ proc[px] = "reaped" => MaxFails # 0
    /\ \A c \in erased :
         proc[c] = "reaped" /\ MaxFails # 0 /\ ~(c = px /\ AtPost)

TableInv ==
    /\ Orderly /\ TypeInv /\ Quiet /\ NoRetry
    /\ Pids /\ Entries /\ Posted /\ Early

\* What waitpid reports is a posted process, which its pid leads to, or the
\* one that is being posted, which its pid does not lead to yet.
LEMMA EntryOfChild ==
    ASSUME TableInv, NEW c \in Child, Alive(c),
           MaxFails = 0 => ~AtPost
    PROVE  \/ /\ c \in Listed /\ ~NoEntry(pid[c])
              /\ \A i \in DOMAIN pwlist : IsEntry(i, pid[c]) => pwlist[i] = c
           \/ c = px /\ AtPost /\ MaxFails # 0 /\ NoEntry(pid[c])
<1>1. \A i \in DOMAIN pwlist : pwlist[i] \in Listed
  BY DEF Listed, Range
<1>2. CASE c \in Listed
  <2>1. PICK i \in DOMAIN pwlist : pwlist[i] = c
    BY <1>2 DEF Listed, Range
  <2> QED
    BY <1>1, <1>2, <2>1 DEF TableInv, Entries, IsEntry, NoEntry
<1>3. CASE c \notin Listed
  <2>1. c = px /\ AtPost /\ MaxFails # 0
    BY <1>3 DEF TableInv, Entries
  <2>2. ~Reuse /\ pid[c] # 0
    BY <2>1 DEF TableInv, Orderly, Pids, Alive
  <2>3. Listed \subseteq Child
    BY RangeOfSeq DEF Listed, TableInv, TypeInv, TypeOK
  <2>4. \A d \in Listed : pid[d] # pid[c]
    BY <1>3, <2>2, <2>3 DEF TableInv, Pids
  <2> QED
    BY <1>1, <2>1, <2>4 DEF NoEntry
<1> QED
  BY <1>2, <1>3

\* A step that leaves processes, list and statuses alone, and takes no DONE
\* from the flags and adds nothing to them.
LEMMA TableFrame ==
    ASSUME TableInv, TypeInv', Quiet', NoRetry',
           UNCHANGED <<proc, news, pid, pwlist, lastpid, erased>>,
           UNCHANGED <<pc, px, bck, flag>> \/ (pc \notin Making /\ pc' \notin Making),
           \A c \in Child : /\ flag'[c] \subseteq flag[c]
                            /\ "DONE" \in flag[c] => "DONE" \in flag'[c]
    PROVE  TableInv'
<1>1. Orderly' /\ Pids'
  BY DEF TableInv, Orderly, Pids, Alive
<1>2. Listed' = Listed /\ Listed \subseteq Child
  BY RangeOfSeq DEF Listed, TableInv, TypeInv, TypeOK
<1>3. pc \notin Making => lastpid = 0
  BY DEF TableInv, Early
<1>4. Entries'
  BY <1>2, <1>3 DEF TableInv, Entries, Alive, AtPost, Linked, Making
<1>5. Posted'
  BY <1>2 DEF TableInv, Posted, AtPost, Linked, Making
<1>6. Early'
  BY <1>2, <1>3 DEF TableInv, Early, AtPost, Linked, Making, TrueValue
<1> QED
  BY <1>1, <1>4, <1>5, <1>6 DEF TableInv

\* An entry whose process is done leaves the list.
LEMMA TableRemove ==
    ASSUME TableInv, TypeInv', Quiet', NoRetry',
           UNCHANGED <<proc, news, pid, lastpid, erased>>,
           NEW i \in DOMAIN pwlist, "DONE" \in flag[pwlist[i]],
           pwlist' = RemoveAt(pwlist, i),
           \A c \in Child \ {pwlist[i]} :
              /\ flag'[c] \subseteq flag[c]
              /\ "DONE" \in flag[c] => "DONE" \in flag'[c],
           \/ /\ pc = "post" /\ pc' = "link" /\ px' = px
              /\ MaxFails = 0 /\ pid[pwlist[i]] = pid[px]
           \/ pc \notin Making /\ pc' \notin Making
    PROVE  TableInv'
<1>1. Orderly' /\ Pids'
  BY DEF TableInv, Orderly, Pids, Alive
<1>2. /\ Listed' = Listed \ {pwlist[i]} /\ IsInjective(pwlist')
      /\ Listed \subseteq Child /\ pwlist[i] \in Listed
  <2>1. pwlist \in Seq(Child) /\ IsInjective(pwlist)
    BY DEF TableInv, Entries, TypeInv, TypeOK
  <2>2. /\ Range(pwlist') = Range(pwlist) \ {pwlist[i]}
        /\ IsInjective(pwlist')
    BY <2>1, RemoveAtRange
  <2>3. Listed \subseteq Child
    BY <2>1, RangeOfSeq DEF Listed
  <2> QED
    BY <2>2, <2>3 DEF Listed, Range
<1>3. proc[pwlist[i]] = "reaped"
  BY <1>2 DEF TableInv, Entries
<1>4. pc \notin Making => lastpid = 0
  BY DEF TableInv, Early
<1>5. Entries'
  BY <1>2, <1>3, <1>4 DEF TableInv, Entries, Alive, AtPost, Linked, Making
<1>6. Posted'
  BY <1>2, <1>3 DEF TableInv, Entries, Posted, AtPost, Linked, Making
<1>7. Early'
  BY <1>2, <1>4 DEF TableInv, Early, AtPost, Linked, Making
<1> QED
  BY <1>1, <1>5, <1>6, <1>7 DEF TableInv

\* One turn of job_waitsafe's loop, for a process that is posted.
LEMMA TableReapListed ==
    ASSUME TableInv, TypeInv', Quiet', NoRetry', pid' = pid,
           NEW c \in Child, NEW cont \in BOOLEAN, Reap(c, cont), Alive(c),
           UNCHANGED <<pc, px, bck, lastpid, erased>>, c \in Listed,
           MaxFails = 0 => pc \notin Making,
           NEW i \in DOMAIN pwlist, pwlist[i] = c,
           NoteEnd(c, i) \/ NoteStop(c, i) \/ NoteContinue(c, i), Pids'
    PROVE  TableInv'
<1>1. /\ proc' = IF proc[c] = "zombie" THEN [proc EXCEPT ![c] = "reaped"] ELSE proc
      /\ proc \in [Child -> {"unborn", "running", "stopped", "zombie", "reaped"}]
      /\ proc[c] = "zombie" => news[c] = "none"
  BY DEF Reap, TableInv, TypeInv, TypeOK, Pids
<1>2. /\ Listed' = Listed /\ IsInjective(pwlist') /\ Listed \subseteq Child
  <2>1. /\ IsInjective(pwlist) /\ pwlist \in Seq(Child)
        /\ Listed \subseteq Child
    <3>1. IsInjective(pwlist) /\ pwlist \in Seq(Child)
      BY DEF TableInv, TypeInv, TypeOK, Entries
    <3>2. Listed \subseteq Child
      BY <3>1, RangeOfSeq DEF Listed
    <3> QED
      BY <3>1, <3>2
  <2>2. pwlist' = pwlist \/ pwlist' = <<pwlist[i]>> \o RemoveAt(pwlist, i)
    BY DEF NoteEnd, NoteStop, NoteContinue
  <2> QED
    BY <2>1, <2>2, MoveToFrontRange DEF Listed
<1>3. /\ \A d \in Child \ {c} : flag'[d] = flag[d] /\ proc'[d] = proc[d]
      /\ "DONE" \in flag'[c] <=> proc'[c] = "reaped"
      /\ "DONE" \in flag'[c] => "NOTIFY" \notin flag'[c]
  <2>1. "DONE" \notin flag[c] /\ flag \in [Child -> SUBSET Flag]
    BY DEF TableInv, Entries, Alive, TypeInv, TypeOK
  <2>2. CASE NoteEnd(c, i)
    BY <1>1, <2>1, <2>2 DEF NoteEnd, EndFlags
  <2>3. CASE NoteStop(c, i)
    BY <1>1, <2>1, <2>3 DEF NoteStop, Alive
  <2>4. CASE NoteContinue(c, i)
    BY <1>1, <2>1, <2>4 DEF NoteContinue, Alive
  <2> QED
    BY <2>2, <2>3, <2>4
<1>4. proc'[c] # "unborn" /\ \A d \in Child : Alive(d)' => Alive(d)
  BY ZenonT(60), <1>1 DEF Alive
<1>5. c \notin erased /\ (c = px => lastpid = 0)
  BY DEF TableInv, Early, Alive
<1>6. Entries'
  BY <1>2, <1>3, <1>4, <1>5 DEF TableInv, Entries, AtPost, Linked
<1>7. AtPost => px # c
  BY DEF TableInv, Posted
<1>8. ASSUME Linked, px = c
      PROVE  /\ "DONE" \in flag'[px]
             /\ "EXITSAVE" \in flag[px] => "EXITSAVE" \in flag'[px]
  <2>1. MaxStops = 0
    BY <1>8 DEF TableInv, Orderly, Linked, Making
  <2>2. news[c] = "none" /\ NoteEnd(c, i)
    BY <2>1 DEF TableInv, Pids, NoteStop, NoteContinue
  <2>3. flag'[c] = EndFlags(flag[c], Ending[c].sig)
    BY <2>2 DEF NoteEnd, TableInv, TypeInv, TypeOK
  <2> QED
    BY <1>8, <2>3 DEF EndFlags
<1>9. proc[c] # "unborn" /\ \A d \in Child : proc'[d] = "unborn" => proc[d] = "unborn"
  BY <1>3, <1>4 DEF Alive
<1>10. px \in Child \/ (~AtPost /\ ~Linked)
  BY DEF TableInv, TypeInv, Posting, Making, AtPost, Linked
<1>11. Posted'
  <2>1. \A d \in Child :
          proc'[d] = "unborn" \/ (d = px /\ AtPost) => flag'[d] = {}
    BY <1>3, <1>7, <1>9 DEF TableInv, Posted
  <2>2. Linked /\ px # c => flag'[px] = flag[px]
    BY <1>3, <1>10
  <2>3. AtPost => proc'[px] = proc[px]
    BY <1>3, <1>7, <1>10
  <2> QED
    BY <1>2, <1>8, <2>1, <2>2, <2>3 DEF TableInv, Posted, AtPost, Linked
<1>12. Early'
  <2>1. lastpid # 0 => px # c /\ proc'[px] = proc[px] /\ flag'[px] = flag[px]
    BY <1>3, <1>5, <1>10 DEF TableInv, Early, Making, AtPost, Linked
  <2>2. AtPost => proc'[px] = proc[px]
    BY <1>3, <1>7, <1>10
  <2>3. \A d \in erased : d \in Child => proc'[d] = proc[d]
    BY <1>3, <1>5
  <2>4. erased \subseteq Child
    BY DEF TableInv, TypeInv, TypeOK
  <2> QED
    BY <2>1, <2>2, <2>3, <2>4 DEF TableInv, Early, AtPost, Linked, TrueValue
<1> QED
  BY <1>6, <1>11, <1>12 DEF TableInv, Orderly

\* One turn of that loop, for the process that is being posted.
LEMMA TableReapUnknown ==
    ASSUME TableInv, TypeInv', Quiet', NoRetry', pid' = pid,
           NEW cont \in BOOLEAN, Reap(px, cont), Alive(px),
           UNCHANGED <<pc, px, erased>>, AtPost, MaxFails # 0, NoteUnknown(px), Pids'
    PROVE  TableInv'
<1>1. px \in Child /\ proc[px] = "zombie"
  BY DEF Reap, Reportable, TableInv, Orderly, Pids, TypeInv, Posting, AtPost, Making
<1>2. bck' = Push(bck, px, TrueValue(px)) /\ lastpid' = pid[px]
      /\ UNCHANGED <<pwlist, flag>>
  BY <1>1 DEF NoteUnknown
<1>3. 1 \in DOMAIN bck' /\ bck'[1] = [who |-> px, val |-> TrueValue(px)]
  <2>1. PICK n \in Nat : Pushed(bck', bck, px, TrueValue(px), n)
    <3>1. bck \in Seq(SavedStatus) /\ TrueValue(px) \in Status
      BY <1>1, ValueType DEF TableInv, TypeInv, TypeOK
    <3> QED
      BY <1>1, <1>2, <3>1, PushElements
  <2> QED
    BY <2>1 DEF Pushed
<1>4. proc' = [proc EXCEPT ![px] = "reaped"] /\ Listed' = Listed
      /\ proc \in [Child -> {"unborn", "running", "stopped", "zombie", "reaped"}]
      /\ Listed \subseteq Child
  BY <1>1, <1>2, RangeOfSeq DEF Reap, Listed, TableInv, TypeInv, TypeOK
<1>5. px \notin Listed
  BY DEF TableInv, Posted
<1>6. Entries'
  BY <1>1, <1>2, <1>4, <1>5 DEF TableInv, Entries, Alive, AtPost, Linked
<1>7. Posted'
  BY <1>1, <1>2, <1>4 DEF TableInv, Posted, AtPost, Linked
<1>8. Early'
  <2>1. \A c \in erased : proc'[c] = "reaped"
    BY <1>1, <1>4 DEF TableInv, Early, TypeInv, TypeOK
  <2>2. pid[px] # 0 /\ px \notin erased
    BY <1>1 DEF TableInv, Pids, Early
  <2> QED
    BY <1>1, <1>2, <1>3, <1>4, <2>1, <2>2 DEF TableInv, Early, AtPost, Linked, Making, TrueValue
<1> QED
  BY <1>6, <1>7, <1>8 DEF TableInv, Orderly

\* One turn of job_waitsafe's loop.
LEMMA TableReap ==
    ASSUME TableInv, TypeInv', Quiet', NoRetry', pid' = pid,
           NEW c \in Child, NEW cont \in BOOLEAN, Reap(c, cont),
           MaxFails = 0 => pc \notin Making, UNCHANGED <<pc, px, erased>>
    PROVE  TableInv'
<1>1. Alive(c)
  BY DEF Reap, Reportable, TableInv, Pids, Alive
<1>2. Pids'
  <2>1. /\ proc \in [Child ->
              {"unborn", "running", "stopped", "zombie", "reaped"}]
        /\ news \in [Child -> {"none", "stop", "cont"}]
    BY DEF TableInv, TypeInv, TypeOK
  <2>2. /\ proc' = IF proc[c] = "zombie" THEN [proc EXCEPT ![c] = "reaped"]
                                         ELSE proc
        /\ news' = [news EXCEPT ![c] = "none"]
        /\ proc[c] = "zombie" => news[c] = "none"
    BY DEF Reap, TableInv, Pids
  <2>3. \A d \in Child :
          /\ proc'[d] = "unborn" <=> proc[d] = "unborn"
          /\ Alive(d)' => Alive(d)
          /\ news'[d] # "none" => proc'[d] = proc[d] /\ news[d] # "none"
          /\ proc'[d] = "stopped" => proc[d] = "stopped"
    <3>1. CASE proc[c] = "zombie"
      BY <1>1, <2>1, <2>2, <3>1 DEF Alive
    <3>2. CASE proc[c] # "zombie"
      BY <2>1, <2>2, <3>2 DEF Alive
    <3> QED
      BY <3>1, <3>2
  <2> QED
    BY <2>1, <2>3 DEF TableInv, Pids
<1>3. CASE c \in Listed /\ ~NoEntry(pid[c])
           /\ \A i \in DOMAIN pwlist : IsEntry(i, pid[c]) => pwlist[i] = c
  <2>1. PICK i \in DOMAIN pwlist :
          /\ pwlist[i] = c
          /\ NoteEnd(c, i) \/ NoteStop(c, i) \/ NoteContinue(c, i)
          /\ UNCHANGED <<bck, lastpid>>
    BY <1>3 DEF Reap, NoteUnknown
  <2> QED
    BY <1>1, <1>2, <1>3, <2>1, TableReapListed
<1>4. CASE c = px /\ AtPost /\ MaxFails # 0 /\ NoEntry(pid[c])
  <2>1. NoteUnknown(px)
    BY <1>4 DEF Reap, IsEntry, NoEntry
  <2> QED
    BY <1>1, <1>2, <1>4, <2>1, TableReapUnknown
<1> QED
  BY <1>1, <1>3, <1>4, EntryOfChild DEF AtPost, Making

\* The empty table agrees with a kernel that knows no child.
LEMMA TableInit == Orderly /\ Init => TableInv
<1> SUFFICES ASSUME Orderly, Init PROVE TableInv
  OBVIOUS
<1>1. Quiet /\ NoRetry /\ Posted /\ Early
  BY DEF Init, Quiet, NoRetry, Posted, Early, AtPost, Linked, Making, NoWait, NoReap
<1>2. Listed = {} /\ IsInjective(pwlist)
  BY DEF Init, Listed, Range, IsInjective
<1>3. Pids /\ Entries
  BY <1>2 DEF Init, Pids, Entries, Alive
<1> QED
  BY <1>1, <1>3, TypeInit DEF TableInv

\* A child ends, stops or continues.
LEMMA TableChild ==
    ASSUME TableInv, TypeInv', NEW c \in Child, proc[c] \in {"running", "stopped"},
           NEW life, NEW what, Changes(c, life, what),
           \/ life = "zombie" /\ what = "none"
           \/ life \in {"running", "stopped"} /\ MaxStops # 0
    PROVE  TableInv'
<1>1. /\ proc \in [Child ->
            {"unborn", "running", "stopped", "zombie", "reaped"}]
      /\ news \in [Child -> {"none", "stop", "cont"}]
      /\ Listed \subseteq Child
  BY RangeOfSeq DEF TableInv, TypeInv, TypeOK, Listed
<1>2. \A d \in Child :
        /\ proc'[d] = "unborn" <=> proc[d] = "unborn"
        /\ proc'[d] = "reaped" <=> proc[d] = "reaped"
        /\ Alive(d)' <=> Alive(d)
        /\ \/ MaxStops # 0 /\ proc'[d] \in {"running", "stopped"}
           \/ news'[d] = "none" /\ proc'[d] = "zombie"
           \/ news'[d] = news[d] /\ proc'[d] = proc[d]
  BY <1>1 DEF Changes, Alive
<1>3. /\ UNCHANGED <<pid, pwlist, flag, bck, lastpid, pc, px, w, reap, inCritical>>
      /\ hand' = hand /\ Listed' = Listed /\ erased' = erased
  BY DEF Changes, main, jobs, table, flags, critical, call, command, history, Listed
<1>4. Quiet' /\ NoRetry' /\ Orderly'
  BY <1>3 DEF TableInv, Quiet, NoRetry, Orderly
<1>5. Pids'
  BY <1>2, <1>3 DEF TableInv, Pids
<1>6. Entries'
  BY <1>1, <1>2, <1>3 DEF TableInv, Entries, AtPost, Linked
<1>7. pc \in Making => px \in Child
  BY DEF TableInv, TypeInv, Posting
<1>8. Posted'
  BY <1>1, <1>2, <1>3, <1>7 DEF TableInv, Posted, AtPost, Linked, Making
<1>9. Early'
  <2>1. erased \subseteq Child
    BY DEF TableInv, TypeInv, TypeOK
  <2> QED
    BY <1>1, <1>2, <1>3, <1>7, <2>1
    DEF TableInv, Early, AtPost, Linked, Making, TrueValue
<1> QED
  BY <1>4, <1>5, <1>6, <1>8, <1>9 DEF TableInv

\* sh_fork and job_post keep the invariant.
LEMMA TableFork ==
    ASSUME TableInv, TypeInv', NEW c \in Child, NEW p \in Pid, Fork(c, p)
    PROVE  TableInv'
<1>1. /\ proc \in [Child ->
            {"unborn", "running", "stopped", "zombie", "reaped"}]
      /\ pid \in [Child -> Pid \cup {0}]
      /\ Listed \subseteq Child /\ p # 0
  BY RangeOfSeq, PidAssumption DEF TableInv, TypeInv, TypeOK, Listed
<1>2. /\ pc = "fork" /\ pc' = "post" /\ px' = c /\ proc[c] = "unborn"
      /\ \A d \in Child : pid[d] = p => Reuse /\ ~Alive(d)
      /\ proc' = [proc EXCEPT ![c] = "running"]
      /\ pid' = [pid EXCEPT ![c] = p]
      /\ UNCHANGED <<news, hand, pwlist, flag, lastpid, w, reap, inCritical, erased>>
      /\ Listed' = Listed
  BY DEF Fork, Forkable, At, jobs, table, flags, critical, call, history, Listed
<1>3. Quiet' /\ NoRetry' /\ Orderly'
  BY <1>2 DEF TableInv, Quiet, NoRetry, Orderly, Making
<1>4. \A d \in Child : /\ Alive(d)' <=> Alive(d) \/ d = c
                       /\ d # c => pid'[d] = pid[d] /\ proc'[d] = proc[d]
  BY <1>1, <1>2 DEF Alive
<1>5. pid'[c] = p /\ proc'[c] = "running" /\ ~Alive(c)
  BY <1>1, <1>2 DEF Alive
<1>6. Pids'
  <2>1. \A d \in Child : pid'[d] = 0 <=> proc'[d] = "unborn"
    BY <1>1, <1>4, <1>5 DEF TableInv, Pids
  <2>2. \A d \in Child : news'[d] # "none" => proc'[d] \in {"running", "stopped"}
    BY <1>2, <1>4, <1>5 DEF TableInv, Pids
  <2>3. \A d, e \in Child : Alive(d)' /\ Alive(e)' /\ pid'[d] = pid'[e] => d = e
    BY <1>2, <1>4, <1>5 DEF TableInv, Pids
  <2>4. ~Reuse => \A d, e \in Child : pid'[d] = pid'[e] => d = e \/ pid'[d] = 0
    BY <1>2, <1>4, <1>5 DEF TableInv, Pids
  <2>5. MaxStops = 0 => \A d \in Child : news'[d] = "none" /\ proc'[d] # "stopped"
    BY <1>2, <1>4, <1>5 DEF TableInv, Pids
  <2> QED
    BY <2>1, <2>2, <2>3, <2>4, <2>5 DEF Pids
<1>7. c \notin Listed
  BY <1>2 DEF TableInv, Entries
<1>8. Entries'
  BY <1>1, <1>2, <1>4, <1>5, <1>7 DEF TableInv, Entries, AtPost, Linked
<1>9. Posted'
  BY <1>2, <1>4, <1>5, <1>7 DEF TableInv, Posted, AtPost, Linked
<1>10. Early'
  <2>1. lastpid = 0
    BY <1>2 DEF TableInv, Early, Making
  <2>2. erased \subseteq Child /\ c \notin erased
    BY <1>2 DEF TableInv, Early, TypeInv, TypeOK
  <2> QED
    BY <1>2, <1>4, <1>5, <2>1, <2>2 DEF TableInv, Early, AtPost, Making
<1> QED
  BY <1>3, <1>6, <1>8, <1>9, <1>10 DEF TableInv

\* job_post, first step: no entry with the pid of the new process is left.
LEMMA TablePostUnpost == ASSUME TableInv, TypeInv', PostUnpost PROVE TableInv'
<1>1. /\ pc = "post" /\ pc' = "link" /\ px' = px
      /\ UNCHANGED <<proc, news, pid, hand, lastpid, w, reap, inCritical, erased>>
  BY DEF PostUnpost, At, outside, flags, critical, call, command
<1>2. Quiet' /\ NoRetry' /\ Orderly' /\ AtPost /\ AtPost'
  BY <1>1 DEF TableInv, Quiet, NoRetry, Orderly, AtPost, Making
<1>3. px \in Child /\ proc[px] # "unborn" /\ px \notin Listed
  BY <1>1, <1>2 DEF TableInv, Posted, TypeInv, Posting, Making
<1>4. ASSUME NEW i \in DOMAIN pwlist, IsEntry(i, pid[px]), Unpost(i)
      PROVE  TableInv'
  <2>1. pwlist \in Seq(Child) /\ flag \in [Child -> SUBSET Flag]
    BY DEF TableInv, TypeInv, TypeOK
  <2>2. pwlist[i] \in Listed /\ pwlist[i] \in Child /\ pid[pwlist[i]] = pid[px]
    BY <1>4, <2>1, LenProperties, ElementOfSeq DEF Listed, Range, IsEntry
  <2>3. MaxFails = 0
    <3>1. Reuse
      BY <1>3, <2>2 DEF TableInv, Pids
    <3> QED
      BY <3>1 DEF TableInv, Orderly
  <2>4. proc[pwlist[i]] = "reaped"
    <3>1. proc[px] # "reaped"
      BY <1>1, <2>3 DEF TableInv, Early, Making
    <3>2. Alive(px)
      BY <1>3, <3>1 DEF Alive, TableInv, TypeInv, TypeOK
    <3>3. pwlist[i] # px /\ proc[pwlist[i]] # "unborn" /\ ~Alive(pwlist[i])
      BY <1>3, <2>2, <3>2 DEF TableInv, Pids, Entries
    <3>4. proc[pwlist[i]] \in
             {"unborn", "running", "stopped", "zombie", "reaped"}
      BY <2>2 DEF TableInv, TypeInv, TypeOK
    <3> QED
      BY <3>3, <3>4 DEF Alive
  <2>5. "DONE" \in flag[pwlist[i]] /\ Unpostable(pwlist[i])
    <3>1. pwlist[i] \notin erased /\ pwlist[i] # px
      BY <1>3, <2>2, <2>3 DEF TableInv, Early
    <3> QED
      BY <2>2, <2>3, <2>4, <3>1 DEF TableInv, Entries, Unpostable
  <2>6. /\ pwlist' = RemoveAt(pwlist, i)
        /\ \A d \in Child \ {pwlist[i]} : flag'[d] = flag[d]
    BY <1>4, <2>1, <2>5 DEF Unpost
  <2> QED
    BY <1>1, <1>2, <2>2, <2>3, <2>5, <2>6, TableRemove
<1>5. CASE NoEntry(pid[px]) /\ UNCHANGED <<pwlist, flag, bck, evicted>>
  <2>1. Listed' = Listed
    BY <1>5 DEF Listed
  <2>2. Pids'
    BY <1>1 DEF TableInv, Pids, Alive
  <2>3. Entries'
    BY <1>1, <1>2, <1>5, <2>1 DEF TableInv, Entries, Alive, AtPost, Linked
  <2>4. \A d \in Listed : pid[d] # pid[px]
    BY <1>5 DEF NoEntry, Listed, Range
  <2>5. Posted' /\ Early'
    BY <1>1, <1>2, <1>3, <1>5, <2>1, <2>4
    DEF TableInv, Posted, Early, AtPost, Linked, Making, TrueValue
  <2> QED
    BY <1>2, <2>2, <2>3, <2>5 DEF TableInv
<1> QED
  BY <1>4, <1>5 DEF PostUnpost

\* job_post, second step: the new process gets the only entry of its pid.
LEMMA TablePostLink == ASSUME TableInv, TypeInv', PostLink PROVE TableInv'
<1>1. /\ pc = "link" /\ pc' = "flag" /\ px' = px /\ pwlist' = <<px>> \o pwlist
      /\ UNCHANGED <<proc, news, pid, flag, bck, lastpid, erased, w, reap, hand,
                     inCritical>>
  BY DEF PostLink, At, outside, flags, critical, call, command, history
<1>2. px \in Child /\ proc[px] # "unborn" /\ px \notin Listed
  BY <1>1 DEF TableInv, Posted, AtPost, TypeInv, Posting, Making
<1>3. pwlist \in Seq(Child) /\ flag \in [Child -> SUBSET Flag]
  BY DEF TableInv, TypeInv, TypeOK
<1>4. Listed' = {px} \cup Listed /\ IsInjective(pwlist') /\ Listed \subseteq Child
  <2>1. IsInjective(pwlist)
    BY DEF TableInv, Entries
  <2>2. px \notin Range(pwlist)
    BY <1>2 DEF Listed
  <2>3. /\ Range(<<px>> \o pwlist) = {px} \cup Range(pwlist)
        /\ IsInjective(<<px>> \o pwlist)
    BY <1>2, <1>3, <2>1, <2>2, ConsRange
  <2>4. Listed \subseteq Child
    BY <1>3, RangeOfSeq DEF Listed
  <2> QED
    BY <1>1, <2>3, <2>4 DEF Listed
<1>5. Quiet' /\ NoRetry' /\ Orderly'
  BY <1>1 DEF TableInv, Quiet, NoRetry, Orderly, Making
<1>6. Pids'
  BY <1>1 DEF TableInv, Pids, Alive
<1>7. flag[px] = {} /\ (proc[px] = "reaped" => lastpid # 0)
  BY <1>1, <1>2 DEF TableInv, Posted, Early, AtPost
<1>8. Entries'
  <2>1. \A d \in Listed : pid[d] # pid[px]
    BY <1>1 DEF TableInv, Posted
  <2>2. \A d \in Child : Alive(d) => d \in Listed'
    BY <1>4 DEF TableInv, Entries
  <2>3. \A d \in Listed' : proc[d] # "unborn"
    BY <1>2, <1>4 DEF TableInv, Entries
  <2>4. \A c, d \in Listed' : pid[c] = pid[d] => c = d
    BY <1>4, <2>1 DEF TableInv, Entries
  <2>5. \A c \in Listed' :
          /\ "DONE" \in flag[c] => c \in Listed
          /\ proc[c] = "reaped" /\ c \notin erased =>
                "DONE" \in flag[c] \/ (c = px /\ lastpid # 0)
    BY <1>1, <1>4, <1>7 DEF TableInv, Entries, Linked
  <2> QED
    BY <1>1, <1>4, <2>2, <2>3, <2>4, <2>5 DEF TableInv, Entries, Alive, Linked
<1>9. Posted'
  BY <1>1, <1>2, <1>4, <1>7 DEF TableInv, Posted, AtPost, Linked
<1>10. Early'
  <2>1. px \notin erased
    BY <1>1 DEF TableInv, Early, AtPost
  <2> QED
    BY <1>1, <1>7, <2>1 DEF TableInv, Early, AtPost, Linked, Making, TrueValue
<1> QED
  BY <1>5, <1>6, <1>8, <1>9, <1>10 DEF TableInv

\* Third and fourth step: the flags and the exit value of the entry are set,
\* over a note the handler may have made.
LEMMA TablePostFlag ==
    ASSUME TableInv, TypeInv', PostFlag \/ PostExit
    PROVE  TableInv'
<1>1. /\ Linked /\ Linked' /\ pc \in {"flag", "exit"} /\ pc' \in {"exit", "saved"}
      /\ UNCHANGED <<proc, news, pid, pwlist, bck, lastpid, w, reap, hand,
                     inCritical, px>>
      /\ Listed' = Listed /\ erased' = Overwritten
  BY DEF PostFlag, PostExit, At, Linked, outside, flags, critical, call, command,
     Listed
<1>2. px \in Child /\ px \in Listed /\ proc[px] # "unborn"
  BY <1>1 DEF TableInv, Posted, Entries, TypeInv, Posting, Making, Linked
<1>3. /\ flag \in [Child -> SUBSET Flag]
      /\ flag' = IF pc = "flag" THEN [flag EXCEPT ![px] = {"EXITSAVE"}] ELSE flag
  BY DEF PostFlag, PostExit, At, TableInv, TypeInv, TypeOK
<1>4. /\ \A d \in Child \ {px} : flag'[d] = flag[d]
      /\ "EXITSAVE" \in flag'[px]
      /\ "DONE" \notin flag'[px] => flag'[px] = {"EXITSAVE"}
      /\ flag'[px] \subseteq {"EXITSAVE"} \cup flag[px]
  BY <1>1, <1>2, <1>3 DEF TableInv, Posted
<1>5. Quiet' /\ NoRetry' /\ Orderly' /\ Pids'
  BY <1>1 DEF TableInv, Quiet, NoRetry, Orderly, Making, Pids, Alive
<1>6. "DONE" \in flag[px] => proc[px] = "reaped" /\ MaxFails # 0 /\ lastpid = 0
  BY <1>1, <1>2 DEF TableInv, Entries, Early, Linked, Making
<1>7. ~AtPost /\ ~AtPost'
  BY <1>1 DEF AtPost
<1>8. /\ erased \subseteq erased' /\ erased' \subseteq erased \cup {px}
      /\ "DONE" \in flag[px] => px \in erased'
      /\ px \in erased' \ erased => "DONE" \in flag[px]
  BY <1>1 DEF Overwritten
<1>9. Listed \subseteq Child
  BY RangeOfSeq DEF Listed, TableInv, TypeInv, TypeOK
<1>10. Entries'
  <2>1. \A c \in Listed : "DONE" \in flag'[c] => "DONE" \in flag[c]
    BY <1>4, <1>9
  <2>2. \A c \in Listed : "NOTIFY" \in flag'[c] => "NOTIFY" \in flag[c]
    BY <1>4, <1>9
  <2>3. \A c \in Listed \ erased' :
          proc[c] = "reaped" => "DONE" \in flag'[c] \/ (c = px /\ lastpid # 0)
    <3>1. ASSUME NEW c \in Listed \ erased', proc[c] = "reaped",
                 ~(c = px /\ lastpid # 0)
          PROVE  "DONE" \in flag'[c]
      <4>1. "DONE" \in flag[c]
        BY <1>8, <3>1 DEF TableInv, Entries
      <4>2. c # px
        BY <1>8, <3>1, <4>1
      <4> QED
        BY <1>4, <1>9, <4>1, <4>2
    <3> QED
      BY <3>1
  <2> QED
    BY <1>1, <1>7, <2>1, <2>2, <2>3 DEF TableInv, Entries, Alive
<1>11. Posted'
  BY <1>1, <1>2, <1>4, <1>7 DEF TableInv, Posted, Linked
<1>12. Early'
  <2>1. lastpid # 0 => "DONE" \notin flag[px] /\ px \notin erased
    BY <1>1, <1>6 DEF TableInv, Early
  <2>2. \A c \in erased' : proc[c] = "reaped" /\ MaxFails # 0
    BY <1>6, <1>8 DEF TableInv, Early
  <2>3. lastpid # 0 => "DONE" \notin flag'[px] /\ px \notin erased'
    BY <1>4, <1>8, <2>1
  <2> QED
    BY <1>1, <1>7, <2>2, <2>3 DEF TableInv, Early, Linked, Making, TrueValue
<1> QED
  BY <1>5, <1>10, <1>11, <1>12 DEF TableInv

\* What job_post finds on the saved list: nothing of a process that is alive,
\* or has ended since it was linked; the status of one that ended before.
LEMMA ChkSaveOf ==
    ASSUME TableInv, pc = "saved", ChkSave(px)
    PROVE  \/ lastpid = 0 /\ UNCHANGED <<flag, pexit, bck>>
           \/ /\ proc[px] = "reaped" /\ MaxFails # 0 /\ lastpid # 0
              /\ 1 \in DOMAIN bck
              /\ bck[1] = [who |-> px, val |-> TrueValue(px)]
              /\ bck' = RemoveAt(bck, 1)
              /\ flag' = [flag EXCEPT ![px] = {"EXITSAVE", "DONE", "NOTIFY"}]
              /\ pexit' = [pexit EXCEPT ![px] = TrueValue(px)]
<1>1. px \in Child /\ proc[px] # "unborn" /\ pid[px] # 0
  BY DEF TableInv, Posted, Entries, Pids, TypeInv, Posting, Linked, Making
<1>2. CASE lastpid = 0
  BY <1>1, <1>2 DEF ChkSave
<1>3. CASE lastpid # 0
  <2>1. /\ lastpid = pid[px] /\ proc[px] = "reaped" /\ 1 \in DOMAIN bck
        /\ bck[1] = [who |-> px, val |-> TrueValue(px)]
        /\ MaxFails # 0 /\ "DONE" \notin flag[px]
    BY <1>3 DEF TableInv, Early, Linked, Making
  <2>2. ASSUME NEW i \in DOMAIN bck, IsSaved(bck, i, lastpid) PROVE i = 1
    <3>1. i \in Nat /\ i >= 1
      BY LenProperties DEF TableInv, TypeInv, TypeOK
    <3> QED
      BY <2>1, <2>2, <3>1 DEF IsSaved
  <2>3. ~NotSaved(bck, lastpid)
    BY <2>1 DEF NotSaved
  <2>4. TrueValue(px) # STOPSIG
    <3>1. Ending[px].n \in 0..255
      BY <1>1, EndingAssumption
    <3> QED
      BY <3>1 DEF TrueValue, Value, EXITSIG, STOPSIG
  <2>5. /\ flag' = [flag EXCEPT ![px] = NewFlags(@, bck[1].val)]
        /\ pexit' = [pexit EXCEPT ![px] =
                       IF bck[1].val = STOPSIG THEN 0 ELSE bck[1].val]
        /\ bck' = RemoveAt(bck, 1)
    BY <2>1, <2>2, <2>3 DEF ChkSave
  <2>6. bck[1].val = TrueValue(px) /\ flag[px] = {"EXITSAVE"}
    BY <2>1 DEF TableInv, Posted
  <2>7. NewFlags(flag[px], bck[1].val) = {"EXITSAVE", "DONE", "NOTIFY"}
    BY <2>4, <2>6 DEF NewFlags
  <2>8. flag' = [flag EXCEPT ![px] = {"EXITSAVE", "DONE", "NOTIFY"}]
    BY <1>1, <2>5, <2>7 DEF TableInv, TypeInv, TypeOK
  <2> QED
    BY <1>3, <2>1, <2>4, <2>5, <2>6, <2>8
<1> QED
  BY <1>2, <1>3

\* The last step of job_post.
LEMMA TablePostSaved == ASSUME TableInv, TypeInv', PostSaved PROVE TableInv'
<1>1. /\ pc = "saved" /\ Linked /\ pc' = "flush" /\ lastpid' = 0
      /\ UNCHANGED <<proc, news, pid, pwlist, erased>> /\ Listed' = Listed
  BY DEF PostSaved, At, Linked, outside, Listed
<1>2. px \in Child /\ px \in Listed /\ proc[px] # "unborn"
  BY <1>1 DEF TableInv, Posted, Entries, TypeInv, Posting, Making
<1>3. \/ lastpid = 0 /\ UNCHANGED flag
      \/ /\ proc[px] = "reaped" /\ MaxFails # 0
         /\ flag' = [flag EXCEPT ![px] = {"EXITSAVE", "DONE", "NOTIFY"}]
  BY <1>1, ChkSaveOf DEF PostSaved
<1>4. /\ \A d \in Child \ {px} : flag'[d] = flag[d]
      /\ \/ lastpid = 0 /\ flag' = flag
         \/ proc[px] = "reaped" /\ MaxFails # 0 /\ "DONE" \in flag'[px]
  BY <1>2, <1>3 DEF TableInv, TypeInv, TypeOK
<1>5. Listed \subseteq Child /\ pid[px] \in Pid \cup {0}
  BY <1>2, RangeOfSeq DEF Listed, TableInv, TypeInv, TypeOK
<1>6. Quiet' /\ NoRetry' /\ Orderly'
  <2>1. pid[px] # 1
    BY <1>5, PidAssumption
  <2> QED
    BY <1>1, <2>1
    DEF TableInv, Quiet, NoRetry, Orderly, PostSaved, NoWait, Poll, Making
<1>7. Pids'
  BY <1>1 DEF TableInv, Pids, Alive
<1>8. Entries'
  <2>1. \A c \in Listed : "DONE" \in flag'[c] => proc[c] = "reaped"
    BY <1>4, <1>5 DEF TableInv, Entries
  <2>2. \A c \in Listed \ erased : proc[c] = "reaped" => "DONE" \in flag'[c]
    BY <1>4, <1>5 DEF TableInv, Entries
  <2>3. MaxFails = 0 => flag' = flag
    BY <1>4
  <2> QED
    BY <1>1, <2>1, <2>2, <2>3 DEF TableInv, Entries, Alive, AtPost
<1>9. Posted'
  BY <1>1, <1>2, <1>4 DEF TableInv, Posted, AtPost, Linked
<1>10. Early'
  BY <1>1 DEF TableInv, Early, AtPost, Linked, Making
<1> QED
  BY <1>6, <1>7, <1>8, <1>9, <1>10 DEF TableInv

\* The return from job_waitsafe: never to a second try of fork().
LEMMA TableReturn ==
    ASSUME TableInv, Return
    PROVE  pc' \notin Making /\ (MaxFails = 0 => pc' # "fork") /\ NoRetry'
  BY DEF TableInv, TypeInv, TypeOK, Return, NoRetry, NoReap, NoWait, Making

\* A step that neither the processes nor the table take part in.
LEMMA TableSame ==
    ASSUME TableInv, TypeInv', Quiet', NoRetry',
           UNCHANGED <<proc, news, pid, pwlist, flag, lastpid, erased>>,
           UNCHANGED <<pc, px, bck>> \/ (pc \notin Making /\ pc' \notin Making)
    PROVE  TableInv'
  BY TableFrame

\* The steps of the handler, and of job_waitsafe called by the main program.
LEMMA TableHandler ==
    ASSUME TableInv, TypeInv', HandlerStep \/ ReapStep \/ Signal
    PROVE  TableInv'
<1>1. CASE Handler
  <2>1. /\ UNCHANGED <<proc, news, pid, pwlist, flag, bck, lastpid, erased, px, inCritical>>
        /\ hand' = ~inCritical
        /\ UNCHANGED <<pc, w, reap>> \/ (pc = "reap" /\ Return)
    BY <1>1 DEF Handler, Interrupted, jobs, table, history, command, call
  <2>2. Quiet' /\ NoRetry'
    BY <2>1, TableReturn DEF TableInv, Quiet, NoRetry, Making
  <2>3. UNCHANGED <<pc, px, bck>> \/ (pc \notin Making /\ pc' \notin Making)
    BY <2>1, TableReturn DEF Making
  <2> QED
    BY <2>1, <2>2, <2>3, TableSame
<1>2. ASSUME NEW c \in Child, HandlerReap(c) PROVE TableInv'
  <2>1. /\ hand /\ Reap(c, TRUE)
        /\ UNCHANGED <<pid, hand, inCritical, pc, px, w, reap, erased>>
    BY <1>2 DEF HandlerReap, critical, history, call, command
  <2>2. Quiet' /\ NoRetry'
    BY <2>1 DEF TableInv, Quiet, NoRetry, Making
  <2>3. MaxFails = 0 => pc \notin Making
    BY <2>1 DEF TableInv, Quiet, Making
  <2> QED
    BY <2>1, <2>2, <2>3, TableReap
<1>3. CASE HandlerReturn
  <2>1. /\ UNCHANGED <<proc, news, pid, pwlist, flag, bck, lastpid, erased, px>>
        /\ hand /\ ~hand'
        /\ UNCHANGED <<pc, w, reap>> \/ (pc = "reap" /\ Return)
    BY <1>3 DEF HandlerReturn, Interrupted, jobs, table, history, command, call
  <2>2. Quiet' /\ NoRetry'
    BY <2>1, TableReturn DEF TableInv, Quiet, NoRetry, Making
  <2>3. UNCHANGED <<pc, px, bck>> \/ (pc \notin Making /\ pc' \notin Making)
    BY <2>1, TableReturn DEF Making
  <2> QED
    BY <2>1, <2>2, <2>3, TableSame
<1>4. ASSUME NEW c \in Child, MainReap(c) PROVE TableInv'
  <2>1. /\ pc = "reap" /\ Reap(c, reap.cont) /\ reap.cont \in BOOLEAN
        /\ UNCHANGED <<pid, pc, px, w, erased>> /\ pc \notin Making
    BY <1>4 DEF MainReap, At, history, TableInv, TypeInv, TypeOK, command, Making
  <2>2. reap' = [reap EXCEPT !.block = FALSE] /\ reap \in ReapCall
    BY <1>4 DEF MainReap, TableInv, TypeInv, TypeOK, ReapCall
  <2>3. Quiet' /\ NoRetry'
    BY <2>1, <2>2 DEF TableInv, Quiet, NoRetry, ReapCall
  <2> QED
    BY <2>1, <2>3, TableReap
<1>5. CASE MainReapDone
  <2>1. /\ UNCHANGED <<proc, news, pid, pwlist, flag, lastpid, erased>>
        /\ pc = "reap" /\ Return
    BY <1>5 DEF MainReapDone, At, outside, jobs, table, history
  <2>2. Quiet' /\ NoRetry'
    BY <2>1, TableReturn DEF Quiet, Making
  <2>3. UNCHANGED <<pc, px, bck>> \/ (pc \notin Making /\ pc' \notin Making)
    BY <2>1, TableReturn DEF Making
  <2> QED
    BY <2>1, <2>2, <2>3, TableSame
<1>6. CASE Flush
  <2>1. /\ UNCHANGED <<proc, news, pid, pwlist, flag, lastpid, erased>>
        /\ pc = "flush"
        /\ (pc' = "reap" /\ UNCHANGED <<w, reap>>) \/ Return
    BY <1>6 DEF Flush, At, outside, jobs, table, history, call
  <2>2. Quiet' /\ NoRetry'
    BY <2>1, TableReturn DEF TableInv, Quiet, NoRetry, Making
  <2>3. UNCHANGED <<pc, px, bck>> \/ (pc \notin Making /\ pc' \notin Making)
    BY <2>1, TableReturn DEF Making
  <2> QED
    BY <2>1, <2>2, <2>3, TableSame
<1>7. CASE Signal
  <2>1. /\ UNCHANGED <<proc, news, pid, pwlist, flag, bck, lastpid, erased, px>>
        /\ UNCHANGED <<hand, inCritical>>
        /\ UNCHANGED <<pc, w, reap>> \/ (pc = "reap" /\ Return)
    BY <1>7 DEF Signal, Interrupted, jobs, table, history, command, call, critical, flags
  <2>2. Quiet' /\ NoRetry'
    BY <2>1, TableReturn DEF TableInv, Quiet, NoRetry, Making
  <2>3. UNCHANGED <<pc, px, bck>> \/ (pc \notin Making /\ pc' \notin Making)
    BY <2>1, TableReturn DEF Making
  <2> QED
    BY <2>1, <2>2, <2>3, TableSame
<1> QED
  BY <1>1, <1>2, <1>3, <1>4, <1>5, <1>6, <1>7 DEF HandlerStep, ReapStep

\* The start of a command, and the scopes of virtual subshells.
LEMMA TableCommand ==
    ASSUME TableInv, TypeInv', Command
    PROVE  TableInv'
<1>1. ASSUME NEW a \in BOOLEAN, StartFork(a) PROVE TableInv'
  <2>1. /\ UNCHANGED <<proc, news, pid, pwlist, flag, lastpid, erased>>
        /\ pc = "idle" /\ pc' = "fork" /\ inCritical' /\ ~hand'
        /\ UNCHANGED <<w, reap>>
    BY <1>1 DEF StartFork, At, outside, jobs, table, history, call
  <2>2. Quiet' /\ NoRetry'
    BY <2>1 DEF TableInv, Quiet, NoRetry, Making
  <2> QED
    BY <2>1, <2>2, TableSame DEF Making
<1>2. ASSUME NEW p \in Pid \cup {1}, StartWait(p) PROVE TableInv'
  <2>1. /\ UNCHANGED <<proc, news, pid, pwlist, flag, lastpid, erased, reap>>
        /\ pc = "idle" /\ pc' = "wait" /\ w'.intr
    BY <1>2 DEF StartWait, At, outside, jobs, table, history
  <2>2. Quiet' /\ NoRetry'
    BY <2>1 DEF TableInv, Quiet, NoRetry, Making
  <2> QED
    BY <2>1, <2>2, TableSame DEF Making
<1>3. CASE StartUnpost
  <2>1. /\ UNCHANGED <<proc, news, pid, pwlist, flag, lastpid, erased, w, reap>>
        /\ pc = "idle" /\ pc' = "exitset"
    BY <1>3 DEF StartUnpost, At, outside, jobs, table, history, call
  <2>2. Quiet' /\ NoRetry'
    BY <2>1 DEF TableInv, Quiet, NoRetry, Making
  <2> QED
    BY <2>1, <2>2, TableSame DEF Making
<1>4. CASE RunTraps \/ EndTrap \/ EnterSubshell \/ LeaveSubshell
  <2>1. /\ UNCHANGED <<proc, news, pid, pwlist, flag, lastpid, erased, w, reap>>
        /\ pc = "idle" /\ pc' = "idle"
    BY <1>4
    DEF RunTraps, EndTrap, EnterSubshell, LeaveSubshell, At, outside, jobs, table, history, call
  <2>2. Quiet' /\ NoRetry'
    BY <2>1 DEF TableInv, Quiet, NoRetry, Making
  <2> QED
    BY <2>1, <2>2, TableSame DEF Making
<1> QED
  BY <1>1, <1>2, <1>3, <1>4 DEF Command

\* job_unpost of the entry at place i, of another process than the one being
\* posted.
LEMMA TableUnpost ==
    ASSUME TableInv, TypeInv', Quiet', NoRetry',
           UNCHANGED <<proc, news, pid, lastpid, erased>>,
           NEW i \in DOMAIN pwlist, Unpost(i),
           pc \notin Making, pc' \notin Making
    PROVE  TableInv'
<1>1. CASE Unpostable(pwlist[i])
  <2>1. flag \in [Child -> SUBSET Flag]
    BY DEF TableInv, TypeInv, TypeOK
  <2>2. /\ pwlist' = RemoveAt(pwlist, i) /\ "DONE" \in flag[pwlist[i]]
        /\ \A d \in Child \ {pwlist[i]} : flag'[d] = flag[d]
    BY <1>1, <2>1 DEF Unpost, Unpostable
  <2> QED
    BY <2>2, TableRemove
<1>2. CASE ~Unpostable(pwlist[i])
  BY <1>2, TableSame DEF Unpost
<1> QED
  BY <1>1, <1>2

\* What job_wait does to the table.
LEMMA TableWait ==
    ASSUME TableInv, TypeInv', WaitStep
    PROVE  TableInv'
<1>1. /\ flag \in [Child -> SUBSET Flag] /\ w \in WaitCall /\ reap \in ReapCall
      /\ pwlist \in Seq(Child)
  BY DEF TableInv, TypeInv, TypeOK, WaitCall, ReapCall
<1>2. CASE WaitAny \/ Unlock \/ Clear
  <2>1. /\ UNCHANGED <<proc, news, pid, pwlist, flag, lastpid, erased, w, reap>>
        /\ pc \in {"wait", "unlock", "clear"} /\ pc' \in {"top", "clear", "enter"}
    BY <1>2 DEF WaitAny, Unlock, Clear, At, outside, jobs, table, history, call
  <2>2. Quiet' /\ NoRetry'
    BY <2>1 DEF TableInv, Quiet, NoRetry, Making
  <2> QED
    BY <2>1, <2>2, TableSame DEF Making
<1>3. CASE WaitSaved \/ WaitForeign
  <2>1. /\ UNCHANGED <<proc, news, pid, pwlist, flag, lastpid, erased>>
        /\ pc = "wait" /\ pc' \in {"flush", "idle"}
        /\ w' \in {w, NoWait} /\ reap' \in {reap, Poll("idle")}
    BY <1>3 DEF WaitSaved, WaitForeign, At, outside, jobs, table, history
  <2>2. Quiet' /\ NoRetry'
    BY <2>1 DEF TableInv, Quiet, NoRetry, NoWait, Poll, Making
  <2> QED
    BY <2>1, <2>2, TableSame DEF Making
<1>4. CASE WaitFor
  <2>1. PICK i \in DOMAIN pwlist :
          /\ w' = [w EXCEPT !.pw = pwlist[i]]
          /\ flag' = IF w.intr THEN flag
                     ELSE [flag EXCEPT ![pwlist[i]] = @ \ {"EXITSAVE"}]
    BY <1>4 DEF WaitFor, IsEntry
  <2>2. /\ UNCHANGED <<proc, news, pid, pwlist, lastpid, erased, reap>>
        /\ pc = "wait" /\ pc' = "top"
    BY <1>4 DEF WaitFor, At, outside, history
  <2>3. w'.arg = w.arg /\ w'.intr = w.intr
    BY <1>1, <2>1 DEF WaitCall
  <2>4. Quiet' /\ NoRetry'
    BY <2>2, <2>3 DEF TableInv, Quiet, NoRetry, Making
  <2>5. \A c \in Child : /\ flag'[c] \subseteq flag[c]
                         /\ "DONE" \in flag[c] => "DONE" \in flag'[c]
    BY <1>1, <2>1
  <2> QED
    BY <2>2, <2>4, <2>5, TableFrame DEF Making
<1>5. Reported \in [Child -> SUBSET Flag] /\ \A c \in Child :
        /\ Reported[c] \subseteq flag[c]
        /\ flag[c] \ {"NOTIFY"} \subseteq Reported[c]
  BY <1>1 DEF Reported
<1>6. CASE TopPending
  <2>1. /\ UNCHANGED <<proc, news, pid, pwlist, lastpid, erased, w, reap>>
        /\ pc = "top" /\ pc' = "unlock"
    BY <1>6 DEF TopPending, At, outside, history, call
  <2>2. Quiet' /\ NoRetry'
    BY <2>1 DEF TableInv, Quiet, NoRetry, Making
  <2>3. \A c \in Child : /\ flag'[c] \subseteq flag[c]
                         /\ "DONE" \in flag[c] => "DONE" \in flag'[c]
    BY <1>5, <1>6 DEF TopPending
  <2> QED
    BY <2>1, <2>2, <2>3, TableFrame DEF Making
<1>7. CASE TopDone
  <2>1. PICK i \in DOMAIN pwlist :
          pwlist[i] = w.pw /\ pwlist' = RemoveAt(pwlist, i)
    BY <1>7 DEF TopDone
  <2>2. /\ UNCHANGED <<proc, news, pid, lastpid, erased, w>>
        /\ pc = "top" /\ pc' = "flush" /\ reap' = Poll("exitset")
        /\ "DONE" \in flag[w.pw]
        /\ flag' = [Reported EXCEPT ![w.pw] = @ \ {"NOTIFY", "EXITSAVE", "DONE"}]
    BY <1>7 DEF TopDone, Waited, At, outside, history
  <2>3. Quiet' /\ NoRetry'
    BY <2>2 DEF TableInv, Quiet, NoRetry, Poll, Making
  <2>4. \A c \in Child \ {w.pw} :
          /\ flag'[c] \subseteq flag[c]
          /\ "DONE" \in flag[c] => "DONE" \in flag'[c]
    BY <1>5, <2>2
  <2> QED
    BY <2>1, <2>2, <2>3, <2>4, TableRemove DEF Making
<1>8. CASE Enter
  <2>1. /\ UNCHANGED <<proc, news, pid, pwlist, flag, lastpid, erased, w>>
        /\ pc = "enter" /\ pc' \in {"check", "reap"} /\ reap'.ret = "check"
    BY <1>8 DEF Enter, At, outside, jobs, table, history
  <2>2. Quiet' /\ NoRetry'
    BY <2>1 DEF TableInv, Quiet, NoRetry, Making
  <2> QED
    BY <2>1, <2>2, TableSame DEF Making
<1>9. CASE Check
  <2>1. /\ UNCHANGED <<proc, news, pid, pwlist, flag, lastpid, erased, w>>
        /\ pc = "check" /\ pc' \in {"top", "flush"}
        /\ \/ reap' \in {reap, Poll("exitset"), Poll("idle")}
           \/ MaxFails # 0
    BY <1>9 DEF Check, At, outside, jobs, table, history, TableInv, NoRetry
  <2>2. Quiet' /\ NoRetry'
    BY <2>1 DEF TableInv, Quiet, NoRetry, Poll, Making
  <2> QED
    BY <2>1, <2>2, TableSame DEF Making
<1>10. CASE ExitSet \/ UnpostEnd
  <2>1. /\ UNCHANGED <<proc, news, pid, pwlist, flag, lastpid, erased, reap>>
        /\ pc \in {"exitset", "done"} /\ pc' \in {"done", "idle"}
        /\ w' \in {w, NoWait}
    BY <1>10 DEF ExitSet, UnpostEnd, At, outside, jobs, table, history, call
  <2>2. Quiet' /\ NoRetry'
    BY <2>1 DEF TableInv, Quiet, NoRetry, NoWait, Making
  <2> QED
    BY <2>1, <2>2, TableSame DEF Making
<1>11. CASE UnpostNext
  <2>1. PICK i \in DOMAIN pwlist : Unpost(i)
    BY <1>11 DEF UnpostNext
  <2>2. UNCHANGED <<proc, news, pid, lastpid, erased, w, reap>> /\ pc = "done" /\ pc' = "done"
    BY <1>11 DEF UnpostNext, At, outside, history, call
  <2>3. Quiet' /\ NoRetry'
    BY <2>2 DEF TableInv, Quiet, NoRetry, Making
  <2> QED
    BY <2>1, <2>2, <2>3, TableUnpost DEF Making
<1> QED
  BY <1>2, <1>3, <1>4, <1>6, <1>7, <1>8, <1>9, <1>10, <1>11 DEF WaitStep

\* Every step keeps the table in agreement with the kernel.
LEMMA TableStep ==
    ASSUME TableInv, [Next]_vars
    PROVE  TableInv'
<1>1. TypeInv'
  BY TypeStep DEF TableInv
<1>2. ASSUME NEW c \in Child, ChildEnd(c) \/ ChildStop(c) \/ ChildContinue(c)
      PROVE  TableInv'
  <2>1. CASE ChildEnd(c)
    BY <1>1, <2>1, TableChild DEF ChildEnd
  <2>2. CASE ChildStop(c)
    <3>1. MaxStops # 0
      BY <2>2, BoundAssumption DEF ChildStop, TableInv, TypeInv, TypeOK
    <3> QED
      BY <1>1, <2>2, <3>1, TableChild DEF ChildStop
  <2>3. CASE ChildContinue(c)
    <3>1. MaxStops # 0
      BY <2>3 DEF ChildContinue, TableInv, Pids
    <3> QED
      BY <1>1, <2>3, <3>1, TableChild DEF ChildContinue
  <2> QED
    BY <1>2, <2>1, <2>2, <2>3
<1>3. CASE ForkFails
  <2>1. /\ UNCHANGED <<proc, news, pid, pwlist, flag, lastpid, erased>>
        /\ pc = "fork" /\ pc' = "top"
    BY <1>3 DEF ForkFails, At, jobs, table, history
  <2>2. MaxFails # 0
    BY <1>3, BoundAssumption DEF ForkFails, TableInv, TypeInv, TypeOK
  <2>3. Quiet' /\ NoRetry'
    BY <2>2 DEF Quiet, NoRetry
  <2> QED
    BY <1>1, <2>1, <2>3, TableSame DEF Making
<1>4. CASE ForkStep
  BY <1>1, <1>3, <1>4, TableFork, TablePostUnpost, TablePostLink,
     TablePostFlag, TablePostSaved DEF ForkStep
<1>5. CASE UNCHANGED vars
  <2>1. /\ UNCHANGED <<proc, news, pid, pwlist, flag, bck, lastpid, erased, pc, px>>
        /\ UNCHANGED <<w, reap, hand, inCritical>>
    BY <1>5 DEF vars, main, outside, jobs, table, history, flags, critical, call, command
  <2>2. Quiet' /\ NoRetry'
    BY <2>1 DEF TableInv, Quiet, NoRetry, Making
  <2> QED
    BY <1>1, <2>1, <2>2, TableSame
<1> QED
  BY <1>1, <1>2, <1>4, <1>5, TableHandler, TableCommand, TableWait
  DEF Next, ChildStep

\* Every process is in the table from the time it is posted until it has been
\* reaped, and in it only once, whatever the interleaving with the handler and
\* whatever subshells there are: if fork does not fail, with any use of pids
\* and any stops; and if fork may fail, as long as pids are not used again and
\* children do not stop.
THEOREM TableCorrect == ASSUME Orderly PROVE Spec => []TableMatchesKernel
<1>1. Init => TableInv
  BY TableInit
<1>2. TableInv /\ [Next]_vars => TableInv'
  BY TableStep
<1>3. TableInv => TableMatchesKernel
  BY DEF TableInv, Entries, AtPost, TableMatchesKernel
<1> QED
  BY <1>1, <1>2, <1>3, PTL DEF Spec
=============================================================================
