-------------------------------- MODULE Jobs --------------------------------
(***************************************************************************)
(* The job table of a non-interactive ksh93, monitor option off            *)
(* (cmd/ksh93/sh/jobs.c, and sh_fork of sh/xec.c): posted processes, saved *)
(* exit statuses, the SIGCHLD handler job_waitsafe and the critical region *)
(* that holds it off, job_wait, and the list of statuses of a virtual      *)
(* subshell.  With monitor off job.curpgid stays 0: each process is a job  *)
(* of its own and p_pgrp is 0.                                             *)
(*                                                                         *)
(* The main program takes the step that pc names; the handler (hand) runs  *)
(* between any two of them and holds the main program up until it returns. *)
(***************************************************************************)
EXTENDS Integers, SequencesExt

CONSTANTS
    Child,      \* the processes this shell forks, each at most once
    Pid,        \* the process ids of the kernel
    Reuse,      \* may a reaped process's pid be given to a new one?
    None,       \* no process
    Ending,     \* Ending[c] = [n, sig]: c exits with n, or is killed by it
    ChildMax,   \* sh.lim.child_max
    MaxEnv,     \* bound: environments of virtual subshells
    MaxFails,   \* bound: failures of fork()
    MaxStops,   \* bound: stops of each child
    MaxSignals, \* bound: trapped signals other than SIGCHLD
    ChldTrap    \* is there a trap on SIGCHLD?

NOENT == 127                    \* ERROR_NOENT
EXITSIG == 256                  \* SH_EXITSIG
STOPSIG == 512                  \* SH_STOPSIG
SIGSTOP == 19
NOSTATUS == 65535               \* -1 in the 16 bits of p_exit
Status == 0..NOSTATUS

ASSUME PidAssumption == Pid \subseteq Nat \ {0, 1}
ASSUME ChildAssumption == None \notin Child
ASSUME EndingAssumption == Ending \in [Child -> [n : 0..255, sig : BOOLEAN]]
ASSUME BoundAssumption ==
    /\ ChildMax \in Nat /\ MaxEnv \in Nat /\ MaxFails \in Nat
    /\ MaxStops \in Nat /\ MaxSignals \in Nat
    /\ ChldTrap \in BOOLEAN /\ Reuse \in BOOLEAN

VARIABLES
    \* the kernel, and how often it has done what is bounded
    proc,       \* life of each child
    news,       \* a stop or a continuation not yet reported by waitpid
    pid,        \* pid[c], 0 before c is forked
    sigchld,    \* SIGCHLD is pending
    hand,       \* job_waitsafe runs as the signal handler
    stops, fails, signals,
    \* jobs.c
    pwlist,     \* job.pwlist, the posted processes, newest first
    flag, pexit, env,   \* p_flag, p_exit, p_env
    bck,        \* the list of saved statuses, newest first
    lastpid,    \* the last process reaped before it was posted
    inCritical, \* job.in_critical
    savesig,    \* a SIGCHLD came in the critical region
    waitsafe,   \* job.waitsafe is not 0: a process has just been reaped
    echild,     \* errno is ECHILD
    \* the rest of the shell
    curenv,     \* sh.curenv
    subenv,     \* the counter of environments of subshell.c
    saved,      \* what the enclosing sh_subshell calls will restore
    intrap,     \* sh.intrap is not 0: the action of a trap runs
    exitval,    \* sh.exitval
    trapnote,   \* sh.trapnote: a trap is to be run
    \* where the main program is
    pc, w,      \* its next step, and the call of job_wait in progress
    reap,       \* its call of job_waitsafe in progress
    amp,        \* the command being started is followed by &
    px,         \* the process just forked; px of job_wait's last loop
    \* history
    bg,         \* processes whose pid $! gave to the script
    told,       \* processes whose status job_wait has put in sh.exitval
    evicted,    \* processes whose saved status made room for another
    erased      \* processes whose noted end job_post wrote over

outside == <<proc, news, pid, sigchld, hand, stops, fails, signals>>
table == <<pwlist, flag, pexit, env>>
jobs == <<table, bck, lastpid>>
critical == <<inCritical, savesig>>
flags == <<critical, waitsafe, echild>>
scopes == <<curenv, subenv, saved, intrap>>
shell == <<scopes, exitval, trapnote>>
call == <<w, reap>>
command == <<amp, px>>
history == <<bg, told, evicted, erased>>
main == <<jobs, flags, shell, pc, call, command, history>>
vars == <<outside, main>>

Flag == {"EXITSAVE", "STOPPED", "NOTIFY", "SIGNALLED", "DONE"}
Label == {"idle", "fork", "post", "link", "flag", "exit", "saved",
          "wait", "top", "unlock", "clear", "enter", "reap", "check", "flush",
          "exitset", "done"}
NoWait == [arg |-> 0, intr |-> FALSE, pw |-> None]
NoReap == [block |-> FALSE, cont |-> FALSE, ret |-> "idle"]
\* job_waitsafe(savesig) does not block and sees continuations.
Poll(ret) == [block |-> FALSE, cont |-> TRUE, ret |-> ret]

\* n | SH_EXITSIG for a process that was killed.
Value(n, sig) == IF sig /\ n < EXITSIG THEN n + EXITSIG ELSE n
EntryValueBare(c) == pexit[c]                    \* mutant of EntryValue
EntryValue(c) == Value(pexit[c], "SIGNALLED" \in flag[c])
TrueValue(c) == Value(Ending[c].n, Ending[c].sig)

At(label) == ~hand /\ pc = label
Alive(c) == proc[c] \in {"running", "stopped", "zombie"}
Listed == Range(pwlist)

\* job_bypid finds the first entry with this pid.
IsEntry(i, p) ==
    /\ i \in DOMAIN pwlist
    /\ pid[pwlist[i]] = p
    /\ \A k \in 1..(i - 1) : pid[pwlist[k]] # p
NoEntry(p) == \A i \in DOMAIN pwlist : pid[pwlist[i]] # p

\* A status is pushed on the saved list; the oldest makes room for it.
FullLate(b) == Len(b) > ChildMax + 1             \* mutant of Full
FullEarly(b) == Len(b) >= ChildMax               \* mutant of Full
Full(b) == Len(b) > ChildMax
Push(b, c, v) == <<[who |-> c, val |-> v]>> \o IF Full(b) THEN Front(b) ELSE b
Evict(b) == IF Full(b) THEN {Last(b).who} ELSE {}

\* job_chksave finds the newest saved status of this pid.
IsSaved(b, i, p) ==
    /\ i \in DOMAIN b
    /\ pid[b[i].who] = p
    /\ \A k \in 1..(i - 1) : pid[b[k].who] # p
NotSaved(b, p) == \A i \in DOMAIN b : pid[b[i].who] # p

Init ==
    /\ proc = [c \in Child |-> "unborn"] /\ news = [c \in Child |-> "none"]
    /\ pid = [c \in Child |-> 0] /\ sigchld = FALSE /\ hand = FALSE
    /\ stops = [c \in Child |-> 0] /\ fails = 0 /\ signals = 0
    /\ pwlist = <<>> /\ flag = [c \in Child |-> {}]
    /\ pexit = [c \in Child |-> 0] /\ env = [c \in Child |-> 0]
    /\ bck = <<>> /\ lastpid = 0
    /\ inCritical = FALSE /\ savesig = FALSE
    /\ waitsafe = FALSE /\ echild = FALSE
    /\ curenv = 0 /\ subenv = 0 /\ saved = <<>> /\ intrap = FALSE
    /\ exitval = 0 /\ trapnote = FALSE
    /\ pc = "idle" /\ w = NoWait /\ reap = NoReap /\ amp = FALSE /\ px = None
    /\ bg = {} /\ told = {} /\ evicted = {} /\ erased = {}

-----------------------------------------------------------------------------
(***************************************************************************)
(* The kernel: children end, stop and continue when they like.             *)
(***************************************************************************)
Changes(c, life, what) ==
    /\ proc' = [proc EXCEPT ![c] = life]
    /\ news' = [news EXCEPT ![c] = what]
    /\ sigchld' = TRUE
    /\ UNCHANGED <<main, pid, hand, fails, signals>>

ChildEnd(c) ==
    /\ proc[c] = "running" \/ (proc[c] = "stopped" /\ Ending[c].sig)
    /\ Changes(c, "zombie", "none")
    /\ UNCHANGED stops

ChildStop(c) ==
    /\ proc[c] = "running" /\ stops[c] < MaxStops
    /\ Changes(c, "stopped", "stop")
    /\ stops' = [stops EXCEPT ![c] = @ + 1]

ChildContinue(c) ==
    /\ proc[c] = "stopped"
    /\ Changes(c, "running", "cont")
    /\ UNCHANGED stops

\* What waitpid may report with WUNTRACED, and with WCONTINUED too.
Reportable(c, cont) ==
    proc[c] = "zombie" \/ news[c] = "stop" \/ (cont /\ news[c] = "cont")
NothingMore(cont) == waitsafe \/ \A c \in Child : ~Reportable(c, cont)  \* mutant
NothingFor(cont) == \A c \in Child : ~Reportable(c, cont)
NoChildren == \A c \in Child : ~Alive(c)

-----------------------------------------------------------------------------
(***************************************************************************)
(* job_waitsafe: one turn of its loop, for the child c that waitpid        *)
(* reports.  Both the handler and the main program run it.                 *)
(***************************************************************************)
EndFlags(f, killed) ==
    IF killed THEN (f \ {"STOPPED", "NOTIFY"}) \cup {"DONE", "SIGNALLED"}
              ELSE (f \ {"NOTIFY"}) \cup {"DONE"}

\* The process at place i is the one posted with this pid.
NoteEnd(c, i) ==
    /\ proc[c] = "zombie"
    /\ flag' = [flag EXCEPT ![pwlist[i]] = EndFlags(@, Ending[c].sig)]
    /\ pexit' = [pexit EXCEPT ![pwlist[i]] = Ending[c].n]
    /\ UNCHANGED pwlist

NoteStop(c, i) ==
    /\ news[c] = "stop"
    /\ pwlist' = <<pwlist[i]>> \o RemoveAt(pwlist, i)
    /\ flag' = [flag EXCEPT
                  ![pwlist[i]] = @ \cup {"NOTIFY", "SIGNALLED", "STOPPED"}]
    /\ pexit' = [pexit EXCEPT ![pwlist[i]] = SIGSTOP]

NoteContinue(c, i) ==
    /\ news[c] = "cont"
    /\ flag' = [flag EXCEPT
                  ![pwlist[i]] = @ \ {"NOTIFY", "SIGNALLED", "STOPPED"}]
    /\ UNCHANGED <<pwlist, pexit>>

\* The process has not been posted yet: save its status for job_post.  When
\* it was continued the status saved is that of an uninitialized struct.
NoteUnknown(c) ==
    /\ NoEntry(pid[c])
    /\ \E v \in {0, STOPSIG, TrueValue(c)} :
         /\ proc[c] = "zombie" => v = TrueValue(c)
         /\ news[c] = "stop" => v = STOPSIG
         /\ bck' = Push(bck, c, v)
    /\ evicted' = evicted \cup Evict(bck)
    /\ lastpid' = pid[c]
    /\ UNCHANGED <<pwlist, flag, pexit>>

Reap(c, cont) ==
    /\ Reportable(c, cont)
    /\ proc' = IF proc[c] = "zombie" THEN [proc EXCEPT ![c] = "reaped"]
                                     ELSE proc
    /\ news' = [news EXCEPT ![c] = "none"]
    /\ waitsafe' = TRUE
    /\ \/ /\ \E i \in DOMAIN pwlist :
               /\ IsEntry(i, pid[c])
               /\ NoteEnd(c, i) \/ NoteStop(c, i) \/ NoteContinue(c, i)
          /\ UNCHANGED <<bck, lastpid, evicted>>
       \/ NoteUnknown(c)
    /\ UNCHANGED env

\* The end of job_waitsafe, and the return from a call of it.  A subshell
\* starts without the trap.
NoteTrap == trapnote' = (trapnote \/ (ChldTrap /\ ~intrap /\ saved = <<>>))
Return ==
    /\ pc' = reap.ret
    /\ reap' = NoReap
    /\ w' = IF reap.ret \in {"idle", "fork"} THEN NoWait ELSE w

\* A main program asleep in waitpid comes back with EINTR after a signal
\* when there is nothing for it to collect.
Interrupted ==
    /\ pc = "reap" /\ reap.block /\ NothingFor(FALSE)
    /\ echild' = FALSE
    /\ Return

\* SIGCHLD: in the critical region the handler only leaves word.
Handler ==
    /\ sigchld /\ ~hand
    /\ sigchld' = FALSE
    /\ savesig' = inCritical
    /\ hand' = ~inCritical
    /\ \/ inCritical /\ Interrupted /\ NoteTrap
       \/ UNCHANGED <<pc, call, echild, trapnote>>
    /\ UNCHANGED <<proc, news, pid, stops, fails, signals, jobs, inCritical,
                   waitsafe, scopes, exitval, command, history>>

HandlerReap(c) ==
    /\ hand
    /\ Reap(c, TRUE)
    /\ UNCHANGED <<pid, sigchld, hand, stops, fails, signals, critical, echild,
                   shell, pc, call, command, bg, told, erased>>

HandlerReturn ==
    /\ hand /\ NothingFor(TRUE)
    /\ hand' = FALSE
    /\ NoteTrap
    /\ \/ Interrupted
       \/ echild' = (echild \/ NoChildren) /\ UNCHANGED <<pc, call>>
    /\ UNCHANGED <<proc, news, pid, sigchld, stops, fails, signals, jobs,
                   critical, waitsafe, scopes, exitval, command, history>>

\* job_waitsafe called by the main program: by job_wait's loop, and by Flush
\* at the end of a critical region when the handler has left word.
MainReap(c) ==
    /\ At("reap")
    /\ Reap(c, reap.cont)
    /\ reap' = [reap EXCEPT !.block = FALSE]
    /\ UNCHANGED <<pid, sigchld, hand, stops, fails, signals, critical, echild,
                   shell, pc, w, command, bg, told, erased>>

MainReapDone ==
    /\ At("reap") /\ NothingFor(reap.cont)
    /\ reap.block => NoChildren
    /\ echild' = (echild \/ NoChildren)
    /\ NoteTrap /\ Return
    /\ UNCHANGED <<outside, jobs, critical, waitsafe, scopes, exitval, command,
                   history>>

Flush ==
    /\ At("flush")
    /\ savesig' = FALSE
    /\ \/ savesig /\ pc' = "reap" /\ UNCHANGED call
       \/ ~savesig /\ Return
    /\ UNCHANGED <<outside, jobs, inCritical, waitsafe, echild, shell, command,
                   history>>

\* A trapped signal other than SIGCHLD (sh_fault), or the alarm of fork's
\* retry: both leave another errno behind.
Signal ==
    /\ signals < MaxSignals /\ ~hand
    /\ signals' = signals + 1
    /\ trapnote' \in {trapnote, TRUE}
    /\ \/ Interrupted
       \/ echild' = FALSE /\ UNCHANGED <<pc, call>>
    /\ UNCHANGED <<proc, news, pid, sigchld, hand, stops, fails, jobs, critical,
                   waitsafe, scopes, exitval, command, history>>

\* sh_chktrap, between two commands: the pending traps are run, also when the
\* action of another one has not come to its end.
RunTraps ==
    /\ At("idle") /\ trapnote
    /\ trapnote' = FALSE
    /\ intrap' = TRUE
    /\ UNCHANGED <<outside, jobs, flags, curenv, subenv, saved, exitval, pc,
                   call, command, history>>

\* A subshell entered in an action is left in it.
EndTrap ==
    /\ At("idle") /\ intrap
    /\ saved # <<>> => ~saved[1].intrap
    /\ intrap' = FALSE
    /\ UNCHANGED <<outside, jobs, flags, curenv, subenv, saved, exitval,
                   trapnote, pc, call, command, history>>

-----------------------------------------------------------------------------
(***************************************************************************)
(* sh_fork and job_post.  The first fork() is in the critical region; when *)
(* it fails, job_wait(1) ends that region and the next try is outside it.  *)
(***************************************************************************)
\* The pids the kernel may give out: the next one, or one that has become free.
Forkable(c, p) ==
    /\ proc[c] = "unborn"
    /\ \A d \in Child : pid[d] = p => Reuse /\ ~Alive(d)
    /\ \A q \in Pid : q < p => \E d \in Child : pid[d] = q

StartFork(a) ==
    /\ At("idle")
    /\ \E c \in Child, p \in Pid : Forkable(c, p)
    /\ inCritical' = TRUE
    /\ amp' = a
    /\ exitval' = 0
    /\ pc' = "fork"
    /\ UNCHANGED <<outside, jobs, savesig, waitsafe, echild, scopes, trapnote,
                   call, px, history>>

Fork(c, p) ==
    /\ At("fork")
    /\ Forkable(c, p)
    /\ proc' = [proc EXCEPT ![c] = "running"]
    /\ pid' = [pid EXCEPT ![c] = p]
    /\ px' = c
    /\ pc' = "post"
    /\ UNCHANGED <<news, sigchld, hand, stops, fails, signals, jobs, flags,
                   shell, call, amp, history>>

\* _sh_fork with a negative argument: wait for a process to end, try again.
ForkFails ==
    /\ At("fork")
    /\ fails < MaxFails
    /\ fails' = fails + 1
    /\ w' = [NoWait EXCEPT !.arg = 1]
    /\ inCritical' = TRUE
    /\ echild' = FALSE
    /\ pc' = "top"
    /\ UNCHANGED <<proc, news, pid, sigchld, hand, stops, signals, jobs,
                   savesig, waitsafe, shell, reap, command, history>>

UnpostableEarly(c) == "NOTIFY" \notin flag[c] \/ env[c] # 0   \* mutant
Unpostable(c) ==
    /\ "DONE" \in flag[c]
    /\ "NOTIFY" \notin flag[c] \/ env[c] # 0

\* A status nobody has asked for is saved when its entry goes.
SaveAlways(c, keep) ==                           \* mutant of SaveStatus
    /\ bck' = IF "EXITSAVE" \in flag[c] THEN Push(bck, c, EntryValue(c)) ELSE bck
    /\ UNCHANGED evicted
SaveStatus(c, keep) ==
    /\ bck' = IF keep THEN Push(bck, c, EntryValue(c)) ELSE bck
    /\ evicted' = IF keep THEN evicted \cup Evict(bck) ELSE evicted

\* job_unpost of the entry at place i, if it may go.
Unpost(i) ==
    IF Unpostable(pwlist[i])
      THEN /\ pwlist' = RemoveAt(pwlist, i)
           /\ flag' = [flag EXCEPT ![pwlist[i]] = @ \ {"EXITSAVE", "DONE"}]
           /\ SaveStatus(pwlist[i], "EXITSAVE" \in flag[pwlist[i]])
      ELSE UNCHANGED <<pwlist, flag, bck, evicted>>

\* job_post: a done process that had the same pid makes place,
PostUnpost ==
    /\ At("post")
    /\ \/ \E i \in DOMAIN pwlist : IsEntry(i, pid[px]) /\ Unpost(i)
       \/ NoEntry(pid[px]) /\ UNCHANGED <<pwlist, flag, bck, evicted>>
    /\ pc' = "link"
    /\ UNCHANGED <<outside, pexit, env, lastpid, flags, shell, call, command,
                   bg, told, erased>>

\* One that ended before it was posted has its status on the saved list, or
\* had it there.
NewFlagsUnsaved(f, v) ==                         \* mutant of NewFlags
    IF v = STOPSIG THEN {"SIGNALLED", "STOPPED"} ELSE {"DONE", "NOTIFY"}
NewFlags(f, v) ==
    f \cup IF v = STOPSIG THEN {"SIGNALLED", "STOPPED"} ELSE {"DONE", "NOTIFY"}
ChkSave(c) ==
    \/ pid[c] # lastpid /\ UNCHANGED <<flag, pexit, bck>>
    \/ /\ pid[c] = lastpid
       /\ \E i \in DOMAIN bck :
            /\ IsSaved(bck, i, lastpid)
            /\ flag' = [flag EXCEPT ![c] = NewFlags(@, bck[i].val)]
            /\ pexit' = [pexit EXCEPT ![c] =
                           IF bck[i].val = STOPSIG THEN 0 ELSE bck[i].val]
            /\ bck' = RemoveAt(bck, i)
    \/ /\ pid[c] = lastpid
       /\ NotSaved(bck, lastpid)
       /\ flag' = [flag EXCEPT ![c] = NewFlags(@, NOSTATUS)]
       /\ pexit' = [pexit EXCEPT ![c] = NOSTATUS]
       /\ UNCHANGED bck

\* the process is linked in front of the others and has its pid,
PostLink ==
    /\ At("link")
    /\ pwlist' = <<px>> \o pwlist
    /\ env' = [env EXCEPT ![px] = curenv]
    /\ pc' = "flag"
    /\ UNCHANGED <<outside, flag, pexit, bck, lastpid, flags, shell, call, command,
                   history>>

\* its p_flag is set and then its p_exit.  Where fork() was tried again the
\* handler may have noted the end of the process meanwhile; part of the note
\* is written over.
Overwritten == IF "DONE" \in flag[px] THEN erased \cup {px} ELSE erased

PostFlag ==
    /\ At("flag")
    /\ flag' = [flag EXCEPT ![px] = {"EXITSAVE"}]
    /\ erased' = Overwritten
    /\ pc' = "exit"
    /\ UNCHANGED <<outside, pwlist, pexit, env, bck, lastpid, flags, shell, call,
                   command, bg, told, evicted>>

PostExit ==
    /\ At("exit")
    /\ pexit' = [pexit EXCEPT ![px] = 0]
    /\ erased' = Overwritten
    /\ pc' = "saved"
    /\ UNCHANGED <<outside, pwlist, flag, env, bck, lastpid, flags, shell, call,
                   command, bg, told, evicted>>

PostSaved ==
    /\ At("saved")
    /\ ChkSave(px)
    /\ lastpid' = 0
    /\ inCritical' = FALSE
    /\ bg' = IF amp THEN bg \cup {px} ELSE bg
    /\ w' = IF amp THEN w ELSE [NoWait EXCEPT !.arg = pid[px]]
    /\ reap' = Poll(IF amp THEN "idle" ELSE "wait")
    /\ px' = None
    /\ pc' = "flush"
    /\ UNCHANGED <<outside, pwlist, env, savesig, waitsafe, echild, shell, amp,
                   told, evicted, erased>>

-----------------------------------------------------------------------------
(***************************************************************************)
(* job_wait.  arg is its argument: a pid, or 1 for any process; intr says  *)
(* that it is the wait builtin's call.                                     *)
(***************************************************************************)
StartWait(p) ==
    /\ At("idle")
    /\ exitval' = 0
    /\ w' = [arg |-> p, intr |-> TRUE, pw |-> None]
    /\ pc' = "wait"
    /\ UNCHANGED <<outside, jobs, flags, scopes, trapnote, reap, command,
                   history>>

\* job_wait(0): the jobs builtin and the end of a pipeline.
StartUnpost ==
    /\ At("idle")
    /\ pc' = "exitset"
    /\ UNCHANGED <<outside, jobs, flags, shell, call, command, history>>

WaitAny ==
    /\ At("wait") /\ w.arg = 1
    /\ inCritical' = TRUE
    /\ echild' = FALSE
    /\ pc' = "top"
    /\ UNCHANGED <<outside, jobs, savesig, waitsafe, shell, call, command,
                   history>>

\* The process is no longer posted: its status may have been saved.
WaitSaved ==
    /\ At("wait") /\ w.arg # 1 /\ NoEntry(w.arg)
    /\ \/ \E i \in DOMAIN bck :
            /\ IsSaved(bck, i, w.arg)
            /\ exitval' = bck[i].val
            /\ told' = told \cup {bck[i].who}
            /\ bck' = RemoveAt(bck, i)
       \/ /\ NotSaved(bck, w.arg)
          /\ exitval' = NOENT
          /\ UNCHANGED <<told, bck>>
    /\ inCritical' = FALSE
    /\ reap' = Poll("idle")
    /\ pc' = "flush"
    /\ UNCHANGED <<outside, table, lastpid, savesig, waitsafe, echild, scopes,
                   trapnote, w, command, bg, evicted, erased>>

\* It belongs to another environment: the early return leaves the critical
\* region on.
WaitForeign ==
    /\ At("wait") /\ w.arg # 1 /\ w.intr
    /\ \E i \in DOMAIN pwlist :
         IsEntry(i, w.arg) /\ env[pwlist[i]] # curenv
    /\ exitval' = NOENT
    /\ inCritical' = TRUE
    /\ w' = NoWait
    /\ pc' = "idle"
    /\ UNCHANGED <<outside, jobs, savesig, waitsafe, echild, scopes, trapnote,
                   reap, command, history>>

WaitFor ==
    /\ At("wait") /\ w.arg # 1
    /\ \E i \in DOMAIN pwlist :
         /\ IsEntry(i, w.arg)
         /\ w.intr => env[pwlist[i]] = curenv
         /\ w' = [w EXCEPT !.pw = pwlist[i]]
         /\ flag' = IF w.intr THEN flag
                    ELSE [flag EXCEPT ![pwlist[i]] = @ \ {"EXITSAVE"}]
    /\ inCritical' = TRUE
    /\ echild' = FALSE
    /\ pc' = "top"
    /\ UNCHANGED <<outside, pwlist, pexit, env, bck, lastpid, savesig, waitsafe,
                   shell, reap, command, history>>

\* The flags once the signalled processes have been reported (job_prmsg).
Reported ==
    [c \in Child |->
       IF /\ waitsafe /\ c \in Listed /\ c # w.pw
          /\ {"NOTIFY", "SIGNALLED"} \subseteq flag[c]
         THEN flag[c] \ {"NOTIFY"}
         ELSE flag[c]]

Waited(f) == w.pw # None /\ f \in flag[w.pw]

\* The top of the loop: the process waited for has not ended.  That it has
\* stopped is something a non-interactive shell ignores.
TopPending ==
    /\ At("top")
    /\ \/ ~Waited("DONE") /\ ~Waited("STOPPED") /\ flag' = Reported
       \/ /\ Waited("STOPPED")
          /\ flag' = [Reported EXCEPT ![w.pw] =
                        @ \ {"NOTIFY", "SIGNALLED", "STOPPED", "EXITSAVE"}]
    /\ inCritical' = TRUE
    /\ pc' = "unlock"
    /\ UNCHANGED <<outside, pwlist, pexit, env, bck, lastpid, savesig, waitsafe,
                   echild, shell, call, command, history>>

\* It has ended: take its status and unpost it.
TopDone ==
    /\ At("top")
    /\ Waited("DONE") /\ ~Waited("STOPPED")
    /\ exitval' = EntryValue(w.pw)
    /\ told' = told \cup {w.pw}
    /\ \E i \in DOMAIN pwlist :
         pwlist[i] = w.pw /\ pwlist' = RemoveAt(pwlist, i)
    /\ SaveStatus(w.pw, ~w.intr /\ "EXITSAVE" \in flag[w.pw])
    /\ flag' = [Reported EXCEPT ![w.pw] = @ \ {"NOTIFY", "EXITSAVE", "DONE"}]
    /\ inCritical' = FALSE
    /\ reap' = Poll("exitset")
    /\ pc' = "flush"
    /\ UNCHANGED <<outside, pexit, env, lastpid, savesig, waitsafe, echild,
                   scopes, trapnote, w, command, bg, erased>>

\* job.in_critical = !savesig;
Unlock ==
    /\ At("unlock")
    /\ inCritical' = ~savesig
    /\ pc' = "clear"
    /\ UNCHANGED <<outside, jobs, savesig, waitsafe, echild, shell, call,
                   command, history>>

\* job.waitsafe = 0;
Clear ==
    /\ At("clear")
    /\ waitsafe' = FALSE
    /\ pc' = "enter"
    /\ UNCHANGED <<outside, jobs, critical, echild, shell, call, command,
                   history>>

\* job_waitsafe(savesig): without a signal to act upon it blocks.
Enter ==
    /\ At("enter")
    /\ reap' = [block |-> ~savesig, cont |-> savesig, ret |-> "check"]
    /\ IF inCritical /\ savesig
         THEN pc' = "check" /\ UNCHANGED savesig
         ELSE pc' = "reap" /\ savesig' = FALSE
    /\ UNCHANGED <<outside, jobs, inCritical, waitsafe, echild, shell, w,
                   command, history>>

\* The loop goes on, or it is left and the critical region ends.
AgainForever == waitsafe \/ (~(w.intr /\ trapnote) /\ (w.arg = 1 => w.intr))
                                                 \* mutant of Again
Again ==
    \/ waitsafe
    \/ ~echild /\ ~(w.intr /\ trapnote) /\ (w.arg = 1 => w.intr)

Check ==
    /\ At("check")
    /\ IF Again
         THEN pc' = "top" /\ UNCHANGED <<inCritical, reap>>
         ELSE /\ pc' = "flush"
              /\ inCritical' = FALSE
              /\ reap' = Poll(IF w.arg # 1 THEN "exitset"
                              ELSE IF w.intr THEN "idle" ELSE "fork")
    /\ UNCHANGED <<outside, jobs, savesig, waitsafe, echild, shell, w, command,
                   history>>

\* The last loop unposts every process that is done, one at a time, but not
\* while the action of a trap runs.
ExitSet ==
    /\ At("exitset")
    /\ px' = IF intrap \/ pwlist = <<>> THEN None ELSE Head(pwlist)
    /\ pc' = "done"
    /\ UNCHANGED <<outside, jobs, flags, shell, call, amp, history>>

UnpostNext ==
    /\ At("done") /\ px # None
    /\ \E i \in DOMAIN pwlist :
         /\ pwlist[i] = px
         /\ px' = IF i = Len(pwlist) THEN None ELSE pwlist[i + 1]
         /\ Unpost(i)
    /\ UNCHANGED <<outside, pexit, env, lastpid, flags, shell, pc, call, amp,
                   bg, told, erased>>

UnpostEnd ==
    /\ At("done") /\ px = None
    /\ w' = NoWait
    /\ pc' = "idle"
    /\ UNCHANGED <<outside, jobs, flags, shell, reap, command, history>>

-----------------------------------------------------------------------------
(***************************************************************************)
(* sh_subshell: a virtual subshell runs in the same process with a saved   *)
(* list of its own (job_subsave) that dies with it (job_subrestore).       *)
(***************************************************************************)
EnterSubshell ==
    /\ At("idle")
    /\ MaxEnv > 0 /\ (curenv = 0 \/ subenv < MaxEnv)
    /\ subenv' = IF curenv = 0 THEN 1 ELSE subenv + 1
    /\ curenv' = subenv'
    /\ saved' = <<[list |-> bck, env |-> curenv, intrap |-> intrap]>> \o saved
    /\ bck' = <<>>
    /\ trapnote' = FALSE
    /\ UNCHANGED <<outside, table, lastpid, flags, intrap, exitval, pc, call,
                   command, history>>

LeaveSubshell ==
    /\ At("idle")
    /\ saved # <<>> /\ saved[1].intrap = intrap
    /\ bck' = saved[1].list
    /\ curenv' = saved[1].env
    /\ saved' = Tail(saved)
    /\ trapnote' = FALSE
    /\ UNCHANGED <<outside, table, lastpid, flags, subenv, intrap, exitval, pc,
                   call, command, history>>

-----------------------------------------------------------------------------
ChildStep == \E c \in Child : ChildEnd(c) \/ ChildStop(c) \/ ChildContinue(c)
HandlerStep == Handler \/ HandlerReturn \/ \E c \in Child : HandlerReap(c)
Command ==
    \/ \E a \in BOOLEAN : StartFork(a)
    \/ \E p \in Pid \cup {1} : StartWait(p)
    \/ StartUnpost \/ RunTraps \/ EndTrap \/ EnterSubshell \/ LeaveSubshell
ForkStep ==
    \/ \E c \in Child, p \in Pid : Fork(c, p)
    \/ ForkFails \/ PostUnpost \/ PostLink \/ PostFlag \/ PostExit \/ PostSaved
WaitStep ==
    \/ WaitAny \/ WaitSaved \/ WaitForeign \/ WaitFor
    \/ TopPending \/ TopDone
    \/ Unlock \/ Clear \/ Enter \/ Check
    \/ ExitSet \/ UnpostNext \/ UnpostEnd
ReapStep == MainReapDone \/ Flush \/ \E c \in Child : MainReap(c)

Next ==
    ChildStep \/ HandlerStep \/ Command \/ ForkStep \/ WaitStep \/ ReapStep
      \/ Signal

Spec == Init /\ [][Next]_vars

\* The shell goes on with what it has begun, a pending signal is delivered,
\* and every child ends: a stopped one is continued sooner or later.
Fairness ==
    /\ WF_vars(ForkStep \/ WaitStep \/ ReapStep)
    /\ WF_vars(HandlerStep)
    /\ \A c \in Child : WF_vars(ChildEnd(c) \/ ChildContinue(c))

FairSpec == Spec /\ Fairness

-----------------------------------------------------------------------------
(***************************************************************************)
(* Properties.                                                             *)
(***************************************************************************)
SavedStatus == [who : Child, val : Status]

\* Every variable has a value of its type; in particular no saved list
\* outgrows child_max by more than one (job_waitsafe, job_unpost).
TypeOK ==
    /\ proc \in [Child -> {"unborn", "running", "stopped", "zombie", "reaped"}]
    /\ news \in [Child -> {"none", "stop", "cont"}]
    /\ pid \in [Child -> Pid \cup {0}]
    /\ sigchld \in BOOLEAN /\ hand \in BOOLEAN
    /\ stops \in [Child -> 0..MaxStops]
    /\ fails \in 0..MaxFails /\ signals \in 0..MaxSignals
    /\ pwlist \in Seq(Child)
    /\ flag \in [Child -> SUBSET Flag]
    /\ pexit \in [Child -> Status]
    /\ env \in [Child -> 0..MaxEnv]
    /\ bck \in Seq(SavedStatus) /\ Len(bck) <= ChildMax + 1
    /\ lastpid \in Pid \cup {0}
    /\ inCritical \in BOOLEAN /\ savesig \in BOOLEAN
    /\ waitsafe \in BOOLEAN /\ echild \in BOOLEAN
    /\ curenv \in 0..MaxEnv /\ subenv \in 0..MaxEnv
    /\ saved \in Seq([list : Seq(SavedStatus), env : 0..MaxEnv, intrap : BOOLEAN])
    /\ \A k \in DOMAIN saved : Len(saved[k].list) <= ChildMax + 1
    /\ exitval \in Status /\ trapnote \in BOOLEAN /\ intrap \in BOOLEAN
    /\ pc \in Label
    /\ w \in [arg : Pid \cup {0, 1}, intr : BOOLEAN, pw : Child \cup {None}]
    /\ reap \in [block : BOOLEAN, cont : BOOLEAN,
                 ret : {"idle", "fork", "wait", "check", "exitset"}]
    /\ amp \in BOOLEAN /\ px \in Child \cup {None}
    /\ bg \subseteq Child /\ told \subseteq Child
    /\ evicted \subseteq Child /\ erased \subseteq Child

\* The lists on which a status may be saved.
IsKept(c, v) ==
    \E b \in {bck} \cup {saved[k].list : k \in DOMAIN saved} :
      \E i \in DOMAIN b : b[i] = [who |-> c, val |-> v]

\* The status of a background process that has ended is not lost: until the
\* script has waited for it, the true value is in its entry or on a saved
\* list, unless child_max younger ones have pushed it out (the comment above
\* struct jobsave), or job_post has written over the note of its end (lines
\* 991-993, after a failed fork).
StatusKept ==
    \A c \in bg :
      (proc[c] = "reaped" /\ stops[c] = 0) =>
         \/ c \in told \cup evicted \cup erased
         \/ /\ c \in Listed /\ {"DONE", "EXITSAVE"} \subseteq flag[c]
            /\ EntryValue(c) = TrueValue(c)
         \/ IsKept(c, TrueValue(c))

\* A status is given out once: what the wait builtin has returned for a
\* background process is nowhere left for a second wait to find (RELEASE:638).
NoSecondReport ==
    \A c \in bg \cap told :
      /\ c \in Listed => "EXITSAVE" \notin flag[c]
      /\ \A v \in {pexit[c], TrueValue(c)} : ~IsKept(c, v)

\* A process of the shell is in the table from job_post until it has been
\* reaped, so that who reaps it finds its entry; an entry marked done is one
\* whose process has been reaped; and no process has two entries.
TableMatchesKernel ==
    /\ \A c \in Child : Alive(c) =>
         c \in Listed \/ (c = px /\ pc \in {"post", "link"})
    /\ \A c \in Listed : "DONE" \in flag[c] => proc[c] = "reaped"
    /\ IsInjective(pwlist)

\* Between commands an ended process is not left for somebody else's signal
\* to pick up: a SIGCHLD is pending, or the handler runs.
NoStrandedZombie ==
    (pc = "idle" /\ ~hand /\ ~sigchld) =>
       \A c \in Child : proc[c] # "zombie"

\* When job_wait stores the status of a process, it is the status the
\* process has ended with, but for one whose noted end job_post wrote over.
TrueReport ==
    [][\A c \in (told' \ told) \ erased :
          stops[c] = 0 => exitval' = TrueValue(c)]_vars

\* What the script sees of its processes is what StatusReports promises: a
\* status is told once at most, to who asked for that process, and no pid of a
\* background process is unknown to wait before its status is told or child_max
\* and one others have taken its place.
\* Nothing is said of a process that stopped, nor of one whose noted end
\* job_post wrote over.
Life(c) ==
    IF c \in told THEN "told" ELSE IF c \in evicted THEN "lost"
    ELSE [unborn |-> "unborn", running |-> "running", stopped |-> "running",
          zombie |-> "ended", reaped |-> "ended"][proc[c]]
Reports == INSTANCE StatusReports
    WITH Result <- [c \in Child |-> TrueValue(c)], Unknown <- NOENT,
         Room <- ChildMax + 1, Subshells <- (MaxEnv > 0),
         life <- [c \in Child |-> Life(c)], id <- pid, given <- bg,
         unsure <- {c \in Child : stops[c] > 0} \cup erased,
         asked <- w.arg, report <- exitval
IsReports == Reports!ReportsSpec

\* Every call of sh_fork and of job_wait comes back.
CallsReturn == (pc # "idle") ~> (pc = "idle")

\* A foreground command whose process has been reaped leaves its status in
\* sh.exitval when job_wait is through.
ForegroundStatus ==
    (pc = "exitset" /\ ~w.intr /\ w.pw # None /\ stops[w.pw] = 0
       /\ proc[w.pw] = "reaped") => exitval = TrueValue(w.pw)
=============================================================================
