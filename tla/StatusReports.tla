---------------------------- MODULE StatusReports ----------------------------
(***************************************************************************)
(* What sh_fork and job_wait (cmd/ksh93/sh/xec.c, jobs.c) promise a script *)
(* together: the status of a process is given out once at most, after its  *)
(* end, to whoever asked for its pid, and it is the true one; it is given  *)
(* up only if Room others are kept instead; and until then nobody who asks *)
(* for the process is told that there is none.  A virtual subshell knows   *)
(* nothing of the processes of its parents.                                *)
(***************************************************************************)
EXTENDS Integers, Functions

CONSTANTS
    Child, Pid,
    Result,     \* Result[c] is what c ends with
    Unknown,    \* the status of no process
    Room,       \* how many statuses are kept
    Subshells   \* does the script use virtual subshells?

VARIABLES
    life,       \* unborn, running, ended, told or lost
    id,         \* the pid of each process
    given,      \* those whose pid the script has
    unsure,     \* those of whose status nothing is said
    asked,      \* the pid that is asked for, 1 for any, 0 for none
    report      \* the status that the script sees

reportVars == <<life, id, given, unsure, asked, report>>

Ended == {c \in Child : life[c] = "ended"}

ReportsInit ==
    /\ life = [c \in Child |-> "unborn"] /\ id = [c \in Child |-> 0]
    /\ given = {} /\ unsure = {} /\ asked = 0 /\ report = 0

\* A process lives: its pid is that of no other one that runs.
Start(c, p) ==
    /\ life[c] = "unborn"
    /\ \A d \in Child : id[d] = p => life[d] # "running"
    /\ life' = [life EXCEPT ![c] = "running"]
    /\ id' = [id EXCEPT ![c] = p]
    /\ UNCHANGED <<given, unsure, asked, report>>

End(c) ==
    /\ life[c] = "running"
    /\ life' = [life EXCEPT ![c] = "ended"]
    /\ UNCHANGED <<id, given, unsure, asked, report>>

\* A process that is stopped, or one that has ended before the script has its
\* pid, may become one of whose status nothing is said.
Doubt(c) ==
    /\ life[c] = "running" \/ (life[c] = "ended" /\ c \notin given)
    /\ unsure' = unsure \cup {c}
    /\ UNCHANGED <<life, id, given, asked, report>>

\* The script gets to know its pid.
Give(c) ==
    /\ life[c] # "unborn"
    /\ given' = given \cup {c}
    /\ UNCHANGED <<life, id, unsure, asked, report>>

\* A process is asked for, or no longer; a new command starts with status 0.
Ask(p) ==
    /\ asked' = p
    /\ report' \in {report, 0}
    /\ UNCHANGED <<life, id, given, unsure>>

Tell(c) ==
    /\ life[c] = "ended" /\ id[c] = asked
    /\ life' = [life EXCEPT ![c] = "told"]
    /\ c \notin unsure => report' = Result[c]
    /\ UNCHANGED <<id, given, unsure, asked>>

\* There is nothing to be told of the process that was asked for.
TellUnknown ==
    /\ \/ Subshells
       \/ \A c \in given \ unsure : id[c] = asked => life[c] \in {"told", "lost"}
    /\ report' = Unknown /\ asked' \in {asked, 0}
    /\ UNCHANGED <<life, id, given, unsure>>

Forget(c) ==
    /\ c \in Ended
    /\ ExistsInjection(1..Room, Ended \ {c})
    /\ life' = [life EXCEPT ![c] = "lost"]
    /\ UNCHANGED <<id, given, unsure, asked, report>>

ReportsNext ==
    \/ \E c \in Child :
         \/ \E p \in Pid : Start(c, p)
         \/ End(c) \/ Doubt(c) \/ Give(c) \/ Tell(c) \/ Forget(c)
    \/ \E p \in Pid \cup {0, 1} : Ask(p)
    \/ TellUnknown

ReportsSpec == ReportsInit /\ [][ReportsNext]_reportVars
=============================================================================
