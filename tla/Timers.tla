------------------------------- MODULE Timers -------------------------------
(***************************************************************************)
(* The timers of the shell (cmd/ksh93/sh/timers.c): one SIGALRM and one    *)
(* interval timer of the kernel serve all of sleep, read -t, TMOUT, the    *)
(* alarm builtin, the history file and the retries of fork.                *)
(*                                                                         *)
(* The handler sigalrm may come between any two steps, and runs the action *)
(* of a timer with its own guard lifted, so that an action may add and     *)
(* delete timers, may be interrupted by another sigalrm, and may leave by  *)
(* a longjmp.  pc is where the code that runs now stands; stack holds what *)
(* it has interrupted or was called by.                                    *)
(***************************************************************************)
EXTENDS Integers, SequencesExt

CONSTANTS
    Node,       \* the addresses that malloc gives to a Timer_t
    None,
    Client,     \* the variables of callers that keep what sh_timeradd returns
    Interval,   \* the times a caller may ask for
    MaxTime,    \* bound: the clock stops there
    MaxDepth    \* bound: how many frames may be suspended; one more for the
                \* sigalrm that sh_timeradd calls

ASSUME TimerAssumption ==
    /\ None \notin Node /\ None \notin Client
    /\ MaxTime \in Nat /\ MaxDepth \in Nat
    /\ Interval \subseteq 1..MaxTime

VARIABLES
    clock,      \* what getnow returns
    itimer,     \* when the kernel's timer will expire, 0 if it is off
    pending,    \* is a SIGALRM pending?
    list,       \* the chain from tptop
    wakeup, incr, live, client,     \* the fields of a Timer_t; live: action # 0
    tpmin,
    inAdd, inAlrm, deferred,        \* the bits of time_state
    left,                           \* sigalrm's static variable
    pc, now, tp, who, told,         \* the code that runs: its place and locals
    stack,                          \* the frames under it
    handle,     \* what each client believes to be its timer
    next, ran, hole     \* history: see the properties

time == <<clock, itimer, pending>>
fields == <<wakeup, incr, live, client>>
state == <<inAdd, inAlrm, deferred, left>>
local == <<now, tp, who, told>>
history == <<next, ran, hole>>
vars == <<time, list, fields, tpmin, state, pc, local, stack, handle, history>>

Idle == "idle"
Label == {Idle, "min", "unlock", "test", "call", "made", "back", "del",
          "off", "scan", "arm", "armed", "again", "less", "run", "once", "each",
          "leave", "acting"}

Init ==
    /\ clock = 0 /\ itimer = 0 /\ pending = FALSE
    /\ list = <<>>
    /\ wakeup = [n \in Node |-> 0] /\ incr = [n \in Node |-> 0]
    /\ live = [n \in Node |-> FALSE] /\ client = [n \in Node |-> None]
    /\ tpmin = None
    /\ inAdd = FALSE /\ inAlrm = FALSE /\ deferred = FALSE /\ left = 0
    /\ pc = Idle /\ now = 0 /\ tp = None /\ who = None /\ told = 0
    /\ stack = <<>>
    /\ handle = [c \in Client |-> None]
    /\ next = [n \in Node |-> 0] /\ ran = [n \in Node |-> 0] /\ hole = FALSE

Listed == Range(list)
Live(n) == n \in Listed /\ live[n]

\* Code that may call the functions below: the main program, and an action
\* (trap_timeout runs the functions of the script while the shell reads).
Calling == pc \in {Idle, "acting"}

Frame == [pc |-> pc, tp |-> tp, who |-> who]
Push == Len(stack) < MaxDepth /\ stack' = <<Frame>> \o stack
Pop ==
    /\ pc' = Head(stack).pc /\ tp' = Head(stack).tp /\ who' = Head(stack).who
    /\ now' = 0 /\ told' = 0
    /\ stack' = Tail(stack)

Goto(label) == pc' = label /\ UNCHANGED <<local, stack>>

-----------------------------------------------------------------------------
(***************************************************************************)
(* The clock and the kernel's timer; setalarm sets it t from now, which    *)
(* may be later than the caller's idea of now.                             *)
(***************************************************************************)
Tick ==
    /\ clock < MaxTime
    /\ itimer = 0 \/ clock < itimer
    /\ clock' = clock + 1
    /\ UNCHANGED <<itimer, pending, list, fields, tpmin, state, pc, local,
                   stack, handle, history>>

Expire ==
    /\ itimer # 0 /\ clock >= itimer
    /\ itimer' = 0 /\ pending' = TRUE
    /\ UNCHANGED <<clock, list, fields, tpmin, state, pc, local, stack, handle,
                   history>>

\* kill -ALRM from anywhere.
Stray ==
    /\ pending' = TRUE
    /\ UNCHANGED <<clock, itimer, list, fields, tpmin, state, pc, local, stack,
                   handle, history>>

Remaining == IF itimer = 0 \/ itimer <= clock THEN 0 ELSE itimer - clock

-----------------------------------------------------------------------------
(***************************************************************************)
(* sigalrm.                                                                *)
(***************************************************************************)
Enter == left' = 0 /\ inAlrm' = TRUE /\ UNCHANGED <<inAdd, deferred>>

AtScan ==
    /\ Push
    /\ pc' = "scan" /\ now' = 0 /\ tp' = None /\ who' = None /\ told' = 0

\* The signal finds time_state 0.
Signal ==
    /\ pending
    /\ ~inAdd /\ ~inAlrm /\ ~deferred
    /\ pending' = FALSE
    /\ Enter /\ AtScan
    /\ UNCHANGED <<clock, itimer, list, fields, tpmin, handle, history>>

\* It finds a bit of time_state set: it is put off for sh_timeradd and
\* forgotten for sigalrm, except that left is 0 now.  That is too late after
\* the last look of the handler, and while it has set the kernel's timer but
\* not left, which it believes then, or turns the timer off with that 0.
Unseen == pc \in {"leave", "less"} \/ (pc \in {"armed", "again"} /\ itimer = 0)
DeferralLost == UNCHANGED deferred
Deferral == deferred' = (deferred \/ inAdd)
Swallow ==
    /\ pending
    /\ inAdd \/ inAlrm \/ deferred
    /\ pending' = FALSE
    /\ left' = 0 /\ Deferral
    /\ hole' = (hole \/ Unseen)
    /\ UNCHANGED <<clock, itimer, list, fields, tpmin, inAdd, inAlrm, pc, local,
                   stack, handle, next, ran>>

\* tp->wakeup is smallest in S, and tp is the first on the list that is.
Before(n, m) ==
    \E i \in DOMAIN list, j \in DOMAIN list : i <= j /\ list[i] = n /\ list[j] = m
Soonest(n, S) ==
    /\ n \in S
    /\ \A m \in S : wakeup[n] < wakeup[m] \/ (wakeup[n] = wakeup[m] /\ Before(n, m))

Due == {n \in Listed : live[n] /\ wakeup[n] <= clock}
Later == {n \in Listed : live[n] /\ wakeup[n] > clock}

\* The walk, before which tpmin is 0, frees the timers that were deleted; what
\* is in a freed node is nobody's.
Forget(n) ==
    /\ wakeup' = [wakeup EXCEPT ![n] = 0] /\ incr' = [incr EXCEPT ![n] = 0]
    /\ client' = [client EXCEPT ![n] = None] /\ next' = [next EXCEPT ![n] = 0]

Free ==
    /\ pc = "scan"
    /\ \E i \in DOMAIN list :
         /\ ~live[list[i]] /\ \A j \in 1..(i - 1) : live[list[j]]
         /\ list' = RemoveAt(list, i)
         /\ Forget(list[i])
    /\ tpmin' = None
    /\ UNCHANGED <<time, live, state, pc, local, stack, handle, ran, hole>>

\* A recurring timer is put off until after now.
Advance(n) ==
    \E k \in 1..MaxTime :
      /\ wakeup[n] + k * incr[n] > clock /\ wakeup[n] + (k - 1) * incr[n] <= clock
      /\ wakeup' = [wakeup EXCEPT ![n] = @ + k * incr[n]]

\* getnow, and what the walk finds among the other timers: one that is due
\* (tp), and the next one (tpmin).
Scan ==
    /\ pc = "scan" /\ \A n \in Listed : live[n]
    /\ now' = clock
    /\ IF Due = {} THEN tp' = None ELSE \E n \in Due : Soonest(n, Due) /\ tp' = n
    /\ IF tp' # None /\ incr[tp'] > 0 THEN Advance(tp') ELSE UNCHANGED wakeup
    /\ \E m \in Later \cup {None} :
         /\ Later = {} => m = None
         /\ Later # {} => Soonest(m, Later)
         /\ tpmin' = IF /\ tp' # None /\ incr[tp'] > 0
                        /\ m = None \/ wakeup[m] > wakeup'[tp']
                       THEN tp' ELSE m
    /\ pc' = "arm"
    /\ UNCHANGED <<time, list, incr, live, client, state, who, told, stack, handle,
                   history>>

\* The kernel's timer is set for tpmin, unless it was on for an earlier time;
\* setitimer tells when it would have expired.
ToBeArmed == tpmin # None /\ (left = 0 \/ (tp # None /\ wakeup[tpmin] < now + left))
Onward == IF tp # None THEN "run" ELSE "leave"
Arm ==
    /\ pc = "arm"
    /\ IF ToBeArmed
         THEN /\ told' = Remaining /\ itimer' = clock + (wakeup[tpmin] - now)
              /\ pc' = "armed"
         ELSE /\ pc' = Onward /\ UNCHANGED <<told, itimer>>
    /\ hole' = (hole /\ ~ToBeArmed /\ (tp # None \/ tpmin # None))
    /\ UNCHANGED <<clock, pending, list, fields, tpmin, state, now, tp, who, stack,
                   handle, next, ran>>

\* left is static: a SIGALRM that comes before the store or between the uses
\* sets it to 0.
Store ==
    /\ pc = "armed"
    /\ left' = told /\ told' = 0
    /\ pc' = "again"
    /\ UNCHANGED <<time, list, fields, tpmin, inAdd, inAlrm, deferred, now, tp, who,
                   stack, handle, history>>

Compare ==
    /\ pc = "again"
    /\ IF left > 0 /\ now + left < wakeup[tpmin]
         THEN Goto("less") /\ UNCHANGED left
         ELSE Goto(Onward) /\ left' = wakeup[tpmin] - now
    /\ UNCHANGED <<time, list, fields, tpmin, inAdd, inAlrm, deferred, handle, history>>

\* It is set back to the earlier time.
Rearm ==
    /\ pc = "less"
    /\ itimer' = IF left = 0 THEN 0 ELSE clock + left
    /\ Goto(Onward)
    /\ UNCHANGED <<clock, pending, list, fields, tpmin, state, handle, history>>

\* A one-shot is over before its action is called.
OverLater == UNCHANGED live
Over == live' = [live EXCEPT ![tp] = @ /\ incr[tp] > 0]
Run ==
    /\ pc = "run"
    /\ Over
    /\ inAlrm' = FALSE
    /\ ran' = [ran EXCEPT ![tp] = @ + 1]
    /\ next' = [next EXCEPT ![tp] = @ + incr[tp]]
    /\ Goto(IF incr[tp] = 0 THEN "once" ELSE "each")
    /\ UNCHANGED <<time, list, wakeup, incr, client, tpmin, inAdd, deferred, left,
                   handle, hole>>

\* The action is called with what the node holds now.  Another sigalrm may
\* have freed it: then it may hold anything, or be a timer of another client.
\* The action of a one-shot tells the caller (timeout = 0, expired = 1).
Held == IF client[tp] = None THEN Client \cup {None} ELSE {client[tp]}
Act ==
    /\ pc \in {"once", "each"}
    /\ \E c \in Held :
         handle' = [d \in Client |-> IF d = c /\ pc = "once" THEN None ELSE handle[d]]
    /\ pc' = "acting" /\ tp' = None /\ now' = 0
    /\ UNCHANGED <<time, list, fields, tpmin, state, who, told, stack, history>>

Return ==
    /\ pc = "acting"
    /\ inAlrm' = TRUE
    /\ Goto("scan")
    /\ UNCHANGED <<time, list, fields, tpmin, inAdd, deferred, left, handle,
                   history>>

\* The action of read -t calls sh_exit, and so may a function of the script.
Jump ==
    /\ pc = "acting"
    /\ pc' = Idle /\ stack' = <<>>
    /\ hole' = TRUE
    /\ UNCHANGED <<time, list, fields, tpmin, state, local, handle, next, ran>>

Leave ==
    /\ pc = "leave"
    /\ inAlrm' = FALSE
    /\ Pop
    /\ UNCHANGED <<time, list, fields, tpmin, inAdd, deferred, left, handle,
                   history>>

-----------------------------------------------------------------------------
(***************************************************************************)
(* sh_timeradd.  SIGALRM is deferred from the link to "unlock".            *)
(***************************************************************************)
Add(c) ==
    /\ Calling /\ handle[c] = None
    /\ Push
    /\ \E n \in Node \ Listed, t \in Interval, again \in BOOLEAN :
         /\ wakeup' = [wakeup EXCEPT ![n] = clock + t]
         /\ incr' = [incr EXCEPT ![n] = IF again THEN t ELSE 0]
         /\ live' = [live EXCEPT ![n] = TRUE]
         /\ client' = [client EXCEPT ![n] = c]
         /\ list' = <<n>> \o list
         /\ next' = [next EXCEPT ![n] = clock + t]
         /\ ran' = [ran EXCEPT ![n] = 0]
         /\ tp' = n
    /\ inAdd' = TRUE
    /\ pc' = "min" /\ who' = c /\ now' = clock /\ told' = 0
    /\ UNCHANGED <<time, tpmin, inAlrm, deferred, left, handle, hole>>

\* The new timer is the next one, or the next one was deleted, so that the
\* kernel's timer cannot be relied on.
IsNext == tpmin = None \/ wakeup[tp] < wakeup[tpmin]
\* SetMin as it would be if setalarm took the time of day.
SetMinAbsolute ==
    /\ pc = "min"
    /\ IF IsNext
         THEN /\ tpmin' = tp
              /\ itimer' = clock + wakeup[tp]
              /\ UNCHANGED deferred
         ELSE /\ deferred' = (deferred \/ ~live[tpmin])
              /\ UNCHANGED <<tpmin, itimer>>
    /\ Goto("unlock")
    /\ UNCHANGED <<clock, pending, list, fields, inAdd, inAlrm, left, handle,
                   history>>
SetMin ==
    /\ pc = "min"
    /\ IF IsNext
         THEN /\ tpmin' = tp
              /\ itimer' = clock + (wakeup[tp] - now)
              /\ UNCHANGED deferred
         ELSE /\ deferred' = (deferred \/ ~live[tpmin])
              /\ UNCHANGED <<tpmin, itimer>>
    /\ Goto("unlock")
    /\ UNCHANGED <<clock, pending, list, fields, inAdd, inAlrm, left, handle,
                   history>>

Unlock ==
    /\ pc = "unlock"
    /\ inAdd' = FALSE
    /\ Goto("test")
    /\ UNCHANGED <<time, list, fields, tpmin, inAlrm, deferred, left, handle,
                   history>>

\* Is there a signal to be made up for?
Test ==
    /\ pc = "test"
    /\ IF deferred
         THEN inAdd' = FALSE /\ inAlrm' = FALSE /\ deferred' = FALSE /\ Goto("call")
         ELSE Goto("back") /\ UNCHANGED <<inAdd, inAlrm, deferred>>
    /\ UNCHANGED <<time, list, fields, tpmin, left, handle, history>>

\* sigalrm is called; its return is to "made".
CallHandler ==
    /\ pc = "call"
    /\ Enter
    /\ Len(stack) <= MaxDepth
    /\ stack' = <<[Frame EXCEPT !.pc = "made"]>> \o stack
    /\ pc' = "scan" /\ now' = 0 /\ tp' = None /\ who' = None /\ told' = 0
    /\ UNCHANGED <<time, list, fields, tpmin, handle, history>>

\* A caller gets the timer, or nothing if others were added meanwhile.
Given == IF pc = "made" /\ list # <<>> /\ Head(list) # tp THEN None
         ELSE IF pc = "made" /\ list = <<>> THEN None ELSE tp
Back ==
    /\ pc \in {"made", "back"}
    /\ handle' = [handle EXCEPT ![who] = Given]
    /\ Pop
    /\ UNCHANGED <<time, list, fields, tpmin, state, history>>

-----------------------------------------------------------------------------
(***************************************************************************)
(* timerdel: of the timer that a caller looks up in its variable first,   *)
(* and of all timers (in a process that was forked off or will exec).      *)
(***************************************************************************)
Look(c) ==
    /\ Calling /\ handle[c] # None
    /\ Push
    /\ pc' = "del" /\ tp' = handle[c] /\ who' = c /\ now' = 0 /\ told' = 0
    /\ UNCHANGED <<time, list, fields, tpmin, state, handle, history>>

\* Delete as it would be if timerdel unlinked and freed its timer.
DeleteNow ==
    /\ pc = "del"
    /\ live' = IF tp \in Listed THEN [live EXCEPT ![tp] = FALSE] ELSE live
    /\ list' = Remove(list, tp)
    /\ handle' = [handle EXCEPT ![who] = None]
    /\ Pop
    /\ UNCHANGED <<time, wakeup, incr, client, tpmin, state, history>>
Delete ==
    /\ pc = "del"
    /\ live' = IF tp \in Listed THEN [live EXCEPT ![tp] = FALSE] ELSE live
    /\ handle' = [handle EXCEPT ![who] = None]
    /\ Pop
    /\ UNCHANGED <<time, list, wakeup, incr, client, tpmin, state, history>>

DeleteAll ==
    /\ Calling
    /\ Push
    /\ live' = [n \in Node |-> FALSE]
    /\ pc' = "off" /\ UNCHANGED local
    /\ UNCHANGED <<time, list, wakeup, incr, client, tpmin, state, handle, history>>

AllOff ==
    /\ pc = "off"
    /\ tpmin' = None
    /\ itimer' = IF tpmin # None THEN 0 ELSE itimer
    /\ Pop
    /\ UNCHANGED <<clock, pending, list, fields, state, handle, history>>

-----------------------------------------------------------------------------
Next ==
    \/ Tick \/ Expire \/ Stray
    \/ Signal \/ Swallow \/ Free \/ Scan \/ Arm \/ Store \/ Compare \/ Rearm
    \/ Run \/ Act \/ Return \/ Jump \/ Leave
    \/ \E c \in Client : Add(c) \/ Look(c)
    \/ SetMin \/ Unlock \/ Test \/ CallHandler \/ Back
    \/ Delete \/ DeleteAll \/ AllOff

Spec == Init /\ [][Next]_vars

-----------------------------------------------------------------------------
KernelType ==
    clock \in 0..MaxTime /\ itimer \in 0..(2 * MaxTime) /\ pending \in BOOLEAN
NodeType ==
    /\ list \in Seq(Node) /\ tpmin \in Node \cup {None}
    /\ wakeup \in [Node -> Nat] /\ incr \in [Node -> {0} \cup Interval]
    /\ live \in [Node -> BOOLEAN] /\ client \in [Node -> Client \cup {None}]
    /\ next \in [Node -> Nat] /\ ran \in [Node -> Nat]
FlagType ==
    /\ inAdd \in BOOLEAN /\ inAlrm \in BOOLEAN /\ deferred \in BOOLEAN
    /\ left \in Nat /\ hole \in BOOLEAN
CodeType ==
    /\ pc \in Label /\ now \in 0..clock /\ told \in Nat
    /\ tp \in Node \cup {None} /\ who \in Client \cup {None}
    /\ stack \in Seq([pc : Label, tp : Node \cup {None}, who : Client \cup {None}])
    /\ handle \in [Client -> Node \cup {None}]

\* The types; the kernel's timer is never set further ahead than a caller asked.
TypeOK == KernelType /\ NodeType /\ FlagType /\ CodeType

\* A node is on the list once, and tpmin, which outlives every walk and every
\* timerdel, never points to a node that was freed.
ListSound ==
    /\ IsInjective(list)
    /\ tpmin # None => tpmin \in Listed

\* Whenever a timer is set and none of the functions runs, the kernel's timer
\* is on or its signal has come, so that the timer will get its turn.  The
\* exceptions (hole) are a SIGALRM that comes after the handler's last look,
\* one whose left = 0 is overwritten or used (Unseen), and an action that
\* leaves by a longjmp; they last until sigalrm sets the kernel's timer again.
Quiet == stack = <<>> /\ pc = Idle
AlarmArmed ==
    (Quiet /\ ~hole /\ \E n \in Node : Live(n)) => (itimer # 0 \/ pending)

\* The timers keep the promise of TimerQueue, which forgets a timer when it is
\* deleted and not when its node is freed.
Kept(f) == [n \in Node |-> IF live[n] THEN f[n] ELSE 0]
Queue == INSTANCE TimerQueue
    WITH next <- Kept(next), incr <- Kept(incr), on <- {n \in Node : live[n]}
IsQueue == Queue!QueueSpec
=============================================================================
