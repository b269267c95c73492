----------------------------- MODULE TimerQueue -----------------------------
(***************************************************************************)
(* What sh_timeradd, timerdel and the SIGALRM handler of                   *)
(* cmd/ksh93/sh/timers.c promise together: a timer runs its action when    *)
(* its time has come and never before, at most once for each of its        *)
(* periods, a one-shot at most once, and never again once it was deleted.  *)
(***************************************************************************)
EXTENDS Integers

CONSTANTS Node, MaxTime

VARIABLES
    clock,  \* the time
    next,   \* when each timer is to run next, at the earliest
    incr,   \* the period of a recurring timer, 0 for a one-shot
    on,     \* the timers that are set
    ran     \* how often the action of each has run

queueVars == <<clock, next, incr, on, ran>>

QueueInit ==
    /\ clock = 0
    /\ next = [n \in Node |-> 0] /\ incr = [n \in Node |-> 0]
    /\ on = {}
    /\ ran = [n \in Node |-> 0]

Pass == clock' = clock + 1 /\ UNCHANGED <<next, incr, on, ran>>

Set(n) ==
    /\ n \notin on
    /\ on' = on \cup {n}
    /\ \E t \in 1..MaxTime, again \in BOOLEAN :
         /\ next' = [next EXCEPT ![n] = clock + t]
         /\ incr' = [incr EXCEPT ![n] = IF again THEN t ELSE 0]
    /\ ran' = [ran EXCEPT ![n] = 0]
    /\ UNCHANGED clock

\* Nothing is kept of a timer that is not set.
Cleared(f, S) == [n \in Node |-> IF n \in S THEN 0 ELSE f[n]]
Without(S) == next' = Cleared(next, S) /\ incr' = Cleared(incr, S)

Cancel(S) ==
    /\ on' = on \ S
    /\ Without(S)
    /\ UNCHANGED <<clock, ran>>

Fire(n) ==
    /\ n \in on
    /\ clock >= next[n]
    /\ IF incr[n] = 0
         THEN on' = on \ {n} /\ Without({n})
         ELSE next' = [next EXCEPT ![n] = @ + incr[n]] /\ UNCHANGED <<on, incr>>
    /\ ran' = [ran EXCEPT ![n] = @ + 1]
    /\ UNCHANGED clock

QueueNext ==
    \/ Pass
    \/ \E n \in Node : Set(n) \/ Fire(n) \/ Cancel({n})
    \/ Cancel(Node)

QueueSpec == QueueInit /\ [][QueueNext]_queueVars
=============================================================================
