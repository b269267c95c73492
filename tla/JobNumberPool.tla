---------------------------- MODULE JobNumberPool ----------------------------
(***************************************************************************)
(* What job_alloc and job_free of cmd/ksh93/sh/jobs.c promise together:    *)
(* every new job gets the smallest number that no job has, and once all    *)
(* the numbers are taken it takes over that of a job that is done.  The    *)
(* promise ends when a number outside the pool is spent.                   *)
(***************************************************************************)
EXTENDS Naturals

CONSTANTS Job, Limits, CharBit

VARIABLES
    slots,  \* how many numbers there are: 1..slots
    held,   \* the number of each job, 0 if it has none
    spent   \* has job_alloc run out of numbers?

poolVars == <<slots, held, spent>>

Capacity(limit) == ((limit + CharBit - 1) \div CharBit) * CharBit
Unused == {n \in 1..slots : \A x \in Job : held[x] # n}

PoolInit ==
    /\ slots \in {Capacity(limit) : limit \in Limits}
    /\ held = [x \in Job |-> 0]
    /\ spent = FALSE

Give(x) ==
    /\ held[x] = 0
    /\ \E n \in Unused :
         /\ \A m \in Unused : n <= m
         /\ held' = [held EXCEPT ![x] = n]
    /\ UNCHANGED <<slots, spent>>

TakeOver(x, y) ==
    /\ Unused = {} /\ held[x] = 0
    /\ held' = [held EXCEPT ![y] = 0, ![x] = held[y]]
    /\ UNCHANGED <<slots, spent>>

Return(x) ==
    /\ held' = [held EXCEPT ![x] = 0]
    /\ UNCHANGED <<slots, spent>>

\* A process forked off starts with a pool of its own.
Restart ==
    /\ held' = [x \in Job |-> 0]
    /\ spent' = FALSE
    /\ UNCHANGED slots

RunOut ==
    /\ Unused = {} \/ spent
    /\ spent' = TRUE
    /\ held' \in [Job -> 0..(slots + 1)]
    /\ UNCHANGED slots

PoolNext ==
    \/ \E x \in Job : ~spent /\ (Give(x) \/ Return(x))
    \/ \E x, y \in Job : ~spent /\ TakeOver(x, y)
    \/ Restart \/ RunOut

PoolSpec == PoolInit /\ [][PoolNext]_poolVars
=============================================================================
