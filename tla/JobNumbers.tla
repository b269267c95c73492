----------------------------- MODULE JobNumbers -----------------------------
(***************************************************************************)
(* The numbers of jobs (cmd/ksh93/sh/jobs.c): job_alloc and job_free on    *)
(* the bit vector job.freejobs, as job_post, job_unpost and job_wait use   *)
(* them.  A job is a unit here, and it has ended when all its processes    *)
(* are done; module Jobs has the processes and their statuses.             *)
(*                                                                         *)
(* The vector has one word more than its numbers need, and job_alloc's     *)
(* first loop relies on that word being 0 (job_clear).                     *)
(***************************************************************************)
EXTENDS Integers, SequencesExt

CONSTANTS
    Job,        \* the jobs; one may be posted again after it was unposted
    None,       \* no job
    CharBit,    \* CHAR_BIT
    Limits      \* what sysconf may say of child_max

ASSUME JobAssumption == None \notin Job
ASSUME NumberAssumption ==
    CharBit \in Nat \ {0} /\ Limits \subseteq Nat \ {0}

VARIABLES
    childMax,   \* sh.lim.child_max
    freejobs,   \* job.freejobs: the bits of each word that are set
    list,       \* job.pwlist: the jobs posted, newest first
    num,        \* p_job, 0 for a job that is not posted
    life,       \* "running", "noted" (done, P_NOTIFY set, p_env 0) or "done"
    posting,    \* the job for which job_post has found no number yet
    at,         \* the job at which the last loop of job_wait is
    overrun     \* history: job_alloc's last loop has run off its word

pointers == <<posting, at>>
vars == <<childMax, freejobs, list, num, life, pointers, overrun>>

Words == (childMax + CharBit - 1) \div CharBit      \* BYTE(child_max)
Slots == Words * CharBit
Bits == 0..(CharBit - 1)
Listed == Range(list)
Idle == posting = None /\ at = None

Start ==
    /\ freejobs = [j \in 0..Words |-> {}]
    /\ list = <<>>
    /\ num = [x \in Job |-> 0] /\ life = [x \in Job |-> "done"]
    /\ posting = None /\ at = None
    /\ overrun = FALSE
Init == childMax \in Limits /\ Start

-----------------------------------------------------------------------------
(***************************************************************************)
(* job_free and job_unpost.                                                *)
(***************************************************************************)
FreedNext(fb, n) == [fb EXCEPT ![n \div CharBit] = @ \ {n % CharBit}]  \* mutant
Freed(fb, n) == [fb EXCEPT ![(n - 1) \div CharBit] = @ \ {(n - 1) % CharBit}]

\* job_byjid finds the first job with this number.
IsJob(i, n) ==
    /\ i \in DOMAIN list
    /\ num[list[i]] = n
    /\ \A k \in 1..(i - 1) : num[list[k]] # n

Ended(x, notify) == life[x] = "done" \/ (notify /\ life[x] = "noted")

\* Some job of number n can be unposted without a look at P_NOTIFY.
CanGo(n) == \E i \in DOMAIN list : IsJob(i, n) /\ Ended(list[i], FALSE)

\* job_unpost of x: it is the first job with the number of x that goes.
Unpost(x, notify) ==
    \E i \in DOMAIN list :
      /\ IsJob(i, num[x])
      /\ IF Ended(list[i], notify)
           THEN /\ list' = RemoveAt(list, i)
                /\ freejobs' = Freed(freejobs, num[x])
                /\ num' = [num EXCEPT ![list[i]] = 0]
                /\ life' = [life EXCEPT ![list[i]] = "done"]
           ELSE UNCHANGED <<list, freejobs, num, life>>

-----------------------------------------------------------------------------
(***************************************************************************)
(* job_alloc and job_post.                                                 *)
(***************************************************************************)
\* The first loop stops at the first word that is not full; it is past the
\* numbers when all of them are taken (j >= jmax).
FirstWord(j) ==
    j \in 0..Words /\ freejobs[j] # Bits /\ \A k \in 0..(j - 1) : freejobs[k] = Bits
InTableLate(j) == j <= Words                         \* mutant of InTable
InTable(j) == j < Words

\* The mask moves to the first bit of the word that is not set, and past the
\* end of a full word.
AnyBit(word, m) == m \in 0..CharBit /\ m \notin word    \* mutant of FirstBit
FirstBit(word, m) ==
    /\ m \in 0..CharBit /\ m \notin word
    /\ \A k \in 0..(m - 1) : k \in word

\* The bit that the mask sets: none past the end of the word.
SetWide(word, m) == word \cup {m}                        \* mutant of Set
Set(word, m) == word \cup ({m} \cap Bits)

\* The number that job_alloc takes for x from word j.
Take(fb, nm, j, x) ==
    \E m \in 0..CharBit :
      /\ FirstBit(fb[j], m)
      /\ freejobs' = [fb EXCEPT ![j] = Set(@, m)]
      /\ num' = [nm EXCEPT ![x] = j * CharBit + m + 1]
      /\ overrun' = (overrun \/ m = CharBit)

Link(x, rest) ==
    /\ list' = <<x>> \o rest
    /\ life' = [life EXCEPT ![x] = "running"]
    /\ posting' = None
    /\ UNCHANGED <<childMax, at>>

\* job_post comes here once, and again each time job_wait(1) is back.
Posting(x) == at = None /\ (posting = x \/ (posting = None /\ x \notin Listed))

AllocFree(x) ==
    /\ Posting(x)
    /\ \E j \in 0..Words :
         FirstWord(j) /\ InTable(j) /\ Take(freejobs, num, j, x)
    /\ Link(x, list)

\* All are taken: of the jobs that can go the one with the smallest number
\* makes room, and the word is computed from that number.
AllocFull(x) ==
    /\ Posting(x)
    /\ \E j \in 0..Words : FirstWord(j) /\ ~InTable(j)
    /\ \E n \in 1..(childMax - 1), i \in DOMAIN list :
         /\ CanGo(n) /\ \A m \in 1..(n - 1) : ~CanGo(m)
         /\ IsJob(i, n)
         /\ Take(Freed(freejobs, n), [num EXCEPT ![list[i]] = 0],
                 n \div CharBit, x)
         /\ Link(x, RemoveAt(list, i))

\* No job can go: the search has ended with j = child_max.
NoneGoes(x) ==
    /\ Posting(x)
    /\ \E j \in 0..Words : FirstWord(j) /\ ~InTable(j)
    /\ \A n \in 1..(childMax - 1) : ~CanGo(n)

AllocLast(x) ==
    /\ NoneGoes(x) /\ childMax \div CharBit < Words
    /\ Take(freejobs, num, childMax \div CharBit, x)
    /\ Link(x, list)

AllocFails(x) ==
    /\ NoneGoes(x) /\ childMax \div CharBit >= Words
    /\ posting' = x
    /\ UNCHANGED <<childMax, freejobs, list, num, life, at, overrun>>

-----------------------------------------------------------------------------
(***************************************************************************)
(* The life of a job.                                                      *)
(***************************************************************************)
\* job_waitsafe: the last process of a job is done.  P_NOTIFY is set with the
\* monitor option only, and it does not hold up a job of a virtual subshell.
End(x) ==
    /\ x \in Listed /\ life[x] = "running"
    /\ \E l \in {"noted", "done"} : life' = [life EXCEPT ![x] = l]
    /\ UNCHANGED <<childMax, freejobs, list, num, pointers, overrun>>

\* job_list has reported it.
Report(x) ==
    /\ Idle /\ x \in Listed /\ life[x] = "noted"
    /\ life' = [life EXCEPT ![x] = "done"]
    /\ UNCHANGED <<childMax, freejobs, list, num, pointers, overrun>>

\* job_wait has waited for x.  The loop over all jobs follows, except in a
\* trap.
Wait(x) ==
    /\ Idle /\ x \in Listed /\ Ended(x, TRUE)
    /\ Unpost(x, TRUE)
    /\ at' \in {None} \cup {list'[i] : i \in DOMAIN list' \cap {1}}
    /\ UNCHANGED <<childMax, posting, overrun>>

\* job_wait(0) is that loop alone.
WaitNone ==
    /\ Idle /\ list # <<>>
    /\ at' = Head(list)
    /\ UNCHANGED <<childMax, freejobs, list, num, life, posting, overrun>>

UnpostNext ==
    /\ at # None
    /\ \E i \in DOMAIN list :
         /\ list[i] = at
         /\ at' = IF i = Len(list) THEN None ELSE list[i + 1]
    /\ Unpost(at, FALSE)
    /\ UNCHANGED <<childMax, posting, overrun>>

\* job_clear: the child that has been forked goes on with an empty table.
Clear ==
    /\ Idle
    /\ freejobs' = [j \in 0..Words |-> {}]
    /\ list' = <<>>
    /\ num' = [x \in Job |-> 0] /\ life' = [x \in Job |-> "done"]
    /\ overrun' = FALSE
    /\ UNCHANGED <<childMax, pointers>>

Next ==
    \/ \E x \in Job :
         \/ AllocFree(x) \/ AllocFull(x) \/ AllocLast(x) \/ AllocFails(x)
         \/ End(x) \/ Report(x) \/ Wait(x)
    \/ WaitNone \/ UnpostNext \/ Clear

Spec == Init /\ [][Next]_vars

-----------------------------------------------------------------------------
\* The types: bits stay within a word of the vector, numbers within the table.
TypeOK ==
    /\ childMax \in Limits
    /\ freejobs \in [0..Words -> SUBSET Bits]
    /\ list \in Seq(Job) /\ IsInjective(list)
    /\ num \in [Job -> 0..(Slots + 1)]
    /\ life \in [Job -> {"running", "noted", "done"}]
    /\ posting \in Job \cup {None} /\ at \in Listed \cup {None}
    /\ overrun \in BOOLEAN

\* No bit of the extra word is ever set, so that job_alloc's first loop stops
\* inside the vector, however full it is.
LoopStops == freejobs[Words] = {}

\* The vector fb is right about the numbers nm of the jobs in L: no two of
\* them have the same number, and the bits set are those of their numbers.
Exact(fb, nm, L) ==
    /\ \A x, y \in L : nm[x] = nm[y] => x = y
    /\ \A x \in L : nm[x] \in 1..Slots
    /\ \A j \in 0..(Words - 1), m \in Bits :
         m \in fb[j] <=> \E x \in L : nm[x] = j * CharBit + m + 1

\* "0 is unused": freejobs is right until job_alloc runs off the end of a
\* word.
NumbersExact == ~overrun => Exact(freejobs, num, Listed)

\* job_alloc is to "get an unused job number" (jobs.c:1416).
UnusedNumber == \A x, y \in Listed : num[x] = num[y] => x = y

Pool == INSTANCE JobNumberPool WITH
    slots <- Slots,
    held <- num,
    spent <- overrun

\* job_alloc and job_free implement the pool of smallest unused numbers.
IsPool == Pool!PoolSpec
=============================================================================
