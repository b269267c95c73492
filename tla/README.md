# Formal model of ksh93: jobs, timers, traps and the shared history

A TLA+ verification of the parts of AT&T ksh93 where signals, processes, other
shells and the main program meet. Paths below are relative to `src/src/cmd/ksh93/` unless
they start with `lib`. TLC checks small instances, TLAPS proves theorems for
every value of the constants.

    tlc -workers 2 -config JobsScript.cfg MCJobs       # a run
    tlapm JobsProof.tla                                # the proofs of a module

## 1. The system

ksh93 is one process with one thread. What makes it hard is that its state is
also written by signal handlers, which run between any two instructions, and
that the kernel changes its children whenever it likes.

| component | state | operations | hard behaviour |
|---|---|---|---|
| job table (`sh/jobs.c`) | list of posted processes with flags and exit values, list of saved statuses, `lastpid`, `job.in_critical`, `savesig`, `job.waitsafe` | `job_waitsafe` (SIGCHLD handler, also called directly), `job_post`, `job_wait`, `job_unpost`, `job_chksave`, `job_subsave`, `job_subrestore` | handler against main program; a process that ends before it is posted; lost wakeups; pids used again |
| job numbers (`sh/jobs.c`) | the bit vector `job.freejobs`, `p_job` | `job_alloc`, `job_free` | a full table, word boundaries |
| job control (`sh/jobs.c`, monitor option) | process groups, `job.curpgid`, terminal owner, notification flags | `fg`, `bg`, `kill`, `jobs`, `job_switch`, `job_list`, `job_unstop` | stops and continuations, jobs of several processes, `pipefail` |
| executor (`sh/xec.c`) | the syntax tree being run, `sh.exitval` | `sh_exec`, `sh_fork`, `_sh_fork`, pipelines, co-processes | failing forks and their retry; order of redirection, fork, wait |
| virtual subshells (`sh/subshell.c`) | `sh.curenv`, saved scopes, saved job statuses, saved descriptors | `sh_subshell`, `sh_subfork`, `sh_subtmpfile` | state of the enclosing shell changed from inside |
| traps and faults (`sh/fault.c`, `bltins/trap.c`, `sh_funscope` of `sh/xec.c`) | `sh.trapnote`, `sh.sigflag[]`, trap table, `sh.jmplist` | `sh_fault`, `sh_chktrap`, `sh_trap`, `sh_exit`, `sh_sigtrap`, `sh_sigreset`, `sh_sigclear` | signals that coalesce, traps inside traps, jumps out of functions, SIGTERM between fork and exec |
| timers (`sh/timers.c`, `bltins/alarm.c`, `bltins/sleep.c`) | list of timers, `time_state`, list of alarms | `sigalrm`, `sh_timeradd`, `timerdel`, `sh_timetraps` | re-entrant handler, deletion while the list is walked |
| redirection (`sh/io.c`) | `filemap`, `sh.fdptrs`, `sh.fdstatus`, stream table | `sh_redirect`, `sh_iosave`, `sh_iorestore`, `sh_iomovefd` | undoing in the right order, tables that move |
| co-processes (`sh/xec.c`, `sh/io.c`) | `sh.cpid`, `sh.cpipe`, `sh.coutpipe` | `coproc_init`, `print -p`, `read -p` | the handler closes the pipes |
| history (`edit/history.c`) | the file; each shell's table of offsets, `histind`, `histcnt`, `histmarker` | `sh_histinit`, `hist_eof`, `hist_flush`, `hist_cancel`, `hist_trim`, `hist_touch` | several shells write one file, and one may replace it |
| variables (`sh/name.c`, `sh/array.c`) | trees of scopes | `nv_open`, `nv_scope`, `nv_restore` | shared or copied scopes |
| lexer, parser, macro, arithmetic, path, editors, builtins | text | | sequential; data rather than control |
| libast: sfio, cdt, vmalloc, stk, proc*, sigcrit; libcmd, libdll, INIT | streams, dictionaries, storage | | pools and locks of streams, views, nesting of critical regions |

How they interact: the executor calls `sh_fork`, which opens the critical
region (`job.in_critical = 1`), forks, and lets `job_post` enter the process
and close the region; then it calls `job_wait` for a foreground command. The
`wait` builtin, `jobs` and the ends of pipelines call `job_wait` too. SIGCHLD
runs `job_waitsafe` between any two steps of all of these; inside the region
it only sets `savesig`, and whoever closes the region calls `job_waitsafe`.
`sh_subshell` exchanges the list of saved statuses around its body. `job_post`
takes a number from `job_alloc`, `job_unpost` gives it back.

What makes each component correct:

- job table: no exit status is lost, told twice or told of the wrong process;
  the table agrees with the kernel about who lives; every wait comes back;
- job numbers: all posted jobs have different numbers, the smallest free one
  is used, the scan of the vector ends;
- job control: one job owns the terminal, a stopped job is not forgotten, the
  members of a pipeline are one job;
- subshells: after it the enclosing shell is as before;
- traps: an action runs only for a signal that came, and once; a function's traps
  are its own, and its caller's are back afterwards, whatever way it ended;
- timers: a timer that is due fires once per period, a deleted one never, no node
  is used after it was freed, and the kernel's one timer is on when it is needed;
- redirection: after a command the descriptors are what they were before it;
- co-processes: a descriptor is closed once and by its owner;
- history: a number means the same command in every shell, and all of them write
  to the file that `HISTFILE` names, also after a trim.

`PROJECT.json` lists all components, and under "hazards" the places of the code
that are hard to test, with the property that covers each.

## 2. The plan

Written (in this order, the most important first):

1. `Jobs`: the table of a non-interactive shell, with the kernel's children, the
   handler, fork, wait and virtual subshells; and `StatusReports`, what they promise the
   script, which `Jobs` implements. Proofs: `JobsProof`, `JobsTableProof`, and, with the
   refinement, `JobsStatusProof`.
2. `JobNumberPool`, the abstract pool, and `JobNumbers`, its implementation by a
   bit vector. Proofs, the refinement among them: `JobNumbersProof`.
3. `TimerQueue`, the abstract queue of timers, and `Timers`, the code of `timers.c`,
   which implements it. Proofs, the refinement among them: `TimersProof`.
4. `History`: shells that share one history file. Proofs: `HistoryProof`.
5. `Traps`: the handler, the actions and the traps of functions. Proofs: `TrapsProof`.

`Jobs` and `Traps` meet in `sh.trapnote`: `Jobs` has it as one flag that interrupts a
wait, `Traps` has the wait as one command that cannot be interrupted. `Timers`
is used by the retry of fork in `Jobs` (the timer that ends the wait) and by `History`
(`Touch`), each as an action that may happen at any time.

What would come next, in this order: the monitor option (jobs of several
processes, process groups, `fg`, `bg`, notification, `pipefail`); what a subshell and a
redirection save and restore; co-processes; and the pointers of the job list against
the handler.

## 3. The modules

| module | lines it models | role |
|---|---|---|
| `Jobs` | `sh/jobs.c` 166-312, 905-1256, 1342-1413, 1487-1540; `sh/xec.c` 1644-1774; `sh/subshell.c` 322-375, 473-533; `sh/fault.c` 50-124, 276-312 | the component |
| `StatusReports` | the promise of `sh_fork` and `job_wait` | abstract specification |
| `MCJobs` | | up to three children for TLC: one exits, the others are killed |
| `JobLists` | | lemmas about lists: push, remove, move to front |
| `JobsProof` | | theorems about `Jobs`: types, ended children between commands |
| `JobsTableProof` | | theorems about `Jobs`: the table and the kernel |
| `JobsStatusProof` | | theorems about `Jobs`: exit statuses, refinement |
| `JobNumberPool` | the promise of `sh/jobs.c` 1415-1458 | abstract specification |
| `JobNumbers` | `sh/jobs.c` 905-940, 981-989, 1342-1458 and its callers; `sh/init.c` 873-878 | the component |
| `MCJobNumbers` | | up to six jobs for TLC, symmetric |
| `JobNumbersProof` | | theorems about `JobNumbers`, refinement |
| `TimerQueue` | the promise of `sh/timers.c` | abstract specification |
| `Timers` | `sh/timers.c` 34-237 and its callers | the component |
| `MCTimers` | | two timers for TLC, symmetric |
| `TimersProof` | | theorems about `Timers`, refinement |
| `History` | `edit/history.c` 46-63, 175-338, 371-655, 661-775; `sh/main.c` 448-507; `bltins/hist.c` 188, 226-228 | the component |
| `MCHistory` | | two shells for TLC, symmetric, and the numbers their commands can come to |
| `HistoryProof` | | theorems about `History` |
| `Traps` | `sh/fault.c` 50-194, 216-442; `bltins/trap.c` 98-147; `sh/xec.c` 518-608, 653-712, 1505-1507, 1784-1897; `include/fault.h` 49-97 | the component |
| `MCTraps` | | which of the signals are ignored or kill a command |
| `TrapsProof` | | theorems about `Traps` |

### Jobs

The main program is a program counter `pc` with one action per statement, or per
group of statements inside which nothing another actor can see or change
happens. The handler is the flag `hand`: while it is on, the main program stands
still (a handler runs to its end on top of it), but the kernel goes on, so that a
child may end while the handler collects another one. What the code and the model
call by different names:

| code | model |
|---|---|
| `job.pwlist`, a list of one-process jobs | `pwlist`, a sequence of children |
| `p_flag`, `p_exit`, `p_env`, `p_pid` | `flag`, `pexit`, `env`, `pid` |
| `bck.list` and `bck.count` | `bck` and its length |
| `lastpid`, `job.in_critical`, `savesig` | `lastpid`, `inCritical`, `savesig` (0 or not) |
| `job.waitsafe`, a count | `waitsafe`, whether it is 0 |
| `errno == ECHILD` | `echild` |
| the argument and the locals of `job_wait` | `w` = [`arg`, `intr`, `pw`], later `px` |
| a call of `job_waitsafe` by the main program | `reap` = [`block`, `cont`, `ret`] |
| `bck` and `sh.curenv` saved by `sh_subshell` | `saved`, a stack |
| `sh.intrap`, a count | `intrap`, whether it is 0 |
| `sh.sigflag[]` and `sh.trapnote` | `trapnote` |

The steps of a call of `job_wait`: `StartWait` or `PostSaved` -> `wait` (is it posted,
saved, foreign?) -> `top` (lines 1133-1211) -> `unlock` (1213) -> `clear` (1214)
-> `enter` and `reap` (1215) -> `check` (1216-1223) -> `top` again or `flush`
(1225-1227) -> `exitset` -> `done` (the last loop, one job at a time). `sh_fork`
goes `fork` -> `post` -> `link` -> `flag` -> `exit` -> `saved` -> `flush`: an old entry of the
pid makes place (957-958), the new one is linked and gets its pid (989-991), then `p_flag`
(992) and `p_exit` (993), and what `lastpid` knows of it is looked up (1010-1022). The handler may
run before each of these; within `post` to `saved` it finds the region open only after a
`fork` that failed. `bg`, `told`, `evicted` and `erased` are history variables: what `$!` has given
to the script, what `job_wait` has told it, what `child_max` has pushed out, and the processes
whose end the handler noted in the new entry before lines 992-993 wrote the note over. The
statuses of the last are lost, or become 0: the code does so, and the properties say that it is
the only such place.

The abstract `StatusReports` has neither table, list nor handler: each process is unborn,
running, ended, told or lost, the script asks for a pid and sees a status. `Life` gives that
of a process of `Jobs`. `End` is the end itself, not its discovery: that a child is
reaped, by whomever, that its entry is unposted and its status saved, are stutters. `Tell` is `WaitSaved`
or `TopDone`, and asks that the process has ended, has not been told of, has the pid that
was asked for and ended so. `Doubt` takes the status of a process out of the promise: when it
is stopped, or when it has ended before the script has its pid (`erased`). `Forget` is a push onto a full list, and asks that `Room`
(`child_max` + 1) other statuses are there. `TellUnknown`, the 127 of `wait`, asks that no background process with
that pid has a status left, unless there are virtual subshells (where `jobs_subshell_status`
shows that it may have one). A foreground wait that ends by ECHILD without a status
tells nothing and is a stutter there (`jobs_lost_wakeup`).

With the monitor option off `job.curpgid` is 0 in every path, so that `join` is 0,
`p_pgrp` is 0 and a job is a process: that is the whole reason why the model needs no jobs.
Job numbers are left out for the same reason; that they are different is what
`NumbersExact` and its proof establish.

### JobNumbers and JobNumberPool

Here a job is a unit and its processes are left out. The vector is a function from
word numbers to sets of bits, with the extra word that `job_clear` allocates and
that stops `job_alloc`'s scan. `AllocFree`, `AllocFull`, `AllocLast` and `AllocFails` are the four ways
through `job_alloc`; `Take` is its last five lines, with the mask that falls off a
full word (`overrun`). `Unpost` is `job_unpost`, and what frees a number is every
path of the code that calls it. The refinement maps `slots` to the size of the
vector without its extra word, `held` to `p_job`, `spent` to `overrun`.

### Timers and TimerQueue

A timer is a node of the list; `malloc` gives any node that is not on it, so that an
address may come back while an old pointer to it is still about. `pc` is where the
code that runs stands, and `stack` holds what it has interrupted or was called by: the
main program, `sh_timeradd`, `timerdel`, or the action of a timer, in any depth. `Signal` is a
`sigalrm` that finds `time_state` 0; `Swallow` one that finds a bit set. The steps of `sigalrm`
are `scan` (107-140: dead nodes are freed one at a time, then the walk finds the timer
that is due and the next), `arm` (141-145, the clock is set), `armed` (145, its old value is stored in
`left`), `again` (146, 149), `less` (147), `run` (151-158), `once` or `each` (159, the action is called with
what the node holds by then) and `leave` (165);
those of `sh_timeradd` are `min` (191-207), `unlock` (208), `test` (209-211), `call`
(212) and `back` (216). The clock goes on between any two of them.

| code | model |
|---|---|
| `tptop` and `next` | `list`, a sequence of nodes |
| `tp->action != 0` | `live` |
| `tp->wakeup`, `tp->incr`, `tp->handle` | `wakeup`, `incr`, `client` |
| the bits of `time_state` | `inAdd`, `inAlrm`, `deferred` |
| the kernel's interval timer | `itimer`, when it will expire; `pending`, its signal |
| a caller's variable (`tp->timeout`, `timeslot`, ...) | `handle` |

`hole` is a history variable for three things the code does not recover from by
itself: a SIGALRM swallowed after `sigalrm`'s last look at the clock but before it takes
its guard away; one swallowed between `setitimer` and the last use of the static `left` (145-149),
whose `left = 0` is written over, so that later turns of the loop believe the clock is on, or is used at
147, which then turns the clock off (`Unseen`); and an action that leaves by `longjmp` (the time-out of
`read` does), so that the rest of `sigalrm` is not run. Until `sigalrm` next sets the kernel's timer, it may
then be off with a timer set. `AlarmArmed` says that these are the only ways.

The guard is lifted at 158 and the node is read at 159. A nested `sigalrm` between the two may free a
one-shot; `Act` then calls the action for whatever client a freed, or given out again, node
may name (`Held`). That is what the code does, and nothing in it says otherwise: no property
forbids it. For the queue the timer has fired when its action is taken (158).

The abstract `TimerQueue` has a timer's next time, its period and how often it ran; a
timer leaves it when it is deleted, not when the node is freed (the refinement
masks the fields of dead nodes). `Fire` asks that the time has come and moves the next time
on by one period: a timer that runs before its time, twice for a period, after its
deletion, or a one-shot that runs twice, would not be a step of it.

### History

A file is a sequence of units: the stamp at its front, a command (two units, so
that an offset may fall inside one), the mark that cancels the command before it, and a
marker with the number of the next. An offset is the number of units before it. A
shell has `ind`, `cnt`, `marker` and `cmds` for `histind`, `histcnt`, `histmarker` and
`histcmds[]`. `Read` is `hist_eof` as a recursive
function (`ReadTo`) over the units behind `cnt`; `Starts` is what
`hist_nearend` may find, which depends on how long the lines are: the front of the file
or any marker. `Load` is the rest of `sh_histinit`, with the second, longer look back.
`Unlink`, `Reopen`, `WriteStamp`, `Copy`, `Copied` and `TrimCancel` are the steps of `hist_trim`, between
which other shells run. `Count` is the arithmetic of `hist_write` (743-752), which `hist_trim`
repeats (436-445). A file that lost its name stays open in the shells that have it.

`hist_trim` copies its first line without a look at the offset. When the shell started from a marker that
has just the number to be kept first, that number has no offset, `hist_seek` goes to 0, and the stamp is
copied with the first command as one: a reader of the new file counts two. The model copies so (`From`,
`Line`), and the new file is not `tidy`.

`fresh` are the files changed within `HIST_RECENT` (600) seconds. A running shell touches
`HISTFILE` every 570 seconds, but for the first time 570 seconds after its start, and a start that
trims nothing does not change the file. So a file that a shell has seen change (`seen`) grows old
(`Age`) only when it has lost its name or the shell is gone, but one that was already some time old when the shell
joined may grow old under it. If a starting shell finds it so, those who joined it without having seen it
change are `late`: they lose their file, and `Attached` says that nobody else does. Two things
are assumed: a start-up takes less than 30 seconds, and a running shell's timer comes in time. The
constant `Together` says
whether two shells may be in `sh_histinit` at once. `tidy` is a history variable: the files
to which nobody has written without having read up to the end. `hist_flush` reads
(`hist_eof`) before the line editor starts and writes when the line is there, so
another shell's command in between is counted over; the code accepts that the
numbers then differ, and the properties are stated for tidy files. A file into which `hist_trim` copied
its first line from offset 0 is not tidy either.

### Traps

Signals come between any two steps. `stack` is the chain of contexts
(`sh.jmplist`): the script's own, one for a builtin command, a function, or an action;
each with its `mode` and with the locals that its owner keeps across
what it calls. `pc` is the step within `sh_exec`, `sh_chktrap`, `sh_trap`, `sh_funscope` or `sh_sigtrap`;
`chk`, `keep` and `jmp` are the locals of the routine that runs, and have no value when it does
not. `Fault` is `sh_fault`: without a trap (`Quit`) it raises the mode of the top
context and jumps to it; with a trap it notes the signal, and leaves a `read` or
`sleep` at once (`Interrupt`). `Jump` goes from context to context until one keeps the jump.
`sh_chktrap` is `Look`, `Clear`, `Err`, `ErrDone`, `Scan` and `Scanned`; the signals that have no
flag are passed over in one step. `Scan` starts an action, whose commands are steps of the
same module, on top of a context of its own, so that actions within actions,
functions called by actions and signals during all of them are included. A function call is
`Call` (the first `trapmax` + 1 traps saved, none if there is no trap; `sh_sigreset(0)`), `Enter`, its commands, and then, whether it returns or is
left by a jump, `Leave` (`sh_sigreset(1)`), `Restore`, `Forget` (`trapnote = 0`), `Pass`
(`sh_fault` by hand) and `Resume`.

`own` is a history variable: the table of traps that the script or the function at
each depth has set by its own commands; `noted` and `started` count.

`sh_sigreset` drops actions and leaves empty traps, which ignore a signal, where they are. A function
therefore ignores what its caller ignores; and as only a prefix of the table is given back (`Prefix`,
`Restore`), what a function ignores above it stays ignored after it. The two share the string of an inherited empty
trap: a `trap` command of the function frees it (`Free`), and the caller's saved pointer is `freed` from then on
(`Stale`). What such a string reads as is left open each time it is looked at (`Runs`, `Ignores`).

## 4. The runs

| run | instance | states | shows |
|---|---|---|---|
| `jobs_script` | 3 children (two alike, symmetric), `child_max` 1, one failing fork, a CHLD trap | 3.6 million | `StatusKept`, `NoSecondReport`, `TableMatchesKernel`, `NoStrandedZombie`, `TrueReport` hold; `IsReports`: the table implements `StatusReports` |
| `jobs_live` | 2 children, one failing fork, one trapped signal | 320 thousand | `CallsReturn`: every `sh_fork` and `job_wait` comes back |
| `jobs_subshell` | 2 children, one stop each, subshells, pids used again, `child_max` 0 | 5.1 million | the table and the reports are right there too |
| `jobs_lost_wakeup` | 2 children | violation | `ForegroundStatus` fails |
| `jobs_subshell_status` | 2 children, subshells | violation | `StatusKept` fails with subshells |
| `numbers_pool` | 5 jobs, words of 2 bits, `child_max` 3 or 4 | 390 thousand | `NumbersExact`, `LoopStops`; `IsPool`: the vector implements the pool |
| `numbers_shared` | 6 jobs, `child_max` 3 | violation | `UnusedNumber` fails |
| `timers_queue` | 2 nodes, 2 callers, 3 frames deep (`MaxDepth` 2), a clock up to 2 | 1.5 million | `ListSound`, `AlarmArmed`; `IsQueue`: the code implements the queue |
| `history_shared` | 2 shells, `HISTSIZE` 2, 4 commands, 2 files, start-ups one at a time | 1.4 million | `InStep`, `MarkersTrue`, `Attached` hold |
| `history_together` | 2 shells, 3 files, start-ups at once | violation | `Attached` fails |
| `traps_functions` | 2 signals (one ignored at the start, one that may kill a command), 2 arrivals, a function | 10.7 million | `StartsNoted`, `TrapsKept`, `TrapsCaught` hold |
| `traps_kept_note` | 2 signals | violation | `NotedKept` fails |

The properties:

- `TypeOK` (of each component): types, with the parts that could be wrong: a saved list outgrows
  `child_max` by one at most, no bit is set outside its word, the kernel's timer is never set
  further ahead than asked, a shell never counts beyond the end of its file, contexts nest.
- `StatusKept`: until the script has waited for a background process, its true
  status is in its entry or on a saved list, or was pushed out by younger ones, or was written over by
  `job_post` (`erased`).
- `NoSecondReport`: a status the script has been told is nowhere left.
- `TableMatchesKernel`: every living child is in the table (or about to be
  entered), an entry marked done is reaped, no process has two entries.
- `NoStrandedZombie`: between commands, an ended child has a SIGCHLD on its way.
- `TrueReport`: what `job_wait` stores is the status the process ended with, with the same exception.
- `IsReports`: the refinement of `StatusReports`, which ties `StatusKept`, `NoSecondReport` and `TrueReport` together: told once, at
  most, after the end, truly, to who asked for that pid, and never "unknown" before.
- `CallsReturn` (liveness).
- `LoopStops`, `NumbersExact`, `IsPool` for the numbers.
- `ListSound`: no timer is on the list twice, and `tpmin` never points to freed memory.
- `AlarmArmed`: when a timer is set and none of the functions runs, the kernel's timer
  is on or its signal pending, the three exceptions aside (section 3).
- `IsQueue`: the refinement of `TimerQueue`.
- `InStep`: what a shell knows of the file from its own writes or from a marker is what a reader of
  the whole file has: numbers, and the offsets of the commands it may still ask for.
- `MarkersTrue`: a marker holds the number of the command behind it.
- `Attached`: a shell at work writes to the file that `HISTFILE` names, unless that was found old
  before it had changed in the shell's time (`late`).
- `StartsNoted`: an action is started at most as often as its signal was noted.
- `TrapsKept`: between commands the actions in the table are those the script, or the running
  function, has set itself, no more and no fewer, and what it has set to be ignored is ignored.
- `TrapsCaught`: a signal for which it has set a trap is not left to its default.

Each property has a mutant in `PROJECT.json`: a plausible bug in one mapped
definition under which TLC finds that property violated.

### What the violations show

`jobs_lost_wakeup`: `job_wait` opens the region with `job.in_critical = !savesig`
and then clears `job.waitsafe`. If a SIGCHLD had been held off (so the region is
really open) and the process waited for ends between the two statements, the
handler collects it and its count is erased. `waitpid` then says ECHILD, the loop is
left, and `$?` is 0 for a command that failed. With another child alive the wait
lasts until that one ends.

`jobs_subshell_status`: a background process of the parent that ends while a
virtual subshell runs commands is unposted there. Its status is saved on the
subshell's list, which is freed with the subshell; a later `wait $!` gets 127.

`numbers_shared`: with all numbers taken by running jobs and a `child_max` that is
no multiple of `CHAR_BIT`, `job_alloc` does not fail: it returns the number behind
the last, and returns it again for the next job.

`history_together`: two shells start when the file is long and old, and both find it so.
The first unlinks it and makes a new one; the second unlinks that new one, by its
name, and makes another. The first shell now has a file without a name: what it
writes is seen by nobody and is gone when it exits.

`traps_kept_note`: a signal with a trap comes after the last command's `sh_chktrap` and before
the call of a function (while its arguments are expanded, say). `sh_sigreset(0)` clears its
flag, and `trapnote`; the caller's action is put back after the function, but nothing is
left that would start it.

### Bounds, and why they are enough

- Two or three children: an entry, an older one and one being waited for
  are what the code tells apart; the interleavings of interest involve the
  process waited for, one more that ends at the wrong time, and one that pushes a
  saved status out. `child_max` 0 or 1 makes saved lists of one or two, so that
  they overflow with two or three children.
- `MaxFails` 1: one retry is what moves `fork` out of the critical region, so that the handler may come
  between any two assignments of `job_post`. `jobs_subshell` has no failing fork and no second `TypeOK`; it is there
  for stops, pids used again and the exchange of saved lists.
- `MaxStops` 1 per child, `MaxSignals` 1, `MaxEnv` 1 (nested subshells would
  repeat the same exchange of lists; without entering a new one the counter of
  environments starts again at 1).
- Job numbers: words of two bits, so that two words and a boundary between them
  are full with four jobs, and a fifth finds no number; `child_max` 3 (no
  multiple of the word) and 4 (a multiple).

- Timers: two nodes are the timer that is due and the one that is next; a node may be
  freed and given out again within the time the clock has. A recurring timer with period 1
  runs twice, or is put off by two periods at once. Two frames may be suspended: the main program and a handler,
  at the action or just before it, under another handler or a call of the action's. A third is suspended when
  `sh_timeradd`, called by an action, makes up for a deferred signal.
- History: `HISTSIZE` 2 and `TrimAfter` 5 make a file trimmable after two commands,
  `MarkAfter` 3 puts a marker behind every second one, so that the four commands
  meet a trim, its copy and a start from a marker. A third file is needed in
  `history_together` only. `MCNumber` is the range of the numbers that so many commands, marks
  and copies come to.
- Traps: two signals are one that is scanned before the other; two arrivals let one come
  during the other's action; a function within the script, with an action inside it and one
  around it, is what `MaxCall` 1 and `MaxFrame` 2 leave (a context is pushed for a command that fails only
  while there are fewer than `MaxFrame`). Deadlock is not checked in
  the runs of History and Traps: with the bounds used up the shells may have nothing left to do.

Three combinations are left out of the passing runs because what they violate is
already a finding or a listed hazard: `StatusKept` and `NoStrandedZombie` with
subshells (the status list that dies; the early return of `job_wait` that leaves
`job.in_critical` on); failing forks together with pids used again (an old saved
status is taken for that of the new process, `job_chksave` knows only the pid);
failing forks together with stops (the stopped process is entered from the saved
list and the order of the two reports is lost). A child that has been stopped is
exempt in `StatusKept` and `TrueReport`: the wait clears `P_EXITSAVE` when it sees
the stop, and a stop leaves the signal bit that a normal exit does not clear.

### Fairness

`FairSpec` assumes three things. The shell goes on with the call it is in
(`WF` of its own steps): it is a program that runs. A pending signal is delivered
and the handler finishes (`WF` of the handler's steps): the kernel does that, and
the handler never blocks. Every child ends in the end, and a stopped one is
continued: the claim "a wait comes back" is meant for such children only. No
fairness is put on new commands, traps, stops or failing forks, and none is strong.
A `fork` that may fail for ever is excluded by `MaxFails`; the code gives up
with an error after a bounded number of tries.

## 5. The proofs

`tlapm` proves every obligation of `JobLists`, `JobsProof`, `JobsTableProof`,
`JobsStatusProof`, `JobNumbersProof`, `TimersProof`, `HistoryProof` and `TrapsProof`. `Orderly` is
`MaxFails = 0 \/ (~Reuse /\ MaxStops = 0)`: no fork fails, or else pids are not used
again and children do not stop.

| theorem | says |
|---|---|
| `TypeCorrect` (`JobsProof`) | `Spec => []TypeOK` |
| `ZombieCorrect` (`JobsProof`) | `Spec => []NoStrandedZombie`, if `MaxEnv = 0` |
| `TableCorrect` (`JobsTableProof`) | `Spec => []TableMatchesKernel`, if `Orderly` |
| `ReportCorrect` (`JobsStatusProof`) | `Spec => TrueReport`, if `Orderly` |
| `OnceCorrect` (`JobsStatusProof`) | `Spec => []NoSecondReport`, if `Orderly` |
| `KeptCorrect` (`JobsStatusProof`) | `Spec => []StatusKept`, if `Orderly` and `MaxEnv = 0` |
| `ImplementsReports` (`JobsStatusProof`) | `Spec => IsReports`, if `Orderly`: the table implements `StatusReports` |
| `NumbersCorrect` (`JobNumbersProof`) | `Spec => []NumbersExact` |
| `LoopCorrect` (`JobNumbersProof`) | `Spec => []LoopStops` |
| `ImplementsPool` (`JobNumbersProof`) | `Spec => IsPool`: the vector implements the pool |
| `TypeCorrect` (`JobNumbersProof`, `TimersProof`, `TrapsProof`) | `Spec => []TypeOK` |
| `ListCorrect` (`TimersProof`) | `Spec => []ListSound` |
| `AlarmCorrect` (`TimersProof`) | `Spec => []AlarmArmed` |
| `ImplementsQueue` (`TimersProof`) | `Spec => IsQueue`: the code implements the queue |
| `MarkersCorrect` (`HistoryProof`) | `Spec => []MarkersTrue` |
| `StepCorrect` (`HistoryProof`) | `Spec => []InStep` |
| `AttachedCorrect` (`HistoryProof`) | `Spec => []Attached`, if `Together = FALSE` |
| `TypeCorrect` (`HistoryProof`) | `Spec => []TypeOK`, if `Number = Int` |
| `StartsCorrect` (`TrapsProof`) | `Spec => []StartsNoted` |
| `CaughtCorrect` (`TrapsProof`) | `Spec => []TrapsCaught` |
| `KeptCorrect` (`TrapsProof`) | `Spec => []TrapsKept` |

`KeptCorrect` of Jobs, `ReportCorrect` and `ImplementsReports` except the processes in `erased`, `AlarmCorrect` the times
when `hole` is true, `MarkersCorrect` and `StepCorrect` the files that are not `tidy`, `AttachedCorrect` the shells that are
`late`: each of these history variables is set by the steps of the code that do the damage, and section 3 says which.

They hold for any number of children, pids, subshells, stops and signals, any
`child_max`, word size and number of jobs, any number of timers and depth of frames, any
number of shells, files and commands typed, any `HISTSIZE`, `HIST_BSIZE` and `HIST_MAX`, any
number of arrivals, functions and actions within one another. The assumptions are those on the
constants (`PidAssumption`, `ChildAssumption`, `EndingAssumption`,
`BoundAssumption`, `JobAssumption`, `NumberAssumption`, `TimerAssumption`,
`HistoryAssumption`, `TrapsAssumption`), which TLC evaluates on
every run: pids are not 0 or 1, exit values fit in a byte, `CHAR_BIT` and
`child_max` are positive.

*TypeCorrect.* `TypeOK` alone is not inductive: the steps of `job_post` need that there is
a process to be posted. `TypeInv` adds `Posting`. That `Len(bck) <= ChildMax + 1`
is the part that could be wrong: a push onto a full list drops the last.

*The hypotheses.* A process that ends before it is posted leaves its status on the saved
list, and `job_post` finds it there by its pid. That can only happen after a fork
that failed, whose retry forks outside the critical region. It is sound as long as the
pid is not that of an older process whose status waits there too (`Reuse`), and what is
saved is an end and no stop (`MaxStops`). `Orderly` excludes just these two cases; without
failing forks, pids may be used again and children may stop as they like. `MaxEnv = 0` says that the
script uses no virtual subshells: with them `StatusKept` is false (`jobs_subshell_status`),
and so is `NoStrandedZombie`: the early return of `job_wait` for a process of another environment
leaves the critical region closed.

*TableCorrect.* `TableInv` adds what the handler cannot do without failing forks (`Quiet`,
`NoRetry`: from `fork` to the last assignment of `job_post` the region is closed and no `job_waitsafe`
runs); what is known of the process being posted, its flags included, until the handler notes its end
(`Posted`); if it has ended before it has its entry, that its status is the newest saved one, and that only
a failing fork brings a process into `erased` (`Early`); `Pids` (no two living processes have one pid) and
`Entries` (one entry for each pid; a process is done in the table exactly when it is reaped, but for the
erased ones and the one whose saved status `job_post` is about to fetch). The heart is
`EntryOfChild`: under `TableInv` the first entry that `job_bypid` finds for a living
process's pid is that process's entry, or there is none and the process is the one being
posted. With it the steps that reap, remove and post follow one by one.

*ReportCorrect, OnceCorrect.* The status of a process that has ended is in one place only: its
entry, one of the saved lists (the shell's or one that a subshell has put aside), or told to the
script. An entry under construction does not count while the status is still on the list
(`Entered`). `StatusInv` says so (`Sound`, `Lists`, `Told`) and that an entry marked done and every
saved status have the true exit (`EntriesTrue`, `Sound`), except those of the erased processes. It is not inductive without
`Waiter`: a `job_wait` that the script has not asked for clears `P_EXITSAVE` of the entry, so that no
handler between its statements, and not its own `job_unpost` either, saves the status that it
is going to tell.

*KeptCorrect* (`JobsStatusProof`). `KeptInv` says where the status of a background process is or will be
(`BgKept`): the entry is there and still has `P_EXITSAVE`, or the status is on the list, told,
or pushed out. An entry whose process was erased has `P_EXITSAVE` too, but the status in it may be lost or 0. The one step that clears the flag without being asked is `job_wait` for a
foreground command; `Foreground` says that no background process has its pid.

*ImplementsReports.* The steps that tell a status need two more invariants: `Gone` (a process whose
status was pushed out is nowhere in the shell any more, neither in the table, nor on
one of the lists, nor about to be posted, so that it is not told later) and `Asked` (the
process that `job_wait` waits for has the pid it was called with). `PushedOut` counts: the statuses
left on a full list and the newcomer are an injective image of `1..child_max + 1`. A
step of the handler, `job_post` or `job_unpost` is then a `Forget` or a stutter (`ReportsForget`), but for
`PostFlag` and `PostExit`, which are a `Doubt` where they write over what the handler has noted.
`TellUnknown` follows from `KeptInv`, which is used only for `MaxEnv = 0`. Where a
process that ended early waits to be posted, that it is not the one pushed out follows from `Early`
and, with failing forks, from pids that are not used again.

*ZombieCorrect.* `Region`: the region is off when the main program asks whether a signal was held
off in it, and both are off between commands. `Noted`: while an ended child is not collected, a
SIGCHLD is pending, a handler runs, `savesig` is set or the main program is in `job_waitsafe`. Neither
needs a hypothesis on failing forks, stops or pids.

*NumbersCorrect, LoopCorrect.* `NumInv` adds to the two invariants that exactly the
posted jobs have a number (`Numbered`) and that a job that waits for one is not
posted (`Waiting`). The argument is that a number is a word and a bit in one way
only (`SameNumber`, `PlaceOf`), that `job_free` clears just the bit of its number
(`FreedExact`) and `job_alloc` sets just that of the number it returns
(`TakeExact`). A `job_alloc` that runs off its word is where the promise ends; the
theorem says so with `overrun`, and `numbers_shared` shows what comes after.

*ImplementsPool.* Every step maps to a step of the pool or to a stutter; `FirstFree` shows
that the first unset bit of the first word that is not full is the smallest unused
number, `NoneFree` that a scan that ends past the numbers means that none is unused.

*Timers.* `Inv` adds to `TypeOK` and `ListSound` where the code stands against the bits of
`time_state` (`Running`) and that no frame is suspended while a bit is set (`Suspended`): the
guard is what makes the walk of the list safe. `Timing` says that a set timer's wakeup is not before the
time the queue has for it, and `Chosen` that the timer picked by the walk is still set
and due when it runs: nothing but `sigalrm` itself, which is guarded, comes between. `AlarmInv` has, for
`AlarmArmed`, who is going to set the kernel's timer when it is off (`Covered`): a
deferral, a handler under way, or one suspended in an action (`Cover`); that between `setitimer` and the last
use of `left` the clock is on, unless a signal was swallowed there (`SetOn`); and that `left` (which a
swallowed signal clears, so that the clock is set again) is not believed for longer than the
timer is on (`LeftOn`). `Cover`, `SetOn` and `LeftOn` are claimed while `hole` is
false. `ImplementsQueue` maps `Run` to `Fire`, `Add` to `Set`, `Delete` and `DeleteAll` to
`Cancel`, and every other step to a stutter.

*History.* What `hist_eof` makes of a file is a recursion over the file, and what is said of
it needs induction. The library's induction theorems take the property as an
operator, which the provers cannot instantiate; here a set of offsets stands for it
(`Upward`, `UpTo`, from the well-foundedness of `<` on `Nat`), and that the recursion has a solution is proved,
not assumed (`ReadsExists`). `Agree` relates two readers at one offset: same number, and same
places for the numbers either has met; `UnitAgree` and `ReadAgree` keep it along the
file, so that a reader from a true marker (`Marked`) ends up like one from the front
(`LoadRight`, `EofRight`). `InStep` and `MarkersTrue` are not inductive without each other, nor without
three parts of `Inv`. `Formed`: a file is made of whole commands, so that `hist_copy`, which copies
up to the next line end, copies a command, one other unit, or the stamp with what follows it
(`LineFound`; then the new file is not tidy). `Placed`: which
file a shell has in hand at each step of `hist_trim`. `TidyCorrect`: agreement also in the
middle of `sh_histinit` and `hist_trim`, where `InStep` says nothing. All are claimed, as
`InStep` and `MarkersTrue` are, for the files in `tidy` (section 3).
`AttachedCorrect` needs `Together = FALSE`, one shell in `sh_histinit` at a time; `Joined` then says
that a shell at work is at the file with the name or is `late` (`AtName`), that a file with the name
which some shell has seen change is fresh (`Kept`), and that whoever is about to unlink a file
has nobody at work with it who is not late (`Apart`). `history_together` shows
the other case. The constant `Number` is the set a table has places for. The
other theorems hold for every such set; `TypeCorrect` takes all integers, because a shell that
started from a marker of an untidy file may come to any number: TLC gets a range, and
`TypeOK` checks there that it is never left. What remains of `TypeOK` says that a shell at work
counts no further than its file goes, which is `Placed`, and that no file is fresh
before it is made (`Known`: whoever writes has a file in hand that was made before).

*Traps.* `Placed` says that a command that is inside the shell has its own context on
top, and `Leafs` that nothing but the handler runs within it: so `sh_popcontext` pops the context
of its owner, whatever jumped. `Counted` is the inductive form of `StartsNoted`: a flag that
is up is a note for which no action was started yet. `KnownCaught` says that a signal which
`sh.sigflag[]` has as caught is not left to its default, `OwnCaught` the same of those that the script, or the
function at each depth, has set a trap for; a function that is being left by a jump
is exempt. `Owned`, for `TrapsKept`, says what a table must be to the one that has set it (`Kept`): the actions are the same,
what is set to be ignored is ignored still, though its string may be freed, and nothing of it is
above `trapmax`, so that the saved prefix has all of it. That holds for the table a function call has saved and
the depth below it (`SavedOwn`, with the depth of a context as the number of functions under
it), for the table in hand while a function starts or ends, and for the table in use. `Bounded` is
what the prefix needs in the other direction: no action is above `trapmax`, and none is left when a function
begins or has ended, so that none of the function's can survive in the caller's table. A
jump leaves the table of what it ends alone: the last function it leaves gives back
the table of the first context that goes on.

What stays with TLC: liveness (`CallsReturn`) and anything with ENABLED, which the
prover cannot reason about; that the numbers of an instance of `History` stay within its `MCNumber`; the properties with failing forks where
`Orderly` excludes them, and those with subshells where they do not hold (see the
runs that expect a violation).

## 6. What is not modelled

- The monitor option and everything interactive: the terminal, sessions and
  process groups of the kernel would be a second system of the size of `Jobs`.
- The forked child's own life; it starts with an empty table
  (`job_clear`), which `JobNumbers` has as `Clear`.
- `sh_ntfork` (`sh/xec.c` 2155-2437), the variant for systems without fork: it posts through the same
  `_sh_fork`, but outside the critical region, and is compiled only there.
- `sh.waitevent`, a hook that is null unless an extension sets it.
- Writes to the two pointers of a list element one at a time: a list operation is
  one step. `job.waitsafe` as a char that wraps at 256. Memory exhaustion.
- Timers: a handler for SIGALRM that was there before (`oldalrm`), the list of alarms of
  the `alarm` builtin with its discipline functions, and a signal between two nodes of
  the loop of `timerdel(NULL)`, which is one step. What a caller does with a timer it
  kept after it fired is listed under hazards.
- History: offsets in bytes, the ring in which `histcmds[]` is kept, a file of another
  format (`hist_check`), a failing open or write and the file in `/tmp`, the rename of a file that
  cannot be unlinked, shells with different `HISTSIZE`, and the buffer of the new file's
  stream while it is copied to. The stamp and a marker are written in one piece.
- Traps: the DEBUG and EXIT actions, errexit, SIGTSTP and interactive shells, signals
  that are ignored by default, virtual subshells, and signals inside the loop of `sh_sigreset`,
  which is one step. `sh_chktrap` scans the signals from the largest down, as the code does;
  sh.1:5811 has them "in order of signal number", which may be read either way. `sh_sigtrap`
  installs its handler before it knows whether the signal was ignored; that such a signal stays
  ignored fails by it, and is not claimed (hazard at `sh/fault.c` 184). A flag noted
  while the ERR action runs may lose its `trapnote` at line 293 and wait for the next signal.
  When the caller of a function that has freed the string of an empty trap sets another trap for that signal, it frees the string
  again; what that does to the allocator is not followed. A signal between the `free` and the store of `bltins/trap.c` 145-146 is not
  modelled: the two are one step.
- Jobs: the pid that a recycled struct still has between 989 and 991, when it is linked but has not
  its own pid yet; `PostLink` links it with its pid.
- `job_prmsg` and other output; the state of the terminal.
- Redirection, co-processes and the rest of subshells; and the sequential text processing
  named in the table, the libraries and build tools, where a model would be a second
  implementation of a function. They are most of the lines of the repository: lexer,
  expansion, editors, regular expressions, streams, option parsing.
