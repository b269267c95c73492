------------------------------ MODULE History ------------------------------
(***************************************************************************)
(* The command history (cmd/ksh93/edit/history.c): shells that run at the  *)
(* same time append their commands to one file, and each keeps a table of  *)
(* where in the file its command of a number starts.                       *)
(*                                                                         *)
(* A file is a sequence of units: the stamp at its front; a command, which *)
(* is two units long, so that an offset may fall inside it; the mark that  *)
(* cancels the command before it; and a marker with the number of the next *)
(* command.  An offset is the number of units before it, 0 is no offset.   *)
(***************************************************************************)
EXTENDS Integers, SequencesExt, FiniteSetsExt

CONSTANTS
    Shell,
    None,
    HistSize,   \* HISTSIZE of every shell
    MarkAfter,  \* units after which a marker is due (HIST_BSIZE/2)
    TrimAfter,  \* units a file has at least to be trimmed (HIST_MAX)
    Together,   \* may two shells be in sh_histinit at once?
    Number,     \* the numbers that commands may have
    MaxCommand, \* bound: commands typed
    MaxFile     \* bound: files created

ASSUME HistoryAssumption ==
    /\ None \notin Shell \cup 1..MaxFile
    /\ HistSize \in Nat \ {0} /\ MarkAfter \in Nat /\ TrimAfter \in Nat
    /\ Together \in BOOLEAN
    /\ Number \subseteq Int /\ 1 \in Number
    /\ MaxCommand \in Nat /\ MaxFile \in Nat \ {0}

File == 1..MaxFile

VARIABLES
    name,       \* the file that HISTFILE names, None if there is none
    data,       \* what the files hold, also one without a name
    files,      \* how many there have been
    fresh,      \* those modified in the last HIST_RECENT seconds
    pc,         \* where a shell stands
    fd,         \* the file it has open
    ind, cnt, marker, cmds,     \* histind, histcnt, histmarker, histcmds
    old,        \* the History_t that hist_trim copies from, and its place in it
    typed,      \* how many commands were typed, by all
    tidy,       \* history: files written to by readers of all of it only
    seen,       \* history: the files that were modified while a shell ran
    late        \* history: shells whose file was found old before they saw it change

disk == <<name, data, files, fresh>>
table == <<ind, cnt, marker, cmds>>
ages == <<seen, late>>
vars == <<disk, pc, fd, table, old, typed, tidy, ages>>

Stamp == <<"stamp", 0>>
Undo == <<"undo", 0>>
Command(c) == <<<<"head", c>>, <<"tail", c>>>>
Marker(n) == <<"marker", n>>

Label == {"off", "stamp", "load", "unlink", "reopen", "copy", "cancel",
          "ready", "prompt", "run", "edit", "again"}
Initialising == {"stamp", "load", "unlink", "reopen", "copy", "cancel"}
Working == {"ready", "prompt", "run", "edit", "again"}

NoTable == [n \in Number |-> 0]
FirstTable == [NoTable EXCEPT ![1] = 1]

Init ==
    /\ name = 1 /\ files = 1
    /\ data = [f \in File |-> IF f = 1 THEN <<Stamp>> ELSE <<>>]
    /\ fresh = {}
    /\ pc = [s \in Shell |-> "off"] /\ fd = [s \in Shell |-> None]
    /\ ind = [s \in Shell |-> 1] /\ cnt = [s \in Shell |-> 1]
    /\ marker = [s \in Shell |-> 1] /\ cmds = [s \in Shell |-> FirstTable]
    /\ old = [s \in Shell |-> None]
    /\ typed = 0
    /\ tidy = File
    /\ seen = [s \in Shell |-> {}] /\ late = {}

-----------------------------------------------------------------------------
(***************************************************************************)
(* hist_eof, unit by unit from the offset where it stands to an end.       *)
(***************************************************************************)
Place(r, n, o) == [r EXCEPT !.ind = n, !.cmds[n] = o]
ReadUnit(r, u) ==
    LET o == r.cnt + 1
        s == [r EXCEPT !.cnt = o]
    IN  CASE u[1] = "head" -> s
          [] u[1] \in {"tail", "stamp"} -> Place(s, r.ind + 1, o)
          [] u[1] = "undo" -> Place(s, r.ind - 1, o)
          [] u[1] = "marker" -> [Place(s, r.ind, o) EXCEPT !.marker = o]

ReadTo(r, d, end) ==
    LET read[o \in Nat] == IF o <= r.cnt THEN r ELSE ReadUnit(read[o - 1], d[o])
    IN  read[end]
Read(r, f) == ReadTo(r, data[f], Len(data[f]))

Table(s) == [ind |-> ind[s], cnt |-> cnt[s], marker |-> marker[s], cmds |-> cmds[s]]
SetTable(s, r) ==
    /\ ind' = [ind EXCEPT ![s] = r.ind] /\ cnt' = [cnt EXCEPT ![s] = r.cnt]
    /\ marker' = [marker EXCEPT ![s] = r.marker]
    /\ cmds' = [cmds EXCEPT ![s] = r.cmds]

Goto(s, label) == pc' = [pc EXCEPT ![s] = label]
Extend(f, units) == data' = [data EXCEPT ![f] = @ \o units]
Freshen(s, f) ==
    /\ fresh' = fresh \cup {f}
    /\ seen' = [t \in Shell |-> IF t = s \/ pc[t] # "off" THEN seen[t] \cup {f}
                                                        ELSE seen[t]]

\* A bug: the age of the file is not asked for.
OldAlways(f) == f \in File

\* hist_clean, and what else sh_histinit asks for.
Old(f) == f \notin fresh
MustTrim(f, keep) == Old(f) /\ keep > 1 /\ Len(data[f]) > TrimAfter

-----------------------------------------------------------------------------
(***************************************************************************)
(* sh_histinit.                                                            *)
(***************************************************************************)
\* open with O_CREAT; a file that was empty then gets the stamp.
OpenFile(s) ==
    /\ IF name # None
         THEN fd' = [fd EXCEPT ![s] = name] /\ UNCHANGED <<disk, seen>>
         ELSE /\ files < MaxFile
              /\ files' = files + 1 /\ name' = files'
              /\ fd' = [fd EXCEPT ![s] = files']
              /\ Freshen(s, files')
              /\ UNCHANGED data
    /\ Goto(s, IF data[fd'[s]] = <<>> THEN "stamp" ELSE "load")

Open(s) ==
    /\ pc[s] = "off"
    /\ Together \/ \A t \in Shell : pc[t] \notin Initialising
    /\ OpenFile(s)
    /\ UNCHANGED <<table, old, typed, tidy, late>>

Begin == [ind |-> 1, cnt |-> 1, marker |-> 1, cmds |-> FirstTable]

Loaded(s) == Goto(s, IF old[s] = None THEN "ready" ELSE "copy")

WriteStamp(s) ==
    /\ pc[s] = "stamp"
    /\ Extend(fd[s], <<Stamp>>) /\ Freshen(s, fd[s])
    /\ SetTable(s, Begin)
    /\ Loaded(s)
    /\ UNCHANGED <<name, files, fd, old, typed, tidy, late>>

\* Where hist_nearend may start: the first command, or after any marker, by
\* how long the lines are.
Starts(f) ==
    {Begin} \cup
    {[ind |-> data[f][o][2], cnt |-> o, marker |-> o, cmds |-> FirstTable] :
        o \in {o \in DOMAIN data[f] : data[f][o][1] = "marker"}}

\* The first number to be kept of those below n.
FirstKept(n) == IF n > HistSize THEN n - HistSize ELSE 1

\* The file is read from somewhere near its end, and from further back when
\* that was too near.
Load(s) ==
    /\ pc[s] = "load"
    /\ LET f == fd[s]
       IN  \E near \in Starts(f), back \in Starts(f) :
             LET first == Read(near, f)
                 keep == FirstKept(first.ind)
                 again == Read([back EXCEPT !.cmds = first.cmds], f)
             IN  /\ IF near.ind > keep THEN back.cnt < near.cnt /\ back.ind <= keep
                                      ELSE back = near
                 /\ SetTable(s, IF back = near THEN first ELSE again)
                 /\ IF MustTrim(f, keep)
                      THEN /\ Goto(s, "unlink")
                           /\ late' = late \cup {t \in Shell : /\ pc[t] \in Working
                                                             /\ fd[t] = f /\ f \notin seen[t]}
                      ELSE Loaded(s) /\ UNCHANGED late
    /\ UNCHANGED <<disk, fd, old, typed, tidy, seen>>

-----------------------------------------------------------------------------
(***************************************************************************)
(* hist_trim: the file loses its name, sh_histinit opens a new one (or one *)
(* that another shell has made meanwhile), the last commands are copied.   *)
(***************************************************************************)
Unlink(s) ==
    /\ pc[s] = "unlink"
    /\ name' = None
    /\ old' = [old EXCEPT ![s] = [fd |-> fd[s], cmds |-> cmds[s],
                                  next |-> FirstKept(ind[s]), last |-> -1]]
    /\ Goto(s, "reopen")
    /\ UNCHANGED <<data, files, fresh, fd, table, typed, tidy, ages>>

Reopen(s) ==
    /\ pc[s] = "reopen"
    /\ OpenFile(s)
    /\ UNCHANGED <<table, old, typed, tidy, late>>

\* What is copied for a number: up to the end of a command, or of whatever
\* stands there.  A stamp does not end, and a number that has no offset is
\* looked for at 0: the stamp and the first command are copied as one.
From(o) == o.cmds[o.next]
Line(o) ==
    LET d == data[o.fd]
        ends == {e \in (From(o) + 1)..Len(d) : d[e][1] \notin {"head", "stamp"}}
    IN  IF ends = {} THEN <<>> ELSE SubSeq(d, From(o) + 1, Min(ends))
Copying(o) == o.next \in Number /\ From(o) > o.last /\ Line(o) # <<>>

\* A writer that has not read all of its file, or writes what is no command.
Tidy(s, clean) ==
    tidy' = IF clean /\ cnt[s] = Len(data[fd[s]]) THEN tidy ELSE tidy \ {fd[s]}

\* A bug: the marker is counted twice.
CountBeyond(s, n, c, units) ==
    LET end == c + Len(units)
        due == end > marker[s] + MarkAfter
        o == IF due THEN end + 2 ELSE end
    IN  /\ Extend(fd[s], units \o IF due THEN <<Marker(n)>> ELSE <<>>)
        /\ Freshen(s, fd[s])
        /\ SetTable(s, [ind |-> n, cnt |-> o, marker |-> IF due THEN o ELSE marker[s],
                        cmds |-> [cmds[s] EXCEPT ![n] = o]])

\* A bug: the marker has the number of the command before it.
CountMarkedLow(s, n, c, units) ==
    LET end == c + Len(units)
        due == end > marker[s] + MarkAfter
        o == IF due THEN end + 1 ELSE end
    IN  /\ Extend(fd[s], units \o IF due THEN <<Marker(n - 1)>> ELSE <<>>)
        /\ Freshen(s, fd[s])
        /\ SetTable(s, [ind |-> n, cnt |-> o, marker |-> IF due THEN o ELSE marker[s],
                        cmds |-> [cmds[s] EXCEPT ![n] = o]])

\* The units go to the end of the file; the shell counts them from c on, and
\* the command behind them has number n.
Count(s, n, c, units) ==
    LET end == c + Len(units)
        due == end > marker[s] + MarkAfter
        o == IF due THEN end + 1 ELSE end
    IN  /\ Extend(fd[s], units \o IF due THEN <<Marker(n)>> ELSE <<>>)
        /\ Freshen(s, fd[s])
        /\ SetTable(s, [ind |-> n, cnt |-> o, marker |-> IF due THEN o ELSE marker[s],
                        cmds |-> [cmds[s] EXCEPT ![n] = o]])

\* One command; a marker that is due goes behind it.
Copy(s) ==
    /\ pc[s] = "copy" /\ Copying(old[s])
    /\ Count(s, ind[s] + 1, cnt[s], Line(old[s]))
    /\ Tidy(s, Line(old[s])[1][1] = "head")
    /\ old' = [old EXCEPT ![s].next = @ + 1, ![s].last = From(old[s])]
    /\ UNCHANGED <<name, files, pc, fd, typed, late>>

Copied(s) ==
    /\ pc[s] = "copy" /\ ~Copying(old[s])
    /\ Goto(s, "cancel")
    /\ UNCHANGED <<disk, fd, table, old, typed, tidy, ages>>

\* A bug: the mark is written but not counted.
CancelledUncounted(s) ==
    /\ Extend(fd[s], <<Undo>>) /\ Freshen(s, fd[s])
    /\ SetTable(s, [Table(s) EXCEPT !.ind = @ - 1, !.cmds[ind[s] - 1] = cnt[s]])
    /\ Tidy(s, TRUE)
    /\ UNCHANGED <<name, files, late>>

\* hist_cancel: the mark goes to the end of the file, and is counted where
\* this shell believes the end to be.
Cancelled(s) ==
    /\ Extend(fd[s], <<Undo>>) /\ Freshen(s, fd[s])
    /\ SetTable(s, [Table(s) EXCEPT !.cnt = @ + 1, !.ind = @ - 1,
                                    !.cmds[ind[s] - 1] = cnt[s] + 1])
    /\ Tidy(s, TRUE)
    /\ UNCHANGED <<name, files, late>>

TrimCancel(s) ==
    /\ pc[s] = "cancel"
    /\ Cancelled(s)
    /\ old' = [old EXCEPT ![s] = None]
    /\ Goto(s, "ready")
    /\ UNCHANGED <<fd, typed>>

-----------------------------------------------------------------------------
(***************************************************************************)
(* A session: hist_eof before the prompt, hist_flush of the line that was  *)
(* typed, and fc, which takes itself off the history and adds the command  *)
(* it edits.                                                               *)
(***************************************************************************)
Eof(s) ==
    /\ pc[s] \in {"ready", "edit"}
    /\ SetTable(s, Read(Table(s), fd[s]))
    /\ Goto(s, IF pc[s] = "ready" THEN "prompt" ELSE "again")
    /\ UNCHANGED <<disk, fd, old, typed, tidy, ages>>

\* hist_write counts from where the file ends now.
AtEnd(s) == Len(data[fd[s]])
Written(s) ==
    /\ typed < MaxCommand
    /\ typed' = typed + 1
    /\ Count(s, ind[s] + 1, AtEnd(s), Command(typed'))
    /\ Tidy(s, TRUE)
    /\ UNCHANGED <<name, files, late>>

Type(s) ==
    /\ pc[s] = "prompt"
    /\ Written(s)
    /\ Goto(s, "run")
    /\ UNCHANGED <<fd, old>>

\* An empty line is not written, but the end of the file is taken over.
TypeNothing(s) ==
    /\ pc[s] = "prompt"
    /\ cnt' = [cnt EXCEPT ![s] = AtEnd(s)]
    /\ Tidy(s, TRUE)
    /\ Goto(s, "ready")
    /\ UNCHANGED <<disk, fd, ind, marker, cmds, old, typed, ages>>

Done(s) ==
    /\ pc[s] = "run"
    /\ \E next \in {"ready", "edit"} : Goto(s, next)
    /\ UNCHANGED <<disk, fd, table, old, typed, tidy, ages>>

Fc(s) ==
    /\ pc[s] = "again"
    /\ Cancelled(s)
    /\ Goto(s, "prompt")
    /\ UNCHANGED <<fd, old, typed>>

\* Nothing is done at an exit; a shell may be killed anywhere.
Exit(s) ==
    /\ pc[s] # "off"
    /\ pc' = [pc EXCEPT ![s] = "off"] /\ fd' = [fd EXCEPT ![s] = None]
    /\ SetTable(s, Begin)
    /\ old' = [old EXCEPT ![s] = None]
    /\ seen' = [seen EXCEPT ![s] = {}] /\ late' = late \ {s}
    /\ UNCHANGED <<disk, typed, tidy>>

\* hist_touch, every HIST_RECENT - 30 seconds from the end of the start-up on.
Touch(s) ==
    /\ pc[s] \in Working /\ name # None
    /\ Freshen(s, name)
    /\ UNCHANGED <<name, data, files, pc, fd, table, old, typed, tidy, late>>

\* HIST_RECENT seconds pass in which nobody writes to a file or touches it.
\* A start-up leaves the file as it is and takes less than 30 seconds: a shell
\* keeps the file with the name fresh from its first change on, be it its
\* own touch, and until then the file may grow old under it.
Age(f) ==
    /\ f \in fresh
    /\ \A s \in Shell : f \in seen[s] => pc[s] \in Working /\ f # name
    /\ fresh' = fresh \ {f}
    /\ UNCHANGED <<name, data, files, pc, fd, table, old, typed, tidy, ages>>

Next ==
    \/ \E s \in Shell :
         \/ Open(s) \/ Load(s)
         \/ WriteStamp(s) \/ Unlink(s) \/ Reopen(s) \/ Copy(s) \/ Copied(s) \/ TrimCancel(s)
         \/ Eof(s) \/ Type(s) \/ TypeNothing(s) \/ Done(s) \/ Fc(s)
         \/ Exit(s) \/ Touch(s)
    \/ \E f \in File : Age(f)

Spec == Init /\ [][Next]_vars

-----------------------------------------------------------------------------
\* The types; a shell at work never counts beyond the end of its file.
TypeOK ==
    /\ files \in File /\ name \in 1..files \cup {None}
    /\ fresh \subseteq 1..files /\ tidy \subseteq File
    /\ \A s \in Shell :
         /\ pc[s] \in Label
         /\ fd[s] \in 1..files \cup {None}
         /\ ind[s] \in Number
         /\ pc[s] \in Working => cnt[s] \in 1..Len(data[fd[s]])
    /\ typed \in 0..MaxCommand

\* What a reader of a file from its front up to an offset has.
Whole(f, o) == ReadTo(Begin, data[f], o)

\* Whatever a shell wrote itself, or found by a marker, it has the numbers
\* and the offsets that a reader of the whole file has: a number means the
\* same command in all shells.
InStep ==
    \A s \in Shell :
        pc[s] \in Working /\ fd[s] \in tidy =>
            LET w == Whole(fd[s], cnt[s])
            IN  /\ ind[s] = w.ind
                /\ \A n \in Number :
                      n \in FirstKept(ind[s])..ind[s] /\ cmds[s][n] # FirstTable[n] =>
                        cmds[s][n] = w.cmds[n]

\* A marker holds the number of the command behind it.
MarkersTrue ==
    \A f \in tidy : \A o \in DOMAIN data[f] :
        data[f][o][1] = "marker" => data[f][o][2] = Whole(f, o).ind

\* A shell that takes commands writes them to the file HISTFILE names, where
\* the others read them, unless that file was found old by a starting shell
\* before it had changed in this one's time.
Attached ==
    \A s \in Shell : pc[s] \in Working /\ s \notin late => fd[s] = name

=============================================================================
