------------------------------- MODULE Traps -------------------------------
(***************************************************************************)
(* Traps of a script (sh/fault.c, sh_funscope of sh/xec.c, bltins/trap.c): *)
(* the handler sh_fault, which comes between any two steps of the shell;   *)
(* sh_chktrap, which runs the actions between commands; functions, which   *)
(* have traps of their own; and the jumps by which a signal without a trap *)
(* ends what is running.  All signals are those that end a shell by        *)
(* default (SH_SIGDONE).                                                   *)
(***************************************************************************)
EXTENDS Integers, Sequences, FiniteSets

CONSTANTS
    MaxSig,     \* the largest signal number
    Ignored,    \* signals that were ignored when the shell was started
    KilledBy,   \* signals that may kill a command the shell waits for
    MaxArrival, \* bound: signals that arrive
    MaxCall,    \* bound: functions called within one another
    MaxFrame    \* bound: contexts within one another with a command to fail

Signal == 1..MaxSig

\* A command inherits what is ignored.
ASSUME TrapsAssumption ==
    /\ MaxSig \in Nat /\ Ignored \subseteq Signal
    /\ KilledBy \subseteq Signal \ Ignored
    /\ MaxArrival \in Nat /\ MaxCall \in Nat /\ MaxFrame \in Nat

VARIABLES
    trapcom,    \* the actions: none, empty (ignore), an action, or freed: the
                \* string is not there any more
    trapmax,    \* one more than the largest signal with a trap, or 0
    errtrap,    \* is there an action for ERR?
    disp,       \* what the kernel does with a signal
    known,      \* sigflag has SH_SIGFAULT or SH_SIGOFF
    pending,    \* sigflag has SH_SIGTRAP
    note,       \* trapnote has SH_SIGTRAP
    exitval,
    stack,      \* the contexts (jmplist), with the locals of their owners
    pc,
    chk,        \* the locals of the running sh_chktrap
    keep,       \* the traps saved by the function call that starts or ends
    jmp,        \* the value of the jump under way
    arrived,    \* signals so far
    noted,      \* history: how often sh_fault noted a signal
    started,    \* history: how often the action of a signal was started
    own         \* history: the traps that the script, and its functions by
                \* their depth, have set themselves

traps == <<trapcom, trapmax>>
sigstate == <<traps, errtrap, disp, known, pending, note>>
locals == <<chk, keep, jmp>>
history == <<arrived, noted, started, own>>
vars == <<sigstate, exitval, stack, pc, locals, history>>

Action == {"none", "empty", "action"}
Table == [Signal -> Action \cup {"freed"}]
NoTraps == [s \in Signal |-> "none"]
Killed(s) == 256 + s
NoCheck == [left |-> 0, sav |-> FALSE, ret |-> "next"]
NothingKept == [max |-> 0, table |-> NoTraps, err |-> FALSE]
Status == {0, 1} \cup {Killed(s) : s \in Signal}

\* The modes of contexts, in the order of sh/fault.h.
TRAP == 4
CMD == 6
FUN == 7
EXIT == 11

Main == [kind |-> "main", mode |-> EXIT]
Cmd(stop, sig, was) ==
    [kind |-> "cmd", mode |-> CMD, stop |-> stop, sig |-> sig, was |-> was]
Fun(saved) == [kind |-> "fun", mode |-> FUN, saved |-> saved]
Trap(err, status, c) ==
    [kind |-> "trap", mode |-> TRAP, err |-> err, exit |-> status, chk |-> c]

Top == stack[Len(stack)]
Push(frame) == stack' = Append(stack, frame)
Pop == stack' = SubSeq(stack, 1, Len(stack) - 1)
Calls == Cardinality({i \in DOMAIN stack : stack[i].kind = "fun"})

Init ==
    /\ trapcom = NoTraps /\ trapmax = 0 /\ errtrap = FALSE
    /\ disp = [s \in Signal |-> IF s \in Ignored THEN "ign" ELSE "dfl"]
    /\ known = [s \in Signal |-> FALSE] /\ pending = [s \in Signal |-> FALSE]
    /\ note = FALSE
    /\ exitval = 0 /\ stack = <<Main>> /\ pc = "next"
    /\ chk = NoCheck /\ keep = NothingKept /\ jmp = 0
    /\ arrived = 0
    /\ noted = [s \in Signal |-> 0] /\ started = [s \in Signal |-> 0]
    /\ own = [d \in 0..MaxCall |-> NoTraps]

Goto(label) == pc' = label

-----------------------------------------------------------------------------
(***************************************************************************)
(* sh_fault, as a handler and as it is called by sh_funscope.              *)
(***************************************************************************)
\* No trap: the signal ends the context it finds, and those above.
Quit(s) ==
    /\ exitval' = Killed(s)
    /\ jmp' = IF Top.mode < FUN THEN FUN ELSE EXIT
    /\ stack' = [stack EXCEPT ![Len(stack)].mode = jmp']
    /\ Goto("jump")
    /\ chk' = NoCheck /\ keep' = NothingKept
    /\ UNCHANGED <<pending, note, noted>>

\* A bug: every command is left at once.
StopsAlways == TRUE

\* read and sleep are left at once, other commands end first.
Stops == Top.mode = CMD /\ Top.stop
Interrupt(s, label) ==
    IF Stops THEN exitval' = Killed(s) /\ Pop /\ Goto("status")
             ELSE UNCHANGED <<exitval, stack>> /\ Goto(label)

Note(s, label) ==
    /\ pending' = [pending EXCEPT ![s] = TRUE] /\ note' = TRUE
    /\ noted' = [noted EXCEPT ![s] = @ + 1]
    /\ Interrupt(s, label)
    /\ UNCHANGED locals

\* What a string that was freed reads as is open, each time anew.
Runs(s) == trapcom[s] \in {"action", "freed"}
Ignores(s) == trapcom[s] \in {"empty", "freed"}

\* What was interrupted goes on at a label.
Fault(s, label) ==
    /\ disp' = [disp EXCEPT ![s] = "sh_fault"]
    /\ \/ trapcom[s] = "none" /\ Quit(s)
       \/ Runs(s) /\ Note(s, label)
       \/ /\ Ignores(s)
          /\ Goto(label)
          /\ UNCHANGED <<pending, note, exitval, stack, locals, noted>>
    /\ UNCHANGED <<traps, errtrap, known, started, own>>

Signalled(s) ==
    /\ pc # "dead" /\ arrived < MaxArrival
    /\ arrived' = arrived + 1
    /\ \/ disp[s] = "sh_fault" /\ Fault(s, pc)
       \/ /\ disp[s] # "sh_fault"
          /\ pc' = IF disp[s] = "dfl" THEN "dead" ELSE pc
          /\ UNCHANGED <<sigstate, exitval, stack, locals, noted, started, own>>

-----------------------------------------------------------------------------
(***************************************************************************)
(* Commands of the script, of a function or of a trap's action.            *)
(***************************************************************************)
\* The trap's string is freed.  One that ignores the signal may be the
\* caller's, who has saved the pointer.
Stale(frame, s) ==
    IF frame.kind = "fun" /\ frame.saved.table[s] = "empty"
      THEN [frame EXCEPT !.saved.table[s] = "freed"] ELSE frame
Free(s) ==
    IF trapcom[s] = "empty" THEN [i \in DOMAIN stack |-> Stale(stack[i], s)] ELSE stack

Own(s, action) == own' = [own EXCEPT ![Calls][s] = action]
Fails == Len(stack) < MaxFrame

External ==
    /\ pc = "next"
    /\ exitval' = 0 /\ Goto("wait")
    /\ UNCHANGED <<sigstate, stack, locals, history>>

ExternalEnds ==
    /\ pc = "wait"
    /\ \/ exitval' = 0 /\ UNCHANGED arrived
       \/ Fails /\ exitval' = 1 /\ UNCHANGED arrived
       \/ /\ Fails /\ arrived < MaxArrival /\ arrived' = arrived + 1
          /\ \E s \in KilledBy : exitval' = Killed(s)
    /\ Goto("status")
    /\ UNCHANGED <<sigstate, stack, locals, noted, started, own>>

ReadBuiltin ==
    /\ pc = "next"
    /\ exitval' = 0 /\ Push(Cmd(TRUE, 0, "dfl")) /\ Goto("read")
    /\ UNCHANGED <<sigstate, locals, history>>

ReadEnds ==
    /\ pc = "read"
    /\ \/ exitval' = 0
       \/ Fails /\ exitval' = 1
    /\ Pop /\ Goto("status")
    /\ UNCHANGED <<sigstate, locals, history>>

\* trap action s, with sh_sigtrap, which reads the flags of the signal and
\* writes them back after it has changed the handler.
TrapSet(s, action) ==
    /\ pc = "next"
    /\ exitval' = 0 /\ stack' = Append(Free(s), Cmd(FALSE, s, "dfl"))
    /\ trapcom' = [trapcom EXCEPT ![s] = action] /\ Own(s, action)
    /\ trapmax' = IF s >= trapmax THEN s + 1 ELSE trapmax
    /\ Goto("sigtrap")
    /\ UNCHANGED <<errtrap, disp, known, pending, note, locals, arrived, noted,
                   started>>

Install ==
    /\ pc = "sigtrap"
    /\ IF known[Top.sig]
         THEN Pop /\ Goto("status") /\ UNCHANGED disp
         ELSE /\ disp' = [disp EXCEPT ![Top.sig] = "sh_fault"]
              /\ stack' = [stack EXCEPT ![Len(stack)].was = disp[Top.sig]]
              /\ Goto("installed")
    /\ UNCHANGED <<traps, errtrap, known, pending, note, exitval, locals, history>>

Reinstall ==
    /\ pc = "installed"
    /\ disp' = IF Top.was = "ign" THEN [disp EXCEPT ![Top.sig] = "ign"] ELSE disp
    /\ Goto("mark")
    /\ UNCHANGED <<traps, errtrap, known, pending, note, exitval, stack, locals,
                   history>>

Mark ==
    /\ pc = "mark"
    /\ known' = [known EXCEPT ![Top.sig] = TRUE]
    /\ pending' = [pending EXCEPT ![Top.sig] = FALSE]
    /\ Pop /\ Goto("status")
    /\ UNCHANGED <<traps, errtrap, disp, note, exitval, locals, history>>

\* trap - s, with sh_sigclear.
TrapClear(s) ==
    /\ pc = "next"
    /\ exitval' = 0 /\ Goto("status")
    /\ IF known[s] /\ disp[s] = "sh_fault"
         THEN /\ trapcom' = [trapcom EXCEPT ![s] = "none"] /\ Own(s, "none")
              /\ pending' = [pending EXCEPT ![s] = FALSE]
              /\ stack' = Free(s)
         ELSE UNCHANGED <<trapcom, own, pending, stack>>
    /\ UNCHANGED <<trapmax, errtrap, disp, known, note, locals, arrived, noted, started>>

TrapErr ==
    /\ pc = "next"
    /\ exitval' = 0 /\ Goto("status")
    /\ errtrap' = ~errtrap
    /\ UNCHANGED <<traps, disp, known, pending, note, stack, locals, history>>

Finish ==
    /\ pc = "next" /\ Top.kind = "main"
    /\ Goto("dead")
    /\ UNCHANGED <<sigstate, exitval, stack, locals, history>>

-----------------------------------------------------------------------------
(***************************************************************************)
(* sh_chktrap, called after a command, and sh_trap.                        *)
(***************************************************************************)
Command ==
    /\ pc = "status"
    /\ IF note \/ exitval # 0
         THEN Goto("chktrap") /\ chk' = [chk EXCEPT !.ret = "next"]
         ELSE Goto("next") /\ UNCHANGED chk
    /\ UNCHANGED <<sigstate, exitval, stack, keep, jmp, history>>

Look ==
    /\ pc = "chktrap"
    /\ chk' = [chk EXCEPT !.left = IF note /\ trapmax > 0 THEN trapmax - 1 ELSE 0]
    /\ Goto("clear")
    /\ UNCHANGED <<sigstate, exitval, stack, keep, jmp, history>>

Clear ==
    /\ pc = "clear"
    /\ note' = FALSE
    /\ Goto(IF exitval # 0 THEN "err" ELSE "scan")
    /\ UNCHANGED <<traps, errtrap, disp, known, pending, exitval, stack, locals,
                   history>>

Err ==
    /\ pc = "err"
    /\ LET c == [chk EXCEPT !.sav = note] IN
         IF errtrap
           THEN Push(Trap(TRUE, exitval, c)) /\ chk' = NoCheck /\ Goto("next")
           ELSE chk' = c /\ UNCHANGED stack /\ Goto("errdone")
    /\ UNCHANGED <<sigstate, exitval, keep, jmp, history>>

ErrDone ==
    /\ pc = "errdone"
    /\ note' = chk.sav
    /\ Goto("scan")
    /\ UNCHANGED <<traps, errtrap, disp, known, pending, exitval, stack, locals,
                   history>>

\* The signals are looked at from the largest down.
Flagged == {s \in 1..chk.left : pending[s]}
IsNext(s) == s \in Flagged /\ \A t \in Flagged : t <= s

\* A bug: the flag of the signal is not taken back.
ScanKept(s) ==
    /\ pc = "scan" /\ IsNext(s)
    /\ LET c == [chk EXCEPT !.left = s - 1] IN
         IF Runs(s)
           THEN /\ Push(Trap(FALSE, exitval, c)) /\ chk' = NoCheck /\ Goto("next")
                /\ started' = [started EXCEPT ![s] = @ + 1]
           ELSE chk' = c /\ UNCHANGED <<stack, pc, started>>
    /\ UNCHANGED <<traps, errtrap, disp, known, pending, note, exitval, keep, jmp, arrived,
                   noted, own>>

Scan(s) ==
    /\ pc = "scan" /\ IsNext(s)
    /\ pending' = [pending EXCEPT ![s] = FALSE]
    /\ LET c == [chk EXCEPT !.left = s - 1] IN
         IF Runs(s)
           THEN /\ Push(Trap(FALSE, exitval, c)) /\ chk' = NoCheck /\ Goto("next")
                /\ started' = [started EXCEPT ![s] = @ + 1]
           ELSE chk' = c /\ UNCHANGED <<stack, pc, started>>
    /\ UNCHANGED <<traps, errtrap, disp, known, note, exitval, keep, jmp, arrived,
                   noted, own>>

Scanned ==
    /\ pc = "scan" /\ Flagged = {}
    /\ Goto(chk.ret)
    /\ chk' = NoCheck /\ jmp' = IF chk.ret = "jump" THEN EXIT ELSE jmp
    /\ UNCHANGED <<sigstate, exitval, stack, keep, history>>

TrapEnds ==
    /\ pc = "next" /\ Top.kind = "trap"
    /\ exitval' = Top.exit /\ chk' = Top.chk
    /\ Goto(IF Top.err THEN "errdone" ELSE "scan")
    /\ Pop
    /\ UNCHANGED <<sigstate, keep, jmp, history>>

-----------------------------------------------------------------------------
(***************************************************************************)
(* sh_funscope, with sh_sigreset before and after the body.                *)
(***************************************************************************)
\* The traps below trapmax are dropped, but not those that ignore a signal.
Dropped(gone) ==
    trapcom' = [s \in Signal |->
        IF s < trapmax /\ (trapcom[s] = "action" \/ s \in gone)
          THEN "none" ELSE trapcom[s]]
ResetFlags ==
    /\ \E gone \in SUBSET {s \in Signal : trapcom[s] = "freed"} : Dropped(gone)
    /\ pending' = [s \in Signal |-> pending[s] /\ (trapcom[s] = "none" \/ s >= trapmax)]
    /\ errtrap' = FALSE /\ note' = FALSE

\* A bug: the signals are no longer caught, and not marked as such.
ResetDefault ==
    /\ ResetFlags
    /\ disp' = [s \in Signal |-> IF trapcom[s] = "action" THEN "dfl" ELSE disp[s]]
    /\ UNCHANGED known

Reset ==
    /\ ResetFlags
    /\ UNCHANGED <<disp, known>>

\* The first trapmax + 1 entries of the table are saved, that of EXIT among
\* them; without a trap none is.
Prefix(table) == [s \in Signal |-> IF s <= trapmax THEN table[s] ELSE "none"]

\* A bug: the traps are saved after they were reset.
CallResetFirst ==
    /\ pc = "next" /\ Calls < MaxCall
    /\ exitval' = 0
    /\ Reset /\ UNCHANGED trapmax
    /\ keep' = [max |-> trapmax, table |-> Prefix(trapcom'), err |-> errtrap']
    /\ Goto("enter")
    /\ UNCHANGED <<stack, chk, jmp, history>>

Call ==
    /\ pc = "next" /\ Calls < MaxCall
    /\ exitval' = 0
    /\ keep' = [max |-> trapmax, table |-> Prefix(trapcom), err |-> errtrap]
    /\ Reset /\ UNCHANGED trapmax
    /\ Goto("enter")
    /\ UNCHANGED <<stack, chk, jmp, history>>

Enter ==
    /\ pc = "enter"
    /\ Push(Fun(keep)) /\ keep' = NothingKept /\ Goto("next")
    /\ own' = [own EXCEPT ![Calls + 1] = NoTraps]
    /\ UNCHANGED <<sigstate, exitval, chk, jmp, arrived, noted, started>>

Return ==
    /\ pc = "next" /\ Top.kind = "fun"
    /\ jmp' = 0 /\ keep' = Top.saved
    /\ Pop /\ Goto("leave")
    /\ UNCHANGED <<sigstate, exitval, chk, history>>

Leave ==
    /\ pc = "leave"
    /\ Reset /\ trapmax' = 0
    /\ Goto("restore")
    /\ UNCHANGED <<exitval, stack, locals, history>>

Restore ==
    /\ pc = "restore"
    /\ trapcom' = [s \in Signal |-> IF s <= keep.max THEN keep.table[s] ELSE trapcom[s]]
    /\ trapmax' = keep.max /\ errtrap' = keep.err
    /\ keep' = NothingKept /\ own' = [own EXCEPT ![Calls + 1] = NoTraps]
    /\ Goto("forget")
    /\ UNCHANGED <<disp, known, pending, note, exitval, stack, chk, jmp, arrived, noted,
                   started>>

Forget ==
    /\ pc = "forget"
    /\ note' = FALSE
    /\ Goto(IF exitval \in {0, 1} THEN "left" ELSE "pass")
    /\ UNCHANGED <<traps, errtrap, disp, known, pending, exitval, stack, locals,
                   history>>

\* The status is that of a signal: the caller gets the signal.
Pass(s) ==
    /\ pc = "pass" /\ exitval = Killed(s)
    /\ Fault(s, "left")
    /\ UNCHANGED arrived

Resume ==
    /\ pc = "left"
    /\ jmp' = 0
    /\ IF jmp = EXIT THEN Goto("chktrap") /\ chk' = [chk EXCEPT !.ret = "jump"]
                     ELSE Goto("status") /\ UNCHANGED chk
    /\ UNCHANGED <<sigstate, exitval, stack, keep, history>>

\* siglongjmp from context to context.
Jump ==
    /\ pc = "jump"
    /\ \/ /\ Top.kind \in {"cmd", "trap"}
          /\ Pop /\ UNCHANGED <<pc, keep>>
       \/ /\ Top.kind = "fun"
          /\ keep' = Top.saved
          /\ Pop /\ Goto("leave")
       \/ /\ Top.kind = "main"
          /\ Goto("dead") /\ UNCHANGED <<stack, keep>>
    /\ UNCHANGED <<sigstate, exitval, chk, jmp, history>>

Program ==
    \/ External \/ ExternalEnds \/ ReadBuiltin \/ ReadEnds
    \/ \E s \in Signal :
         \/ \E action \in {"empty", "action"} : TrapSet(s, action)
         \/ TrapClear(s) \/ Scan(s) \/ Pass(s)
    \/ Install \/ Reinstall \/ Mark \/ TrapErr \/ Finish
    \/ Command \/ Look \/ Clear \/ Err \/ ErrDone \/ Scanned \/ TrapEnds
    \/ Call \/ Enter \/ Return \/ Leave \/ Restore \/ Forget \/ Resume \/ Jump

Next == Program \/ \E s \in Signal : Signalled(s)

Spec == Init /\ [][Next]_vars

-----------------------------------------------------------------------------
Label == {"next", "wait", "read", "sigtrap", "installed", "mark", "status", "chktrap",
          "clear", "err", "errdone", "scan", "enter", "leave", "restore", "forget",
          "pass", "left", "jump", "dead"}
Locals == [left : 0..MaxSig, sav : BOOLEAN, ret : {"next", "jump"}]
Disposition == {"dfl", "ign", "sh_fault"}
Saved == [max : 0..(MaxSig + 1), table : Table, err : BOOLEAN]
CmdFrames == [kind : {"cmd"}, mode : {CMD, FUN, EXIT}, stop : BOOLEAN,
              sig : Signal \cup {0}, was : Disposition]
FunFrames == [kind : {"fun"}, mode : {FUN, EXIT}, saved : Saved]
TrapFrames == [kind : {"trap"}, mode : {TRAP, FUN, EXIT}, err : BOOLEAN, exit : Status,
               chk : Locals]
Frame == CmdFrames \cup FunFrames \cup TrapFrames

\* The types; the script's own context is the first and there is only one.
TypeOK ==
    /\ trapcom \in Table /\ trapmax \in 0..(MaxSig + 1) /\ errtrap \in BOOLEAN
    /\ disp \in [Signal -> Disposition]
    /\ known \in [Signal -> BOOLEAN] /\ pending \in [Signal -> BOOLEAN]
    /\ note \in BOOLEAN
    /\ exitval \in Status /\ pc \in Label
    /\ stack \in Seq({Main} \cup Frame) /\ stack # <<>>
    /\ \A i \in DOMAIN stack : stack[i] = Main <=> i = 1
    /\ chk \in Locals /\ keep \in Saved
    /\ jmp \in {0, FUN, EXIT}

\* However often a trap's action runs, sh_fault has noted the signal as often:
\* no flag is seen twice, also when actions run within actions.
StartsNoted == \A s \in Signal : started[s] <= noted[s]

\* While commands of a function or of the script run, the actions in its
\* traps are those it has set itself, whatever way a function it called has
\* ended, and a signal it ignores by a trap is not left without one.  The
\* rest is not kept: what a function ignores may stay ignored after it, and a
\* trap it took over from its caller and changes is freed for the caller too.
Running == {"next", "wait", "read", "status"}
TrapsKept ==
    pc \in Running => \A s \in Signal :
        /\ trapcom[s] = "action" <=> own[Calls][s] = "action"
        /\ own[Calls][s] = "empty" => Ignores(s)

\* A signal for which the running script or function has set a trap does not
\* end the shell by its default, also after functions, or a trap command
\* itself, were left by a jump.
TrapsCaught ==
    pc \in Running => \A s \in Signal : own[Calls][s] # "none" => disp[s] # "dfl"

\* A signal that was noted for an action is kept until sh_chktrap takes it,
\* or a trap command for that signal.
NotedKept ==
    [][\A s \in Signal : pending[s] /\ ~pending'[s] =>
          Scan(s) \/ Mark \/ TrapClear(s)]_vars

=============================================================================
