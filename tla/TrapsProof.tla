---------------------------- MODULE TrapsProof -----------------------------
(***************************************************************************)
(* Theorems about Traps, for any signals and any depth of functions, trap  *)
(* actions and commands within one another: types, no action without a     *)
(* signal of its own, no trap for a signal that is not caught, and the     *)
(* traps of each function its own.                                         *)
(***************************************************************************)
EXTENDS Traps, FiniteSetTheorems, SequenceTheorems, TLAPS

AnyFrame == {Main} \cup Frame
Nested(st) ==
    /\ st \in Seq(AnyFrame) /\ st # <<>>
    /\ \A i \in DOMAIN st : st[i] = Main <=> i = 1

\* A command that is inside the shell has its context on top.
Inside == {"read", "sigtrap", "installed", "mark"}
Placed ==
    pc \in Inside =>
      /\ Top \in CmdFrames /\ Top.mode = CMD
      /\ Top.stop <=> pc = "read"
      /\ pc # "read" => Top.sig \in Signal

\* Nothing runs within a command but the handler.
Leafs ==
    \A i \in DOMAIN stack : stack[i].kind = "cmd" =>
      /\ i = Len(stack)
      /\ pc \in Inside \cup {"dead"} \/ (pc = "jump" /\ stack[i].mode # CMD)

\* A flag that is up is a note for which no action was started yet.
Flag(s) == IF pending[s] THEN 1 ELSE 0
Counted ==
    /\ noted \in [Signal -> Nat] /\ started \in [Signal -> Nat]
    /\ \A s \in Signal : started[s] + Flag(s) <= noted[s]

\* A signal that sigflag says is caught is not left to its default.
KnownCaught ==
    /\ \A s \in Signal : known[s] => disp[s] # "dfl"
    /\ pc \in {"installed", "mark"} => disp[Top.sig] # "dfl"

Inv == TypeOK /\ Placed /\ Counted /\ KnownCaught

-----------------------------------------------------------------------------
LEMMA FrameKinds ==
    /\ \A f \in CmdFrames : f \in Frame /\ f # Main /\ f.kind = "cmd"
    /\ \A f \in FunFrames : f \in Frame /\ f # Main /\ f.kind = "fun"
    /\ \A f \in TrapFrames : f \in Frame /\ f # Main /\ f.kind = "trap"
<1>1. \A f \in CmdFrames : f.kind = "cmd"
  BY DEF CmdFrames
<1>2. \A f \in FunFrames : f.kind = "fun"
  BY DEF FunFrames
<1>3. \A f \in TrapFrames : f.kind = "trap"
  BY DEF TrapFrames
<1>4. Main.kind = "main"
  BY DEF Main
<1> QED
  BY <1>1, <1>2, <1>3, <1>4 DEF Frame

LEMMA FrameOfKind ==
    ASSUME NEW f \in AnyFrame
    PROVE  /\ f.kind = "cmd" => f \in CmdFrames
           /\ f.kind = "fun" => f \in FunFrames
           /\ f.kind = "trap" => f \in TrapFrames
           /\ f.kind = "main" <=> f = Main
<1>1. Main.kind = "main"
  BY DEF Main
<1> QED
  BY <1>1, FrameKinds DEF AnyFrame, Frame

LEMMA FrameTypes ==
    /\ \A b \in BOOLEAN, s \in Signal \cup {0}, w \in Disposition :
         Cmd(b, s, w) \in CmdFrames
    /\ \A k \in Saved : Fun(k) \in FunFrames /\ Fun(k).saved = k
    /\ \A e \in BOOLEAN, x \in Status, c \in Locals : Trap(e, x, c) \in TrapFrames
<1>1. \A b \in BOOLEAN, s \in Signal \cup {0}, w \in Disposition :
         Cmd(b, s, w) \in CmdFrames
  BY DEF Cmd, CmdFrames
<1>2. \A k \in Saved : Fun(k) \in FunFrames /\ Fun(k).saved = k
  BY DEF Fun, FunFrames
<1>3. \A e \in BOOLEAN, x \in Status, c \in Locals : Trap(e, x, c) \in TrapFrames
  BY DEF Trap, TrapFrames
<1> QED
  BY <1>1, <1>2, <1>3

-----------------------------------------------------------------------------
\* The context on top.
LEMMA OnTop ==
    ASSUME TypeOK
    PROVE  /\ Nested(stack)
           /\ Len(stack) \in Nat /\ Len(stack) > 0 /\ DOMAIN stack = 1..Len(stack)
           /\ Len(stack) \in DOMAIN stack /\ Top \in AnyFrame
           /\ Top = Main <=> Len(stack) = 1
<1>1. Nested(stack)
  BY DEF TypeOK, Nested, AnyFrame
<1>2. Len(stack) \in Nat /\ DOMAIN stack = 1..Len(stack)
  BY <1>1, LenProperties DEF Nested
<1>3. Len(stack) # 0
  BY <1>1, EmptySeq DEF Nested
<1>4. Len(stack) > 0 /\ Len(stack) \in DOMAIN stack
  BY <1>2, <1>3
<1>5. Top \in AnyFrame
  BY <1>1, <1>2, <1>4, ElementOfSeq DEF Nested, Top
<1> QED
  BY <1>1, <1>2, <1>4, <1>5 DEF Nested, Top

\* What a step has done to the contexts: one more, one less, the last changed.
Atop(f) ==
    \A i \in DOMAIN stack' :
      \/ i \in DOMAIN stack /\ stack'[i] = stack[i]
      \/ i = Len(stack') /\ stack'[i] = f
OldFrames ==
    \A i \in DOMAIN stack' :
      i \in DOMAIN stack /\ i # Len(stack) /\ stack'[i] = stack[i]
Within(f) ==
    /\ Len(stack') = Len(stack)
    /\ \A i \in DOMAIN stack' :
         i \in DOMAIN stack /\ stack'[i] = IF i = Len(stack) THEN f ELSE stack[i]

LEMMA Pushed ==
    ASSUME TypeOK, NEW f \in Frame, f # Main, Push(f)
    PROVE  /\ Nested(stack') /\ Top' = f
           /\ Atop(f)
<1> DEFINE n == Len(stack)
<1>1. Nested(stack) /\ n \in Nat /\ n > 0 /\ DOMAIN stack = 1..n
  BY OnTop
<1>2. /\ stack' \in Seq(AnyFrame) /\ Len(stack') = n + 1 /\ stack'[n + 1] = f
      /\ \A i \in 1..n : stack'[i] = stack[i]
  BY <1>1, AppendProperties DEF Nested, Push, AnyFrame
<1>3. DOMAIN stack' = 1..(n + 1) /\ stack' # <<>>
  BY <1>1, <1>2, LenProperties, EmptySeq
<1>4. \A i \in DOMAIN stack' : i \in 1..n \/ i = n + 1
  BY <1>1, <1>3
<1>5. Nested(stack')
  BY <1>1, <1>2, <1>3, <1>4 DEF Nested
<1> QED
  BY <1>1, <1>2, <1>4, <1>5 DEF Top, Atop

LEMMA Popped ==
    ASSUME TypeOK, Top # Main, Pop
    PROVE  /\ Nested(stack')
           /\ OldFrames
<1> DEFINE n == Len(stack)
<1>1. Nested(stack) /\ n \in Nat /\ n > 1 /\ DOMAIN stack = 1..n
  BY OnTop
<1>2. /\ stack' \in Seq(AnyFrame) /\ Len(stack') = n - 1
      /\ \A i \in 1..(n - 1) : stack'[i] = stack[i]
  BY <1>1, SubSeqProperties DEF Nested, Pop
<1>3. DOMAIN stack' = 1..(n - 1) /\ stack' # <<>>
  BY <1>1, <1>2, LenProperties, EmptySeq
<1>4. \A i \in DOMAIN stack' : i \in 1..(n - 1) /\ i \in DOMAIN stack /\ i # n
  BY <1>1, <1>3
<1> QED
  BY <1>1, <1>2, <1>3, <1>4 DEF Nested, OldFrames

\* A context that is changed where it is.
LEMMA Changed ==
    ASSUME TypeOK, NEW f \in AnyFrame, f = Main <=> Top = Main,
           stack' = [stack EXCEPT ![Len(stack)] = f]
    PROVE  /\ Nested(stack') /\ Top' = f
           /\ Within(f)
<1> DEFINE n == Len(stack)
<1>1. /\ Nested(stack) /\ n \in Nat /\ n > 0 /\ DOMAIN stack = 1..n
      /\ n \in DOMAIN stack
  BY OnTop
<1>2. /\ stack' \in Seq(AnyFrame) /\ Len(stack') = n
      /\ \A i \in DOMAIN stack : stack'[i] = IF i = n THEN f ELSE stack[i]
  BY <1>1, ExceptSeq DEF Nested
<1>3. DOMAIN stack' = 1..n /\ stack' # <<>>
  BY <1>1, <1>2, LenProperties, EmptySeq
<1>4. Nested(stack')
  <2>1. stack[n] = Main <=> n = 1
    BY <1>1 DEF Nested
  <2> QED
    BY <1>1, <1>2, <1>3, <2>1 DEF Nested, Top
<1>5. \A i \in DOMAIN stack' :
        i \in DOMAIN stack /\ stack'[i] = IF i = n THEN f ELSE stack[i]
  BY <1>1, <1>2, <1>3
<1>6. Len(stack') = n /\ stack'[Len(stack')] = f
  BY <1>1, <1>2
<1> QED
  BY <1>4, <1>5, <1>6 DEF Top, Within

\* A string of a trap is freed: contexts of functions that have it saved
\* still are contexts of functions.
Aged(new, old) ==
    /\ new.max = old.max
    /\ \A s \in Signal :
         /\ new.table[s] = "action" <=> old.table[s] = "action"
         /\ old.table[s] \in {"empty", "freed"} => new.table[s] \in {"empty", "freed"}

LEMMA StaleFrame ==
    ASSUME NEW f \in AnyFrame, NEW s \in Signal
    PROVE  /\ Stale(f, s) \in AnyFrame /\ Stale(f, s).kind = f.kind
           /\ Stale(f, s) = Main <=> f = Main
           /\ f.kind = "fun" => Aged(Stale(f, s).saved, f.saved)
           /\ f.kind # "fun" => Stale(f, s) = f
<1>1. CASE f.kind = "fun"
  <2>1. f \in FunFrames
    BY <1>1, FrameOfKind
  <2>2. f.saved \in Saved /\ f.saved.table \in Table
    BY <2>1 DEF FunFrames, Saved
  <2> DEFINE kept == [f.saved EXCEPT !.table[s] = "freed"]
             g == [f EXCEPT !.saved = kept]
  <2>3. kept \in Saved
    BY <2>2 DEF Saved, Table
  <2>4. g \in FunFrames /\ g.kind = "fun" /\ g.saved = kept
    BY <2>1, <2>3 DEF FunFrames
  <2>5. f.saved.table[s] = "empty" => Aged(kept, f.saved)
    BY <2>2 DEF Aged, Saved, Table
  <2>6. Aged(f.saved, f.saved)
    BY DEF Aged
  <2>7. Stale(f, s) = IF f.saved.table[s] = "empty" THEN g ELSE f
    BY <1>1 DEF Stale
  <2>8. g \in AnyFrame /\ g # Main /\ f # Main
    BY <2>1, <2>4, FrameKinds DEF AnyFrame
  <2> QED
    BY <1>1, <2>4, <2>5, <2>6, <2>7, <2>8
<1>2. CASE f.kind # "fun"
  BY <1>2 DEF Stale
<1> QED
  BY <1>1, <1>2

LEMMA Freed ==
    ASSUME TypeOK, NEW s \in Signal
    PROVE  /\ Nested(Free(s)) /\ Len(Free(s)) = Len(stack) /\ DOMAIN Free(s) = DOMAIN stack
           /\ \A i \in DOMAIN stack :
                /\ Free(s)[i].kind = stack[i].kind
                /\ stack[i].kind = "fun" => Aged(Free(s)[i].saved, stack[i].saved)
                /\ stack[i].kind # "fun" => Free(s)[i] = stack[i]
<1>1. /\ Nested(stack) /\ Len(stack) \in Nat /\ Len(stack) > 0
      /\ DOMAIN stack = 1..Len(stack)
  BY OnTop
<1>2. \A i \in DOMAIN stack : stack[i] \in AnyFrame
  BY <1>1, ElementOfSeq DEF Nested
<1>3. CASE trapcom[s] = "empty"
  <2>1. Free(s) = [i \in 1..Len(stack) |-> Stale(stack[i], s)]
    BY <1>1, <1>3 DEF Free
  <2>2. \A i \in 1..Len(stack) : Stale(stack[i], s) \in AnyFrame
    BY <1>1, <1>2, StaleFrame
  <2>3. Free(s) \in Seq(AnyFrame) /\ Len(Free(s)) = Len(stack) /\ DOMAIN Free(s) = DOMAIN stack
    BY <1>1, <2>1, <2>2, IsASeq
  <2>4. Free(s) # <<>>
    BY <1>1, <2>3, EmptySeq
  <2>5. \A i \in DOMAIN stack : Free(s)[i] = Stale(stack[i], s)
    BY <1>1, <2>1
  <2>6. Nested(Free(s))
    BY <1>1, <1>2, <2>3, <2>4, <2>5, StaleFrame DEF Nested
  <2> QED
    BY <1>2, <2>3, <2>5, <2>6, StaleFrame
<1>4. CASE trapcom[s] # "empty"
  BY <1>1, <1>4 DEF Free, Aged
<1> QED
  BY <1>3, <1>4

\* The trap command pushes a context onto them.
LEMMA TrapPushed ==
    ASSUME TypeOK, NEW s \in Signal, NEW f \in CmdFrames, stack' = Append(Free(s), f)
    PROVE  /\ Nested(stack') /\ Top' = f /\ Len(stack') = Len(stack) + 1
           /\ stack'[Len(stack) + 1] = f
           /\ \A i \in DOMAIN stack : stack'[i] = Free(s)[i]
           /\ \A i : i \in DOMAIN stack' <=> i \in DOMAIN stack \/ i = Len(stack) + 1
<1> DEFINE n == Len(stack)
<1>1. /\ Nested(Free(s)) /\ Len(Free(s)) = n /\ n \in Nat /\ n > 0
      /\ DOMAIN Free(s) = 1..n /\ DOMAIN stack = 1..n
  BY OnTop, Freed
<1>2. f \in AnyFrame /\ f # Main
  BY FrameKinds DEF AnyFrame
<1>3. /\ stack' \in Seq(AnyFrame) /\ Len(stack') = n + 1 /\ stack'[n + 1] = f
      /\ \A i \in 1..n : stack'[i] = Free(s)[i]
  BY <1>1, <1>2, AppendProperties DEF Nested
<1>4. DOMAIN stack' = 1..(n + 1) /\ stack' # <<>>
  BY <1>1, <1>3, LenProperties, EmptySeq
<1>5. \A i : i \in DOMAIN stack' <=> i \in 1..n \/ i = n + 1
  BY <1>1, <1>4
<1>6. Nested(stack')
  BY <1>1, <1>2, <1>3, <1>4, <1>5 DEF Nested
<1> QED
  BY <1>1, <1>3, <1>5, <1>6 DEF Top

-----------------------------------------------------------------------------
\* The types without the contexts.
Scalars ==
    /\ trapcom \in Table /\ trapmax \in 0..(MaxSig + 1) /\ errtrap \in BOOLEAN
    /\ disp \in [Signal -> Disposition]
    /\ known \in [Signal -> BOOLEAN] /\ pending \in [Signal -> BOOLEAN]
    /\ note \in BOOLEAN
    /\ exitval \in Status /\ pc \in Label
    /\ chk \in Locals /\ keep \in Saved
    /\ jmp \in {0, FUN, EXIT}

LEMMA Typing == TypeOK <=> Scalars /\ Nested(stack)
BY DEF TypeOK, Scalars, Nested, AnyFrame

LEMMA TypingNext == TypeOK' <=> Scalars' /\ Nested(stack')
BY DEF TypeOK, Scalars, Nested, AnyFrame

LEMMA Bools == TRUE \in BOOLEAN /\ FALSE \in BOOLEAN
OBVIOUS

LEMMA Constants ==
    /\ MaxSig \in Nat /\ Signal = 1..MaxSig
    /\ 0 \in Status /\ 1 \in Status /\ \A s \in Signal : Killed(s) \in Status
    /\ NoCheck \in Locals /\ NothingKept \in Saved
    /\ \A s \in Signal : NothingKept.table[s] = "none"
<1>1. MaxSig \in Nat /\ Signal = 1..MaxSig
  BY TrapsAssumption DEF Signal
<1>2. NoCheck \in Locals
  BY <1>1, Bools DEF NoCheck, Locals
<1>3. NoTraps \in Table /\ \A s \in Signal : NoTraps[s] = "none"
  BY DEF NoTraps, Table, Action
<1>4. NothingKept \in Saved /\ NothingKept.table = NoTraps
  BY <1>1, <1>3, Bools DEF NothingKept, Saved
<1>5. 0 \in Status /\ 1 \in Status /\ \A s \in Signal : Killed(s) \in Status
  BY DEF Status
<1> QED
  BY <1>1, <1>2, <1>3, <1>4, <1>5

-----------------------------------------------------------------------------
\* No signal is noted or taken, flags may be dropped.
LEMMA StillCounted ==
    ASSUME Inv, UNCHANGED <<noted, started>>,
           \A s \in Signal : pending'[s] = pending[s] \/ pending'[s] = FALSE
    PROVE  Counted'
<1>1. \A s \in Signal : Flag(s)' <= Flag(s) /\ Flag(s) \in Nat /\ Flag(s)' \in Nat
  BY DEF Flag
<1> SUFFICES ASSUME NEW s \in Signal PROVE started[s] + Flag(s)' <= noted[s]
  BY DEF Inv, Counted
<1>2. started[s] \in Nat /\ noted[s] \in Nat /\ started[s] + Flag(s) <= noted[s]
  BY DEF Inv, Counted
<1> QED
  BY <1>1, <1>2

\* Steps that leave the traps and the contexts alone.
LEMMA Plain ==
    ASSUME Inv, UNCHANGED <<disp, known, pending, stack, keep, noted, started>>,
           pc \notin Inside, pc' \notin Inside,
           Scalars'
    PROVE  Inv'
<1>1. TypeOK'
  BY TypingNext, Typing DEF Inv
<1>2. Placed'
  BY DEF Placed
<1>3. Counted'
  BY DEF Inv, Counted, Flag
<1>5. KnownCaught'
  BY DEF Inv, KnownCaught, Inside
<1> QED
  BY <1>1, <1>2, <1>3, <1>5 DEF Inv

-----------------------------------------------------------------------------
(***************************************************************************)
(* Steps that change neither the traps nor the contexts.                   *)
(***************************************************************************)
LEMMA ExternalInv == Inv /\ External => Inv'
<1> SUFFICES ASSUME Inv, External PROVE Inv'
  OBVIOUS
<1>1. Scalars
  BY Typing DEF Inv
<1>2. Scalars'
  BY <1>1, Constants DEF External, Goto, Scalars, Label, Locals, sigstate, traps, locals, history
<1> QED
  BY <1>2, Plain DEF External, Goto, Inside, sigstate, traps, locals, history

LEMMA ExternalEndsInv == Inv /\ ExternalEnds => Inv'
<1> SUFFICES ASSUME Inv, ExternalEnds PROVE Inv'
  OBVIOUS
<1>1. Scalars
  BY Typing DEF Inv
<1>2. Scalars'
  BY <1>1, Constants, TrapsAssumption DEF ExternalEnds, Goto, Scalars, Label, Locals, sigstate, traps, locals, history
<1> QED
  BY <1>2, Plain DEF ExternalEnds, Goto, Inside, sigstate, traps, locals, history

LEMMA TrapErrInv == Inv /\ TrapErr => Inv'
<1> SUFFICES ASSUME Inv, TrapErr PROVE Inv'
  OBVIOUS
<1>1. Scalars
  BY Typing DEF Inv
<1>2. Scalars'
  BY <1>1, Constants DEF TrapErr, Goto, Scalars, Label, Locals, sigstate, traps, locals, history
<1> QED
  BY <1>2, Plain DEF TrapErr, Goto, Inside, sigstate, traps, locals, history

LEMMA FinishInv == Inv /\ Finish => Inv'
<1> SUFFICES ASSUME Inv, Finish PROVE Inv'
  OBVIOUS
<1>1. Scalars
  BY Typing DEF Inv
<1>2. Scalars'
  BY <1>1, Constants DEF Finish, Goto, Scalars, Label, Locals, sigstate, traps, locals, history
<1> QED
  BY <1>2, Plain DEF Finish, Goto, Inside, sigstate, traps, locals, history

LEMMA CommandInv == Inv /\ Command => Inv'
<1> SUFFICES ASSUME Inv, Command PROVE Inv'
  OBVIOUS
<1>1. Scalars
  BY Typing DEF Inv
<1>2. Scalars'
  BY <1>1, Constants DEF Command, Goto, Scalars, Label, Locals, sigstate, traps, locals, history
<1> QED
  BY <1>2, Plain DEF Command, Goto, Inside, sigstate, traps, locals, history

LEMMA LookInv == Inv /\ Look => Inv'
<1> SUFFICES ASSUME Inv, Look PROVE Inv'
  OBVIOUS
<1>1. Scalars
  BY Typing DEF Inv
<1>2. chk' \in Locals
  <2>1. (IF note /\ trapmax > 0 THEN trapmax - 1 ELSE 0) \in 0..MaxSig
    BY <1>1, Constants DEF Scalars
  <2> QED
    BY <1>1, <2>1 DEF Look, Scalars, Locals
<1>3. Scalars'
  BY <1>1, <1>2 DEF Look, Goto, Scalars, Label, sigstate, traps
<1> QED
  BY <1>3, Plain DEF Look, Goto, Inside, sigstate, traps, locals, history

LEMMA ClearInv == Inv /\ Clear => Inv'
<1> SUFFICES ASSUME Inv, Clear PROVE Inv'
  OBVIOUS
<1>1. Scalars
  BY Typing DEF Inv
<1>2. Scalars'
  BY <1>1, Constants DEF Clear, Goto, Scalars, Label, Locals, sigstate, traps, locals, history
<1> QED
  BY <1>2, Plain DEF Clear, Goto, Inside, sigstate, traps, locals, history

LEMMA ErrDoneInv == Inv /\ ErrDone => Inv'
<1> SUFFICES ASSUME Inv, ErrDone PROVE Inv'
  OBVIOUS
<1>1. Scalars
  BY Typing DEF Inv
<1>2. Scalars'
  BY <1>1, Constants DEF ErrDone, Goto, Scalars, Label, Locals, sigstate, traps, locals, history
<1> QED
  BY <1>2, Plain DEF ErrDone, Goto, Inside, sigstate, traps, locals, history

LEMMA ScannedInv == Inv /\ Scanned => Inv'
<1> SUFFICES ASSUME Inv, Scanned PROVE Inv'
  OBVIOUS
<1>1. Scalars
  BY Typing DEF Inv
<1>2. Scalars'
  BY <1>1, Constants DEF Scanned, Goto, Scalars, Label, Locals, sigstate, traps, locals, history
<1>3. chk.ret \in {"next", "jump"}
  BY <1>1 DEF Scalars, Locals
<1> QED
  BY <1>2, <1>3, Plain DEF Scanned, Goto, Inside, sigstate, traps, locals, history

LEMMA ForgetInv == Inv /\ Forget => Inv'
<1> SUFFICES ASSUME Inv, Forget PROVE Inv'
  OBVIOUS
<1>1. Scalars
  BY Typing DEF Inv
<1>2. Scalars'
  BY <1>1, Constants DEF Forget, Goto, Scalars, Label, Locals, sigstate, traps, locals, history
<1> QED
  BY <1>2, Plain DEF Forget, Goto, Inside, sigstate, traps, locals, history

LEMMA ResumeInv == Inv /\ Resume => Inv'
<1> SUFFICES ASSUME Inv, Resume PROVE Inv'
  OBVIOUS
<1>1. Scalars
  BY Typing DEF Inv
<1>2. Scalars'
  BY <1>1, Constants DEF Resume, Goto, Scalars, Label, Locals, sigstate, traps, locals, history
<1> QED
  BY <1>2, Plain DEF Resume, Goto, Inside, sigstate, traps, locals, history

-----------------------------------------------------------------------------
(***************************************************************************)
(* Steps that push a context.                                              *)
(***************************************************************************)
LEMMA ReadBuiltinInv == Inv /\ ReadBuiltin => Inv'
<1> SUFFICES ASSUME Inv, ReadBuiltin PROVE Inv'
  OBVIOUS
<1> DEFINE f == Cmd(TRUE, 0, "dfl")
<1>1. f \in CmdFrames /\ f.mode = CMD /\ f.stop = TRUE
  BY FrameTypes DEF Disposition, Cmd
<1>2. /\ Nested(stack') /\ Top' = f
      /\ Atop(f)
  BY <1>1, FrameKinds, Pushed DEF Inv, ReadBuiltin
<1>3. Scalars'
  BY Typing, Constants DEF Inv, ReadBuiltin, Goto, Scalars, Label, sigstate, traps, locals
<1>4. Placed'
  BY <1>1, <1>2 DEF ReadBuiltin, Goto, Placed
<1>5. Counted'
  BY StillCounted DEF ReadBuiltin, sigstate, traps, history
<1>7. KnownCaught'
  BY DEF Inv, KnownCaught, ReadBuiltin, Goto, sigstate, traps
<1> QED
  BY <1>2, <1>3, <1>4, <1>5, <1>7, TypingNext DEF Inv

LEMMA TrapSetInv ==
    ASSUME NEW s \in Signal, NEW action \in {"empty", "action"}
    PROVE  Inv /\ TrapSet(s, action) => Inv'
<1> SUFFICES ASSUME Inv, TrapSet(s, action) PROVE Inv'
  OBVIOUS
<1> DEFINE f == Cmd(FALSE, s, "dfl")
<1>1. f \in CmdFrames /\ f.mode = CMD /\ f.stop = FALSE /\ f.sig = s
  BY FrameTypes DEF Disposition, Cmd
<1>2. Nested(stack') /\ Top' = f
  BY <1>1, TrapPushed DEF Inv, TrapSet
<1>3. Scalars'
  <2>1. trapmax' \in 0..(MaxSig + 1)
    <3>1. trapmax \in 0..(MaxSig + 1)
      BY Typing DEF Inv, Scalars
    <3>2. trapmax' = trapmax \/ trapmax' = s + 1
      BY DEF TrapSet
    <3>3. MaxSig \in Nat /\ s \in 1..MaxSig
      BY Constants
    <3> QED
      BY <3>1, <3>2, <3>3
  <2> QED
    BY <2>1, Typing, Constants
       DEF Inv, TrapSet, Goto, Scalars, Label, Table, Action, locals
<1>4. Placed'
  BY <1>1, <1>2 DEF TrapSet, Goto, Placed
<1>5. Counted'
  BY StillCounted DEF TrapSet
<1>6. KnownCaught'
  BY DEF Inv, KnownCaught, TrapSet, Goto
<1> QED
  BY <1>2, <1>3, <1>4, <1>5, <1>6, TypingNext DEF Inv

LEMMA ErrInv == Inv /\ Err => Inv'
<1> SUFFICES ASSUME Inv, Err PROVE Inv'
  OBVIOUS
<1> DEFINE c == [chk EXCEPT !.sav = note]
           f == Trap(TRUE, exitval, c)
<1>1. Scalars
  BY Typing DEF Inv
<1>2. c \in Locals
  BY <1>1 DEF Scalars, Locals
<1>3. CASE ~errtrap
  <2>1. Scalars'
    BY <1>1, <1>2, <1>3 DEF Err, Goto, Scalars, Label, sigstate, traps
  <2> QED
    BY <1>3, <2>1, Plain DEF Err, Goto, Inside, sigstate, traps, history
<1>4. CASE errtrap
  <2>1. f \in TrapFrames
    BY <1>1, <1>2, Bools, FrameTypes DEF Scalars
  <2>2. /\ Nested(stack') /\ Top' = f
        /\ Atop(f)
    BY <1>4, <2>1, FrameKinds, Pushed DEF Inv, Err
  <2>3. Scalars'
    BY <1>1, <1>4, Constants DEF Err, Goto, Scalars, Label, sigstate, traps
  <2>4. Placed'
    BY <1>4 DEF Err, Goto, Placed, Inside
  <2>5. Counted'
    BY StillCounted DEF Err, sigstate, traps, history
  <2>7. KnownCaught'
    BY <1>4 DEF Inv, KnownCaught, Err, Goto, sigstate, traps
  <2> QED
    BY <2>2, <2>3, <2>4, <2>5, <2>7, TypingNext DEF Inv
<1> QED
  BY <1>3, <1>4

LEMMA ScanInv == ASSUME NEW s \in Signal PROVE Inv /\ Scan(s) => Inv'
<1> SUFFICES ASSUME Inv, Scan(s) PROVE Inv'
  OBVIOUS
<1> DEFINE c == [chk EXCEPT !.left = s - 1]
           f == Trap(FALSE, exitval, c)
<1>1. Scalars
  BY Typing DEF Inv
<1>2. c \in Locals
  <2>1. s - 1 \in 0..MaxSig
    BY Constants
  <2> QED
    BY <1>1, <2>1 DEF Scalars, Locals
<1>3. /\ pending[s] = TRUE
      /\ pending' = [pending EXCEPT ![s] = FALSE] /\ pending' \in [Signal -> BOOLEAN]
  BY <1>1, Bools, Zenon DEF Scan, IsNext, Flagged, Scalars
<1>4. /\ chk' = c \/ chk' = NoCheck
      /\ pc' = "scan" \/ pc' = "next"
      /\ stack' = stack \/ Push(f)
      /\ started' = started \/ started' = [started EXCEPT ![s] = @ + 1]
      /\ pc = "scan"
      /\ UNCHANGED <<trapcom, trapmax, errtrap, disp, known, note, exitval, keep, jmp, noted>>
  BY DEF Scan, Goto, traps
<1>5. Scalars'
  BY <1>1, <1>2, <1>3, <1>4, Constants DEF Scalars, Label
<1>6. f \in TrapFrames
  BY <1>1, <1>2, Bools, FrameTypes DEF Scalars
<1>7. /\ Nested(stack')
      /\ Atop(f)
  <2>1. CASE stack' = stack
    BY <2>1, Typing DEF Inv, Atop
  <2>2. CASE Push(f)
    BY <1>6, <2>2, FrameKinds, Pushed DEF Inv
  <2> QED
    BY <1>4, <2>1, <2>2
<1>8. Placed'
  BY <1>4 DEF Placed, Inside
<1>9. Counted'
  <2>1. Flag(s) = 1 /\ Flag(s)' = 0
    BY <1>1, <1>3 DEF Flag, Scalars
  <2>2. \A t \in Signal : t # s => Flag(t)' = Flag(t)
    BY <1>1, <1>3 DEF Flag, Scalars
  <2>3. /\ started' \in [Signal -> Nat]
        /\ started'[s] <= started[s] + 1
        /\ \A t \in Signal : t # s => started'[t] = started[t]
    BY <1>4 DEF Inv, Counted
  <2>4. \A t \in Signal : started'[t] + Flag(t)' <= noted[t]
    <3> SUFFICES ASSUME NEW t \in Signal PROVE started'[t] + Flag(t)' <= noted[t]
      OBVIOUS
    <3>1. /\ started[t] \in Nat /\ noted[t] \in Nat /\ started'[t] \in Nat
          /\ started[t] + Flag(t) <= noted[t]
      BY <2>3 DEF Inv, Counted
    <3> QED
      BY <2>1, <2>2, <2>3, <3>1
  <2> QED
    BY <1>4, <2>3, <2>4 DEF Inv, Counted
<1>11. KnownCaught'
  BY <1>4 DEF Inv, KnownCaught
<1> QED
  BY <1>5, <1>7, <1>8, <1>9, <1>11, TypingNext DEF Inv

LEMMA EnterInv == Inv /\ Enter => Inv'
<1> SUFFICES ASSUME Inv, Enter PROVE Inv'
  OBVIOUS
<1> DEFINE f == Fun(keep)
<1>1. Scalars
  BY Typing DEF Inv
<1>2. f \in FunFrames /\ f.saved = keep
  BY <1>1, FrameTypes DEF Scalars
<1>3. /\ Nested(stack')
      /\ Atop(f)
  BY <1>2, FrameKinds, Pushed DEF Inv, Enter
<1>4. Scalars'
  BY <1>1, Constants DEF Enter, Goto, Scalars, Label, sigstate, traps
<1>5. Placed'
  BY DEF Enter, Goto, Placed, Inside
<1>6. Counted'
  BY StillCounted DEF Enter, sigstate, traps
<1>8. KnownCaught'
  BY DEF Inv, KnownCaught, Enter, Goto, sigstate, traps
<1> QED
  BY <1>3, <1>4, <1>5, <1>6, <1>8, TypingNext DEF Inv

-----------------------------------------------------------------------------
(***************************************************************************)
(* Steps that pop a context, or change the one on top.                     *)
(***************************************************************************)
LEMMA ReadEndsInv == Inv /\ ReadEnds => Inv'
<1> SUFFICES ASSUME Inv, ReadEnds PROVE Inv'
  OBVIOUS
<1>1. Nested(stack') /\ OldFrames
  BY FrameKinds, Popped DEF Inv, Placed, Inside, ReadEnds
<1>2. Scalars'
  BY Typing, Constants DEF Inv, ReadEnds, Goto, Scalars, Label, sigstate, traps, locals
<1>3. Placed'
  BY DEF ReadEnds, Goto, Placed, Inside
<1>4. Counted'
  BY StillCounted DEF ReadEnds, sigstate, traps, history
<1>6. KnownCaught'
  BY DEF Inv, KnownCaught, ReadEnds, Goto, sigstate, traps
<1> QED
  BY <1>1, <1>2, <1>3, <1>4, <1>6, TypingNext DEF Inv

LEMMA InstallInv == Inv /\ Install => Inv'
<1> SUFFICES ASSUME Inv, Install PROVE Inv'
  OBVIOUS
<1>1. Scalars /\ Top \in CmdFrames /\ Top.mode = CMD /\ ~Top.stop /\ Top.sig \in Signal
  BY Typing DEF Inv, Install, Placed, Inside
<1>3. CASE known[Top.sig]
  <2>1. Nested(stack') /\ OldFrames
    BY <1>1, <1>3, FrameKinds, Popped DEF Inv, Install
  <2>2. Scalars'
    BY <1>1, <1>3 DEF Install, Goto, Scalars, Label, locals, traps
  <2>3. Placed'
    BY <1>3 DEF Install, Goto, Placed, Inside
  <2>4. Counted'
    BY StillCounted DEF Install, history
  <2>6. KnownCaught'
    BY <1>1, <1>3 DEF Inv, KnownCaught, Install, Goto
  <2> QED
    BY <2>1, <2>2, <2>3, <2>4, <2>6, TypingNext DEF Inv
<1>4. CASE ~known[Top.sig]
  <2> DEFINE f == [Top EXCEPT !.was = disp[Top.sig]]
  <2>1. /\ f \in CmdFrames /\ f.mode = CMD /\ ~f.stop /\ f.sig = Top.sig
    BY <1>1 DEF Scalars, CmdFrames
  <2>2. stack' = [stack EXCEPT ![Len(stack)] = f]
    BY <1>4 DEF Install, Top
  <2>3. /\ Nested(stack') /\ Top' = f
        /\ Within(f)
    BY <1>1, <2>1, <2>2, FrameKinds, Changed DEF Inv, AnyFrame
  <2>4. /\ disp' \in [Signal -> Disposition] /\ disp'[Top.sig] = "sh_fault"
        /\ \A s \in Signal : s # Top.sig => disp'[s] = disp[s]
    BY <1>1, <1>4 DEF Install, Scalars, Disposition
  <2>5. \A s \in Signal : disp[s] # "dfl" => disp'[s] # "dfl"
    BY <2>4
  <2>6. Scalars'
    BY <1>1, <1>4, <2>4 DEF Install, Goto, Scalars, Label, locals, traps
  <2>7. Placed'
    BY <1>1, <1>4, <2>1, <2>3 DEF Install, Goto, Placed
  <2>8. Counted'
    BY StillCounted DEF Install, history
  <2>10. KnownCaught'
    BY <2>1, <2>3, <2>4, <2>5 DEF Inv, KnownCaught, Install
  <2> QED
    BY <2>3, <2>6, <2>7, <2>8, <2>10, TypingNext DEF Inv
<1> QED
  BY <1>3, <1>4

LEMMA ReinstallInv == Inv /\ Reinstall => Inv'
<1> SUFFICES ASSUME Inv, Reinstall PROVE Inv'
  OBVIOUS
<1>1. Scalars
  BY Typing DEF Inv
<1>2. disp' \in [Signal -> Disposition] /\ \A s \in Signal : disp[s] # "dfl" => disp'[s] # "dfl"
  BY <1>1 DEF Reinstall, Scalars, Disposition
<1>3. Scalars' /\ Nested(stack')
  BY <1>1, <1>2, Typing DEF Inv, Reinstall, Goto, Scalars, Label, locals, traps
<1>4. Placed'
  BY DEF Inv, Reinstall, Goto, Placed, Inside, Top
<1>5. Counted'
  BY StillCounted DEF Reinstall, history
<1>7. KnownCaught'
  BY <1>2 DEF Inv, KnownCaught, Reinstall, Goto, Top
<1> QED
  BY <1>3, <1>4, <1>5, <1>7, TypingNext DEF Inv

LEMMA MarkInv == Inv /\ Mark => Inv'
<1> SUFFICES ASSUME Inv, Mark PROVE Inv'
  OBVIOUS
<1>1. Scalars /\ Top \in CmdFrames /\ Top.sig \in Signal
  BY Typing DEF Inv, Mark, Placed, Inside
<1>2. Nested(stack') /\ OldFrames
  BY <1>1, FrameKinds, Popped DEF Inv, Mark
<1>3. pending' \in [Signal -> BOOLEAN] /\ known' \in [Signal -> BOOLEAN]
  BY <1>1, Bools, Zenon DEF Mark, Scalars
<1>4. Scalars'
  BY <1>1, <1>3 DEF Mark, Goto, Scalars, Label, locals, traps
<1>5. Placed'
  BY DEF Mark, Goto, Placed, Inside
<1>6. Counted'
  <2>1. \A s \in Signal : pending'[s] = pending[s] \/ pending'[s] = FALSE
    BY <1>1 DEF Mark, Scalars
  <2> QED
    BY <2>1, StillCounted DEF Mark, history
<1>8. KnownCaught'
  BY <1>1 DEF Inv, KnownCaught, Mark, Goto, Scalars
<1> QED
  BY <1>2, <1>4, <1>5, <1>6, <1>8, TypingNext DEF Inv

LEMMA TrapEndsInv == Inv /\ TrapEnds => Inv'
<1> SUFFICES ASSUME Inv, TrapEnds PROVE Inv'
  OBVIOUS
<1>1. Scalars /\ Top \in TrapFrames /\ Top # Main
  BY Typing, OnTop, FrameOfKind, FrameKinds DEF Inv, TrapEnds
<1>2. Nested(stack') /\ OldFrames
  BY <1>1, Popped DEF Inv, TrapEnds
<1>3. Top.exit \in Status /\ Top.chk \in Locals
  BY <1>1 DEF TrapFrames
<1>4. Scalars'
  BY <1>1, <1>3 DEF TrapEnds, Goto, Scalars, Label, sigstate, traps
<1>5. Placed'
  BY DEF TrapEnds, Goto, Placed, Inside
<1>6. Counted'
  BY StillCounted DEF TrapEnds, sigstate, traps, history
<1>8. KnownCaught'
  BY DEF Inv, KnownCaught, TrapEnds, Goto, sigstate, traps
<1> QED
  BY <1>2, <1>4, <1>5, <1>6, <1>8, TypingNext DEF Inv

\* The traps that a function has saved come from its context.
LEMMA FromFrame ==
    ASSUME Inv, Top.kind = "fun", keep' = Top.saved, Pop
    PROVE  keep' \in Saved /\ Nested(stack')
<1>1. Top \in FunFrames /\ Top # Main
  BY OnTop, FrameOfKind, FrameKinds DEF Inv
<1>2. Nested(stack')
  BY <1>1, Popped DEF Inv
<1> QED
  BY <1>1, <1>2 DEF FunFrames

LEMMA ReturnInv == Inv /\ Return => Inv'
<1> SUFFICES ASSUME Inv, Return PROVE Inv'
  OBVIOUS
<1>1. keep' \in Saved /\ Nested(stack')
  BY FromFrame DEF Return, sigstate, traps
<1>2. Scalars'
  BY <1>1, Typing DEF Inv, Return, Goto, Scalars, Label, sigstate, traps
<1>3. Placed' /\ KnownCaught'
  BY DEF Inv, Return, Goto, Placed, Inside, KnownCaught,
         sigstate, traps
<1>4. Counted'
  BY StillCounted DEF Return, sigstate, traps, history
<1> QED
  BY <1>1, <1>2, <1>3, <1>4, TypingNext DEF Inv

LEMMA JumpInv == Inv /\ Jump => Inv'
<1> SUFFICES ASSUME Inv, Jump PROVE Inv'
  OBVIOUS
<1>1. keep' \in Saved /\ Nested(stack')
  <2>1. CASE Top.kind \in {"cmd", "trap"} /\ Pop /\ UNCHANGED <<pc, keep>>
    <3>1. Top # Main
      BY <2>1 DEF Main
    <3>2. Nested(stack') /\ OldFrames
      BY <2>1, <3>1, Popped DEF Inv
    <3> QED
      BY <2>1, <3>2, Typing DEF Inv, Scalars
  <2>2. CASE Top.kind = "fun" /\ keep' = Top.saved /\ Pop
    BY <2>2, FromFrame DEF Jump, sigstate, traps
  <2>3. CASE UNCHANGED <<stack, keep>>
    <3> QED
      BY <2>3, Typing DEF Inv, Scalars
  <2> QED
    BY <2>1, <2>2, <2>3 DEF Jump
<1>2. pc' \in {"jump", "leave", "dead"}
  BY DEF Jump, Goto
<1>3. Scalars'
  BY <1>1, <1>2, Typing DEF Inv, Jump, Scalars, Label, sigstate, traps
<1>4. Placed' /\ KnownCaught'
  BY <1>2 DEF Inv, Jump, Placed, Inside, KnownCaught,
              sigstate, traps
<1>5. Counted'
  BY StillCounted DEF Jump, sigstate, traps, history
<1> QED
  BY <1>1, <1>3, <1>4, <1>5, TypingNext DEF Inv

-----------------------------------------------------------------------------
(***************************************************************************)
(* Steps that change the table of traps.                                   *)
(***************************************************************************)
LEMMA TrapClearInv == ASSUME NEW s \in Signal PROVE Inv /\ TrapClear(s) => Inv'
<1> SUFFICES ASSUME Inv, TrapClear(s) PROVE Inv'
  OBVIOUS
<1>1. Scalars /\ Nested(stack)
  BY Typing DEF Inv
<1>2. trapcom' \in Table
  BY <1>1 DEF TrapClear, Scalars, Table, Action
<1>3. pending' \in [Signal -> BOOLEAN]
  BY <1>1, Bools, Zenon DEF TrapClear, Scalars
<1>4. \A t \in Signal : pending'[t] = pending[t] \/ pending'[t] = FALSE
  BY <1>1 DEF TrapClear, Scalars
<1>5. Scalars'
  BY <1>1, <1>2, <1>3, Constants DEF TrapClear, Goto, Scalars, Label, locals
<1>6. Nested(stack')
  BY <1>1, Freed DEF Inv, TrapClear
<1>7. Placed'
  BY DEF TrapClear, Goto, Placed, Inside
<1>8. Counted'
  BY <1>4, StillCounted DEF TrapClear
<1>9. KnownCaught'
  BY DEF Inv, KnownCaught, TrapClear, Goto
<1> QED
  BY <1>5, <1>6, <1>7, <1>8, <1>9, TypingNext DEF Inv

LEMMA ResetTypes ==
    ASSUME Inv, Reset
    PROVE  /\ trapcom' \in Table /\ pending' \in [Signal -> BOOLEAN]
           /\ errtrap' \in BOOLEAN /\ note' \in BOOLEAN
           /\ disp' = disp /\ known' = known
           /\ \A s \in Signal : trapcom'[s] = "action" => trapcom[s] = "action" /\ ~(s < trapmax)
           /\ \A s \in Signal : pending'[s] = pending[s] \/ pending'[s] = FALSE
<1>1. Scalars
  BY Typing DEF Inv
<1>2. PICK gone : Dropped(gone)
  BY DEF Reset, ResetFlags
<1>3. trapcom' \in Table /\ \A s \in Signal : trapcom'[s] = "action" => trapcom[s] = "action" /\ ~(s < trapmax)
  BY <1>1, <1>2 DEF Dropped, Scalars, Table, Action
<1>4. pending' \in [Signal -> BOOLEAN]
  BY <1>1, Bools DEF Reset, ResetFlags, Scalars
<1>5. errtrap' \in BOOLEAN /\ note' \in BOOLEAN
  BY Bools DEF Reset, ResetFlags
<1>6. \A s \in Signal : pending'[s] = pending[s] \/ pending'[s] = FALSE
  BY <1>1 DEF Reset, ResetFlags, Scalars
<1> QED
  BY <1>3, <1>4, <1>5, <1>6 DEF Reset

\* What a function call saves.
LEMMA PrefixType ==
    ASSUME TypeOK
    PROVE  [max |-> trapmax, table |-> Prefix(trapcom), err |-> errtrap] \in Saved
<1>1. Prefix(trapcom) \in Table
  BY DEF TypeOK, Prefix, Table, Action
<1> QED
  BY <1>1 DEF TypeOK, Saved

LEMMA CallInv == Inv /\ Call => Inv'
<1> SUFFICES ASSUME Inv, Call PROVE Inv'
  OBVIOUS
<1>1. Scalars /\ Nested(stack)
  BY Typing DEF Inv
<1>2. keep' \in Saved
  BY PrefixType DEF Call, Inv
<1>3. Scalars' /\ Nested(stack')
  BY <1>1, <1>2, ResetTypes, Constants DEF Call, Goto, Scalars, Label
<1>4. Placed'
  BY DEF Call, Goto, Placed, Inside
<1>5. Counted'
  BY ResetTypes, StillCounted DEF Call, history
<1>7. KnownCaught'
  BY ResetTypes DEF Inv, KnownCaught, Call, Goto
<1> QED
  BY <1>3, <1>4, <1>5, <1>7, TypingNext DEF Inv

LEMMA LeaveInv == Inv /\ Leave => Inv'
<1> SUFFICES ASSUME Inv, Leave PROVE Inv'
  OBVIOUS
<1>1. Scalars' /\ Nested(stack')
  BY Typing, ResetTypes, Constants DEF Inv, Leave, Goto, Scalars, Label, locals
<1>2. Placed' /\ KnownCaught'
  BY ResetTypes DEF Inv, KnownCaught, Leave, Goto, Placed, Inside
<1>3. Counted'
  BY ResetTypes, StillCounted DEF Leave, history
<1> QED
  BY <1>1, <1>2, <1>3, TypingNext DEF Inv

LEMMA RestoreInv == Inv /\ Restore => Inv'
<1> SUFFICES ASSUME Inv, Restore PROVE Inv'
  OBVIOUS
<1>1. Scalars' /\ Nested(stack')
  <2>1. /\ trapcom \in Table /\ keep.table \in Table
        /\ keep.max \in 0..(MaxSig + 1) /\ keep.err \in BOOLEAN
    BY Typing DEF Inv, Scalars, Saved
  <2>2. trapcom' \in Table
    BY <2>1 DEF Restore, Table
  <2> QED
    BY <2>1, <2>2, Typing, Constants DEF Inv, Restore, Goto, Scalars, Label
<1>2. Placed'
  BY DEF Restore, Goto, Placed, Inside
<1>3. Counted'
  BY StillCounted DEF Restore
<1>5. KnownCaught'
  BY DEF Inv, KnownCaught, Restore, Goto
<1> QED
  BY <1>1, <1>2, <1>3, <1>5, TypingNext DEF Inv

-----------------------------------------------------------------------------
(***************************************************************************)
(* Signals.  What is interrupted goes on at a label where it was, or from  *)
(* "pass" at "left".                                                       *)
(***************************************************************************)
LEMMA QuitFrame ==
    ASSUME NEW s \in Signal, Inv, Quit(s)
    PROVE  LET f == [Top EXCEPT !.mode = jmp']
           IN  /\ Nested(stack') /\ Within(f)
               /\ jmp' \in {FUN, EXIT} /\ f.mode = jmp'
               /\ f.kind = Top.kind /\ (f.kind = "fun" => f.saved = Top.saved)
<1> DEFINE f == [Top EXCEPT !.mode = jmp']
<1>1. /\ stack' = [stack EXCEPT ![Len(stack)] = f]
      /\ jmp' \in {FUN, EXIT} /\ (Top = Main => jmp' = EXIT)
  BY DEF Quit, Top, Main, FUN, EXIT
<1>2. /\ f \in AnyFrame /\ (f = Main <=> Top = Main)
      /\ f.mode = jmp' /\ f.kind = Top.kind /\ (f.kind = "fun" => f.saved = Top.saved)
  <2>1. Top \in AnyFrame
    BY OnTop DEF Inv
  <2>2. CASE Top = Main
    <3>1. f = Main
      BY <1>1, <2>2 DEF Main
    <3> QED
      BY <1>1, <2>2, <3>1 DEF AnyFrame, Main
  <2>3. CASE Top \in CmdFrames
    <3>1. f \in CmdFrames /\ f.mode = jmp'
      BY <1>1, <2>3 DEF CmdFrames
    <3> QED
      BY <2>3, <3>1, FrameKinds DEF AnyFrame
  <2>4. CASE Top \in TrapFrames
    <3>1. f \in TrapFrames /\ f.mode = jmp'
      BY <1>1, <2>4 DEF TrapFrames
    <3> QED
      BY <2>4, <3>1, FrameKinds DEF AnyFrame
  <2>5. CASE Top \in FunFrames
    <3>1. f \in FunFrames /\ f.saved = Top.saved /\ f.mode = jmp'
      BY <1>1, <2>5 DEF FunFrames
    <3> QED
      BY <2>5, <3>1, FrameKinds DEF AnyFrame
  <2> QED
    BY <2>1, <2>2, <2>3, <2>4, <2>5 DEF AnyFrame, Frame
<1>3. /\ Nested(stack')
      /\ Within(f)
  BY <1>1, <1>2, Changed DEF Inv
<1> QED
  BY <1>1, <1>2, <1>3

LEMMA QuitInv ==
    ASSUME NEW s \in Signal, Inv, Quit(s),
           disp' = [disp EXCEPT ![s] = "sh_fault"],
           UNCHANGED <<traps, errtrap, known, started>>
    PROVE  Inv'
<1>1. Scalars
  BY Typing DEF Inv
<1>2. disp' \in [Signal -> Disposition] /\ \A t \in Signal : disp[t] # "dfl" => disp'[t] # "dfl"
  BY <1>1 DEF Scalars, Disposition
<1>3. Scalars'
  BY <1>1, <1>2, Constants DEF traps, Quit, Goto, Scalars, Label
<1> DEFINE f == [Top EXCEPT !.mode = jmp']
<1>4. /\ Nested(stack') /\ Within(f)
      /\ f.kind = "fun" => Top.kind = "fun" /\ f.saved = Top.saved
  BY QuitFrame
<1>5. Placed'
  BY DEF Quit, Goto, Placed, Inside
<1>6. Counted'
  BY StillCounted DEF Quit
<1>8. KnownCaught'
  BY <1>2 DEF Inv, KnownCaught, Quit, Goto
<1> QED
  BY <1>3, <1>4, <1>5, <1>6, <1>8, TypingNext DEF Inv

LEMMA NoteInv ==
    ASSUME NEW s \in Signal, NEW label \in Label, Inv, Leafs, pc # "dead", Note(s, label),
           label = pc \/ (pc = "pass" /\ label = "left"),
           disp' = [disp EXCEPT ![s] = "sh_fault"],
           UNCHANGED <<traps, errtrap, known, started>>
    PROVE  Inv'
<1>1. Scalars
  BY Typing DEF Inv
<1>2. disp' \in [Signal -> Disposition] /\ \A t \in Signal : disp[t] # "dfl" => disp'[t] # "dfl"
  BY <1>1 DEF Scalars, Disposition
<1>3. pending' = [pending EXCEPT ![s] = TRUE] /\ pending' \in [Signal -> BOOLEAN]
  BY <1>1, Bools, Zenon DEF Note, Scalars
<1>4. Scalars'
  BY <1>1, <1>2, <1>3, Constants, Bools
     DEF Note, Interrupt, Goto, Scalars, Label, locals, traps
<1>5. ASSUME Stops PROVE Nested(stack') /\ Placed' /\ KnownCaught'
  <2>1. Top \in CmdFrames /\ Top # Main /\ pc = "read"
    <3>1. Top # Main
      BY <1>5 DEF Stops, Main, CMD, EXIT
    <3>2. Top \in CmdFrames
      BY <1>5, <3>1, OnTop DEF Inv, Stops, AnyFrame, Frame, FunFrames, TrapFrames,
                               CMD, FUN, EXIT, TRAP
    <3>3. pc \in Inside
      BY <1>5, <3>2, OnTop, FrameKinds DEF Inv, Leafs, Stops, Top
    <3> QED
      BY <1>5, <3>1, <3>2, <3>3 DEF Inv, Placed, Stops
  <2>2. Pop /\ pc' = "status"
    BY <1>5 DEF Note, Interrupt, Goto
  <2>3. Nested(stack') /\ OldFrames
    BY <2>1, <2>2, Popped DEF Inv
  <2>4. Placed'
    BY <2>2 DEF Placed, Inside
  <2>6. KnownCaught'
    BY <1>2, <2>1, <2>2 DEF Inv, KnownCaught
  <2> QED
    BY <2>3, <2>4, <2>6
<1>6. ASSUME ~Stops PROVE Nested(stack') /\ Placed' /\ KnownCaught'
  <2>1. stack' = stack /\ pc' = label
    BY <1>6 DEF Note, Interrupt, Goto
  <2>2. Nested(stack')
    BY <2>1, Typing DEF Inv
  <2>3. Placed'
    BY <2>1 DEF Inv, Placed, Inside, Top
  <2>5. KnownCaught'
    <3>1. pc' \in {"installed", "mark"} => pc' = pc /\ Top' = Top /\ Top.sig \in Signal
      BY <2>1 DEF Inv, Placed, Inside, Top
    <3> QED
      BY <1>2, <3>1 DEF Inv, KnownCaught
  <2> QED
    BY <2>2, <2>3, <2>5
<1>7. Nested(stack') /\ Placed' /\ KnownCaught'
  BY <1>5, <1>6
<1>8. Counted'
  <2>1. /\ noted' \in [Signal -> Nat] /\ noted'[s] = noted[s] + 1
        /\ \A t \in Signal : t # s => noted'[t] = noted[t]
    BY DEF Inv, Counted, Note
  <2>2. /\ \A t \in Signal : Flag(t) \in {0, 1} /\ Flag(t)' \in {0, 1}
        /\ \A t \in Signal : t # s => Flag(t)' = Flag(t)
    BY <1>1, <1>3 DEF Flag, Scalars
  <2>3. \A t \in Signal : started[t] + Flag(t)' <= noted'[t]
    <3> SUFFICES ASSUME NEW t \in Signal PROVE started[t] + Flag(t)' <= noted'[t]
      OBVIOUS
    <3>1. started[t] \in Nat /\ noted[t] \in Nat /\ started[t] + Flag(t) <= noted[t]
      BY DEF Inv, Counted
    <3> QED
      BY <2>1, <2>2, <3>1
  <2> QED
    BY <2>1, <2>3 DEF Inv, Counted
<1> QED
  BY <1>4, <1>7, <1>8, TypingNext DEF Inv

LEMMA FaultInv ==
    ASSUME NEW s \in Signal, NEW label \in Label, Inv, Leafs, pc # "dead", Fault(s, label),
           label = pc \/ (pc = "pass" /\ label = "left")
    PROVE  Inv'
<1>1. Scalars
  BY Typing DEF Inv
<1>2. disp' \in [Signal -> Disposition] /\ \A t \in Signal : disp[t] # "dfl" => disp'[t] # "dfl"
  BY <1>1 DEF Fault, Scalars, Disposition
<1>3. CASE Quit(s)
  BY <1>3, QuitInv DEF Fault
<1>4. CASE Note(s, label)
  BY <1>4, NoteInv DEF Fault
<1>5. CASE Goto(label) /\ UNCHANGED <<pending, note, exitval, stack, locals, noted>>
  <2>1. Scalars' /\ Nested(stack')
    BY <1>1, <1>2, <1>5, Typing DEF Inv, Fault, Goto, Scalars, locals, traps
  <2>2. Placed'
    BY <1>5 DEF Inv, Placed, Inside, Goto, Top
  <2>4. KnownCaught'
    <3>1. pc' \in {"installed", "mark"} => pc' = pc /\ Top' = Top /\ Top.sig \in Signal
      BY <1>5 DEF Inv, Placed, Inside, Goto, Top
    <3> QED
      BY <1>2, <3>1 DEF Inv, KnownCaught, Fault
  <2>6. Counted'
    BY <1>5, StillCounted DEF Fault
  <2> QED
    BY <2>1, <2>2, <2>4, <2>6, TypingNext DEF Inv
<1> QED
  BY <1>3, <1>4, <1>5 DEF Fault

LEMMA SignalledInv ==
    ASSUME NEW s \in Signal, Inv, Leafs, Signalled(s)
    PROVE  Inv'
<1>1. Scalars
  BY Typing DEF Inv
<1>2. CASE disp[s] = "sh_fault"
  BY <1>1, <1>2, FaultInv DEF Signalled, Scalars
<1>3. CASE disp[s] # "sh_fault"
  <2>1. /\ pc' = pc \/ pc' = "dead"
        /\ UNCHANGED <<trapcom, trapmax, errtrap, disp, known, pending, note, exitval, stack,
                       chk, keep, jmp, noted, started>>
    BY <1>3 DEF Signalled, sigstate, traps, locals
  <2>2. Scalars' /\ Nested(stack')
    BY <1>1, <2>1, Typing DEF Inv, Scalars, Label
  <2>3. Placed'
    BY <2>1 DEF Inv, Placed, Inside, Top
  <2>5. KnownCaught'
    BY <2>1 DEF Inv, KnownCaught, Top
  <2>6. Counted'
    BY <2>1, StillCounted
  <2> QED
    BY <2>2, <2>3, <2>5, <2>6, TypingNext DEF Inv
<1> QED
  BY <1>2, <1>3

LEMMA PassInv ==
    ASSUME NEW s \in Signal, Inv, Leafs, Pass(s)
    PROVE  Inv'
BY FaultInv DEF Pass, Label

-----------------------------------------------------------------------------
(***************************************************************************)
(* A command is always the last context.                                   *)
(***************************************************************************)
LEMMA NoCommand ==
    ASSUME Leafs, pc \notin Inside, pc \notin {"jump", "dead"}
    PROVE  \A i \in DOMAIN stack : stack[i].kind # "cmd"
BY DEF Leafs

LEMMA LeafsKept == Inv /\ Leafs /\ [Next]_vars => Leafs'
<1> SUFFICES ASSUME Inv, Leafs, [Next]_vars PROVE Leafs'
  OBVIOUS
<1>1. ASSUME pc \notin Inside, pc \notin {"jump", "dead"}, stack' = stack PROVE Leafs'
  BY <1>1, NoCommand DEF Leafs
<1>2. ASSUME OldFrames PROVE Leafs'
  BY <1>2 DEF Leafs, OldFrames
<1>3. ASSUME Top # Main, Pop PROVE Leafs'
  BY <1>2, <1>3, Popped DEF Inv
<1>4. ASSUME NEW f \in Frame, f # Main, Push(f), pc \notin Inside, pc \notin {"jump", "dead"},
             f.kind = "cmd" => pc' \in Inside
      PROVE  Leafs'
  <2>1. Atop(f)
    BY <1>4, Pushed DEF Inv
  <2> QED
    BY <1>4, <2>1, NoCommand DEF Leafs, Atop
<1>5. ASSUME NEW f, Within(f), Len(stack) \in DOMAIN stack,
             f.kind = "cmd" =>
               Top.kind = "cmd" /\ (pc' \in Inside \/ (pc' = "jump" /\ f.mode # CMD))
      PROVE  Leafs'
  BY <1>5 DEF Leafs, Within
<1>6. ASSUME NEW s \in Signal, NEW label, Fault(s, label),
             label = pc \/ (pc = "pass" /\ label = "left")
      PROVE  Leafs'
  <2>1. CASE Quit(s)
    <3> DEFINE f == [Top EXCEPT !.mode = jmp']
    <3>1. Within(f) /\ f.kind = Top.kind /\ f.mode # CMD
      BY <2>1, QuitFrame DEF CMD, FUN, EXIT
    <3> QED
      BY <1>5, <2>1, <3>1, OnTop DEF Inv, Quit, Goto
  <2>2. CASE stack' = stack /\ pc' = label
    BY <1>6, <2>2 DEF Leafs, Inside
  <2>3. CASE Stops /\ Pop
    <3>1. Top # Main
      BY <2>3 DEF Stops, Main, CMD, EXIT
    <3> QED
      BY <1>3, <2>3, <3>1
  <2> QED
    BY <1>6, <2>1, <2>2, <2>3 DEF Fault, Note, Interrupt, Goto
<1>7. CASE \/ External \/ ExternalEnds \/ TrapErr \/ Finish \/ Command \/ Look \/ Clear
           \/ ErrDone \/ Scanned \/ Call \/ Leave \/ Restore \/ Forget \/ Resume
  BY <1>1, <1>7
     DEF External, ExternalEnds, TrapErr, Finish, Command, Look, Clear, ErrDone, Scanned,
         Call, Leave, Restore, Forget, Resume, Inside
<1>17. ASSUME NEW s \in Signal, TrapClear(s) PROVE Leafs'
  <2>1. pc \notin Inside /\ pc \notin {"jump", "dead"} /\ (stack' = stack \/ stack' = Free(s))
    BY <1>17 DEF TrapClear, Inside
  <2>2. CASE stack' = Free(s)
    BY <2>1, <2>2, NoCommand, Freed DEF Inv, Leafs
  <2> QED
    BY <1>1, <2>1, <2>2
<1>8. CASE ReadEnds \/ Mark \/ Install
  <2>1. Top \in CmdFrames /\ Top # Main
    BY <1>8, FrameKinds DEF Inv, Placed, Inside, ReadEnds, Mark, Install
  <2>2. CASE Pop
    BY <1>3, <2>1, <2>2
  <2>3. CASE Install /\ ~known[Top.sig]
    <3> DEFINE f == [Top EXCEPT !.was = disp[Top.sig]]
    <3>1. disp[Top.sig] \in Disposition
      BY <2>3, Typing DEF Inv, Placed, Inside, Install, Scalars
    <3>2. f \in CmdFrames /\ f \in AnyFrame /\ f # Main
      <4>1. f \in CmdFrames
        BY <2>1, <3>1 DEF CmdFrames
      <4> QED
        BY <4>1, FrameKinds DEF AnyFrame
    <3>3. stack' = [stack EXCEPT ![Len(stack)] = f] /\ pc' = "installed"
      BY <2>3 DEF Install, Top, Goto
    <3>4. Within(f) /\ Len(stack) \in DOMAIN stack
      BY <2>1, <3>2, <3>3, Changed, OnTop DEF Inv
    <3> QED
      BY <1>5, <2>1, <3>3, <3>4, FrameKinds DEF Inside
  <2> QED
    BY <1>8, <2>2, <2>3 DEF ReadEnds, Mark, Install
<1>9. CASE Reinstall
  BY <1>9 DEF Leafs, Inside, Reinstall, Goto
<1>10. CASE TrapEnds \/ Return
  BY <1>3, <1>10 DEF TrapEnds, Return, Main
<1>11. CASE Jump
  <2>1. CASE Pop /\ Top.kind # "main"
    BY <1>3, <2>1 DEF Main
  <2>2. CASE Top.kind = "main" /\ stack' = stack
    <3>1. \A i \in DOMAIN stack : stack[i].kind # "cmd"
      BY <2>2 DEF Leafs, Top
    <3> QED
      BY <2>2, <3>1 DEF Leafs
  <2> QED
    BY <1>11, <2>1, <2>2 DEF Jump
<1>12. CASE ReadBuiltin
  <2>1. PICK f \in CmdFrames : Push(f)
    BY <1>12, FrameTypes DEF Disposition, ReadBuiltin
  <2>2. f \in Frame /\ f # Main
    BY FrameKinds
  <2> QED
    BY <1>4, <1>12, <2>1, <2>2 DEF ReadBuiltin, Goto, Inside
<1>18. ASSUME NEW s \in Signal, NEW a \in {"empty", "action"}, TrapSet(s, a) PROVE Leafs'
  <2>1. PICK f \in CmdFrames : stack' = Append(Free(s), f)
    BY <1>18, FrameTypes DEF Disposition, TrapSet
  <2>2. pc \notin Inside /\ pc \notin {"jump", "dead"} /\ pc' \in Inside
    BY <1>18 DEF TrapSet, Goto, Inside
  <2>3. /\ Len(stack') = Len(stack) + 1 /\ Len(stack) \in Nat
        /\ \A i \in DOMAIN stack : stack'[i] = Free(s)[i]
        /\ \A i : i \in DOMAIN stack' <=> i \in DOMAIN stack \/ i = Len(stack) + 1
    BY <2>1, TrapPushed, OnTop DEF Inv
  <2>4. \A i \in DOMAIN stack : stack'[i].kind # "cmd"
    BY <2>2, <2>3, NoCommand, Freed DEF Inv
  <2> QED
    BY <2>2, <2>3, <2>4 DEF Leafs
<1>13. CASE Enter \/ Err \/ \E s \in Signal : Scan(s)
  <2>1. stack' = stack \/ \E f \in FunFrames \cup TrapFrames : Push(f)
    <3>1. Fun(keep) \in FunFrames
      BY FrameTypes, Typing DEF Inv, Scalars
    <3>2. \A e \in BOOLEAN, c \in Locals : Trap(e, exitval, c) \in TrapFrames
      BY FrameTypes, Typing DEF Inv, Scalars
    <3>3. [chk EXCEPT !.sav = note] \in Locals
      BY Typing DEF Inv, Scalars, Locals
    <3>4. \A s \in Signal : [chk EXCEPT !.left = s - 1] \in Locals
      <4>1. \A s \in Signal : s - 1 \in 0..MaxSig
        BY Constants
      <4> QED
        BY <4>1, Typing DEF Inv, Scalars, Locals
    <3>5. CASE Enter
      BY <3>1, <3>5 DEF Enter
    <3>6. CASE Err
      BY <3>2, <3>3, <3>6, Bools DEF Err
    <3>7. CASE \E s \in Signal : Scan(s)
      BY <3>2, <3>4, <3>7, Bools DEF Scan
    <3> QED
      BY <1>13, <3>5, <3>6, <3>7
  <2>2. pc \notin Inside /\ pc \notin {"jump", "dead"}
    BY <1>13 DEF Enter, Err, Scan, Inside
  <2>3. CASE \E f \in FunFrames \cup TrapFrames : Push(f)
    <3>1. PICK f \in FunFrames \cup TrapFrames : Push(f)
      BY <2>3
    <3>2. f \in Frame /\ f # Main /\ f.kind # "cmd"
      BY FrameKinds
    <3> QED
      BY <1>4, <2>2, <3>1, <3>2
  <2> QED
    BY <1>1, <2>1, <2>2, <2>3
<1>14. CASE \E s \in Signal : Pass(s)
  BY <1>6, <1>14 DEF Pass
<1>15. CASE \E s \in Signal : Signalled(s)
  <2>1. PICK s \in Signal : Signalled(s)
    BY <1>15
  <2>2. CASE disp[s] = "sh_fault"
    BY <1>6, <2>1, <2>2 DEF Signalled
  <2>3. CASE disp[s] # "sh_fault"
    <3>1. stack' = stack /\ (pc' = pc \/ (pc' = "dead" /\ disp[s] = "dfl"))
      BY <2>1, <2>3 DEF Signalled
    <3> QED
      BY <3>1 DEF Leafs, Inside
  <2> QED
    BY <2>2, <2>3
<1>16. CASE UNCHANGED vars
  BY <1>16 DEF Leafs, vars
<1> QED
  BY <1>7, <1>8, <1>9, <1>10, <1>11, <1>12, <1>13, <1>14, <1>15, <1>16,
     <1>17, <1>18 DEF Next, Program

-----------------------------------------------------------------------------
(***************************************************************************)
(* The theorems.                                                           *)
(***************************************************************************)
LEMMA InitInv == Init => Inv /\ Leafs
<1> SUFFICES ASSUME Init PROVE Inv /\ Leafs
  OBVIOUS
<1>1. Scalars
  <2>1. known \in [Signal -> BOOLEAN] /\ pending \in [Signal -> BOOLEAN]
    BY Bools DEF Init
  <2>2. errtrap \in BOOLEAN /\ note \in BOOLEAN
    BY Bools DEF Init
  <2> QED
    BY <2>1, <2>2, Constants
       DEF Init, Scalars, NoTraps, Table, Action, Disposition, Label
<1>2. /\ Nested(stack) /\ Len(stack) = 1 /\ stack[1] = Main
      /\ \A i \in DOMAIN stack : i = 1
  <2>1. stack = <<Main>>
    BY DEF Init
  <2>2. stack \in Seq(AnyFrame) /\ stack # <<>> /\ Len(stack) = 1 /\ stack[1] = Main
    BY <2>1 DEF AnyFrame
  <2>3. DOMAIN stack = 1..1
    BY <2>2, LenProperties
  <2> QED
    BY <2>2, <2>3 DEF Nested
<1>3. Placed /\ Leafs
  BY <1>2 DEF Init, Placed, Leafs, Inside, Main
<1>4. Counted
  BY DEF Init, Counted, Flag
<1>5. KnownCaught
  BY <1>2, Constants
     DEF Init, KnownCaught
<1> QED
  BY <1>1, <1>2, <1>3, <1>4, <1>5, Typing DEF Inv

LEMMA NextInv == Inv /\ Leafs /\ [Next]_vars => Inv' /\ Leafs'
<1> SUFFICES ASSUME Inv, Leafs, [Next]_vars PROVE Inv'
  BY LeafsKept
<1>1. CASE Program
  BY <1>1, ExternalInv, ExternalEndsInv, ReadBuiltinInv, ReadEndsInv, TrapSetInv,
     TrapClearInv, ScanInv, PassInv, InstallInv, ReinstallInv, MarkInv, TrapErrInv,
     FinishInv, CommandInv, LookInv, ClearInv, ErrInv, ErrDoneInv, ScannedInv,
     TrapEndsInv, CallInv, EnterInv, ReturnInv, LeaveInv, RestoreInv, ForgetInv,
     ResumeInv, JumpInv DEF Program
<1>2. CASE \E s \in Signal : Signalled(s)
  BY <1>2, SignalledInv
<1>3. CASE UNCHANGED vars
  <2>1. Scalars' /\ Nested(stack')
    BY <1>3, Typing DEF Inv, Scalars, vars, sigstate, traps, locals
  <2>2. Counted'
    BY <1>3, StillCounted DEF vars, sigstate, traps, history
  <2>4. Placed' /\ KnownCaught'
    BY <1>3 DEF Inv, Placed, KnownCaught, Top, vars, sigstate, traps
  <2> QED
    BY <2>1, <2>2, <2>4, TypingNext DEF Inv
<1> QED
  BY <1>1, <1>2, <1>3 DEF Next

\* The inductive invariant: where a command is on top of the contexts, what
\* the flags of the signals stand for, and which tables hold caught signals.
THEOREM InvCorrect == Spec => [](Inv /\ Leafs)
BY InitInv, NextInv, PTL DEF Spec

\* Every variable keeps its type: sh_popcontext never meets the context of
\* another owner, also when a signal ends what is running.
THEOREM TypeCorrect == Spec => []TypeOK
<1>1. Inv => TypeOK
  BY DEF Inv
<1> QED
  BY <1>1, InvCorrect, PTL

\* An action of a trap is not run more often than sh_fault noted its signal,
\* at any depth of sh_chktrap within sh_trap.
THEOREM StartsCorrect == Spec => []StartsNoted
<1>1. Inv => StartsNoted
  <2> SUFFICES ASSUME Inv, NEW s \in Signal PROVE started[s] <= noted[s]
    BY DEF StartsNoted
  <2>1. /\ started[s] \in Nat /\ noted[s] \in Nat /\ Flag(s) \in {0, 1}
        /\ started[s] + Flag(s) <= noted[s]
    BY DEF Inv, Counted, Flag
  <2> QED
    BY <2>1
<1> QED
  BY <1>1, InvCorrect, PTL

-----------------------------------------------------------------------------
(***************************************************************************)
(* The traps of a function and of the script: each function has saved what *)
(* is needed of the traps of the one that called it, the function call     *)
(* that is starting or ending has it in hand, and what runs has its own.   *)
(***************************************************************************)
Funs(st, i) == {j \in DOMAIN st : j < i /\ st[j].kind = "fun"}
Depth(st, i) == Cardinality(Funs(st, i))

\* What a table is to a script or function that has set some traps itself.
Kept(table, max, mine) ==
    \A s \in Signal :
      /\ table[s] = "action" <=> mine[s] = "action"
      /\ mine[s] = "empty" => table[s] \in {"empty", "freed"}
      /\ mine[s] # "none" => s < max

SavedOwn ==
    \A i \in DOMAIN stack :
      stack[i].kind = "fun" =>
        Kept(stack[i].saved.table, stack[i].saved.max, own[Depth(stack, i)])

\* The steps after which no command of the one that was running runs again,
\* and those of a function call or its end.
Abandoned == {"jump", "leave", "restore", "dead"}
InHand == {"enter", "leave", "restore"}

\* No action is above trapmax, where sh_sigreset would leave it, and none is
\* there when a function begins or has ended.
Bounded ==
    /\ \A s \in Signal : trapcom[s] = "action" => s < trapmax
    /\ pc = "restore" => trapmax = 0
    /\ pc = "enter" => \A s \in Signal : trapcom[s] # "action"

\* Caught are the signals for which the script, or a function that is not
\* being left by a jump, has set a trap.
OwnCaught ==
    \A d \in 0..MaxCall, s \in Signal :
      d <= Calls /\ own[d][s] # "none" =>
        \/ disp[s] # "dfl"
        \/ d = Calls /\ (pc \in {"jump", "dead"} \/ (pc = "sigtrap" /\ s = Top.sig))

Owned ==
    /\ own \in [0..MaxCall -> Table] /\ Calls \in 0..MaxCall
    /\ pc = "enter" => Calls < MaxCall
    /\ pc \notin Abandoned \cup {"enter"} => Kept(trapcom, trapmax, own[Calls])
    /\ pc \in InHand => Kept(keep.table, keep.max, own[Calls])
    /\ Bounded
    /\ SavedOwn
    /\ OwnCaught

\* A step that neither calls nor leaves a function.
SameFuns ==
    /\ \A i \in DOMAIN stack' : stack'[i].kind = "fun" =>
         i \in DOMAIN stack /\ stack[i].kind = "fun" /\ Aged(stack'[i].saved, stack[i].saved)
    /\ \A i \in DOMAIN stack : stack[i].kind = "fun" =>
         i \in DOMAIN stack' /\ stack'[i].kind = "fun"

LEMMA AgedSame == \A k : Aged(k, k)
BY DEF Aged

LEMMA KeptAged ==
    ASSUME NEW k, NEW l, NEW mine, Aged(l, k), Kept(k.table, k.max, mine)
    PROVE  Kept(l.table, l.max, mine)
BY DEF Aged, Kept

LEMMA Depths ==
    ASSUME NEW st, Nested(st)
    PROVE  /\ IsFiniteSet({j \in DOMAIN st : st[j].kind = "fun"})
           /\ \A i \in DOMAIN st : IsFiniteSet(Funs(st, i)) /\ Depth(st, i) \in Nat
           /\ \A i \in DOMAIN st : st[i].kind = "fun" =>
                Depth(st, i) < Cardinality({j \in DOMAIN st : st[j].kind = "fun"})
<1> DEFINE all == {j \in DOMAIN st : st[j].kind = "fun"}
<1>1. Len(st) \in Nat /\ DOMAIN st = 1..Len(st)
  BY LenProperties DEF Nested
<1>2. IsFiniteSet(DOMAIN st)
  BY <1>1, FS_Interval
<1>3. IsFiniteSet(all)
  <2>1. all \in SUBSET (DOMAIN st)
    OBVIOUS
  <2> QED
    BY <1>2, <2>1, FS_Subset
<1>4. ASSUME NEW i \in DOMAIN st
      PROVE  IsFiniteSet(Funs(st, i)) /\ Depth(st, i) \in Nat
  <2>1. Funs(st, i) \in SUBSET all
    BY DEF Funs
  <2> QED
    BY <1>3, <2>1, FS_Subset, FS_CardinalityType DEF Depth
<1>5. ASSUME NEW i \in DOMAIN st, st[i].kind = "fun"
      PROVE  Depth(st, i) < Cardinality(all)
  <2>1. Funs(st, i) \in SUBSET all /\ i \in all
    BY <1>5 DEF Funs
  <2>2. i \notin Funs(st, i)
    BY <1>1 DEF Funs
  <2>3. Cardinality(Funs(st, i)) <= Cardinality(all)
        /\ Cardinality(all) # Cardinality(Funs(st, i))
    <3>1. all # Funs(st, i)
      BY <2>1, <2>2
    <3> QED
      BY <1>3, <2>1, <3>1, FS_Subset
  <2>4. Cardinality(all) \in Nat /\ Depth(st, i) \in Nat
    BY <1>3, <1>4, FS_CardinalityType
  <2> QED
    BY <2>3, <2>4 DEF Depth
<1> QED
  BY <1>3, <1>4, <1>5

LEMMA SameDepths ==
    ASSUME SameFuns
    PROVE  Calls' = Calls /\ \A i : Depth(stack', i) = Depth(stack, i)
<1>1. {i \in DOMAIN stack' : stack'[i].kind = "fun"} = {i \in DOMAIN stack : stack[i].kind = "fun"}
  BY DEF SameFuns
<1>2. ASSUME NEW i PROVE Funs(stack', i) = Funs(stack, i)
  BY DEF SameFuns, Funs
<1> QED
  BY <1>1, <1>2 DEF Calls, Depth

\* The tables that are saved stay those of the callers.
LEMMA SavedOwnKept ==
    ASSUME TypeOK, SavedOwn, SameFuns,
           \A d \in Nat : d < Calls => own'[d] = own[d]
    PROVE  SavedOwn'
<1> SUFFICES ASSUME NEW i \in DOMAIN stack', stack'[i].kind = "fun"
             PROVE  Kept(stack'[i].saved.table, stack'[i].saved.max, own'[Depth(stack', i)])
  BY DEF SavedOwn
<1>1. i \in DOMAIN stack /\ stack[i].kind = "fun" /\ Aged(stack'[i].saved, stack[i].saved)
  BY DEF SameFuns
<1>2. Depth(stack, i) \in Nat /\ Depth(stack, i) < Calls
  BY <1>1, OnTop, Depths DEF Calls
<1>3. Kept(stack[i].saved.table, stack[i].saved.max, own'[Depth(stack', i)])
  BY <1>1, <1>2, SameDepths DEF SavedOwn
<1> QED
  BY <1>1, <1>3, KeptAged

LEMMA SamePush ==
    ASSUME TypeOK, NEW f, f \in CmdFrames \cup TrapFrames, Push(f)
    PROVE  SameFuns
<1> DEFINE n == Len(stack)
<1>1. Nested(stack) /\ n \in Nat /\ DOMAIN stack = 1..n /\ f \in AnyFrame /\ f.kind # "fun"
  BY OnTop, FrameKinds DEF AnyFrame
<1>2. /\ stack' \in Seq(AnyFrame) /\ Len(stack') = n + 1 /\ stack'[n + 1] = f
      /\ \A i \in 1..n : stack'[i] = stack[i]
  BY <1>1, AppendProperties DEF Nested, Push
<1>3. DOMAIN stack' = 1..(n + 1)
  BY <1>1, <1>2, LenProperties
<1>4. \A i \in DOMAIN stack' : i \in DOMAIN stack \/ i = n + 1
  BY <1>1, <1>3
<1>5. \A i \in DOMAIN stack : i \in DOMAIN stack'
  BY <1>1, <1>3
<1> QED
  BY <1>1, <1>2, <1>4, <1>5, AgedSame DEF SameFuns

LEMMA SamePop ==
    ASSUME TypeOK, Top # Main, Top.kind # "fun", Pop
    PROVE  SameFuns
<1> DEFINE n == Len(stack)
<1>1. Nested(stack) /\ n \in Nat /\ n > 1 /\ DOMAIN stack = 1..n
  BY OnTop
<1>2. /\ stack' \in Seq(AnyFrame) /\ Len(stack') = n - 1
      /\ \A i \in 1..(n - 1) : stack'[i] = stack[i]
  BY <1>1, SubSeqProperties DEF Nested, Pop
<1>3. DOMAIN stack' = 1..(n - 1)
  BY <1>1, <1>2, LenProperties
<1>4. \A i \in DOMAIN stack : i \in DOMAIN stack' \/ i = n
  BY <1>1, <1>3
<1>5. \A i \in DOMAIN stack' : i \in DOMAIN stack /\ stack'[i] = stack[i]
  BY <1>1, <1>2, <1>3
<1> QED
  BY <1>4, <1>5, AgedSame DEF SameFuns, Top

LEMMA SameWithin ==
    ASSUME NEW f, Within(f), DOMAIN stack' = DOMAIN stack,
           f.kind = Top.kind, f.kind = "fun" => f.saved = Top.saved
    PROVE  SameFuns
BY AgedSame DEF SameFuns, Within, Top

\* A function is left: its caller's table is that of the depth below.
LEMMA FunctionLeft ==
    ASSUME TypeOK, SavedOwn, Top.kind = "fun", Pop, own' = own
    PROVE  /\ Calls \in Nat /\ Calls' \in Nat /\ Calls = Calls' + 1
           /\ Kept(Top.saved.table, Top.saved.max, own[Calls'])
           /\ SavedOwn'
<1> DEFINE n == Len(stack)
<1>0. Top # Main
  BY DEF Main
<1>1. Nested(stack) /\ n \in Nat /\ n > 1 /\ DOMAIN stack = 1..n /\ n \in DOMAIN stack
  BY <1>0, OnTop
<1>2. /\ stack' \in Seq(AnyFrame) /\ Len(stack') = n - 1
      /\ \A i \in 1..(n - 1) : stack'[i] = stack[i]
  BY <1>1, SubSeqProperties DEF Nested, Pop
<1>3. DOMAIN stack' = 1..(n - 1)
  BY <1>1, <1>2, LenProperties
<1>4. \A i : i \in DOMAIN stack' <=> i \in DOMAIN stack /\ i < n
  BY <1>1, <1>3
<1>5. {i \in DOMAIN stack' : stack'[i].kind = "fun"} = Funs(stack, n)
  BY <1>2, <1>3, <1>4 DEF Funs
<1>6. Calls' = Depth(stack, n)
  BY <1>5 DEF Calls, Depth
<1>7. /\ {i \in DOMAIN stack : stack[i].kind = "fun"} = Funs(stack, n) \cup {n}
      /\ n \notin Funs(stack, n) /\ IsFiniteSet(Funs(stack, n))
      /\ Depth(stack, n) \in Nat
  <2>1. \A i \in DOMAIN stack : i < n \/ i = n
    BY <1>1
  <2>2. n \notin Funs(stack, n)
    BY <1>1 DEF Funs
  <2>3. stack[n].kind = "fun"
    BY DEF Top
  <2> QED
    BY <1>1, <2>1, <2>2, <2>3, Depths DEF Funs
<1>8. Calls = Depth(stack, n) + 1
  BY <1>7, FS_AddElement DEF Calls, Depth
<1>9. Kept(Top.saved.table, Top.saved.max, own[Depth(stack, n)])
  BY <1>1 DEF SavedOwn, Top
<1>10. SavedOwn'
  <2> SUFFICES ASSUME NEW i \in DOMAIN stack', stack'[i].kind = "fun"
               PROVE  Kept(stack'[i].saved.table, stack'[i].saved.max, own[Depth(stack', i)])
    BY DEF SavedOwn
  <2>1. i \in DOMAIN stack /\ i < n /\ stack'[i] = stack[i]
    BY <1>2, <1>3, <1>4
  <2>2. Funs(stack', i) = Funs(stack, i)
    <3>1. \A j \in DOMAIN stack : j < i => j < n
      BY <1>1, <2>1
    <3> QED
      BY <1>2, <1>3, <1>4, <3>1 DEF Funs
  <2> QED
    BY <2>1, <2>2 DEF SavedOwn, Depth
<1> QED
  BY <1>6, <1>7, <1>8, <1>9, <1>10

\* A function is called: it is one deeper.
LEMMA FunctionCalled ==
    ASSUME TypeOK, SavedOwn, NEW f \in FunFrames, Push(f), Calls \in Nat,
           Kept(f.saved.table, f.saved.max, own[Calls]),
           \A d \in Nat : d <= Calls => own'[d] = own[d]
    PROVE  Calls' = Calls + 1 /\ SavedOwn'
<1> DEFINE n == Len(stack)
<1>1. Nested(stack) /\ n \in Nat /\ DOMAIN stack = 1..n /\ f \in AnyFrame /\ f.kind = "fun"
  BY OnTop, FrameKinds DEF AnyFrame
<1>2. /\ stack' \in Seq(AnyFrame) /\ Len(stack') = n + 1 /\ stack'[n + 1] = f
      /\ \A i \in 1..n : stack'[i] = stack[i]
  BY <1>1, AppendProperties DEF Nested, Push
<1>3. DOMAIN stack' = 1..(n + 1)
  BY <1>1, <1>2, LenProperties
<1>4. /\ \A i \in DOMAIN stack' : i \in DOMAIN stack \/ i = n + 1
      /\ \A i \in DOMAIN stack : i \in DOMAIN stack' /\ i < n + 1
      /\ n + 1 \in DOMAIN stack' /\ n + 1 \notin DOMAIN stack
  BY <1>1, <1>3
<1> DEFINE all == {j \in DOMAIN stack : stack[j].kind = "fun"}
<1>5. {j \in DOMAIN stack' : stack'[j].kind = "fun"} = all \cup {n + 1}
  BY <1>1, <1>2, <1>4
<1>6. IsFiniteSet(all) /\ n + 1 \notin all
  BY <1>1, <1>4, Depths
<1>7. Calls' = Calls + 1
  <2>1. Cardinality(all \cup {n + 1}) = Cardinality(all) + 1
    BY <1>6, FS_AddElement
  <2> QED
    BY <1>5, <2>1 DEF Calls
<1>8. SavedOwn'
  <2> SUFFICES ASSUME NEW i \in DOMAIN stack', stack'[i].kind = "fun"
               PROVE  Kept(stack'[i].saved.table, stack'[i].saved.max, own'[Depth(stack', i)])
    BY DEF SavedOwn
  <2>1. CASE i \in DOMAIN stack
    <3>1. stack'[i] = stack[i]
      BY <1>1, <1>2, <2>1
    <3>2. Funs(stack', i) = Funs(stack, i)
      <4>1. i \in 1..n /\ n \in Nat
        BY <1>1, <2>1
      <4>2. ~(n + 1 < i)
        BY ONLY <4>1
      <4> QED
        BY <1>1, <1>2, <1>4, <4>2 DEF Funs
    <3>3. Depth(stack, i) \in Nat /\ Depth(stack, i) < Calls
      BY <1>1, <2>1, <3>1, Depths DEF Calls
    <3>4. Depth(stack, i) <= Calls
      BY <3>3
    <3> QED
      BY <2>1, <3>1, <3>2, <3>3, <3>4 DEF SavedOwn, Depth
  <2>2. CASE i = n + 1
    <3>1. ~(n + 1 < n + 1)
      BY <1>1
    <3>2. \A j \in DOMAIN stack : stack'[j] = stack[j]
      BY <1>1, <1>2
    <3>3. ASSUME NEW j PROVE j \in Funs(stack', n + 1) <=> j \in all
      BY <1>4, <3>1, <3>2 DEF Funs
    <3>4. Funs(stack', n + 1) = all
      BY <3>3 DEF Funs
    <3>5. Depth(stack', i) = Calls
      BY <2>2, <3>4 DEF Depth, Calls
    <3>6. own'[Calls] = own[Calls]
      <4>1. Calls <= Calls
        OBVIOUS
      <4> QED
        BY <4>1
    <3> QED
      BY <1>2, <2>2, <3>5, <3>6
  <2> QED
    BY <1>4, <2>1, <2>2
<1> QED
  BY <1>7, <1>8

\* Steps that set no trap and leave the traps in the table.
LEMMA OwnedAside ==
    ASSUME Inv, Owned, SameFuns, own' = own, traps' = traps,
           pc' \notin Abandoned \cup {"enter"} => pc \notin Abandoned \cup {"enter"},
           pc' \in InHand => pc' = pc /\ keep' = keep,
           \A s \in Signal : disp[s] # "dfl" => disp'[s] # "dfl",
           pc \in {"jump", "dead"} => pc' \in {"jump", "dead"},
           pc = "sigtrap" =>
             \/ pc' \in {"jump", "dead"}
             \/ disp'[Top.sig] # "dfl"
             \/ pc' = "sigtrap" /\ Top'.sig = Top.sig
    PROVE  Owned'
<1>1. Calls' = Calls
  BY SameDepths
<1>2. SavedOwn'
  BY SavedOwnKept DEF Inv, Owned
<1>3. OwnCaught'
  <2> SUFFICES ASSUME NEW d \in 0..MaxCall, NEW s \in Signal, d <= Calls, own[d][s] # "none",
                      disp'[s] = "dfl"
               PROVE  d = Calls /\ (pc' \in {"jump", "dead"} \/ (pc' = "sigtrap" /\ s = Top'.sig))
    BY <1>1 DEF OwnCaught
  <2>1. disp[s] = "dfl"
    OBVIOUS
  <2>2. d = Calls /\ (pc \in {"jump", "dead"} \/ (pc = "sigtrap" /\ s = Top.sig))
    BY <2>1 DEF Owned, OwnCaught
  <2> QED
    BY <2>2
<1>4. Bounded' /\ trapcom' = trapcom /\ trapmax' = trapmax
  BY DEF Owned, Bounded, traps, InHand
<1> QED
  BY <1>1, <1>2, <1>3, <1>4 DEF Owned, InHand, Abandoned

\* A trap command changes one trap of what is running.
LEMMA OwnedSet ==
    ASSUME Inv, Owned, SameFuns, pc = "next", pc' \in {"sigtrap", "status"}, disp' = disp,
           NEW s \in Signal, NEW action \in Action, Own(s, action),
           trapcom' = [trapcom EXCEPT ![s] = action],
           trapmax' \in Nat, trapmax <= trapmax', action # "none" => s < trapmax',
           action # "none" => pc' = "sigtrap" /\ Top'.sig = s
    PROVE  Owned'
<1>1. Calls' = Calls /\ Calls \in 0..MaxCall /\ Calls \in Nat
  BY SameDepths, TrapsAssumption DEF Owned
<1>2. /\ trapcom \in Table /\ trapcom' \in Table /\ trapmax \in Nat
      /\ trapcom'[s] = action /\ \A t \in Signal : t # s => trapcom'[t] = trapcom[t]
  BY Typing, Constants DEF Inv, Scalars, Table, Action
<1>3. /\ own' \in [0..MaxCall -> Table] /\ own'[Calls][s] = action
      /\ \A t \in Signal : t # s => own'[Calls][t] = own[Calls][t]
      /\ \A d : d # Calls => own'[d] = own[d]
  BY <1>1 DEF Own, Owned, Table, Action
<1>4. SavedOwn'
  <2>1. \A d \in Nat : d < Calls => own'[d] = own[d]
    BY <1>1, <1>3
  <2> QED
    BY <2>1, SavedOwnKept DEF Inv, Owned
<1>5. Kept(trapcom, trapmax, own[Calls])
  BY DEF Owned, Abandoned
<1>6. Kept(trapcom', trapmax', own'[Calls])
  <2> SUFFICES ASSUME NEW t \in Signal
               PROVE  /\ trapcom'[t] = "action" <=> own'[Calls][t] = "action"
                      /\ own'[Calls][t] = "empty" => trapcom'[t] \in {"empty", "freed"}
                      /\ own'[Calls][t] # "none" => t < trapmax'
    BY DEF Kept
  <2>1. CASE t = s
    BY <1>2, <1>3, <2>1
  <2>2. CASE t # s
    <3>1. t \in Int
      BY Constants
    <3> QED
      BY <1>2, <1>3, <1>5, <2>2, <3>1 DEF Kept
  <2> QED
    BY <2>1, <2>2
<1>7. Bounded'
  BY <1>6 DEF Bounded, Kept
<1>8. OwnCaught'
  <2> SUFFICES ASSUME NEW d \in 0..MaxCall, NEW t \in Signal, d <= Calls, own'[d][t] # "none",
                      disp[t] = "dfl"
               PROVE  d = Calls /\ pc' = "sigtrap" /\ t = Top'.sig
    BY <1>1 DEF OwnCaught
  <2>1. own[d][t] = "none"
    BY DEF Owned, OwnCaught
  <2>2. d = Calls /\ t = s
    BY <1>3, <2>1
  <2> QED
    BY <1>3, <2>2
<1> QED
  BY <1>1, <1>3, <1>4, <1>6, <1>7, <1>8 DEF Owned, Abandoned, InHand

LEMMA OwnedTrapSet ==
    ASSUME Inv, Owned, NEW s \in Signal, NEW a \in {"empty", "action"}, TrapSet(s, a)
    PROVE  Owned'
<1> DEFINE f == Cmd(FALSE, s, "dfl")
<1>1. f \in CmdFrames /\ f.sig = s /\ f.kind = "cmd"
  BY FrameTypes, FrameKinds, Bools DEF Disposition, Cmd
<1>2. /\ Top' = f /\ stack'[Len(stack) + 1] = f
      /\ \A i \in DOMAIN stack : stack'[i] = Free(s)[i]
      /\ \A i : i \in DOMAIN stack' <=> i \in DOMAIN stack \/ i = Len(stack) + 1
  BY <1>1, TrapPushed DEF Inv, TrapSet
<1>3. SameFuns
  BY <1>1, <1>2, Freed DEF SameFuns, Inv
<1>4. trapmax' \in Nat /\ trapmax <= trapmax' /\ s < trapmax'
  BY Typing, Constants DEF TrapSet, Inv, Scalars
<1> QED
  BY <1>1, <1>2, <1>3, <1>4, OwnedSet DEF TrapSet, Goto, Action

LEMMA OwnedTrapClear ==
    ASSUME Inv, Owned, NEW s \in Signal, TrapClear(s)
    PROVE  Owned'
<1>1. CASE known[s] /\ disp[s] = "sh_fault"
  <2>1. SameFuns
    BY <1>1, Freed DEF TrapClear, SameFuns, Inv
  <2>2. trapmax' \in Nat /\ trapmax <= trapmax'
    BY Typing, Constants DEF TrapClear, Inv, Scalars
  <2> QED
    BY <1>1, <2>1, <2>2, OwnedSet DEF TrapClear, Goto, Action
<1>2. CASE ~(known[s] /\ disp[s] = "sh_fault")
  <2>1. SameFuns
    BY <1>2, AgedSame DEF TrapClear, SameFuns
  <2> QED
    BY <1>2, <2>1, OwnedAside DEF TrapClear, Goto, traps, Abandoned, InHand
<1> QED
  BY <1>1, <1>2

LEMMA OwnedFault ==
    ASSUME Inv, Leafs, Owned, NEW s \in Signal, NEW label, Fault(s, label),
           pc # "dead", label = pc \/ (pc = "pass" /\ label = "left")
    PROVE  Owned'
<1>0. /\ own' = own /\ traps' = traps
      /\ \A t \in Signal : disp[t] # "dfl" => disp'[t] # "dfl"
  BY Typing DEF Fault, Inv, Scalars
<1>1. CASE Quit(s)
  <2> DEFINE f == [Top EXCEPT !.mode = jmp']
  <2>1. SameFuns
    <3>1. DOMAIN stack' = DOMAIN stack
      BY <1>1 DEF Quit
    <3>2. Within(f) /\ f.kind = Top.kind /\ (f.kind = "fun" => f.saved = Top.saved)
      BY <1>1, QuitFrame
    <3> QED
      BY <3>1, <3>2, SameWithin
  <2>2. pc' = "jump"
    BY <1>1 DEF Quit, Goto
  <2> QED
    BY <1>0, <2>1, <2>2, OwnedAside DEF Abandoned, InHand
<1>2. CASE stack' = stack /\ pc' = label /\ keep' = keep
  <2>1. SameFuns /\ Top' = Top
    BY <1>2, AgedSame DEF SameFuns, Top
  <2> QED
    BY <1>0, <1>2, <2>1, OwnedAside DEF Abandoned, InHand
<1>3. CASE Stops /\ Pop /\ pc' = "status"
  <2>1. Top # Main /\ Top.kind = "cmd" /\ Top.stop /\ Len(stack) \in DOMAIN stack
    <3>1. Top # Main /\ Top \in AnyFrame /\ Len(stack) \in DOMAIN stack
      BY <1>3, OnTop DEF Inv, Stops, Main, CMD, EXIT
    <3>2. Top.mode = CMD
      BY <1>3 DEF Stops
    <3>3. Top \notin FunFrames /\ Top \notin TrapFrames
      BY <3>2 DEF FunFrames, TrapFrames, CMD, FUN, EXIT, TRAP
    <3> QED
      BY <1>3, <3>1, <3>3, FrameKinds DEF AnyFrame, Frame, Stops
  <2>2. pc = "read"
    BY <1>3, <2>1 DEF Leafs, Stops, Top, Inv, Placed
  <2>3. SameFuns
    BY <1>3, <2>1, SamePop DEF Inv
  <2> QED
    BY <1>0, <1>3, <2>2, <2>3, OwnedAside DEF Abandoned, InHand
<1> QED
  BY <1>1, <1>2, <1>3 DEF Fault, Note, Interrupt, Goto, locals

\* The steps of a function call and of its end.
LEMMA OwnedCall == Inv /\ Owned /\ Call => Owned'
<1> SUFFICES ASSUME Inv, Owned, Call PROVE Owned'
  OBVIOUS
<1>1. SameFuns
  BY AgedSame DEF Call, SameFuns
<1>2. Calls' = Calls /\ SavedOwn'
  BY <1>1, SameDepths, SavedOwnKept DEF Inv, Owned, Call, history
<1>3. /\ pc = "next" /\ pc' = "enter" /\ own' = own /\ Calls < MaxCall /\ disp' = disp
      /\ keep'.table = Prefix(trapcom) /\ keep'.max = trapmax
  BY ResetTypes DEF Call, Goto, history
<1>4. Kept(trapcom, trapmax, own[Calls])
  BY <1>3 DEF Owned, Abandoned
<1>5. Kept(keep'.table, keep'.max, own[Calls])
  <2>1. trapmax \in Int /\ Signal \subseteq Int
    BY Typing, Constants DEF Inv, Scalars
  <2>2. \A s \in Signal : s < trapmax => s <= trapmax
    BY <2>1
  <2>3. /\ \A s \in Signal : s <= trapmax => Prefix(trapcom)[s] = trapcom[s]
        /\ \A s \in Signal : ~(s <= trapmax) => Prefix(trapcom)[s] = "none"
    BY DEF Prefix
  <2> QED
    BY <1>3, <1>4, <2>2, <2>3 DEF Kept
<1>6. Bounded'
  BY <1>3, ResetTypes DEF Owned, Bounded, Call
<1>7. OwnCaught'
  BY <1>2, <1>3 DEF Owned, OwnCaught
<1> QED
  BY <1>2, <1>3, <1>5, <1>6, <1>7 DEF Owned

LEMMA OwnedEnter == Inv /\ Owned /\ Enter => Owned'
<1> SUFFICES ASSUME Inv, Owned, Enter PROVE Owned'
  OBVIOUS
<1>1. Calls \in Nat /\ MaxCall \in Nat /\ Calls < MaxCall /\ Calls + 1 \in 0..MaxCall
  BY TrapsAssumption DEF Owned, Enter
<1>2. Fun(keep) \in FunFrames /\ Fun(keep).saved = keep
  BY FrameTypes, Typing DEF Inv, Scalars
<1>3. \A d : d # Calls + 1 => own'[d] = own[d]
  BY DEF Enter, Owned
<1>4. \A d \in Nat : d <= Calls => own'[d] = own[d]
  <2>1. \A d \in Nat : d <= Calls => d # Calls + 1
    BY <1>1
  <2> QED
    BY <1>3, <2>1
<1>5. Kept(keep.table, keep.max, own[Calls])
  BY DEF Owned, Enter, InHand
<1>6. Calls' = Calls + 1 /\ SavedOwn'
  <2>1. Push(Fun(keep)) /\ TypeOK /\ SavedOwn
    BY DEF Enter, Inv, Owned
  <2> QED
    BY <1>1, <1>2, <1>4, <1>5, <2>1, FunctionCalled
<1>7. own' \in [0..MaxCall -> Table] /\ own'[Calls + 1] = NoTraps
  <2>1. NoTraps \in Table
    BY DEF NoTraps, Table, Action
  <2> QED
    BY <1>1, <2>1 DEF Enter, Owned
<1>8. pc = "enter" /\ pc' = "next" /\ UNCHANGED <<trapcom, trapmax, disp>>
  BY DEF Enter, Goto, sigstate, traps
<1>9. Bounded' /\ Kept(trapcom, trapmax, NoTraps)
  BY <1>8 DEF Owned, Bounded, Kept, NoTraps
<1>10. OwnCaught'
  <2> SUFFICES ASSUME NEW d \in 0..MaxCall, NEW s \in Signal, d <= Calls + 1,
                      own'[d][s] # "none"
               PROVE  disp[s] # "dfl"
    BY <1>6, <1>8 DEF OwnCaught
  <2>1. d # Calls + 1
    BY <1>7 DEF NoTraps
  <2>2. d <= Calls /\ own'[d] = own[d]
    BY <1>1, <1>3, <2>1
  <2> QED
    BY <1>8, <2>2 DEF Owned, OwnCaught
<1> QED
  BY <1>1, <1>6, <1>7, <1>8, <1>9, <1>10 DEF Owned, InHand

LEMMA OwnedReturn ==
    ASSUME Inv, Owned, Top.kind = "fun", Pop, keep' = Top.saved, own' = own, pc' = "leave",
           UNCHANGED <<trapcom, trapmax, disp>>
    PROVE  Owned'
<1>1. /\ Calls \in Nat /\ Calls' \in Nat /\ Calls = Calls' + 1
      /\ Kept(Top.saved.table, Top.saved.max, own[Calls']) /\ SavedOwn'
  BY FunctionLeft DEF Inv, Owned
<1>2. /\ Calls' \in 0..MaxCall
      /\ \A d \in 0..MaxCall : d <= Calls' => d <= Calls /\ d # Calls
  <2>1. MaxCall \in Nat /\ Calls \in 0..MaxCall
    BY TrapsAssumption DEF Owned
  <2>2. Calls \in Nat /\ Calls' \in Nat /\ Calls = Calls' + 1
    BY <1>1
  <2>3. \A m \in Nat, n \in Nat : n = m + 1 /\ n \in 0..MaxCall =>
          m \in 0..MaxCall /\ \A d \in 0..MaxCall : d <= m => d <= n /\ d # n
    BY <2>1
  <2> QED
    BY <2>1, <2>2, <2>3, Zenon
<1>3. OwnCaught'
  BY <1>2 DEF Owned, OwnCaught
<1>4. Bounded'
  BY DEF Owned, Bounded
<1> QED
  BY <1>1, <1>2, <1>3, <1>4 DEF Owned, Abandoned, InHand

LEMMA OwnedLeave == Inv /\ Owned /\ Leave => Owned'
<1> SUFFICES ASSUME Inv, Owned, Leave PROVE Owned'
  OBVIOUS
<1>1. SameFuns
  BY AgedSame DEF Leave, SameFuns
<1>2. Calls' = Calls /\ SavedOwn'
  BY <1>1, SameDepths, SavedOwnKept DEF Inv, Owned, Leave, history
<1>3. /\ pc = "leave" /\ pc' = "restore" /\ own' = own /\ disp' = disp /\ keep' = keep
      /\ trapmax' = 0
  BY ResetTypes DEF Leave, Goto, history, locals
<1>4. Bounded'
  BY <1>3, ResetTypes DEF Owned, Bounded, Leave
<1>5. OwnCaught'
  BY <1>2, <1>3 DEF Owned, OwnCaught
<1> QED
  BY <1>2, <1>3, <1>4, <1>5 DEF Owned, Abandoned, InHand

LEMMA OwnedRestore == Inv /\ Owned /\ Restore => Owned'
<1> SUFFICES ASSUME Inv, Owned, Restore PROVE Owned'
  OBVIOUS
<1>1. SameFuns
  BY AgedSame DEF Restore, SameFuns
<1>2. Calls' = Calls /\ Calls \in Nat
  BY <1>1, SameDepths, TrapsAssumption DEF Owned
<1>3. \A d : d # Calls + 1 => own'[d] = own[d]
  BY DEF Restore, Owned
<1>4. \A d \in Nat : d <= Calls => own'[d] = own[d]
  <2>1. \A d \in Nat : d <= Calls => d # Calls + 1
    BY <1>2
  <2> QED
    BY <1>3, <2>1
<1>5. own'[Calls] = own[Calls] /\ \A d \in Nat : d < Calls => own'[d] = own[d]
  BY <1>2, <1>4
<1>6. SavedOwn'
  BY <1>1, <1>5, SavedOwnKept DEF Inv, Owned
<1>7. own' \in [0..MaxCall -> Table]
  <2>1. NoTraps \in Table
    BY DEF NoTraps, Table, Action
  <2> QED
    BY <2>1 DEF Restore, Owned
<1>8. pc = "restore" /\ pc' = "forget" /\ disp' = disp /\ trapmax' = keep.max
  BY DEF Restore, Goto
<1>9. Kept(trapcom', trapmax', own[Calls])
  <2>1. Kept(keep.table, keep.max, own[Calls])
    BY <1>8 DEF Owned, InHand
  <2>2. \A s \in Signal : trapcom[s] # "action"
    BY <1>8, Constants DEF Owned, Bounded
  <2>3. \A s \in Signal : s < keep.max => s <= keep.max
    BY Typing, Constants DEF Inv, Scalars, Saved
  <2>4. /\ \A s \in Signal : s <= keep.max => trapcom'[s] = keep.table[s]
        /\ \A s \in Signal : ~(s <= keep.max) => trapcom'[s] = trapcom[s]
    BY DEF Restore
  <2> QED
    BY <1>8, <2>1, <2>2, <2>3, <2>4 DEF Kept
<1>10. Bounded'
  BY <1>8, <1>9 DEF Bounded, Kept
<1>11. OwnCaught'
  <2> SUFFICES ASSUME NEW d \in 0..MaxCall, NEW s \in Signal, d <= Calls, own'[d][s] # "none"
               PROVE  disp[s] # "dfl"
    BY <1>2, <1>8 DEF OwnCaught
  <2>1. own'[d] = own[d]
    BY <1>4
  <2> QED
    BY <1>8, <2>1 DEF Owned, OwnCaught
<1> QED
  BY <1>2, <1>5, <1>6, <1>7, <1>8, <1>9, <1>10, <1>11 DEF Owned, InHand

LEMMA OwnedNext == Inv /\ Inv' /\ Leafs /\ Owned /\ [Next]_vars => Owned'
<1> SUFFICES ASSUME Inv, Inv', Leafs, Owned, [Next]_vars PROVE Owned'
  OBVIOUS
<1>0. stack' = stack => SameFuns /\ Top' = Top
  BY AgedSame DEF SameFuns, Top
<1>1. CASE \/ External \/ ExternalEnds \/ TrapErr \/ Finish \/ Command \/ Look \/ Clear
           \/ ErrDone \/ Forget \/ Resume
  <2>1. stack' = stack /\ own' = own /\ traps' = traps /\ disp' = disp
    BY <1>1 DEF External, ExternalEnds, TrapErr, Finish, Command, Look, Clear, ErrDone,
                Forget, Resume, sigstate, history
  <2>2. /\ pc \notin Abandoned \cup {"enter", "sigtrap"} /\ pc' \notin InHand
    BY <1>1 DEF External, ExternalEnds, TrapErr, Finish, Command, Look, Clear, ErrDone,
                Forget, Resume, Goto, Abandoned, InHand
  <2> QED
    BY <1>0, <2>1, <2>2, OwnedAside DEF Abandoned
<1>2. CASE Scanned
  <2>1. chk.ret \in {"next", "jump"}
    BY Typing DEF Inv, Scalars, Locals
  <2> QED
    BY <1>0, <1>2, <2>1, OwnedAside
       DEF Scanned, Goto, Abandoned, InHand, sigstate, history
<1>3. CASE Reinstall
  <2>1. \A s \in Signal : disp[s] # "dfl" => disp'[s] # "dfl"
    BY <1>3, Typing DEF Reinstall, Inv, Scalars
  <2> QED
    BY <1>0, <1>3, <2>1, OwnedAside DEF Reinstall, Goto, Abandoned, InHand, history
<1>4. CASE ReadBuiltin
  <2>1. SameFuns
    <3>1. Cmd(TRUE, 0, "dfl") \in CmdFrames
      BY FrameTypes DEF Disposition
    <3> QED
      BY <1>4, <3>1, SamePush DEF ReadBuiltin, Inv
  <2> QED
    BY <1>4, <2>1, OwnedAside DEF ReadBuiltin, Goto, Abandoned, InHand, sigstate, history
<1>5. CASE ReadEnds \/ Mark \/ Install
  <2>1. Top \in CmdFrames /\ Top # Main /\ Top.kind = "cmd"
    BY <1>5, FrameKinds DEF Inv, Placed, Inside, ReadEnds, Mark, Install
  <2>2. SameFuns
    <3>1. CASE Pop
      BY <2>1, <3>1, SamePop DEF Inv
    <3>2. CASE Install /\ ~known[Top.sig]
      <4> DEFINE f == [Top EXCEPT !.was = disp[Top.sig]]
      <4>1. disp[Top.sig] \in Disposition
        BY <3>2, Typing DEF Inv, Placed, Inside, Install, Scalars
      <4>2. f \in CmdFrames
        BY <2>1, <4>1 DEF CmdFrames
      <4>3. f \in AnyFrame /\ f # Main /\ f.kind = "cmd"
        BY <4>2, FrameKinds DEF AnyFrame
      <4>4. stack' = [stack EXCEPT ![Len(stack)] = f] /\ DOMAIN stack' = DOMAIN stack
        BY <3>2 DEF Install, Top
      <4>5. Within(f)
        BY <2>1, <4>3, <4>4, Changed DEF Inv
      <4> QED
        BY <2>1, <4>3, <4>4, <4>5, SameWithin
    <3> QED
      BY <1>5, <3>1, <3>2 DEF ReadEnds, Mark, Install
  <2>3. own' = own /\ traps' = traps /\ pc \notin Abandoned \cup {"enter"}
        /\ pc' \notin Abandoned \cup InHand
    BY <1>5 DEF ReadEnds, Mark, Install, Goto, Abandoned, InHand, sigstate, history
  <2>4. /\ \A s \in Signal : disp[s] # "dfl" => disp'[s] # "dfl"
        /\ pc = "sigtrap" => disp'[Top.sig] # "dfl"
    <3>1. CASE ReadEnds \/ Mark
      BY <3>1 DEF ReadEnds, Mark, sigstate
    <3>2. CASE Install
      <4>1. Top.sig \in Signal /\ disp \in [Signal -> Disposition]
        BY <3>2, Typing DEF Inv, Placed, Inside, Install, Scalars
      <4> QED
        BY <3>2, <4>1 DEF Inv, KnownCaught, Install
    <3> QED
      BY <1>5, <3>1, <3>2
  <2> QED
    BY <2>2, <2>3, <2>4, OwnedAside DEF InHand, Abandoned
<1>6. CASE TrapEnds
  <2>1. SameFuns
    BY <1>6, SamePop DEF TrapEnds, Main, Inv
  <2> QED
    BY <1>6, <2>1, OwnedAside DEF TrapEnds, Goto, Abandoned, InHand, sigstate, history
<1>7. CASE Err
  <2>1. SameFuns
    <3>1. [chk EXCEPT !.sav = note] \in Locals /\ exitval \in Status
      BY Typing DEF Inv, Scalars, Locals
    <3>2. Trap(TRUE, exitval, [chk EXCEPT !.sav = note]) \in TrapFrames
      BY <3>1, FrameTypes, Bools
    <3> QED
      BY <1>0, <1>7, <3>2, SamePush DEF Err, Inv
  <2> QED
    BY <1>7, <2>1, OwnedAside DEF Err, Goto, Abandoned, InHand, sigstate, history
<1>8. ASSUME NEW s \in Signal, Scan(s) PROVE Owned'
  <2>1. SameFuns
    <3>1. s - 1 \in 0..MaxSig
      BY Constants
    <3>2. [chk EXCEPT !.left = s - 1] \in Locals /\ exitval \in Status
      BY <3>1, Typing DEF Inv, Scalars, Locals
    <3>3. Trap(FALSE, exitval, [chk EXCEPT !.left = s - 1]) \in TrapFrames
      BY <3>2, FrameTypes, Bools
    <3> QED
      BY <1>0, <1>8, <3>3, SamePush DEF Scan, Inv
  <2> QED
    BY <1>8, <2>1, OwnedAside DEF Scan, Goto, Abandoned, InHand
<1>9. ASSUME NEW s \in Signal, NEW a \in {"empty", "action"}, TrapSet(s, a) PROVE Owned'
  BY <1>9, OwnedTrapSet
<1>10. ASSUME NEW s \in Signal, TrapClear(s) PROVE Owned'
  BY <1>10, OwnedTrapClear
<1>11. CASE Call \/ Enter \/ Leave \/ Restore
  BY <1>11, OwnedCall, OwnedEnter, OwnedLeave, OwnedRestore
<1>12. CASE Return
  BY <1>12, OwnedReturn DEF Return, Goto, history, sigstate, traps
<1>13. CASE Jump
  <2>0. own' = own /\ traps' = traps /\ disp' = disp /\ pc = "jump"
    BY <1>13 DEF Jump, history, sigstate
  <2>1. CASE Top.kind \in {"cmd", "trap"}
    <3>1. Pop /\ pc' = "jump" /\ Top # Main
      BY <1>13, <2>1 DEF Jump, Main
    <3>2. SameFuns
      BY <2>1, <3>1, SamePop DEF Inv
    <3> QED
      BY <2>0, <3>1, <3>2, OwnedAside DEF Abandoned, InHand
  <2>2. CASE Top.kind = "fun"
    BY <1>13, <2>0, <2>2, OwnedReturn DEF Jump, Goto, traps
  <2>3. CASE Top.kind = "main"
    <3>1. stack' = stack /\ pc' = "dead"
      BY <1>13, <2>3 DEF Jump, Goto
    <3> QED
      BY <1>0, <2>0, <3>1, OwnedAside DEF Abandoned, InHand
  <2> QED
    BY <1>13, <2>1, <2>2, <2>3 DEF Jump
<1>14. ASSUME NEW s \in Signal, Pass(s) PROVE Owned'
  BY <1>14, OwnedFault DEF Pass
<1>15. ASSUME NEW s \in Signal, Signalled(s) PROVE Owned'
  <2>1. CASE disp[s] = "sh_fault"
    BY <1>15, <2>1, OwnedFault DEF Signalled
  <2>2. CASE disp[s] # "sh_fault"
    <3>1. /\ stack' = stack /\ own' = own /\ traps' = traps /\ keep' = keep /\ disp' = disp
          /\ pc' = pc \/ pc' = "dead"
      BY <1>15, <2>2 DEF Signalled, sigstate, locals
    <3> QED
      BY <1>0, <3>1, OwnedAside DEF Abandoned, InHand
  <2> QED
    BY <2>1, <2>2
<1>16. CASE UNCHANGED vars
  BY <1>0, <1>16, OwnedAside DEF vars, sigstate, locals, history
<1> QED
  BY <1>1, <1>2, <1>3, <1>4, <1>5, <1>6, <1>7, <1>8, <1>9, <1>10, <1>11, <1>12, <1>13, <1>14,
     <1>15, <1>16 DEF Next, Program

LEMMA OwnedInit == Init => Owned
<1> SUFFICES ASSUME Init PROVE Owned
  OBVIOUS
<1>1. stack = <<Main>> /\ pc = "next" /\ trapcom = NoTraps
      /\ own = [d \in 0..MaxCall |-> NoTraps]
  BY DEF Init
<1>2. \A i \in DOMAIN stack : stack[i].kind # "fun"
  <2>1. DOMAIN stack = 1..1 /\ stack[1] = Main
    BY <1>1
  <2> QED
    BY <2>1 DEF Main
<1>3. Calls = 0
  <2>1. {i \in DOMAIN stack : stack[i].kind = "fun"} = {}
    BY <1>2
  <2> QED
    BY <2>1, FS_EmptySet DEF Calls
<1>4. NoTraps \in Table /\ \A s \in Signal : NoTraps[s] = "none"
  BY DEF NoTraps, Table, Action
<1>5. 0 \in 0..MaxCall
  BY TrapsAssumption
<1>6. Kept(trapcom, trapmax, own[0]) /\ Bounded /\ OwnCaught /\ SavedOwn
  BY <1>1, <1>2, <1>4, <1>5 DEF Kept, Bounded, OwnCaught, SavedOwn
<1> QED
  BY <1>1, <1>3, <1>4, <1>5, <1>6 DEF Owned, InHand

THEOREM OwnedCorrect == Spec => [](Inv /\ Leafs /\ Owned)
<1>1. Init => Inv /\ Leafs /\ Owned
  BY InitInv, OwnedInit
<1>2. Inv /\ Leafs /\ Owned /\ [Next]_vars => (Inv /\ Leafs /\ Owned)'
  BY NextInv, OwnedNext
<1> QED
  BY <1>1, <1>2, PTL DEF Spec

\* While the script or a function runs its commands, the actions of its traps
\* are those that it has set itself, and what it ignores is not left without
\* a trap: sh_funscope gives the caller's back however the function ends, and
\* a call that a signal ends half way ends its caller too.
THEOREM KeptCorrect == Spec => []TrapsKept
<1>1. Owned => TrapsKept
  BY DEF Owned, Kept, TrapsKept, Running, Abandoned, Ignores
<1> QED
  BY <1>1, OwnedCorrect, PTL

\* A signal for which the running script or function has set a trap is caught,
\* however the functions and trap commands before it have ended.
THEOREM CaughtCorrect == Spec => []TrapsCaught
<1>1. Owned => TrapsCaught
  <2> SUFFICES ASSUME Owned, pc \in Running, NEW s \in Signal, own[Calls][s] # "none"
               PROVE  disp[s] # "dfl"
    BY DEF TrapsCaught
  <2>1. Calls \in 0..MaxCall /\ Calls <= Calls
    BY DEF Owned
  <2> QED
    BY <2>1 DEF Owned, OwnCaught, Running
<1> QED
  BY <1>1, OwnedCorrect, PTL
=============================================================================
