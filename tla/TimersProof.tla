---------------------------- MODULE TimersProof ----------------------------
(***************************************************************************)
(* Theorems about Timers for every value of its constants: the list is     *)
(* sound and the kernel's timer is on when it must be, at any depth of     *)
(* handlers and actions that interrupt each other, and the timers          *)
(* implement TimerQueue.                                                   *)
(***************************************************************************)
EXTENDS Timers, JobLists

Setting == {"armed", "again", "less"}
Handling == {"scan", "arm", "run", "leave"} \cup Setting
Adding == {"min", "unlock"}
Resting == Label \ (Handling \cup Adding)
InCall == {"min", "unlock", "test", "call", "made", "back", "del"}

\* Where the code stands, against the bits of time_state and the frames: no
\* frame is suspended while a bit is set.
Running ==
    /\ inAlrm <=> pc \in Handling
    /\ inAdd <=> pc \in Adding
    /\ deferred => pc \in {"min", "unlock", "test"}
    /\ pc # Idle => stack # <<>>
    /\ pc \in InCall => tp \in Node /\ who \in Client
Suspended ==
    \A i \in DOMAIN stack :
      /\ stack[i].pc \in Resting
      /\ stack[i].pc # Idle => i < Len(stack)
      /\ stack[i].pc \in InCall => stack[i].tp \in Node /\ stack[i].who \in Client

\* The timers that are set, and what the code has chosen among them.
Timing ==
    \A n \in Node : live[n] =>
      /\ n \in Listed /\ client[n] \in Client
      /\ next[n] <= wakeup[n] /\ wakeup[n] <= clock + MaxTime
Chosen ==
    /\ pc \in {"arm", "run"} \cup Setting /\ tp # None =>
         /\ live[tp] /\ next[tp] <= clock
         /\ incr[tp] > 0 => next[tp] + incr[tp] <= wakeup[tp]
    /\ pc = "run" => tp # None
    /\ pc \in Setting => tpmin # None
    /\ pc \in {"arm"} \cup Setting /\ tpmin # None =>
         now < wakeup[tpmin] /\ wakeup[tpmin] <= now + MaxTime
    /\ pc = "less" => left = 0 \/ now + left < wakeup[tpmin]
    /\ pc = "min" =>
         tp \in Listed /\ tp # tpmin /\ now < wakeup[tp] /\ wakeup[tp] <= now + MaxTime

Inv == TypeOK /\ ListSound /\ Running /\ Suspended /\ Timing /\ Chosen

\* What AlarmArmed needs.
On == itimer # 0 \/ pending
Ready(n) == live[n] /\ ~(pc = "min" /\ n = tp)
Waiting == {"once", "each", "acting", "call"}
Covered ==
    \/ On \/ deferred
    \/ pc \in {"scan", "arm", "run"} \cup Setting \cup Waiting
    \/ \E i \in DOMAIN stack : stack[i].pc \in Waiting
AllDead ==
    (pc = "off" \/ \E i \in DOMAIN stack : stack[i].pc = "off") =>
      \A n \in Node : ~live[n]
OffOnTop ==
    \A i \in DOMAIN stack : stack[i].pc = "off" => i = 1 /\ pc \in Handling
LeftOn == left # 0 /\ ~hole /\ (tpmin # None \/ \E n \in Node : Ready(n)) => On
MinSet == pc = "arm" /\ tp = None /\ (\E n \in Node : live[n]) => tpmin # None
SetOn ==
    /\ pc \in {"armed", "again"} => On \/ hole
    /\ pc = "less" => left # 0 \/ hole
Cover == ~hole /\ (\E n \in Node : Ready(n)) => Covered

AlarmInv == AllDead /\ OffOnTop /\ LeftOn /\ MinSet /\ SetOn /\ Cover

FrameType == [pc : Label, tp : Node \cup {None}, who : Client \cup {None}]

\* One step of its own: the solver is not told of it elsewhere.
LEMMA FalseType == FALSE \in BOOLEAN /\ TRUE \in BOOLEAN
OBVIOUS

-----------------------------------------------------------------------------
\* A frame on top of the others.
LEMMA PushFrame ==
    ASSUME Inv, NEW f \in FrameType, f.pc \in Resting,
           f.pc # Idle => stack # <<>>,
           f.pc \in InCall => f.tp \in Node /\ f.who \in Client,
           stack' = <<f>> \o stack
    PROVE  /\ stack' \in Seq(FrameType) /\ stack' # <<>> /\ Suspended'
           /\ stack'[1] = f /\ Len(stack') = Len(stack) + 1
           /\ \A i \in 1..Len(stack) : stack'[i + 1] = stack[i]
<1>1. stack \in Seq(FrameType) /\ Len(stack) \in Nat /\ DOMAIN stack = 1..Len(stack)
  BY LenProperties DEF Inv, TypeOK, CodeType, FrameType
<1>2. /\ stack' \in Seq(FrameType) /\ Len(stack') = Len(stack) + 1
      /\ \A k \in 1..(Len(stack) + 1) :
           stack'[k] = IF k = 1 THEN f ELSE stack[k - 1]
  BY <1>1, ConsProperties
<1>3. /\ DOMAIN stack' = 1..Len(stack') /\ stack' # <<>>
      /\ stack'[1] = f /\ \A i \in 1..Len(stack) : stack'[i + 1] = stack[i]
  <2>1. DOMAIN stack' = 1..Len(stack')
    BY <1>2, LenProperties
  <2>2. stack' # <<>>
    BY <1>1, <1>2, EmptySeq
  <2> QED
    BY <1>1, <1>2, <2>1, <2>2
<1>4. Suspended'
  <2> SUFFICES ASSUME NEW i \in DOMAIN stack'
               PROVE  /\ stack'[i].pc \in Resting
                      /\ stack'[i].pc # Idle => i < Len(stack')
                      /\ stack'[i].pc \in InCall =>
                           stack'[i].tp \in Node /\ stack'[i].who \in Client
    BY DEF Suspended
  <2>1. CASE i = 1
    <3>1. stack # <<>> => Len(stack) > 0
      BY <1>1, EmptySeq
    <3> QED
      BY <1>1, <1>2, <1>3, <2>1, <3>1
  <2>2. CASE i # 1
    <3>1. i - 1 \in DOMAIN stack /\ stack'[i] = stack[i - 1]
      BY <1>1, <1>2, <1>3, <2>2
    <3> QED
      BY <1>1, <1>2, <3>1 DEF Inv, Suspended
  <2> QED
    BY <2>1, <2>2
<1> QED
  BY <1>1, <1>2, <1>3, <1>4

\* The frame on top goes on.
LEMMA PopFrame ==
    ASSUME Inv, stack # <<>>, Pop
    PROVE  /\ stack' \in Seq(FrameType) /\ Suspended'
           /\ pc' \in Resting /\ now' = 0 /\ told' = 0
           /\ tp' \in Node \cup {None} /\ who' \in Client \cup {None}
           /\ pc' # Idle => stack' # <<>>
           /\ pc' \in InCall => tp' \in Node /\ who' \in Client
           /\ 1 \in DOMAIN stack /\ pc' = stack[1].pc
           /\ \A i \in DOMAIN stack' : i + 1 \in DOMAIN stack /\ stack'[i] = stack[i + 1]
           /\ \A i \in DOMAIN stack : i # 1 => i - 1 \in DOMAIN stack'
<1>1. /\ stack \in Seq(FrameType) /\ Len(stack) \in Nat /\ Len(stack) > 0
      /\ DOMAIN stack = 1..Len(stack)
  BY LenProperties, EmptySeq DEF Inv, TypeOK, CodeType, FrameType
<1>2. /\ Head(stack) = stack[1] /\ stack[1] \in FrameType
      /\ stack' \in Seq(FrameType) /\ Len(stack') = Len(stack) - 1
      /\ \A k \in 1..(Len(stack) - 1) : stack'[k] = stack[k + 1]
  BY <1>1, HeadTailProperties, ElementOfSeq DEF Pop
<1>3. DOMAIN stack' = 1..Len(stack') /\ (Len(stack') > 0 => stack' # <<>>)
  BY <1>2, LenProperties, EmptySeq
<1>4. /\ pc' = stack[1].pc /\ tp' = stack[1].tp /\ who' = stack[1].who /\ now' = 0
  BY <1>2 DEF Pop
<1>5. /\ stack[1].pc \in Resting
      /\ stack[1].pc # Idle => 1 < Len(stack)
      /\ stack[1].pc \in InCall => stack[1].tp \in Node /\ stack[1].who \in Client
      /\ stack[1].tp \in Node \cup {None} /\ stack[1].who \in Client \cup {None}
  BY <1>1, <1>2 DEF Inv, Suspended, FrameType
<1>6. \A i \in DOMAIN stack' : i + 1 \in DOMAIN stack /\ stack'[i] = stack[i + 1]
  BY <1>1, <1>2, <1>3
<1>7. Suspended'
  <2> SUFFICES ASSUME NEW i \in DOMAIN stack'
               PROVE  /\ stack'[i].pc \in Resting
                      /\ stack'[i].pc # Idle => i < Len(stack')
                      /\ stack'[i].pc \in InCall =>
                           stack'[i].tp \in Node /\ stack'[i].who \in Client
    BY DEF Suspended
  <2> QED
    BY <1>1, <1>2, <1>3, <1>6 DEF Inv, Suspended
<1>8. told' = 0
  BY DEF Pop
<1> QED
  BY <1>1, <1>2, <1>3, <1>4, <1>5, <1>6, <1>7, <1>8

\* Nothing happens to the nodes.
LEMMA SameNodes ==
    ASSUME Inv, UNCHANGED <<list, fields, tpmin, next, ran>>,
           clock' \in {clock, clock + 1}
    PROVE  NodeType' /\ ListSound' /\ Timing'
<1>1. clock \in Nat /\ MaxTime \in Nat
  BY TimerAssumption DEF Inv, TypeOK, KernelType
<1>2. NodeType' /\ ListSound'
  BY DEF Inv, TypeOK, NodeType, ListSound, Listed, fields
<1>3. Timing'
  BY <1>1 DEF Inv, TypeOK, NodeType, Timing, Listed, fields
<1> QED
  BY <1>2, <1>3

\* Only the clock and the kernel's timer change.
LEMMA KernelStep == Inv /\ (Tick \/ Expire \/ Stray) => Inv'
<1> SUFFICES ASSUME Inv, Tick \/ Expire \/ Stray PROVE Inv'
  OBVIOUS
<1>1. /\ clock \in 0..MaxTime /\ itimer \in 0..(2 * MaxTime) /\ MaxTime \in Nat
      /\ now \in 0..clock
  BY TimerAssumption DEF Inv, TypeOK, KernelType, CodeType
<1>2. /\ UNCHANGED <<list, fields, tpmin, next, ran>>
      /\ UNCHANGED <<state, pc, local, stack, handle, hole>>
      /\ clock' \in {clock, clock + 1}
  BY DEF Tick, Expire, Stray, time, history
<1>3. KernelType'
  <2>1. clock' \in 0..MaxTime /\ itimer' \in 0..(2 * MaxTime)
    BY <1>1 DEF Tick, Expire, Stray
  <2>2. pending' \in BOOLEAN
    BY DEF Tick, Expire, Stray, Inv, TypeOK, KernelType
  <2> QED
    BY <2>1, <2>2 DEF KernelType
<1>4. NodeType' /\ ListSound' /\ Timing'
  BY <1>2, SameNodes
<1>5. FlagType'
  BY <1>2 DEF Inv, TypeOK, FlagType, state
<1>6. CodeType'
  BY <1>1, <1>2 DEF Inv, TypeOK, CodeType, local
<1>7. Running' /\ Suspended'
  BY <1>2 DEF Inv, Running, Suspended, state, local
<1>8. Chosen'
  BY <1>1, <1>2 DEF Inv, TypeOK, NodeType, CodeType, Chosen, Setting, Listed, fields, state,
     local
<1> QED
  BY <1>3, <1>4, <1>5, <1>6, <1>7, <1>8 DEF Inv, TypeOK

\* The clock and the kernel's timer stay.
LEMMA SameTime ==
    ASSUME Inv, UNCHANGED <<clock, itimer>>, pending' \in BOOLEAN
    PROVE  KernelType' /\ clock' \in {clock, clock + 1}
BY DEF Inv, TypeOK, KernelType

\* The handler starts, or finds that it must not.
LEMMA SignalStep == Inv /\ Signal => Inv'
<1> SUFFICES ASSUME Inv, Signal PROVE Inv'
  OBVIOUS
<1>1. KernelType' /\ NodeType' /\ ListSound' /\ Timing'
  <2>1. pending' \in BOOLEAN
    BY DEF Signal
  <2> QED
    BY <2>1, SameTime, SameNodes DEF Signal, time, history
<1>2. pc \in Resting /\ Frame \in FrameType
  BY DEF Signal, Inv, TypeOK, CodeType, Running, Resting, Frame, FrameType
<1>3. stack' \in Seq(FrameType) /\ stack' # <<>> /\ Suspended'
  BY <1>2, PushFrame DEF Signal, AtScan, Push, Frame, Inv, Running
<1>4. FlagType' /\ Running' /\ Chosen'
  BY <1>2, <1>3 DEF Signal, Enter, AtScan, Inv, TypeOK, FlagType, Running, Chosen,
     Handling, Setting, Adding, InCall, Idle, history
<1>5. CodeType'
  BY <1>3 DEF Signal, AtScan, Inv, TypeOK, KernelType, CodeType, FrameType, Label, time
<1> QED
  BY <1>1, <1>3, <1>4, <1>5 DEF Inv, TypeOK

\* A signal that finds time_state set changes nothing of the list.
LEMMA SwallowStep == Inv /\ Swallow => Inv'
<1> SUFFICES ASSUME Inv, Swallow PROVE Inv'
  OBVIOUS
<1>1. KernelType' /\ NodeType' /\ ListSound' /\ Timing'
  <2>1. pending' \in BOOLEAN
    BY DEF Swallow
  <2> QED
    BY <2>1, SameTime, SameNodes DEF Swallow
<1>2. FlagType'
  BY DEF Swallow, Deferral, Inv, TypeOK, FlagType
<1>3. CodeType'
  BY DEF Swallow, Inv, TypeOK, CodeType, local
<1>4. Running' /\ Suspended'
  BY DEF Swallow, Deferral, Inv, Running, Suspended, Adding, local
<1>5. Chosen'
  BY DEF Swallow, Inv, Chosen, Listed, fields, local
<1> QED
  BY <1>1, <1>2, <1>3, <1>4, <1>5 DEF Inv, TypeOK

\* A timer that was deleted is freed: tpmin was reset before, and no live one goes.
LEMMA FreeStep == Inv /\ Free => Inv'
<1> SUFFICES ASSUME Inv, Free PROVE Inv'
  OBVIOUS
<1>1. PICK i \in DOMAIN list :
        ~live[list[i]] /\ list' = RemoveAt(list, i) /\ Forget(list[i])
  BY DEF Free
<1>2. list[i] \in Node /\ list[i] \in Listed
  BY LenProperties, ElementOfSeq DEF Inv, TypeOK, NodeType, Listed, Range
<1>3. list' \in Seq(Node) /\ Listed' = Listed \ {list[i]} /\ IsInjective(list')
  BY <1>1, RemoveAtProperties, RemoveAtRange DEF Inv, TypeOK, NodeType, ListSound, Listed
<1>4. KernelType' /\ clock' = clock
  BY DEF Free, time, Inv, TypeOK, KernelType
<1>5. NodeType'
  BY <1>1, <1>2, <1>3 DEF Free, Forget, Inv, TypeOK, NodeType
<1>6. ListSound'
  BY <1>3 DEF Free, ListSound
<1>7. FlagType' /\ Running' /\ Suspended'
  BY DEF Free, state, local, Inv, TypeOK, FlagType, Running, Suspended
<1>8. CodeType'
  BY <1>4 DEF Free, local, Inv, TypeOK, CodeType
<1>9. Timing'
  BY <1>1, <1>2, <1>3, <1>4 DEF Free, Forget, Inv, TypeOK, NodeType, Timing
<1>10. Chosen'
  BY DEF Free, local, Chosen, Setting
<1> QED
  BY <1>3, <1>4, <1>5, <1>6, <1>7, <1>8, <1>9, <1>10 DEF Inv, TypeOK

\* A period is one that a caller may ask for.
LEMMA Periods == Inv => \A n \in Node : incr[n] \in Nat /\ incr[n] \in 0..MaxTime
<1> SUFFICES ASSUME Inv, NEW n \in Node
             PROVE  incr[n] \in Nat /\ incr[n] \in 0..MaxTime
  OBVIOUS
<1>1. MaxTime \in Nat /\ Interval \subseteq 1..MaxTime
  BY TimerAssumption
<1>2. incr[n] \in {0} \cup Interval
  BY DEF Inv, TypeOK, NodeType
<1>3. CASE incr[n] = 0
  BY <1>1, <1>3
<1>4. CASE incr[n] \in Interval
  <2>1. incr[n] \in 1..MaxTime
    BY <1>1, <1>4
  <2> QED
    BY <1>1, <2>1
<1> QED
  BY <1>2, <1>3, <1>4

\* A recurring timer is put off by one period at least, and to at most one
\* period from now.
LEMMA AdvanceBy ==
    ASSUME Inv, NEW n \in Node, live[n], wakeup[n] <= clock, incr[n] > 0, Advance(n)
    PROVE  \E w \in Nat :
             /\ wakeup' = [wakeup EXCEPT ![n] = w]
             /\ clock < w /\ w <= clock + MaxTime /\ wakeup[n] + incr[n] <= w
<1>1. /\ wakeup[n] \in Nat /\ incr[n] \in 1..MaxTime /\ clock \in Nat /\ MaxTime \in Nat
      /\ wakeup \in [Node -> Nat]
  <2>1. MaxTime \in Nat /\ Interval \subseteq 1..MaxTime
    BY TimerAssumption
  <2>2. wakeup \in [Node -> Nat] /\ incr[n] \in {0} \cup Interval /\ clock \in Nat
    BY <2>1 DEF Inv, TypeOK, NodeType, KernelType
  <2>3. incr[n] # 0
    BY <2>1, <2>2
  <2> QED
    BY <2>1, <2>2, <2>3
<1>2. PICK k \in 1..MaxTime :
        /\ wakeup[n] + k * incr[n] > clock /\ wakeup[n] + (k - 1) * incr[n] <= clock
        /\ wakeup' = [wakeup EXCEPT ![n] = @ + k * incr[n]]
  BY DEF Advance
<1> DEFINE a == (k - 1) * incr[n]
           b == k * incr[n]
<1>3. a \in Nat /\ b = a + incr[n]
  BY <1>1
<1> HIDE DEF a, b
<1>4. wakeup[n] + b > clock /\ wakeup[n] + a <= clock
  BY <1>2 DEF a, b
<1>5. wakeup' = [wakeup EXCEPT ![n] = wakeup[n] + b]
  BY <1>1, <1>2 DEF b
<1> DEFINE w == wakeup[n] + b
<1>6. w \in Nat /\ clock < w /\ w <= clock + MaxTime /\ wakeup[n] + incr[n] <= w
  BY <1>1, <1>3, <1>4
<1>7. wakeup' = [wakeup EXCEPT ![n] = w]
  BY <1>5
<1> QED
  BY <1>6, <1>7

\* What Scan chooses.
LEMMA ScanChoice ==
    ASSUME Inv, Scan
    PROVE  /\ wakeup' \in [Node -> Nat]
           /\ tp' # None => tp' \in Node /\ live[tp'] /\ wakeup[tp'] <= clock
           /\ tp' = None => \A n \in Node : live[n] => wakeup[n] > clock
           /\ tp' # None /\ incr[tp'] > 0 =>
                wakeup[tp'] + incr[tp'] <= wakeup'[tp'] /\ wakeup'[tp'] <= clock + MaxTime
           /\ \A n \in Node : n # tp' \/ incr[n] = 0 => wakeup'[n] = wakeup[n]
           /\ tpmin' # None => /\ tpmin' \in Node /\ live[tpmin'] /\ tpmin' \in Listed
                               /\ clock < wakeup'[tpmin']
           /\ tp' = None /\ (\E n \in Node : live[n]) => tpmin' # None
<1>1. /\ wakeup \in [Node -> Nat] /\ Listed \subseteq Node /\ clock \in Nat
      /\ MaxTime \in Nat /\ None \notin Node
  BY TimerAssumption, LenProperties, ElementOfSeq
     DEF Inv, TypeOK, NodeType, KernelType, Listed, Range
<1>2. \A n \in Node : live[n] => n \in Listed
  BY DEF Inv, Timing
<1>3. tp' # None => tp' \in Node /\ live[tp'] /\ wakeup[tp'] <= clock /\ tp' \in Listed
  BY <1>1 DEF Scan, Soonest, Due
<1>4. tp' = None => Due = {}
  BY <1>1 DEF Scan, Soonest, Due
<1>5. tp' = None => \A n \in Node : live[n] => wakeup[n] > clock
  BY <1>1, <1>2, <1>4 DEF Due
<1>6. CASE tp' # None /\ incr[tp'] > 0
  <2>1. Advance(tp')
    BY <1>6 DEF Scan
  <2>2. PICK w \in Nat :
             /\ wakeup' = [wakeup EXCEPT ![tp'] = w]
             /\ clock < w /\ w <= clock + MaxTime /\ wakeup[tp'] + incr[tp'] <= w
    BY <1>3, <1>6, <2>1, AdvanceBy
  <2>3. \A n \in Node : wakeup'[n] = IF n = tp' THEN w ELSE wakeup[n]
    BY <1>1, <2>2
  <2>4. tpmin' # None => /\ tpmin' \in Node /\ live[tpmin'] /\ tpmin' \in Listed
                        /\ clock < wakeup'[tpmin']
    <3>1. PICK m \in Later \cup {None} : tpmin' = tp' \/ tpmin' = m
      BY DEF Scan
    <3>2. m # None => m \in Node /\ live[m] /\ wakeup[m] > clock /\ m \in Listed
      BY <1>1 DEF Later
    <3>3. m # None => m # tp'
      BY <1>1, <1>3, <1>6, <3>2
    <3> QED
      BY <1>1, <1>3, <1>6, <2>2, <2>3, <3>1, <3>2, <3>3
  <2> QED
    BY <1>1, <1>3, <1>5, <1>6, <2>2, <2>3, <2>4
<1>7. CASE ~(tp' # None /\ incr[tp'] > 0)
  <2>1. wakeup' = wakeup
    BY <1>7 DEF Scan
  <2>2. PICK m \in Later \cup {None} :
             (Later = {} => m = None) /\ (Later # {} => Soonest(m, Later)) /\ tpmin' = m
    BY <1>7 DEF Scan
  <2>3. m # None => m \in Node /\ live[m] /\ wakeup[m] > clock /\ m \in Listed
    BY <1>1 DEF Later
  <2>4. tp' = None /\ (\E n \in Node : live[n]) => Later # {}
    BY <1>2, <1>5 DEF Later
  <2>5. Later # {} => m # None
    BY <1>1, <2>2 DEF Soonest, Later
  <2> QED
    BY <1>1, <1>3, <1>5, <1>7, <2>1, <2>2, <2>3, <2>4, <2>5
<1> QED
  BY <1>6, <1>7

\* The choice among the timers that are left.
LEMMA ScanStep == Inv /\ Scan => Inv'
<1> SUFFICES ASSUME Inv, Scan PROVE Inv'
  OBVIOUS
<1>1. KernelType' /\ clock' = clock
  BY DEF Scan, time, Inv, TypeOK, KernelType
<1>2. /\ clock \in Nat /\ MaxTime \in Nat /\ None \notin Node
      /\ next \in [Node -> Nat] /\ wakeup \in [Node -> Nat]
      /\ incr \in [Node -> {0} \cup Interval] /\ Interval \subseteq 1..MaxTime
  BY TimerAssumption DEF Inv, TypeOK, NodeType, KernelType
<1>3. UNCHANGED <<list, incr, live, client, next, ran>>
  BY DEF Scan, history
<1>10. \A n \in Node : incr[n] \in Nat
  BY Periods
<1>4. NodeType'
  BY <1>2, <1>3, ScanChoice DEF Inv, TypeOK, NodeType
<1>5. ListSound'
  BY <1>3, ScanChoice DEF Inv, ListSound, Listed
<1>6. FlagType' /\ Suspended'
  BY DEF Scan, state, history, Inv, TypeOK, FlagType, Suspended
<1>7. CodeType' /\ Running'
  <2>1. now' \in 0..clock' /\ tp' \in Node \cup {None}
    BY <1>1, <1>2, ScanChoice DEF Scan
  <2> QED
    BY <2>1 DEF Scan, state, Inv, TypeOK, CodeType, Running, Label, Handling, Setting, Adding,
       InCall, Idle
<1>8. Timing'
  <2> SUFFICES ASSUME NEW n \in Node, live'[n]
               PROVE  /\ n \in Listed' /\ client'[n] \in Client
                      /\ next'[n] <= wakeup'[n] /\ wakeup'[n] <= clock' + MaxTime
    BY DEF Timing
  <2>1. /\ n \in Listed /\ client[n] \in Client
        /\ next[n] <= wakeup[n] /\ wakeup[n] <= clock + MaxTime
    BY <1>3 DEF Inv, Timing
  <2>2. /\ next[n] \in Nat /\ wakeup[n] \in Nat /\ wakeup'[n] \in Nat
        /\ incr[n] \in Nat
    BY <1>2, <1>10, ScanChoice
  <2>3. CASE n # tp' \/ incr[n] = 0
    BY <1>1, <1>3, <2>1, <2>3, ScanChoice DEF Listed
  <2>4. CASE n = tp' /\ incr[n] > 0
    BY <1>1, <1>2, <1>3, <2>1, <2>2, <2>4, ScanChoice DEF Listed
  <2> QED
    BY <2>2, <2>3, <2>4
<1>9. Chosen'
  <2>1. tp' # None => /\ live'[tp'] /\ next'[tp'] <= clock'
                      /\ incr'[tp'] > 0 => next'[tp'] + incr'[tp'] <= wakeup'[tp']
    <3> SUFFICES ASSUME tp' # None
                 PROVE  /\ live[tp'] /\ next[tp'] <= clock
                        /\ incr[tp'] > 0 => next[tp'] + incr[tp'] <= wakeup'[tp']
      BY <1>1, <1>3
    <3>1. tp' \in Node /\ live[tp'] /\ wakeup[tp'] <= clock
      BY ScanChoice
    <3>2. next[tp'] <= wakeup[tp']
      BY <3>1 DEF Inv, Timing
    <3>3. /\ next[tp'] \in Nat /\ wakeup[tp'] \in Nat /\ wakeup'[tp'] \in Nat
          /\ incr[tp'] \in Nat
      BY <1>2, <1>10, <3>1, ScanChoice
    <3>4. incr[tp'] > 0 => wakeup[tp'] + incr[tp'] <= wakeup'[tp']
      BY ScanChoice
    <3> QED
      BY <1>2, <3>1, <3>2, <3>3, <3>4
  <2>2. tpmin' # None => now' < wakeup'[tpmin'] /\ wakeup'[tpmin'] <= now' + MaxTime
    <3>1. now' = clock
      BY DEF Scan
    <3> QED
      BY <1>1, <1>3, <1>8, <3>1, ScanChoice DEF Timing
  <2> QED
    BY <2>1, <2>2 DEF Scan, Chosen, Setting
<1> QED
  BY <1>1, <1>4, <1>5, <1>6, <1>7, <1>8, <1>9 DEF Inv, TypeOK

\* The kernel's timer is set at most MaxTime ahead.
LEMMA ArmStep == Inv /\ Arm => Inv'
<1> SUFFICES ASSUME Inv, Arm PROVE Inv'
  OBVIOUS
<1>1. /\ clock \in 0..MaxTime /\ itimer \in 0..(2 * MaxTime) /\ MaxTime \in Nat
      /\ now \in 0..clock /\ left \in Nat /\ wakeup \in [Node -> Nat]
      /\ tpmin \in Node \cup {None}
  BY TimerAssumption DEF Inv, TypeOK, KernelType, CodeType, FlagType, NodeType
<1>2. itimer' \in 0..(2 * MaxTime) /\ told' \in Nat
  <2>1. CASE ToBeArmed
    <3>1. /\ tpmin \in Node /\ wakeup[tpmin] \in Nat
          /\ now < wakeup[tpmin] /\ wakeup[tpmin] <= now + MaxTime
      BY <1>1, <2>1 DEF ToBeArmed, Arm, Inv, Chosen
    <3>2. Remaining \in Nat
      BY <1>1 DEF Remaining
    <3>3. itimer' = clock + (wakeup[tpmin] - now) /\ told' = Remaining
      BY <2>1 DEF Arm
    <3> QED
      BY <1>1, <3>1, <3>2, <3>3
  <2>2. CASE ~ToBeArmed
    BY <1>1, <2>2 DEF Arm, Inv, TypeOK, CodeType
  <2> QED
    BY <2>1, <2>2
<1>3. KernelType' /\ clock' = clock
  BY <1>2 DEF Arm, Inv, TypeOK, KernelType
<1>4. NodeType' /\ ListSound' /\ Timing'
  BY SameNodes DEF Arm
<1>5. FlagType'
  <2>1. hole' \in BOOLEAN
    BY DEF Arm
  <2> QED
    BY <2>1 DEF Arm, state, Inv, TypeOK, FlagType
<1>6. CodeType' /\ Running' /\ Suspended'
  BY <1>2, <1>3 DEF Arm, Onward, state, Inv, TypeOK, CodeType, Running, Suspended, Label,
     Handling, Setting, Adding, InCall, Idle
<1>7. Chosen'
  BY <1>3 DEF Arm, Onward, ToBeArmed, fields, Inv, Chosen, Setting
<1> QED
  BY <1>3, <1>4, <1>5, <1>6, <1>7 DEF Inv, TypeOK

\* left is stored.
LEMMA StoreStep == Inv /\ Store => Inv'
<1> SUFFICES ASSUME Inv, Store PROVE Inv'
  OBVIOUS
<1>1. KernelType' /\ NodeType' /\ ListSound' /\ Timing'
  BY SameTime, SameNodes DEF Store, time, history, Inv, TypeOK, KernelType
<1>2. FlagType'
  BY DEF Store, history, Inv, TypeOK, FlagType, CodeType
<1>3. CodeType' /\ Running' /\ Suspended' /\ Chosen'
  BY DEF Store, time, fields, history, Inv, TypeOK, CodeType, Running, Suspended, Label,
     Handling, Setting, Adding, InCall, Idle, Chosen
<1> QED
  BY <1>1, <1>2, <1>3 DEF Inv, TypeOK

\* It is compared with the time until the next timer.
LEMMA CompareStep == Inv /\ Compare => Inv'
<1> SUFFICES ASSUME Inv, Compare PROVE Inv'
  OBVIOUS
<1>1. KernelType' /\ NodeType' /\ ListSound' /\ Timing'
  BY SameTime, SameNodes DEF Compare, time, history, Inv, TypeOK, KernelType
<1>2. left' \in Nat
  <2>1. /\ tpmin \in Node /\ wakeup[tpmin] \in Nat /\ now \in Nat /\ left \in Nat
        /\ now < wakeup[tpmin]
    BY DEF Compare, Inv, TypeOK, KernelType, NodeType, CodeType, FlagType, Chosen, Setting
  <2> QED
    BY <2>1 DEF Compare
<1>3. FlagType'
  BY <1>2 DEF Compare, history, Inv, TypeOK, FlagType
<1>4. CodeType' /\ Running' /\ Suspended'
  BY DEF Compare, Goto, Onward, local, time, Inv, TypeOK, CodeType, Running, Suspended,
     Label, Handling, Setting, Adding, InCall, Idle
<1>5. Chosen'
  BY DEF Compare, Goto, Onward, local, time, fields, history, Inv, Chosen, Setting
<1> QED
  BY <1>1, <1>3, <1>4, <1>5 DEF Inv, TypeOK

\* The kernel's timer is set back, or off.
LEMMA RearmStep == Inv /\ Rearm => Inv'
<1> SUFFICES ASSUME Inv, Rearm PROVE Inv'
  OBVIOUS
<1>1. KernelType' /\ clock' = clock
  <2>1. /\ clock \in 0..MaxTime /\ MaxTime \in Nat /\ now \in Nat /\ left \in Nat
        /\ tpmin \in Node /\ wakeup[tpmin] \in Nat /\ wakeup[tpmin] <= now + MaxTime
        /\ left = 0 \/ now + left < wakeup[tpmin]
    BY TimerAssumption DEF Rearm, Inv, TypeOK, KernelType, NodeType, CodeType, FlagType,
       Chosen, Setting
  <2>2. itimer' \in 0..(2 * MaxTime)
    BY <2>1 DEF Rearm
  <2> QED
    BY <2>2 DEF Rearm, Inv, TypeOK, KernelType
<1>2. NodeType' /\ ListSound' /\ Timing'
  BY <1>1, SameNodes DEF Rearm, history
<1>3. FlagType'
  BY DEF Rearm, state, history, Inv, TypeOK, FlagType
<1>4. CodeType' /\ Running' /\ Suspended'
  BY <1>1 DEF Rearm, Goto, Onward, local, state, Inv, TypeOK, CodeType, Running, Suspended,
     Label, Handling, Setting, Adding, InCall, Idle
<1>5. Chosen'
  BY <1>1 DEF Rearm, Goto, Onward, local, fields, history, Inv, Chosen, Setting
<1> QED
  BY <1>1, <1>2, <1>3, <1>4, <1>5 DEF Inv, TypeOK

\* The action is taken and the guard lifted, and its timer was due.
LEMMA RunStep == Inv /\ Run => Inv'
<1> SUFFICES ASSUME Inv, Run PROVE Inv'
  OBVIOUS
<1>1. tp \in Node /\ live[tp] /\ next[tp] <= clock
      /\ (incr[tp] > 0 => next[tp] + incr[tp] <= wakeup[tp])
  BY DEF Run, Inv, Chosen, TypeOK, CodeType, Running
<1>2. KernelType' /\ clock' = clock
  BY DEF Run, time, Inv, TypeOK, KernelType
<1>3. incr[tp] \in Nat /\ next \in [Node -> Nat] /\ ran \in [Node -> Nat]
      /\ wakeup \in [Node -> Nat]
  BY <1>1, Periods DEF Inv, TypeOK, NodeType
<1>4. NodeType'
  <2>1. next' \in [Node -> Nat] /\ ran' \in [Node -> Nat]
    BY <1>1, <1>3 DEF Run
  <2>2. live' \in [Node -> BOOLEAN]
    BY <1>1 DEF Run, Over, Inv, TypeOK, NodeType
  <2> QED
    BY <2>1, <2>2 DEF Run, Inv, TypeOK, NodeType
<1>5. ListSound'
  BY DEF Run, Inv, ListSound, Listed
<1>6. FlagType'
  BY FalseType DEF Run, Inv, TypeOK, FlagType
<1>8. CodeType' /\ Running' /\ Suspended' /\ Chosen'
  BY <1>2 DEF Run, Goto, local, Inv, TypeOK, KernelType, CodeType, Running, Suspended,
     Label, Handling, Setting, Adding, InCall, Idle, Chosen
<1>9. Timing'
  <2> SUFFICES ASSUME NEW n \in Node, live'[n]
               PROVE  /\ n \in Listed' /\ client'[n] \in Client
                      /\ next'[n] <= wakeup'[n] /\ wakeup'[n] <= clock' + MaxTime
    BY DEF Timing
  <2>1. live[n] /\ (n = tp => incr[tp] > 0)
    BY <1>1 DEF Run, Over, Inv, TypeOK, NodeType
  <2>2. /\ n \in Listed /\ client[n] \in Client
        /\ next[n] <= wakeup[n] /\ wakeup[n] <= clock + MaxTime
    BY <2>1 DEF Inv, Timing
  <2>3. next'[n] = IF n = tp THEN next[tp] + incr[tp] ELSE next[n]
    BY <1>1, <1>3 DEF Run
  <2> QED
    BY <1>1, <1>2, <2>1, <2>2, <2>3 DEF Run, Listed
<1> QED
  BY <1>2, <1>4, <1>5, <1>6, <1>8, <1>9 DEF Inv, TypeOK

\* The action is called, with whatever the node holds.
LEMMA ActStep == Inv /\ Act => Inv'
<1> SUFFICES ASSUME Inv, Act PROVE Inv'
  OBVIOUS
<1>1. KernelType' /\ NodeType' /\ ListSound' /\ Timing' /\ clock' = clock
  BY SameTime, SameNodes DEF Act, time, history, Inv, TypeOK, KernelType
<1>2. FlagType'
  BY DEF Act, state, history, Inv, TypeOK, FlagType
<1>3. handle' \in [Client -> Node \cup {None}]
  BY DEF Act, Inv, TypeOK, CodeType
<1>4. CodeType' /\ Running' /\ Suspended' /\ Chosen'
  BY <1>1, <1>3 DEF Act, state, Inv, TypeOK, KernelType, CodeType, Running, Suspended,
     Label, Handling, Setting, Adding, InCall, Idle, Chosen
<1> QED
  BY <1>1, <1>2, <1>4 DEF Inv, TypeOK

\* The action comes back and the guard is set again.
LEMMA ReturnStep == Inv /\ Return => Inv'
<1> SUFFICES ASSUME Inv, Return PROVE Inv'
  OBVIOUS
<1>1. KernelType' /\ NodeType' /\ ListSound' /\ Timing'
  BY SameTime, SameNodes DEF Return, time, history, Inv, TypeOK, KernelType
<1>2. FlagType'
  BY DEF Return, history, Inv, TypeOK, FlagType
<1>3. CodeType' /\ Running' /\ Suspended' /\ Chosen'
  BY DEF Return, Goto, local, time, Inv, TypeOK, CodeType, Running, Suspended, Label,
     Handling, Setting, Adding, InCall, Idle, Chosen
<1> QED
  BY <1>1, <1>2, <1>3 DEF Inv, TypeOK

\* The action leaves by a longjmp, with no bit of time_state set.
LEMMA JumpStep == Inv /\ Jump => Inv'
<1> SUFFICES ASSUME Inv, Jump PROVE Inv'
  OBVIOUS
<1>1. KernelType' /\ NodeType' /\ ListSound' /\ Timing'
  BY SameTime, SameNodes DEF Jump, time, Inv, TypeOK, KernelType
<1>2. FlagType'
  BY DEF Jump, state, Inv, TypeOK, FlagType
<1>3. stack' \in Seq(FrameType) /\ stack' = <<>> /\ DOMAIN stack' = {}
  BY DEF Jump
<1>4. CodeType' /\ Running' /\ Suspended' /\ Chosen'
  BY <1>3 DEF Jump, state, local, time, Inv, TypeOK, CodeType, FrameType, Running,
     Suspended, Label, Handling, Setting, Adding, InCall, Idle, Chosen
<1> QED
  BY <1>1, <1>2, <1>4 DEF Inv, TypeOK

\* The handler returns to what it interrupted.
LEMMA LeaveStep == Inv /\ Leave => Inv'
<1> SUFFICES ASSUME Inv, Leave PROVE Inv'
  OBVIOUS
<1>1. KernelType' /\ NodeType' /\ ListSound' /\ Timing'
  BY SameTime, SameNodes DEF Leave, time, history, Inv, TypeOK, KernelType
<1>2. FlagType'
  BY FalseType DEF Leave, history, Inv, TypeOK, FlagType
<1>3. stack # <<>> /\ Pop
  BY DEF Leave, Inv, Running, Idle
<1>4. CodeType' /\ Running' /\ Suspended' /\ Chosen'
  BY <1>1, <1>3, PopFrame DEF Leave, Inv, TypeOK, KernelType, CodeType, FrameType,
     Running, Resting, Label, Handling, Setting, Adding, InCall, Idle, Chosen
<1> QED
  BY <1>1, <1>2, <1>4 DEF Inv, TypeOK

-----------------------------------------------------------------------------
\* A timer is added to the list.
LEMMA AddStep == ASSUME NEW c \in Client PROVE Inv /\ Add(c) => Inv'
<1> SUFFICES ASSUME Inv, Add(c) PROVE Inv'
  OBVIOUS
<1>1. PICK n \in Node \ Listed, t \in Interval, again \in BOOLEAN :
         /\ wakeup' = [wakeup EXCEPT ![n] = clock + t]
         /\ incr' = [incr EXCEPT ![n] = IF again THEN t ELSE 0]
         /\ live' = [live EXCEPT ![n] = TRUE]
         /\ client' = [client EXCEPT ![n] = c]
         /\ list' = <<n>> \o list
         /\ next' = [next EXCEPT ![n] = clock + t]
         /\ ran' = [ran EXCEPT ![n] = 0]
         /\ tp' = n
  BY DEF Add
<1>2. t \in 1..MaxTime /\ MaxTime \in Nat /\ clock \in Nat /\ None \notin Node
  BY TimerAssumption DEF Inv, TypeOK, KernelType
<1>3. list' \in Seq(Node) /\ Listed' = {n} \cup Listed /\ IsInjective(list')
  <2>1. list \in Seq(Node) /\ IsInjective(list) /\ n \in Node /\ n \notin Range(list)
    BY DEF Inv, TypeOK, NodeType, ListSound, Listed
  <2>2. <<n>> \o list \in Seq(Node)
    BY <2>1, ConsProperties
  <2>3. Range(<<n>> \o list) = {n} \cup Range(list) /\ IsInjective(<<n>> \o list)
    BY <2>1, ConsRange
  <2> QED
    BY <1>1, <2>2, <2>3 DEF Listed
<1>4. KernelType' /\ clock' = clock
  BY DEF Add, time, Inv, TypeOK, KernelType
<1>5. NodeType'
  <2>1. wakeup' \in [Node -> Nat] /\ next' \in [Node -> Nat] /\ ran' \in [Node -> Nat]
    BY <1>1, <1>2 DEF Inv, TypeOK, NodeType
  <2>2. incr' \in [Node -> {0} \cup Interval]
    BY <1>1 DEF Inv, TypeOK, NodeType
  <2>3. live' \in [Node -> BOOLEAN] /\ client' \in [Node -> Client \cup {None}]
    BY <1>1 DEF Inv, TypeOK, NodeType
  <2>4. tpmin' \in Node \cup {None}
    BY DEF Add, Inv, TypeOK, NodeType
  <2> QED
    BY <1>3, <2>1, <2>2, <2>3, <2>4 DEF NodeType
<1>6. ListSound'
  BY <1>3 DEF Add, Inv, ListSound
<1>7. FlagType'
  BY FalseType DEF Add, Inv, TypeOK, FlagType
<1>8. pc \in Resting /\ Frame \in FrameType /\ (pc # Idle => stack # <<>>)
  BY DEF Add, Calling, Inv, TypeOK, CodeType, Running, Resting, Frame, FrameType,
     Label, Handling, Setting, Adding, Idle
<1>9. stack' \in Seq(FrameType) /\ stack' # <<>> /\ Suspended'
  BY <1>8, PushFrame DEF Add, Push, Frame, Calling, InCall, Idle
<1>10. CodeType' /\ Running'
  <2>1. now' \in 0..clock' /\ tp' \in Node /\ who' \in Client /\ handle' = handle
    BY <1>1, <1>2, <1>4 DEF Add
  <2>2. inAdd' /\ inAlrm' = inAlrm /\ deferred' = deferred /\ pc' = "min" /\ told' = 0
    BY DEF Add
  <2>3. ~inAlrm /\ ~deferred
    BY DEF Add, Calling, Inv, Running, Handling, Setting, Adding, Idle
  <2> QED
    BY <1>9, <2>1, <2>2, <2>3 DEF Inv, TypeOK, CodeType, Running, FrameType, Label,
       Handling, Setting, Adding, InCall, Idle
<1>11. Timing'
  <2> SUFFICES ASSUME NEW m \in Node, live'[m]
               PROVE  /\ m \in Listed' /\ client'[m] \in Client
                      /\ next'[m] <= wakeup'[m] /\ wakeup'[m] <= clock' + MaxTime
    BY DEF Timing
  <2>1. CASE m = n
    BY <1>1, <1>2, <1>3, <1>4, <2>1 DEF Inv, TypeOK, NodeType
  <2>2. CASE m # n
    <3>1. /\ live[m] /\ next'[m] = next[m] /\ wakeup'[m] = wakeup[m]
          /\ client'[m] = client[m]
      BY <1>1, <2>2 DEF Inv, TypeOK, NodeType
    <3> QED
      BY <1>3, <1>4, <3>1 DEF Inv, Timing
  <2> QED
    BY <2>1, <2>2
<1>12. Chosen'
  <2>1. tp' \in Listed' /\ wakeup'[tp'] = clock + t /\ now' = clock /\ pc' = "min"
    BY <1>1, <1>3 DEF Add, Inv, TypeOK, NodeType
  <2>2. tp' # tpmin'
    BY <1>1, <1>2 DEF Add, Inv, ListSound
  <2> QED
    BY <1>2, <2>1, <2>2 DEF Chosen, Setting
<1> QED
  BY <1>4, <1>5, <1>6, <1>7, <1>9, <1>10, <1>11, <1>12 DEF Inv, TypeOK

\* sh_timeradd looks whether its timer is the next one.
LEMMA SetMinStep == Inv /\ SetMin => Inv'
<1> SUFFICES ASSUME Inv, SetMin PROVE Inv'
  OBVIOUS
<1>1. /\ clock \in 0..MaxTime /\ itimer \in 0..(2 * MaxTime) /\ MaxTime \in Nat
      /\ now \in 0..clock /\ wakeup \in [Node -> Nat]
      /\ tp \in Node /\ tp \in Listed
      /\ now < wakeup[tp] /\ wakeup[tp] <= now + MaxTime
  BY TimerAssumption DEF SetMin, Inv, TypeOK, KernelType, CodeType, NodeType, Running,
     InCall, Chosen
<1>2. KernelType' /\ clock' = clock
  BY <1>1 DEF SetMin, Inv, TypeOK, KernelType
<1>3. tpmin' \in {tp, tpmin} /\ UNCHANGED <<list, fields, next, ran>>
  BY DEF SetMin, history
<1>4. NodeType' /\ ListSound'
  BY <1>1, <1>3 DEF Inv, TypeOK, NodeType, ListSound, Listed, fields
<1>5. Timing'
  BY <1>2, <1>3 DEF Inv, Timing, Listed, fields
<1>6. FlagType'
  <2>1. deferred' \in BOOLEAN
    <3>1. tpmin # None => live[tpmin] \in BOOLEAN
      BY DEF Inv, TypeOK, NodeType
    <3>2. CASE IsNext
      BY <3>2 DEF SetMin, Inv, TypeOK, FlagType
    <3>3. CASE ~IsNext
      BY <3>1, <3>3, Zenon DEF SetMin, Inv, TypeOK, FlagType
    <3> QED
      BY <3>2, <3>3
  <2> QED
    BY <2>1 DEF SetMin, history, Inv, TypeOK, FlagType
<1>7. CodeType' /\ Running' /\ Suspended'
  BY <1>2 DEF SetMin, Goto, local, Inv, TypeOK, CodeType, Running, Suspended, Label,
     Handling, Setting, Adding, InCall, Idle
<1>8. Chosen'
  BY DEF SetMin, Goto, Chosen, Setting
<1> QED
  BY <1>2, <1>4, <1>5, <1>6, <1>7, <1>8 DEF Inv, TypeOK

\* sh_timeradd lets signals in again.
LEMMA UnlockStep == Inv /\ Unlock => Inv'
<1> SUFFICES ASSUME Inv, Unlock PROVE Inv'
  OBVIOUS
<1>1. KernelType' /\ NodeType' /\ ListSound' /\ Timing'
  BY SameTime, SameNodes DEF Unlock, time, history, Inv, TypeOK, KernelType
<1>2. FlagType'
  BY FalseType DEF Unlock, history, Inv, TypeOK, FlagType
<1>3. CodeType' /\ Running' /\ Suspended' /\ Chosen'
  BY DEF Unlock, Goto, local, time, Inv, TypeOK, CodeType, Running, Suspended, Label,
     Handling, Setting, Adding, InCall, Idle, Chosen
<1> QED
  BY <1>1, <1>2, <1>3 DEF Inv, TypeOK

\* It takes up a signal that was put off.
LEMMA TestStep == Inv /\ Test => Inv'
<1> SUFFICES ASSUME Inv, Test PROVE Inv'
  OBVIOUS
<1>1. KernelType' /\ NodeType' /\ ListSound' /\ Timing'
  BY SameTime, SameNodes DEF Test, time, history, Inv, TypeOK, KernelType
<1>2. FlagType'
  BY FalseType DEF Test, history, Inv, TypeOK, FlagType
<1>3. CodeType' /\ Running' /\ Suspended' /\ Chosen'
  BY DEF Test, Goto, local, time, Inv, TypeOK, CodeType, Running, Suspended, Label,
     Handling, Setting, Adding, InCall, Idle, Chosen
<1> QED
  BY <1>1, <1>2, <1>3 DEF Inv, TypeOK

\* It calls the handler.
LEMMA CallHandlerStep == Inv /\ CallHandler => Inv'
<1> SUFFICES ASSUME Inv, CallHandler PROVE Inv'
  OBVIOUS
<1>1. KernelType' /\ NodeType' /\ ListSound' /\ Timing'
  BY SameTime, SameNodes DEF CallHandler, time, history, Inv, TypeOK, KernelType
<1> DEFINE f == [Frame EXCEPT !.pc = "made"]
<1>2. /\ f \in FrameType /\ f.pc = "made" /\ f.pc \in Resting /\ stack # <<>>
      /\ f.tp \in Node /\ f.who \in Client
  BY DEF CallHandler, Inv, TypeOK, CodeType, Running, Frame, FrameType, Resting,
     Label, Handling, Setting, Adding, InCall, Idle
<1>3. stack' \in Seq(FrameType) /\ stack' # <<>> /\ Suspended'
  <2>1. stack' = <<f>> \o stack
    BY DEF CallHandler
  <2> HIDE DEF f
  <2> QED
    BY <1>2, <2>1, PushFrame
<1>4. FlagType' /\ Running' /\ Chosen'
  BY <1>3 DEF CallHandler, Enter, Inv, TypeOK, FlagType, Running, Chosen,
     Handling, Setting, Adding, InCall, Idle, history
<1>5. CodeType'
  BY <1>3 DEF CallHandler, Inv, TypeOK, KernelType, CodeType, FrameType, Label, time
<1> QED
  BY <1>1, <1>3, <1>4, <1>5 DEF Inv, TypeOK

\* The code under the one that ends goes on.
LEMMA PopStep ==
    ASSUME Inv, Pop, stack # <<>>, UNCHANGED <<inAdd, inAlrm, deferred>>,
           pc \in Resting, ~deferred, KernelType',
           handle' \in [Client -> Node \cup {None}]
    PROVE  CodeType' /\ Running' /\ Suspended' /\ Chosen'
BY PopFrame DEF Inv, TypeOK, KernelType, CodeType, FrameType,
     Running, Resting, Label, Handling, Setting, Adding, InCall, Idle, Chosen

\* It returns to its caller.
LEMMA BackStep == Inv /\ Back => Inv'
<1> SUFFICES ASSUME Inv, Back PROVE Inv'
  OBVIOUS
<1>1. KernelType' /\ NodeType' /\ ListSound' /\ Timing'
  BY SameTime, SameNodes DEF Back, time, history, Inv, TypeOK, KernelType
<1>2. FlagType'
  BY DEF Back, state, history, Inv, TypeOK, FlagType
<1>3. handle' \in [Client -> Node \cup {None}]
  BY DEF Back, Given, Inv, TypeOK, CodeType
<1>4. CodeType' /\ Running' /\ Suspended' /\ Chosen'
  <2>1. pc \in Resting /\ stack # <<>> /\ ~deferred
    BY DEF Back, Inv, Running, Resting, Label, Handling, Setting, Adding, Idle
  <2> QED
    BY <1>1, <1>3, <2>1, PopStep DEF Back, state
<1> QED
  BY <1>1, <1>2, <1>4 DEF Inv, TypeOK

\* A caller takes its timer out of its variable.
LEMMA LookStep == ASSUME NEW c \in Client PROVE Inv /\ Look(c) => Inv'
<1> SUFFICES ASSUME Inv, Look(c) PROVE Inv'
  OBVIOUS
<1>1. KernelType' /\ NodeType' /\ ListSound' /\ Timing'
  BY SameTime, SameNodes DEF Look, time, history, Inv, TypeOK, KernelType
<1>2. FlagType'
  BY DEF Look, state, history, Inv, TypeOK, FlagType
<1>3. pc \in Resting /\ Frame \in FrameType /\ (pc # Idle => stack # <<>>)
  BY DEF Look, Calling, Inv, TypeOK, CodeType, Running, Resting, Frame, FrameType,
     Label, Handling, Setting, Adding, Idle
<1>4. stack' \in Seq(FrameType) /\ stack' # <<>> /\ Suspended'
  BY <1>3, PushFrame DEF Look, Push, Frame, Calling, InCall, Idle
<1>5. tp' \in Node
  BY DEF Look, Inv, TypeOK, CodeType
<1>6. CodeType' /\ Running' /\ Chosen'
  BY <1>4, <1>5 DEF Look, Calling, state, time, Inv, TypeOK, KernelType, CodeType,
     FrameType, Running, Label, Handling, Setting, Adding, InCall, Idle, Chosen
<1> QED
  BY <1>1, <1>2, <1>4, <1>6 DEF Inv, TypeOK

\* timerdel of one timer.
LEMMA DeleteStep == Inv /\ Delete => Inv'
<1> SUFFICES ASSUME Inv, Delete PROVE Inv'
  OBVIOUS
<1>1. KernelType' /\ clock' = clock
  BY DEF Delete, time, Inv, TypeOK, KernelType
<1>2. /\ live' \in [Node -> BOOLEAN]
      /\ \A n \in Node : live'[n] => live[n]
  BY FalseType DEF Delete, Inv, TypeOK, NodeType
<1>3. NodeType' /\ ListSound'
  BY <1>2 DEF Delete, history, Inv, TypeOK, NodeType, ListSound, Listed
<1>4. Timing'
  BY <1>1, <1>2 DEF Delete, history, Inv, Timing, Listed
<1>5. FlagType'
  BY DEF Delete, state, history, Inv, TypeOK, FlagType
<1>6. CodeType' /\ Running' /\ Suspended' /\ Chosen'
  <2>1. pc \in Resting /\ stack # <<>> /\ ~deferred
    BY DEF Delete, Inv, Running, Resting, Label, Handling, Setting, Adding, Idle
  <2>2. handle' \in [Client -> Node \cup {None}]
    BY DEF Delete, Inv, TypeOK, CodeType
  <2> QED
    BY <1>1, <2>1, <2>2, PopStep DEF Delete, state
<1> QED
  BY <1>1, <1>3, <1>4, <1>5, <1>6 DEF Inv, TypeOK

\* timerdel of all: no timer is live.
LEMMA DeleteAllStep == Inv /\ DeleteAll => Inv'
<1> SUFFICES ASSUME Inv, DeleteAll PROVE Inv'
  OBVIOUS
<1>1. KernelType' /\ clock' = clock
  BY DEF DeleteAll, time, Inv, TypeOK, KernelType
<1>2. live' \in [Node -> BOOLEAN] /\ \A n \in Node : ~live'[n]
  BY FalseType DEF DeleteAll
<1>3. NodeType' /\ ListSound' /\ Timing'
  BY <1>2 DEF DeleteAll, history, Inv, TypeOK, NodeType, ListSound, Listed, Timing
<1>4. FlagType'
  BY DEF DeleteAll, state, history, Inv, TypeOK, FlagType
<1>5. pc \in Resting /\ Frame \in FrameType /\ (pc # Idle => stack # <<>>)
  BY DEF DeleteAll, Calling, Inv, TypeOK, CodeType, Running, Resting, Frame, FrameType,
     Label, Handling, Setting, Adding, Idle
<1>6. stack' \in Seq(FrameType) /\ stack' # <<>> /\ Suspended'
  BY <1>5, PushFrame DEF DeleteAll, Push, Frame, Calling, InCall, Idle
<1>7. CodeType' /\ Running' /\ Chosen'
  BY <1>1, <1>6 DEF DeleteAll, Calling, state, local, Inv, TypeOK, CodeType,
     FrameType, Running, Label, Handling, Setting, Adding, InCall, Idle, Chosen
<1> QED
  BY <1>1, <1>3, <1>4, <1>6, <1>7 DEF Inv, TypeOK

\* The kernel's timer is turned off.
LEMMA AllOffStep == Inv /\ AllOff => Inv'
<1> SUFFICES ASSUME Inv, AllOff PROVE Inv'
  OBVIOUS
<1>1. KernelType' /\ clock' = clock
  BY TimerAssumption DEF AllOff, Inv, TypeOK, KernelType
<1>2. NodeType' /\ ListSound' /\ Timing'
  BY <1>1 DEF AllOff, history, fields, Inv, TypeOK, NodeType, ListSound, Listed, Timing
<1>3. FlagType'
  BY DEF AllOff, state, history, Inv, TypeOK, FlagType
<1>4. CodeType' /\ Running' /\ Suspended' /\ Chosen'
  <2>1. pc \in Resting /\ stack # <<>> /\ ~deferred
    BY DEF AllOff, Inv, Running, Resting, Label, Handling, Setting, Adding, Idle
  <2>2. handle' \in [Client -> Node \cup {None}]
    BY DEF AllOff, Inv, TypeOK, CodeType
  <2> QED
    BY <1>1, <2>1, <2>2, PopStep DEF AllOff, state
<1> QED
  BY <1>1, <1>2, <1>3, <1>4 DEF Inv, TypeOK

\* Nothing is set at the start.
LEMMA InitInv == Init => Inv
<1> SUFFICES ASSUME Init PROVE Inv
  OBVIOUS
<1>1. list \in Seq(Node) /\ IsInjective(list)
  BY DEF Init, IsInjective
<1>2. stack \in Seq(FrameType) /\ DOMAIN stack = {}
  BY DEF Init
<1>3. MaxTime \in Nat
  BY TimerAssumption
<1>4. KernelType /\ FlagType
  <2>1. 0 \in 0..MaxTime /\ 0 \in 0..(2 * MaxTime)
    BY <1>3
  <2>2. KernelType
    BY <2>1, FalseType DEF Init, KernelType
  <2>3. FlagType
    BY FalseType DEF Init, FlagType
  <2> QED
    BY <2>2, <2>3
<1>5. NodeType /\ ListSound /\ Timing
  BY <1>1, FalseType DEF Init, NodeType, ListSound, Timing
<1>6. CodeType /\ Running /\ Suspended /\ Chosen
  BY <1>2 DEF Init, CodeType, FrameType, Running, Suspended, Chosen, Label, Idle,
     Handling, Setting, Adding, InCall
<1> QED
  BY <1>4, <1>5, <1>6 DEF Inv, TypeOK

\* A step that changes nothing.
LEMMA StutterStep == Inv /\ UNCHANGED vars => Inv'
BY DEF vars, time, fields, state, local, history, Inv, TypeOK, KernelType, NodeType,
   FlagType, CodeType, ListSound, Listed, Running, Suspended, Timing, Chosen

\* The induction step.
LEMMA InvStep == Inv /\ [Next]_vars => Inv'
<1> SUFFICES ASSUME Inv, [Next]_vars PROVE Inv'
  OBVIOUS
<1>1. CASE Tick \/ Expire \/ Stray
  BY <1>1, KernelStep
<1>2. CASE Signal \/ Swallow \/ Free \/ Scan \/ Arm \/ Store \/ Compare \/ Rearm
  BY <1>2, SignalStep, SwallowStep, FreeStep, ScanStep, ArmStep, StoreStep, CompareStep,
     RearmStep
<1>3. CASE Run \/ Act \/ Return \/ Jump \/ Leave
  BY <1>3, RunStep, ActStep, ReturnStep, JumpStep, LeaveStep
<1>4. CASE \E c \in Client : Add(c) \/ Look(c)
  BY <1>4, AddStep, LookStep
<1>5. CASE SetMin \/ Unlock \/ Test \/ CallHandler \/ Back
  BY <1>5, SetMinStep, UnlockStep, TestStep, CallHandlerStep, BackStep
<1>6. CASE Delete \/ DeleteAll \/ AllOff
  BY <1>6, DeleteStep, DeleteAllStep, AllOffStep
<1>7. CASE UNCHANGED vars
  BY <1>7, StutterStep
<1> QED
  BY <1>1, <1>2, <1>3, <1>4, <1>5, <1>6, <1>7 DEF Next

\* The inductive invariant of the list, the guard and the frames.
THEOREM InvCorrect == Spec => []Inv
<1>1. Init => Inv
  BY InitInv
<1>2. Inv /\ [Next]_vars => Inv'
  BY InvStep
<1> QED
  BY <1>1, <1>2, PTL DEF Spec

\* Every variable of the model has its type, and the kernel's timer is set no
\* further ahead than a caller asked for.
THEOREM TypeCorrect == Spec => []TypeOK
<1>1. Inv => TypeOK
  BY DEF Inv
<1> QED
  BY <1>1, InvCorrect, PTL

\* The list of sh_timeradd and sigalrm holds no timer twice, and tpmin never
\* points to one that was freed.
THEOREM ListCorrect == Spec => []ListSound
<1>1. Inv => ListSound
  BY DEF Inv
<1> QED
  BY <1>1, InvCorrect, PTL

-----------------------------------------------------------------------------
\* No action of a timer runs while timerdel(NULL) is suspended, and so no frame
\* is above it but the handler's.
LEMMA NoOff == Inv /\ AlarmInv /\ pc \notin Handling =>
                 \A i \in DOMAIN stack : stack[i].pc # "off"
BY DEF AlarmInv, OffOnTop

\* What a step that pushes a frame does to the covering and to the "off"s.
LEMMA PushedFrames ==
    ASSUME Inv, AlarmInv, NEW f \in FrameType, f.pc \in Resting,
           f.pc # Idle => stack # <<>>,
           f.pc \in InCall => f.tp \in Node /\ f.who \in Client,
           stack' = <<f>> \o stack, pc \notin Handling
    PROVE  /\ \A i \in DOMAIN stack' : stack'[i].pc = "off" => i = 1 /\ f.pc = "off"
           /\ (f.pc \in Waiting \/ \E i \in DOMAIN stack : stack[i].pc \in Waiting) =>
                \E i \in DOMAIN stack' : stack'[i].pc \in Waiting
<1>1. /\ Len(stack) \in Nat /\ DOMAIN stack = 1..Len(stack)
  BY LenProperties DEF Inv, TypeOK, CodeType
<1>2. /\ stack' \in Seq(FrameType) /\ stack'[1] = f /\ Len(stack') = Len(stack) + 1
      /\ \A i \in 1..Len(stack) : stack'[i + 1] = stack[i]
  BY PushFrame
<1>3. DOMAIN stack' = 1..(Len(stack) + 1)
  BY <1>2, LenProperties
<1>4. \A i \in DOMAIN stack : i + 1 \in DOMAIN stack' /\ stack'[i + 1] = stack[i]
  BY <1>1, <1>2, <1>3
<1>5. \A i \in DOMAIN stack' : i = 1 \/ (i - 1 \in DOMAIN stack /\ stack'[i] = stack[i - 1])
  <2> SUFFICES ASSUME NEW i \in DOMAIN stack', i # 1
               PROVE  i - 1 \in DOMAIN stack /\ stack'[i] = stack[i - 1]
    OBVIOUS
  <2>1. i - 1 \in 1..Len(stack) /\ (i - 1) + 1 = i
    BY <1>1, <1>3
  <2> QED
    BY <1>1, <1>2, <2>1
<1>6. 1 \in DOMAIN stack'
  BY <1>1, <1>3
<1>7. \A i \in DOMAIN stack : stack[i].pc # "off"
  BY NoOff
<1>8. \A i \in DOMAIN stack' : stack'[i].pc = "off" => i = 1 /\ f.pc = "off"
  BY <1>2, <1>5, <1>7
<1>9. (f.pc \in Waiting \/ \E i \in DOMAIN stack : stack[i].pc \in Waiting) =>
         \E i \in DOMAIN stack' : stack'[i].pc \in Waiting
  BY <1>2, <1>4, <1>6
<1> QED
  BY <1>8, <1>9

\* What a step that pops one does.
LEMMA PoppedFrames ==
    ASSUME Inv, AlarmInv, stack # <<>>, Pop
    PROVE  /\ \A i \in DOMAIN stack' : stack'[i].pc # "off"
           /\ (\E i \in DOMAIN stack : stack[i].pc \in Waiting) =>
                pc' \in Waiting \/ \E i \in DOMAIN stack' : stack'[i].pc \in Waiting
           /\ pc' = "off" => \A n \in Node : ~live[n]
           /\ pc' \in Resting
<1>1. /\ \A i \in DOMAIN stack' : i + 1 \in DOMAIN stack /\ stack'[i] = stack[i + 1]
      /\ \A i \in DOMAIN stack : i # 1 => i - 1 \in DOMAIN stack'
      /\ 1 \in DOMAIN stack /\ pc' = stack[1].pc /\ pc' \in Resting
      /\ stack' \in Seq(FrameType) /\ stack \in Seq(FrameType)
  BY PopFrame DEF Inv, TypeOK, CodeType, FrameType
<1>2. DOMAIN stack' \subseteq Nat /\ DOMAIN stack \subseteq Nat
  BY <1>1, LenProperties
<1>3. \A i \in DOMAIN stack' : stack'[i].pc # "off"
  <2> SUFFICES ASSUME NEW i \in DOMAIN stack', stack'[i].pc = "off" PROVE FALSE
    OBVIOUS
  <2>1. i + 1 \in DOMAIN stack /\ stack[i + 1].pc = "off"
    BY <1>1
  <2>2. i + 1 = 1
    BY <2>1 DEF AlarmInv, OffOnTop
  <2>3. i = 0
    BY <1>2, <2>2
  <2>4. 0 \notin DOMAIN stack'
    BY <1>1, LenProperties
  <2> QED
    BY <2>3, <2>4
<1>4. ASSUME NEW i \in DOMAIN stack, stack[i].pc \in Waiting
      PROVE  pc' \in Waiting \/ \E j \in DOMAIN stack' : stack'[j].pc \in Waiting
  <2>1. CASE i = 1
    BY <1>1, <1>4, <2>1
  <2>2. CASE i # 1
    <3>1. i - 1 \in DOMAIN stack' /\ (i - 1) + 1 = i
      BY <1>1, <1>2, <2>2
    <3>2. stack'[i - 1] = stack[i]
      BY <1>1, <3>1
    <3> QED
      BY <1>4, <3>1, <3>2
  <2> QED
    BY <2>1, <2>2
<1>5. pc' = "off" => \A n \in Node : ~live[n]
  BY <1>1 DEF AlarmInv, AllDead
<1> QED
  BY <1>1, <1>3, <1>4, <1>5

\* A step that only raises what AlarmInv asks for: the code stays where it is.
LEMMA AlarmStays ==
    ASSUME AlarmInv, UNCHANGED <<live, tpmin, left, hole, deferred, pc, tp, stack>>,
           On => On'
    PROVE  AlarmInv'
BY DEF AlarmInv, AllDead, OffOnTop, LeftOn, MinSet, SetOn, Cover, Covered, Ready

\* The clock, the kernel's timer and a stray signal.
LEMMA AlarmKernel == Inv /\ AlarmInv /\ (Tick \/ Expire \/ Stray) => AlarmInv'
<1> SUFFICES ASSUME Inv, AlarmInv, Tick \/ Expire \/ Stray PROVE AlarmInv'
  OBVIOUS
<1>1. On => On'
  BY DEF On, Tick, Expire, Stray
<1>2. UNCHANGED <<live, tpmin, left, hole, deferred, pc, tp, stack>>
  BY DEF Tick, Expire, Stray, fields, state, local, history
<1> QED
  BY <1>1, <1>2, AlarmStays

\* The handler starts, and will look at all timers.
LEMMA AlarmSignal == Inv /\ AlarmInv /\ Signal => AlarmInv'
<1> SUFFICES ASSUME Inv, AlarmInv, Signal PROVE AlarmInv'
  OBVIOUS
<1>1. /\ Frame \in FrameType /\ Frame.pc = pc /\ Frame.tp = tp /\ Frame.who = who
      /\ pc \in Resting /\ (pc # Idle => stack # <<>>) /\ pc \notin Handling
  BY DEF Signal, Inv, TypeOK, CodeType, Running, Resting, Frame, FrameType
<1>2. \A i \in DOMAIN stack' : stack'[i].pc = "off" => i = 1 /\ pc = "off"
  <2>1. stack' = <<Frame>> \o stack
    BY DEF Signal, AtScan, Push
  <2>2. pc \in InCall => tp \in Node /\ who \in Client
    BY DEF Inv, Running
  <2> HIDE DEF Frame
  <2> QED
    BY <1>1, <2>1, <2>2, PushedFrames
<1>3. live' = live /\ left' = 0 /\ pc' = "scan"
  BY DEF Signal, AtScan, Enter, fields
<1>4. AllDead' /\ OffOnTop'
  BY <1>2, <1>3 DEF AlarmInv, AllDead, OffOnTop, Handling, Setting
<1> QED
  BY <1>3, <1>4 DEF AlarmInv, LeftOn, MinSet, SetOn, Cover, Covered

\* A signal that is not served is put off, or the handler is still to look again,
\* or it comes too late for that (hole).
LEMMA AlarmSwallow == Inv /\ AlarmInv /\ Swallow => AlarmInv'
<1> SUFFICES ASSUME Inv, AlarmInv, Swallow PROVE AlarmInv'
  OBVIOUS
<1>1. /\ UNCHANGED <<itimer, live, tpmin, pc, tp, stack>> /\ left' = 0
      /\ deferred' = (deferred \/ inAdd) /\ hole' = (hole \/ Unseen)
      /\ (inAdd \/ inAlrm \/ deferred)
  BY DEF Swallow, Deferral, fields, local
<1>2. AllDead' /\ OffOnTop' /\ LeftOn' /\ MinSet' /\ SetOn'
  BY <1>1 DEF AlarmInv, AllDead, OffOnTop, LeftOn, MinSet, SetOn, On, Unseen
<1>3. Cover'
  <2>1. CASE inAdd \/ deferred
    BY <1>1, <2>1 DEF Cover, Covered
  <2>2. CASE inAlrm
    BY <1>1, <2>2 DEF Inv, Running, Handling, Setting, Cover, Covered, Unseen
  <2> QED
    BY <1>1, <2>1, <2>2
<1> QED
  BY <1>2, <1>3 DEF AlarmInv

\* Freeing turns nothing off.
LEMMA AlarmFree == Inv /\ AlarmInv /\ Free => AlarmInv'
BY DEF Free, time, state, local, AlarmInv, AllDead, OffOnTop, LeftOn, MinSet, SetOn, Cover,
   Covered, Ready, On

\* The scan finds a next timer if there is any.
LEMMA AlarmScan == Inv /\ AlarmInv /\ Scan => AlarmInv'
<1> SUFFICES ASSUME Inv, AlarmInv, Scan PROVE AlarmInv'
  OBVIOUS
<1>1. /\ pc = "scan" /\ pc' = "arm"
      /\ UNCHANGED <<itimer, pending, live, left, hole, deferred, stack>>
  BY DEF Scan, time, state, history
<1>2. AllDead' /\ OffOnTop'
  BY <1>1 DEF AlarmInv, AllDead, OffOnTop, Handling, Setting
<1>3. LeftOn'
  <2>1. tpmin' # None => tpmin' \in Node /\ live[tpmin']
    BY ScanChoice
  <2> QED
    BY <1>1, <2>1 DEF AlarmInv, LeftOn, Ready, On
<1>4. MinSet' /\ SetOn'
  BY <1>1, ScanChoice DEF MinSet, SetOn
<1>5. Cover'
  BY <1>1 DEF Cover, Covered
<1> QED
  BY <1>2, <1>3, <1>4, <1>5 DEF AlarmInv

\* The last look of the handler finds the kernel's timer on, or sets it, if there is
\* a next one.
LEMMA AlarmArm == Inv /\ AlarmInv /\ Arm => AlarmInv'
<1> SUFFICES ASSUME Inv, AlarmInv, Arm PROVE AlarmInv'
  OBVIOUS
<1>1. /\ pc = "arm" /\ pc' = (IF ToBeArmed THEN "armed" ELSE Onward)
      /\ UNCHANGED <<pending, live, tpmin, tp, left, deferred, stack>>
      /\ hole' = (hole /\ ~ToBeArmed /\ (tp # None \/ tpmin # None))
      /\ ~ToBeArmed => itimer' = itimer
  BY DEF Arm, fields, state
<1>2. AllDead' /\ OffOnTop' /\ MinSet'
  BY <1>1 DEF AlarmInv, AllDead, OffOnTop, MinSet, Handling, Setting, Onward
<1>3. ASSUME ToBeArmed PROVE AlarmInv'
  <2>1. itimer' # 0
    <3>1. /\ clock \in Nat /\ now \in Nat /\ MaxTime \in Nat
          /\ tpmin \in Node /\ wakeup[tpmin] \in Nat /\ now < wakeup[tpmin]
      BY <1>1, <1>3, TimerAssumption
         DEF ToBeArmed, Inv, TypeOK, KernelType, CodeType, NodeType, Chosen
    <3>2. itimer' = clock + (wakeup[tpmin] - now)
      BY <1>3 DEF Arm
    <3> QED
      BY <3>1, <3>2
  <2> QED
    BY <1>1, <1>2, <1>3, <2>1 DEF AlarmInv, LeftOn, SetOn, Cover, Covered, On
<1>4. ASSUME ~ToBeArmed PROVE AlarmInv'
  <2>1. On' = On /\ \A n \in Node : Ready(n)' => live[n]
    BY <1>1, <1>4 DEF On, Ready
  <2>2. tp = None /\ tpmin = None => \A n \in Node : ~live[n]
    BY <1>1 DEF AlarmInv, MinSet
  <2>3. LeftOn'
    <3>1. CASE tp = None /\ tpmin = None
      BY <1>1, <2>1, <2>2, <3>1 DEF LeftOn
    <3>2. CASE tp # None \/ tpmin # None
      <4>1. (hole' <=> hole) /\ left' = left /\ tpmin' = tpmin
        BY <1>1, <1>4, <3>2
      <4>2. \A n \in Node : Ready(n)' => Ready(n)
        BY <1>1 DEF Ready
      <4> QED
        BY <2>1, <4>1, <4>2 DEF AlarmInv, LeftOn
    <3> QED
      BY <3>1, <3>2
  <2>4. Cover'
    <3>1. CASE tp # None
      BY <1>1, <1>4, <3>1 DEF Cover, Covered, Onward
    <3>2. CASE tp = None
      <4> SUFFICES ASSUME ~hole', NEW n \in Node, live[n] PROVE On'
        BY <2>1 DEF Cover, Covered
      <4>1. tpmin # None
        BY <2>2, <3>2
      <4>2. left # 0 /\ ~hole
        BY <1>1, <1>4, <4>1 DEF ToBeArmed
      <4> QED
        BY <2>1, <4>1, <4>2 DEF AlarmInv, LeftOn
    <3> QED
      BY <3>1, <3>2
  <2>5. SetOn'
    BY <1>1, <1>4 DEF SetOn, Onward
  <2> QED
    BY <1>2, <2>3, <2>4, <2>5 DEF AlarmInv
<1> QED
  BY <1>3, <1>4

\* left tells that it is on.
LEMMA AlarmStore == Inv /\ AlarmInv /\ Store => AlarmInv'
<1> SUFFICES ASSUME Inv, AlarmInv, Store PROVE AlarmInv'
  OBVIOUS
<1>1. /\ pc = "armed" /\ pc' = "again"
      /\ UNCHANGED <<itimer, pending, live, tpmin, tp, deferred, stack, hole>>
  BY DEF Store, time, fields, history
<1> QED
  BY <1>1 DEF AlarmInv, AllDead, OffOnTop, LeftOn, MinSet, SetOn, Cover, Covered, On,
     Handling, Setting

\* The timer is left on, and if it is to be set back then not with 0.
LEMMA AlarmCompare == Inv /\ AlarmInv /\ Compare => AlarmInv'
<1> SUFFICES ASSUME Inv, AlarmInv, Compare PROVE AlarmInv'
  OBVIOUS
<1>1. /\ pc = "again" /\ pc' \in {"less", "run", "leave"}
      /\ UNCHANGED <<itimer, pending, live, tpmin, tp, deferred, stack, hole>>
      /\ pc' = "less" => left' = left /\ left > 0
  BY DEF Compare, Goto, Onward, time, fields, local, history
<1>2. left \in Nat
  BY DEF Inv, TypeOK, FlagType
<1> QED
  BY <1>1, <1>2 DEF AlarmInv, AllDead, OffOnTop, LeftOn, MinSet, SetOn, Cover, Covered, On,
     Handling, Setting

LEMMA AlarmRearm == Inv /\ AlarmInv /\ Rearm => AlarmInv'
<1> SUFFICES ASSUME Inv, AlarmInv, Rearm PROVE AlarmInv'
  OBVIOUS
<1>1. /\ pc = "less" /\ pc' \in {"run", "leave"}
      /\ UNCHANGED <<pending, live, tpmin, tp, left, deferred, stack, hole>>
  BY DEF Rearm, Goto, Onward, fields, local, state, history
<1>2. On' \/ hole
  <2>1. clock \in Nat /\ left \in Nat /\ (left # 0 \/ hole)
    BY <1>1 DEF Inv, TypeOK, KernelType, FlagType, AlarmInv, SetOn
  <2> QED
    BY <2>1 DEF Rearm, On
<1> QED
  BY <1>1, <1>2 DEF AlarmInv, AllDead, OffOnTop, LeftOn, MinSet, SetOn, Cover, Covered,
     Handling, Setting

\* The handler will look again after the action.
LEMMA AlarmRun == Inv /\ AlarmInv /\ Run => AlarmInv'
<1> SUFFICES ASSUME Inv, AlarmInv, Run PROVE AlarmInv'
  OBVIOUS
<1>1. /\ pc = "run" /\ pc' \in {"once", "each"} /\ tp \in Node /\ live[tp]
      /\ UNCHANGED <<itimer, pending, tpmin, tp, left, deferred, stack, hole>>
  BY DEF Run, Goto, local, time, Inv, Chosen, TypeOK, CodeType
<1>2. \A n \in Node : live'[n] => live[n]
  BY <1>1 DEF Run, Over, Inv, TypeOK, NodeType
<1>3. \A i \in DOMAIN stack : stack[i].pc # "off"
  BY <1>1 DEF AlarmInv, AllDead
<1>4. AllDead' /\ OffOnTop' /\ MinSet' /\ SetOn' /\ Cover'
  BY <1>1, <1>3 DEF AllDead, OffOnTop, MinSet, SetOn, Cover, Covered, Waiting
<1>5. LeftOn'
  BY <1>1, <1>2 DEF AlarmInv, LeftOn, Ready, On
<1> QED
  BY <1>4, <1>5 DEF AlarmInv

LEMMA AlarmAct == Inv /\ AlarmInv /\ Act => AlarmInv'
<1> SUFFICES ASSUME Inv, AlarmInv, Act PROVE AlarmInv'
  OBVIOUS
<1>1. /\ pc \in {"once", "each"} /\ pc' = "acting"
      /\ UNCHANGED <<itimer, pending, live, tpmin, left, deferred, stack, hole>>
  BY DEF Act, time, fields, state, history
<1> QED
  BY <1>1 DEF AlarmInv, AllDead, OffOnTop, LeftOn, MinSet, SetOn, Cover, Covered, Ready, On,
     Waiting, Handling, Setting

\* It does.
LEMMA AlarmReturn == Inv /\ AlarmInv /\ Return => AlarmInv'
<1> SUFFICES ASSUME Inv, AlarmInv, Return PROVE AlarmInv'
  OBVIOUS
<1>1. /\ pc = "acting" /\ pc' = "scan"
      /\ UNCHANGED <<itimer, pending, live, tpmin, tp, left, deferred, stack, hole>>
  BY DEF Return, Goto, time, fields, local, history
<1> QED
  BY <1>1 DEF AlarmInv, AllDead, OffOnTop, LeftOn, MinSet, SetOn, Cover, Covered, Ready, On,
     Handling, Setting

\* The longjmp is the hole.
LEMMA AlarmJump == Inv /\ AlarmInv /\ Jump => AlarmInv'
<1> SUFFICES ASSUME Inv, AlarmInv, Jump PROVE AlarmInv'
  OBVIOUS
<1>1. /\ pc = "acting" /\ pc' = Idle /\ stack' = <<>> /\ DOMAIN stack' = {} /\ hole'
      /\ UNCHANGED <<itimer, pending, live, tpmin, tp, left, deferred>>
  BY DEF Jump, time, fields, state, local
<1> QED
  BY <1>1 DEF AlarmInv, AllDead, OffOnTop, LeftOn, MinSet, SetOn, Cover, Ready, On, Idle

-----------------------------------------------------------------------------
\* A frame ends in which nothing was left to do about the alarm.
LEMMA AlarmPop ==
    ASSUME Inv, AlarmInv, stack # <<>>, Pop, pc \in {"leave", "made", "back", "del", "off"},
           UNCHANGED <<itimer, pending, tpmin, left, deferred, hole>>,
           \A n \in Node : live'[n] => live[n]
    PROVE  AlarmInv'
<1>1. /\ \A i \in DOMAIN stack' : stack'[i].pc # "off"
      /\ (\E i \in DOMAIN stack : stack[i].pc \in Waiting) =>
           pc' \in Waiting \/ \E i \in DOMAIN stack' : stack'[i].pc \in Waiting
      /\ pc' = "off" => \A n \in Node : ~live[n]
      /\ pc' \in Resting
  BY PoppedFrames
<1>2. pc' \notin Handling /\ pc' \notin Adding
  BY <1>1 DEF Resting
<1>3. AllDead' /\ OffOnTop' /\ MinSet' /\ SetOn'
  BY <1>1, <1>2 DEF AllDead, OffOnTop, MinSet, SetOn, Handling, Setting
<1>4. LeftOn'
  BY DEF AlarmInv, LeftOn, Ready, On
<1>5. Cover'
  <2>1. \A n \in Node : Ready(n)' => Ready(n)
    BY DEF Ready
  <2> QED
    BY <1>1, <2>1 DEF AlarmInv, Cover, Covered, On, Waiting, Setting
<1> QED
  BY <1>3, <1>4, <1>5 DEF AlarmInv

\* The handler, sh_timeradd and timerdel of one timer end.
LEMMA AlarmEnds == Inv /\ AlarmInv /\ (Leave \/ Back \/ Delete) => AlarmInv'
<1> SUFFICES ASSUME Inv, AlarmInv, Leave \/ Back \/ Delete PROVE AlarmInv'
  OBVIOUS
<1>1. /\ stack # <<>> /\ Pop /\ pc \in {"leave", "made", "back", "del"}
      /\ UNCHANGED <<itimer, pending, tpmin, left, deferred, hole>>
  BY DEF Leave, Back, Delete, Inv, Running, Idle, time, state, history
<1>2. \A n \in Node : live'[n] => live[n]
  BY DEF Leave, Back, Delete, fields, Inv, TypeOK, NodeType
<1> QED
  BY <1>1, <1>2, AlarmPop

\* The kernel's timer is turned off when there is nothing to wait for.
LEMMA AlarmAllOff == Inv /\ AlarmInv /\ AllOff => AlarmInv'
<1> SUFFICES ASSUME Inv, AlarmInv, AllOff PROVE AlarmInv'
  OBVIOUS
<1>1. stack # <<>> /\ Pop /\ pc = "off" /\ live' = live /\ tpmin' = None
  BY DEF AllOff, Inv, Running, Idle, fields
<1>2. \A n \in Node : ~live'[n]
  BY <1>1 DEF AlarmInv, AllDead
<1>3. /\ \A i \in DOMAIN stack' : stack'[i].pc # "off"
      /\ pc' \notin Handling
  BY <1>1, PoppedFrames DEF Resting
<1> QED
  BY <1>1, <1>2, <1>3 DEF AlarmInv, AllDead, OffOnTop, LeftOn, MinSet, SetOn, Cover, Ready,
     Handling, Setting

\* The code that calls sh_timeradd or timerdel is suspended.
LEMMA AlarmPush ==
    ASSUME Inv, AlarmInv, Calling, Push, pc' \in {"min", "del", "off"},
           UNCHANGED <<itimer, pending, tpmin, left, deferred, hole>>,
           \A n \in Node : Ready(n)' => Ready(n),
           pc' = "off" => \A n \in Node : ~live'[n]
    PROVE  AlarmInv'
<1>1. /\ Frame \in FrameType /\ Frame.pc = pc /\ Frame.tp = tp /\ Frame.who = who
      /\ pc \in Resting /\ (pc # Idle => stack # <<>>) /\ pc \notin Handling
      /\ pc \in {Idle, "acting"} /\ pc \notin InCall /\ ~deferred
  BY DEF Calling, Inv, TypeOK, CodeType, Running, Resting, Frame, FrameType, Label,
     Handling, Setting, Adding, InCall, Idle
<1>2. /\ \A i \in DOMAIN stack' : stack'[i].pc # "off"
      /\ (pc \in Waiting \/ \E i \in DOMAIN stack : stack[i].pc \in Waiting) =>
                \E i \in DOMAIN stack' : stack'[i].pc \in Waiting
  <2>1. stack' = <<Frame>> \o stack
    BY DEF Push
  <2>2. pc # "off"
    BY <1>1 DEF Idle
  <2> HIDE DEF Frame
  <2> QED
    BY <1>1, <2>1, <2>2, PushedFrames
<1>3. AllDead' /\ OffOnTop' /\ MinSet' /\ SetOn'
  BY <1>2 DEF AllDead, OffOnTop, MinSet, SetOn
<1>4. LeftOn'
  BY DEF AlarmInv, LeftOn, On
<1>5. Cover'
  BY <1>1, <1>2 DEF AlarmInv, Cover, Covered, On, Waiting, Setting, Idle
<1> QED
  BY <1>3, <1>4, <1>5 DEF AlarmInv

\* The new timer is not yet counted.
LEMMA AlarmAdd == ASSUME NEW c \in Client PROVE Inv /\ AlarmInv /\ Add(c) => AlarmInv'
<1> SUFFICES ASSUME Inv, AlarmInv, Add(c) PROVE AlarmInv'
  OBVIOUS
<1>1. /\ Calling /\ Push /\ pc' = "min"
      /\ UNCHANGED <<itimer, pending, tpmin, left, deferred, hole>>
  BY DEF Add, time
<1>2. \A n \in Node : Ready(n)' => Ready(n)
  BY <1>1 DEF Add, Calling, Ready, Idle, Inv, TypeOK, NodeType
<1> QED
  BY <1>1, <1>2, AlarmPush

\* Nothing changes for the timers.
LEMMA AlarmLook == ASSUME NEW c \in Client PROVE Inv /\ AlarmInv /\ Look(c) => AlarmInv'
<1> SUFFICES ASSUME Inv, AlarmInv, Look(c) PROVE AlarmInv'
  OBVIOUS
<1>1. /\ Calling /\ Push /\ pc' = "del" /\ live' = live
      /\ UNCHANGED <<itimer, pending, tpmin, left, deferred, hole>>
  BY DEF Look, time, fields, state, history
<1>2. \A n \in Node : Ready(n)' => Ready(n)
  BY <1>1 DEF Calling, Ready, Idle
<1> QED
  BY <1>1, <1>2, AlarmPush

\* There are none left.
LEMMA AlarmDeleteAll == Inv /\ AlarmInv /\ DeleteAll => AlarmInv'
<1> SUFFICES ASSUME Inv, AlarmInv, DeleteAll PROVE AlarmInv'
  OBVIOUS
<1>1. /\ Calling /\ Push /\ pc' = "off" /\ \A n \in Node : ~live'[n]
      /\ UNCHANGED <<itimer, pending, tpmin, left, deferred, hole>>
  BY DEF DeleteAll, time, state, history
<1>2. \A n \in Node : Ready(n)' => Ready(n)
  BY <1>1 DEF Ready
<1> QED
  BY <1>1, <1>2, AlarmPush

\* The new timer counts now: the clock is set for it, or for one before it that
\* is live, or the handler will be called.
LEMMA AlarmSetMin == Inv /\ AlarmInv /\ SetMin => AlarmInv'
<1> SUFFICES ASSUME Inv, AlarmInv, SetMin PROVE AlarmInv'
  OBVIOUS
<1>1. /\ pc = "min" /\ pc' = "unlock" /\ tp \in Node /\ tp # tpmin
      /\ UNCHANGED <<pending, live, left, hole, stack>>
  BY DEF SetMin, Goto, fields, history, Inv, Running, Chosen, InCall
<1>2. AllDead' /\ OffOnTop' /\ MinSet' /\ SetOn'
  BY <1>1 DEF AlarmInv, AllDead, OffOnTop, MinSet, SetOn, Handling, Setting
<1>3. CASE IsNext
  <2>1. itimer' = clock + (wakeup[tp] - now)
    BY <1>3 DEF SetMin
  <2>2. clock \in Nat /\ now \in Nat /\ wakeup[tp] \in Nat /\ now < wakeup[tp]
    BY <1>1, TimerAssumption DEF Inv, TypeOK, KernelType, CodeType, NodeType, Chosen
  <2>3. On'
    BY <2>1, <2>2 DEF On
  <2> QED
    BY <1>2, <2>3 DEF AlarmInv, LeftOn, Cover, Covered
<1>4. CASE ~IsNext
  <2>1. /\ tpmin # None /\ tpmin' = tpmin /\ itimer' = itimer
        /\ deferred' = (deferred \/ ~live[tpmin])
    BY <1>4 DEF SetMin, IsNext
  <2>2. LeftOn'
    BY <1>1, <2>1 DEF AlarmInv, LeftOn, On
  <2>3. Cover'
    <3>1. CASE ~live[tpmin]
      BY <2>1, <3>1 DEF Cover, Covered
    <3>2. CASE live[tpmin]
      <4>1. tpmin \in Node /\ Ready(tpmin)
        BY <1>1, <2>1, <3>2 DEF Ready, Inv, TypeOK, NodeType
      <4> QED
        BY <1>1, <2>1, <4>1 DEF AlarmInv, Cover, Covered, On, Waiting, Setting
    <3> QED
      BY <3>1, <3>2
  <2> QED
    BY <1>2, <2>2, <2>3 DEF AlarmInv
<1> QED
  BY <1>3, <1>4

\* The end of sh_timeradd keeps the deferral until it calls the handler.
LEMMA AlarmUnlockTest == Inv /\ AlarmInv /\ (Unlock \/ Test) => AlarmInv'
<1> SUFFICES ASSUME Inv, AlarmInv, Unlock \/ Test PROVE AlarmInv'
  OBVIOUS
<1>1. /\ pc \in {"unlock", "test"} /\ pc' \in {"test", "call", "back"}
      /\ UNCHANGED <<itimer, pending, live, tpmin, tp, left, hole, stack>>
      /\ deferred => deferred' \/ pc' = "call"
  BY DEF Unlock, Test, Goto, time, fields, local, history
<1>2. AllDead' /\ OffOnTop' /\ MinSet' /\ SetOn'
  BY <1>1 DEF AlarmInv, AllDead, OffOnTop, MinSet, SetOn, Handling, Setting
<1>3. LeftOn'
  BY <1>1 DEF AlarmInv, LeftOn, Ready, On
<1>4. Cover'
  BY <1>1 DEF AlarmInv, Cover, Covered, Ready, On, Waiting, Setting
<1> QED
  BY <1>2, <1>3, <1>4 DEF AlarmInv

\* The handler is called and will look.
LEMMA AlarmCallHandler == Inv /\ AlarmInv /\ CallHandler => AlarmInv'
<1> SUFFICES ASSUME Inv, AlarmInv, CallHandler PROVE AlarmInv'
  OBVIOUS
<1> DEFINE f == [Frame EXCEPT !.pc = "made"]
<1>1. /\ f \in FrameType /\ f.pc = "made" /\ f.pc \in Resting /\ stack # <<>>
      /\ f.tp \in Node /\ f.who \in Client /\ pc \notin Handling
  BY DEF CallHandler, Inv, TypeOK, CodeType, Running, Frame, FrameType, Resting,
     Label, Handling, Setting, Adding, InCall, Idle
<1>2. \A i \in DOMAIN stack' : stack'[i].pc # "off"
  <2>1. stack' = <<f>> \o stack
    BY DEF CallHandler
  <2> HIDE DEF f
  <2> QED
    BY <1>1, <2>1, PushedFrames
<1>3. pc' = "scan" /\ left' = 0
  BY DEF CallHandler, Enter
<1> QED
  BY <1>2, <1>3 DEF AlarmInv, AllDead, OffOnTop, LeftOn, MinSet, SetOn, Cover, Covered

\* The induction step.
LEMMA AlarmStep == Inv /\ AlarmInv /\ [Next]_vars => AlarmInv'
<1> SUFFICES ASSUME Inv, AlarmInv, [Next]_vars PROVE AlarmInv'
  OBVIOUS
<1>1. CASE Tick \/ Expire \/ Stray
  BY <1>1, AlarmKernel
<1>2. CASE Signal \/ Swallow \/ Free \/ Scan \/ Arm \/ Store \/ Compare \/ Rearm
  BY <1>2, AlarmSignal, AlarmSwallow, AlarmFree, AlarmScan, AlarmArm, AlarmStore,
     AlarmCompare, AlarmRearm
<1>3. CASE Run \/ Act \/ Return \/ Jump \/ Leave
  BY <1>3, AlarmRun, AlarmAct, AlarmReturn, AlarmJump, AlarmEnds
<1>4. CASE \E c \in Client : Add(c) \/ Look(c)
  BY <1>4, AlarmAdd, AlarmLook
<1>5. CASE SetMin \/ Unlock \/ Test \/ CallHandler \/ Back
  BY <1>5, AlarmSetMin, AlarmUnlockTest, AlarmCallHandler, AlarmEnds
<1>6. CASE Delete \/ DeleteAll \/ AllOff
  BY <1>6, AlarmEnds, AlarmDeleteAll, AlarmAllOff
<1>7. CASE UNCHANGED vars
  BY <1>7, AlarmStays DEF vars, time, fields, state, local, history, On
<1> QED
  BY <1>1, <1>2, <1>3, <1>4, <1>5, <1>6, <1>7 DEF Next

\* No timer is set at the start.
LEMMA InitAlarm == Init => AlarmInv
<1> SUFFICES ASSUME Init PROVE AlarmInv
  OBVIOUS
<1>1. DOMAIN stack = {} /\ pc = Idle /\ left = 0 /\ \A n \in Node : ~live[n]
  BY DEF Init
<1> QED
  BY <1>1 DEF AlarmInv, AllDead, OffOnTop, LeftOn, MinSet, SetOn, Cover, Ready, Idle

\* Whenever a timer is set and none of the functions runs, the kernel's timer is
\* on or its signal pending, the three exceptions of AlarmArmed aside.
THEOREM AlarmCorrect == Spec => []AlarmArmed
<1>1. Init => Inv /\ AlarmInv
  BY InitInv, InitAlarm
<1>2. Inv /\ AlarmInv /\ [Next]_vars => (Inv /\ AlarmInv)'
  BY InvStep, AlarmStep
<1>3. Inv /\ AlarmInv => AlarmArmed
  <2> SUFFICES ASSUME Inv, AlarmInv, Quiet, ~hole, NEW n \in Node, Live(n)
               PROVE  itimer # 0 \/ pending
    BY DEF AlarmArmed
  <2>1. pc = Idle /\ DOMAIN stack = {} /\ ~deferred /\ Ready(n)
    BY DEF Quiet, Idle, Live, Ready, Inv, Running
  <2> QED
    BY <2>1 DEF AlarmInv, Cover, Covered, On, Waiting, Setting, Idle
<1> QED
  BY <1>1, <1>2, <1>3, PTL DEF Spec

-----------------------------------------------------------------------------
\* What TimerQueue does not see.
LEMMA QueueStutter ==
    ASSUME UNCHANGED <<clock, live, next, incr, ran>>
    PROVE  UNCHANGED Queue!queueVars
BY DEF Queue!queueVars, Kept

\* The node that is freed is no timer of the queue any more.
LEMMA QueueFree == Inv /\ Free => UNCHANGED Queue!queueVars
<1> SUFFICES ASSUME Inv, Free PROVE UNCHANGED Queue!queueVars
  OBVIOUS
<1>1. PICK i \in DOMAIN list : ~live[list[i]] /\ Forget(list[i])
  BY DEF Free
<1>2. list[i] \in Node
  BY LenProperties, ElementOfSeq DEF Inv, TypeOK, NodeType
<1>3. UNCHANGED <<clock, live, ran>>
  BY DEF Free, time
<1>4. Kept(next)' = Kept(next) /\ Kept(incr)' = Kept(incr)
  BY <1>1, <1>2, <1>3 DEF Forget, Kept, Inv, TypeOK, NodeType
<1> QED
  BY <1>3, <1>4 DEF Queue!queueVars

\* The action of a timer that is due.
LEMMA QueueRun == Inv /\ Run => Queue!QueueNext
<1> SUFFICES ASSUME Inv, Run PROVE Queue!QueueNext
  OBVIOUS
<1>1. tp \in Node /\ live[tp] /\ next[tp] <= clock
  BY DEF Run, Inv, Chosen, TypeOK, CodeType
<1>0. PICK m \in Node : m = tp
  BY <1>1
<1>2. /\ live \in [Node -> BOOLEAN] /\ next \in [Node -> Nat] /\ ran \in [Node -> Nat]
      /\ clock \in Nat /\ incr[tp] \in Nat
  BY <1>1, Periods DEF Inv, TypeOK, NodeType, KernelType
<1>3. /\ live' = [live EXCEPT ![tp] = live[tp] /\ incr[tp] > 0]
      /\ ran' = [ran EXCEPT ![tp] = @ + 1]
      /\ next' = [next EXCEPT ![tp] = next[tp] + incr[tp]]
      /\ UNCHANGED <<clock, incr>>
  BY <1>1, <1>2 DEF Run, Over, time
<1>4. ASSUME incr[tp] = 0 PROVE Queue!Fire(m)
  <2>1. live' = [live EXCEPT ![tp] = FALSE]
    <3>1. (live[tp] /\ incr[tp] > 0) = FALSE
      BY <1>4
    <3> QED
      BY <1>3, <3>1, Zenon
  <2>2. next' = next
    BY <1>1, <1>2, <1>3, <1>4
  <2>3. \A n \in Node : live'[n] = (live[n] /\ n # tp)
    BY <1>1, <1>2, <2>1
  <2> QED
    BY <1>0, <1>1, <1>2, <1>3, <1>4, <2>2, <2>3
       DEF Queue!Fire, Queue!Without, Queue!Cleared, Kept
<1>5. ASSUME incr[tp] # 0 PROVE Queue!Fire(m)
  <2>1. live' = live
    <3>1. incr[tp] > 0
      BY <1>2, <1>5
    <3>2. (live[tp] /\ incr[tp] > 0) = live[tp]
      BY <1>1, <1>2, <3>1, Zenon
    <3> QED
      BY <1>1, <1>2, <1>3, <3>2, Zenon
  <2> QED
    BY <1>0, <1>1, <1>2, <1>3, <1>5, <2>1 DEF Queue!Fire, Kept
<1>6. \E n \in Node : Queue!Set(n) \/ Queue!Fire(n) \/ Queue!Cancel({n})
  BY <1>4, <1>5
<1> QED
  BY <1>6 DEF Queue!QueueNext

\* A new timer.
LEMMA QueueAdd == ASSUME NEW c \in Client PROVE Inv /\ Add(c) => Queue!QueueNext
<1> SUFFICES ASSUME Inv, Add(c) PROVE \E n \in Node : Queue!Set(n)
  BY DEF Queue!QueueNext
<1>1. PICK n \in Node \ Listed, t \in Interval, again \in BOOLEAN :
         /\ incr' = [incr EXCEPT ![n] = IF again THEN t ELSE 0]
         /\ live' = [live EXCEPT ![n] = TRUE]
         /\ next' = [next EXCEPT ![n] = clock + t]
         /\ ran' = [ran EXCEPT ![n] = 0]
  BY DEF Add
<1>2. /\ t \in 1..MaxTime /\ clock' = clock /\ ~live[n]
      /\ live \in [Node -> BOOLEAN] /\ next \in [Node -> Nat]
      /\ incr \in [Node -> {0} \cup Interval]
  BY TimerAssumption DEF Add, time, Inv, Timing, TypeOK, NodeType
<1>3. /\ {m \in Node : live[m]}' = {m \in Node : live[m]} \cup {n}
      /\ Kept(next)' = [Kept(next) EXCEPT ![n] = clock + t]
      /\ Kept(incr)' = [Kept(incr) EXCEPT ![n] = IF again THEN t ELSE 0]
  BY <1>1, <1>2 DEF Kept
<1> QED
  BY <1>1, <1>2, <1>3 DEF Queue!Set

\* The timer is taken off the queue, unless it was freed before.
LEMMA QueueDelete == Inv /\ Delete => [Queue!QueueNext]_(Queue!queueVars)
<1> SUFFICES ASSUME Inv, Delete PROVE [Queue!QueueNext]_(Queue!queueVars)
  OBVIOUS
<1>1. UNCHANGED <<clock, next, incr, ran>> /\ tp \in Node
  BY DEF Delete, time, history, Inv, Running, InCall
<1>0. PICK m \in Node : m = tp
  BY <1>1
<1>2. CASE tp \in Listed
  <2>1. \A n \in Node : live'[n] = (live[n] /\ n # tp)
    BY <1>1, <1>2 DEF Delete, Inv, TypeOK, NodeType
  <2>2. Queue!Cancel({m})
    BY <1>0, <1>1, <2>1 DEF Queue!Cancel, Queue!Without, Queue!Cleared, Kept
  <2>3. \E n \in Node : Queue!Set(n) \/ Queue!Fire(n) \/ Queue!Cancel({n})
    BY <2>2
  <2> QED
    BY <2>3 DEF Queue!QueueNext
<1>3. CASE tp \notin Listed
  BY <1>1, <1>3, QueueStutter DEF Delete
<1> QED
  BY <1>2, <1>3

\* All are.
LEMMA QueueDeleteAll == Inv /\ DeleteAll => Queue!QueueNext
<1> SUFFICES ASSUME Inv, DeleteAll PROVE Queue!Cancel(Node)
  BY DEF Queue!QueueNext
<1>1. UNCHANGED <<clock, next, incr, ran>> /\ \A n \in Node : ~live'[n]
  BY DEF DeleteAll, time, history
<1> QED
  BY <1>1 DEF Queue!Cancel, Queue!Without, Queue!Cleared, Kept

\* Every step is one of the queue or leaves it as it is.
LEMMA QueueStep == Inv /\ [Next]_vars => [Queue!QueueNext]_(Queue!queueVars)
<1> SUFFICES ASSUME Inv, [Next]_vars PROVE [Queue!QueueNext]_(Queue!queueVars)
  OBVIOUS
<1>1. CASE Tick
  <2>1. Queue!Pass
    BY <1>1 DEF Tick, fields, history, Queue!Pass, Kept
  <2> QED
    BY <2>1 DEF Queue!QueueNext
<1>2. CASE Expire \/ Stray \/ Signal \/ Swallow \/ Scan \/ Arm \/ Store \/ Compare
           \/ Rearm \/ Act
  <2>1. UNCHANGED <<clock, live, next, incr, ran>>
    BY <1>2 DEF Expire, Stray, Signal, Swallow, Scan, Arm, Store, Compare, Rearm, Act,
       time, fields, history
  <2> QED
    BY <2>1, QueueStutter
<1>3. CASE Return \/ Jump \/ Leave \/ SetMin \/ Unlock \/ Test \/ CallHandler \/ Back
           \/ AllOff \/ \E c \in Client : Look(c)
  <2>1. UNCHANGED <<clock, live, next, incr, ran>>
    BY <1>3 DEF Return, Jump, Leave, SetMin, Unlock, Test, CallHandler, Back, AllOff,
       Look, time, fields, history
  <2> QED
    BY <2>1, QueueStutter
<1>4. CASE Free \/ Run \/ Delete \/ DeleteAll \/ \E c \in Client : Add(c)
  BY <1>4, QueueFree, QueueRun, QueueDelete, QueueDeleteAll, QueueAdd
<1>5. CASE UNCHANGED vars
  BY <1>5, QueueStutter DEF vars, time, fields, history
<1> QED
  BY <1>1, <1>2, <1>3, <1>4, <1>5 DEF Next

\* The timers keep the promise of TimerQueue.
THEOREM ImplementsQueue == Spec => IsQueue
<1>1. Init => Queue!QueueInit
  BY DEF Init, Queue!QueueInit, Kept
<1>2. Inv /\ [Next]_vars => [Queue!QueueNext]_(Queue!queueVars)
  BY QueueStep
<1> QED
  BY <1>1, <1>2, InvCorrect, PTL DEF Spec, IsQueue, Queue!QueueSpec
=============================================================================
