--------------------------- MODULE AudioOutputProofs ---------------------------
(***************************************************************************)
(* Proofs about AudioOutput, for any tasks that select and any lengths of  *)
(* the queues.                                                             *)
(*                                                                         *)
(* The I2S task sees a select late, so the invariant speaks of what it     *)
(* will have once the commands in its queue are carried out (Provides,     *)
(* Runs).  As long as no two selects have overlapped, the task inside a    *)
(* select determines from its step what both outputs have: exactly if      *)
(* nothing was lost (Followed), and enough to keep them apart if sends     *)
(* failed on the way (KeptApart).                                          *)
(***************************************************************************)
EXTENDS AudioOutput, TLAPS

-----------------------------------------------------------------------------
(* Types                                                                    *)

I2sCmds == {"attach", "detach", "start", "suspend"}
BtMsgs  == {"start", "suspend", "up", "down"}

(* The flags, apart: they are proved by a prover of their own.              *)
Flags ==
  /\ i2sProvider \in BOOLEAN /\ running \in BOOLEAN /\ refused \in BOOLEAN
  /\ btProvider \in BOOLEAN /\ connected \in BOOLEAN
  /\ link \in BOOLEAN /\ streaming \in BOOLEAN
  /\ overlapped \in BOOLEAN /\ lost \in BOOLEAN

SelectsTyped ==
  /\ target \in Targets
  /\ pc \in [Tasks -> Steps] /\ to \in [Tasks -> Targets] /\ back \in [Tasks -> Targets]
  /\ \A t \in Tasks : pc[t] = "check" => to[t] = "bt"

I2sTyped   == i2sQueue \in Seq(I2sCmds) /\ Len(i2sQueue) <= I2sDepth
BtTyped    == btQueue \in Seq(BtMsgs) /\ Len(btQueue) <= BtDepth
EventTyped == events \in Seq({"up", "down"}) /\ Len(events) <= EventDepth
LinkTyped  == streaming => link

Typed == SelectsTyped /\ I2sTyped /\ BtTyped /\ EventTyped /\ LinkTyped

LEMMA Depths == BtDepth \in Nat \ {0} /\ EventDepth \in Nat \ {0} /\ I2sDepth \in Nat \ {0, 1}
BY AudioOutputAssumption DEF AudioOutputAssumption

(* Queues, one element more or less.                                        *)
LEMMA Longer ==
  ASSUME NEW S, NEW q \in Seq(S), NEW m \in S, NEW d \in Nat, Len(q) < d
  PROVE  Append(q, m) \in Seq(S) /\ Len(Append(q, m)) <= d
OBVIOUS

LEMMA Shorter ==
  ASSUME NEW S, NEW q \in Seq(S), q # <<>>, NEW d \in Nat, Len(q) <= d
  PROVE  Head(q) \in S /\ Tail(q) \in Seq(S) /\ Len(Tail(q)) <= d
OBVIOUS

LEMMA SendsTyped ==
  ASSUME Typed
  PROVE  /\ \A cmd \in I2sCmds : SendI2s(cmd) => I2sTyped'
         /\ \A msg \in BtMsgs : SendBt(msg) => BtTyped'
         /\ I2sTimesOut => I2sTyped'
         /\ BtTimesOut => BtTyped'
         /\ UNCHANGED i2sQueue => I2sTyped'
         /\ UNCHANGED btQueue => BtTyped'
         /\ UNCHANGED events => EventTyped'
<1>1. ASSUME NEW cmd \in I2sCmds, SendI2s(cmd) PROVE I2sTyped'
  BY <1>1, Depths, Longer DEF SendI2s, Typed, I2sTyped
<1>2. ASSUME NEW msg \in BtMsgs, SendBt(msg) PROVE BtTyped'
  BY <1>2, Depths, Longer DEF SendBt, Typed, BtTyped
<1> QED
  BY <1>1, <1>2 DEF I2sTimesOut, BtTimesOut, Typed, I2sTyped, BtTyped, EventTyped

LEMMA TypedInit == Init => Typed /\ Flags
<1> SUFFICES ASSUME Init PROVE Typed /\ Flags
  OBVIOUS
<1>1. Flags
  BY Zenon DEF Init, Flags
<1>2. SelectsTyped /\ LinkTyped
  BY DEF Init, SelectsTyped, LinkTyped, Targets, Steps
<1>3. I2sTyped
  BY Depths DEF Init, I2sTyped, I2sCmds
<1>4. BtTyped /\ EventTyped
  BY Depths DEF Init, BtTyped, EventTyped
<1> QED
  BY <1>1, <1>2, <1>3, <1>4 DEF Typed

(* Where a step of a select goes.                                           *)
LEMMA GoToFacts ==
  ASSUME SelectsTyped, NEW t \in Tasks, NEW step \in Steps, GoTo(t, step)
  PROVE  /\ pc' \in [Tasks -> Steps] /\ pc'[t] = step /\ \A u \in Tasks \ {t} : pc'[u] = pc[u]
         /\ to' = to /\ back' = back
BY DEF GoTo, SelectsTyped

LEMMA ReturnFacts ==
  ASSUME SelectsTyped, NEW t \in Tasks, Return(t)
  PROVE  /\ pc' \in [Tasks -> Steps] /\ pc'[t] = "idle" /\ \A u \in Tasks \ {t} : pc'[u] = pc[u]
         /\ to' \in [Tasks -> Targets] /\ to'[t] = "i2s" /\ \A u \in Tasks \ {t} : to'[u] = to[u]
         /\ back' \in [Tasks -> Targets]
<1>1. "idle" \in Steps /\ "i2s" \in Targets
  BY DEF Steps, Targets
<1> QED
  BY <1>1 DEF Return, SelectsTyped

LEMMA GoToTyped ==
  ASSUME SelectsTyped, NEW t \in Tasks, NEW step \in Steps, GoTo(t, step),
         target' \in Targets, step = "check" => to[t] = "bt"
  PROVE  SelectsTyped'
BY GoToFacts DEF SelectsTyped

LEMMA ReturnTyped ==
  ASSUME SelectsTyped, NEW t \in Tasks, Return(t), UNCHANGED target
  PROVE  SelectsTyped'
<1>1. pc'[t] # "check"
  BY ReturnFacts
<1>2. \A u \in Tasks : pc'[u] = "check" => to'[u] = "bt"
  BY <1>1, ReturnFacts DEF SelectsTyped
<1> QED
  BY <1>2, ReturnFacts DEF SelectsTyped

LEMMA SelectTyped ==
  ASSUME SelectsTyped, NEW t \in Tasks, NEW x \in Targets, Select(t, x)
  PROVE  SelectsTyped'
<1>1. "detach" \in Steps /\ target \in Targets
  BY DEF Steps, SelectsTyped
<1>2. /\ pc' \in [Tasks -> Steps] /\ to' \in [Tasks -> Targets] /\ back' \in [Tasks -> Targets]
      /\ target' = target /\ pc'[t] = "detach"
      /\ \A u \in Tasks \ {t} : pc'[u] = pc[u] /\ to'[u] = to[u]
  BY <1>1 DEF Select, SelectsTyped
<1> QED
  BY <1>1, <1>2 DEF SelectsTyped

LEMMA StepNames ==
  /\ {"idle", "detach", "suspend", "switch", "attach", "check", "start", "undo", "fail"} = Steps
  /\ {"bt", "i2s"} = Targets
  /\ {"attach", "detach", "start", "suspend"} = I2sCmds
  /\ {"start", "suspend", "up", "down"} = BtMsgs
BY DEF Steps, Targets, I2sCmds, BtMsgs

LEMMA SelectStepTyped ==
  ASSUME Typed, NEW t \in Tasks, SelectStep(t) PROVE Typed'
<1>1. SelectsTyped /\ target \in Targets /\ to[t] \in Targets /\ back[t] \in Targets
  BY DEF Typed, SelectsTyped
<1>2. UNCHANGED <<events, link, streaming>>
  BY DEF SelectStep, Detach, Suspend, SetTarget, Attach, CheckConnected, StartOutput, Undo, RollBack,
         linkVars
<1>3. EventTyped' /\ LinkTyped'
  BY <1>2, SendsTyped DEF Typed, LinkTyped
<1>4. I2sTyped' /\ BtTyped'
  <2>1. \/ UNCHANGED i2sQueue \/ I2sTimesOut
        \/ SendI2s("attach") \/ SendI2s("detach") \/ SendI2s("start") \/ SendI2s("suspend")
    BY DEF SelectStep, Detach, Suspend, SetTarget, Attach, CheckConnected, StartOutput, Undo, RollBack,
           i2sVars
  <2>2. UNCHANGED btQueue \/ BtTimesOut \/ SendBt("start") \/ SendBt("suspend")
    BY DEF SelectStep, Detach, Suspend, SetTarget, Attach, CheckConnected, StartOutput, Undo, RollBack,
           btVars
  <2>3. I2sTyped'
    BY <2>1, SendsTyped, StepNames
  <2>4. BtTyped'
    BY <2>2, SendsTyped, StepNames
  <2> QED
    BY <2>3, <2>4
<1>5. SelectsTyped'
  <2>1. ASSUME NEW step \in Steps, GoTo(t, step), target' = target, step # "check" \/ to[t] = "bt"
        PROVE  SelectsTyped'
    BY <1>1, <2>1, GoToTyped
  <2>2. CASE Detach(t) \/ Suspend(t) \/ StartOutput(t) \/ Undo(t)
    <3>1. target' = target /\ \/ GoTo(t, "suspend") \/ GoTo(t, "switch") \/ GoTo(t, "undo")
                              \/ GoTo(t, "fail") \/ Return(t)
      BY <2>2 DEF Detach, Suspend, StartOutput, Undo
    <3> QED
      BY <1>1, <2>1, <3>1, ReturnTyped, StepNames
  <2>3. CASE Attach(t)
    <3>1. target' = target /\ \/ GoTo(t, "check") /\ to[t] = "bt"
                              \/ GoTo(t, "start") \/ GoTo(t, "fail")
      BY <2>3 DEF Attach
    <3> QED
      BY <2>1, <3>1, StepNames
  <2>4. CASE CheckConnected(t)
    <3>1. target' = target /\ (GoTo(t, "start") \/ GoTo(t, "undo"))
      BY <2>4 DEF CheckConnected
    <3> QED
      BY <2>1, <3>1, StepNames
  <2>5. CASE SetTarget(t)
    <3>1. target' \in Targets /\ GoTo(t, "attach")
      BY <1>1, <2>5 DEF SetTarget
    <3> QED
      BY <1>1, <3>1, GoToTyped, StepNames
  <2>6. CASE RollBack(t)
    <3>1. CASE Return(t) /\ UNCHANGED target
      BY <1>1, <3>1, ReturnTyped
    <3>2. CASE /\ target' = back[t] /\ to' = [to EXCEPT ![t] = back[t]]
               /\ pc' = [pc EXCEPT ![t] = "attach"] /\ back' = back
      <4>1. /\ pc' \in [Tasks -> Steps] /\ to' \in [Tasks -> Targets] /\ back' \in [Tasks -> Targets]
            /\ target' \in Targets /\ pc'[t] = "attach"
            /\ \A u \in Tasks \ {t} : pc'[u] = pc[u] /\ to'[u] = to[u]
        BY <1>1, <3>2, StepNames DEF SelectsTyped
      <4> QED
        BY <1>1, <4>1 DEF SelectsTyped
    <3> QED
      BY <2>6, <3>1, <3>2 DEF RollBack
  <2> QED
    BY <2>2, <2>3, <2>4, <2>5, <2>6 DEF SelectStep
<1> QED
  BY <1>3, <1>4, <1>5 DEF Typed

LEMMA EventsLonger ==
  ASSUME Typed, NEW m \in {"up", "down"}, Len(events) < EventDepth, events' = Append(events, m)
  PROVE  EventTyped'
BY Depths, Longer DEF Typed, EventTyped

LEMMA TypedStep == Typed /\ [Next]_vars => Typed'
<1> SUFFICES ASSUME Typed, [Next]_vars PROVE Typed'
  OBVIOUS
<1>1. /\ SelectsTyped /\ I2sTyped /\ BtTyped /\ EventTyped /\ LinkTyped
      /\ BtDepth \in Nat /\ EventDepth \in Nat /\ I2sDepth \in Nat
  BY Depths DEF Typed
<1>2. ASSUME UNCHANGED switchVars PROVE SelectsTyped'
  BY <1>1, <1>2 DEF SelectsTyped, switchVars
<1>3. ASSUME NEW t \in Tasks, NEW x \in Targets, Select(t, x), EventTyped' PROVE Typed'
  <2>1. UNCHANGED <<i2sQueue, btQueue, link, streaming>>
    BY <1>3 DEF Select, i2sVars, btVars, linkVars
  <2> QED
    BY <1>1, <1>3, <2>1, SelectTyped, SendsTyped DEF Typed, LinkTyped
<1>4. ASSUME NEW t \in Users, UserSelects(t) PROVE Typed'
  BY <1>3, <1>4, SendsTyped DEF UserSelects, Tasks
<1>5. CASE HandleEvent
  <2>1. EventTyped'
    BY <1>1, <1>5, Shorter DEF HandleEvent, EventTyped
  <2>2. Wanted(Head(events)) \in Targets /\ EventLoop \in Tasks
    BY DEF Wanted, Targets, Tasks
  <2>3. CASE Select(EventLoop, Wanted(Head(events)))
    BY <1>3, <2>1, <2>2, <2>3
  <2>4. CASE UNCHANGED <<switchVars, i2sVars, btVars, linkVars, overlapped, lost>>
    BY <1>1, <1>2, <2>1, <2>4, SendsTyped DEF Typed, LinkTyped, i2sVars, btVars, linkVars
  <2> QED
    BY <1>5, <2>3, <2>4 DEF HandleEvent
<1>6. CASE I2sCommand
  <2>1. i2sQueue # <<>> /\ i2sQueue' = Tail(i2sQueue)
        /\ UNCHANGED <<switchVars, btQueue, events, link, streaming>>
    BY <1>6 DEF I2sCommand, btVars, linkVars
  <2>2. I2sTyped'
    BY <1>1, <2>1, Shorter DEF I2sTyped
  <2> QED
    BY <1>1, <1>2, <2>1, <2>2, SendsTyped DEF Typed, LinkTyped
<1>7. CASE BtControl \/ BtConnection
  <2>1. btQueue # <<>> /\ btQueue' = Tail(btQueue) /\ UNCHANGED <<switchVars, i2sQueue>>
    BY <1>7 DEF BtControl, BtConnection, i2sVars
  <2>2. BtTyped'
    BY <1>1, <2>1, Shorter DEF BtTyped
  <2>3. LinkTyped'
    BY <1>1, <1>7 DEF BtControl, BtConnection, linkVars, LinkTyped
  <2>4. EventTyped'
    <3>1. CASE UNCHANGED events
      BY <3>1, SendsTyped
    <3>2. CASE /\ Len(events) < EventDepth /\ events' = Append(events, Head(btQueue))
               /\ Head(btQueue) \in {"up", "down"}
      BY <3>2, EventsLonger
    <3> QED
      BY <1>7, <3>1, <3>2 DEF BtControl, BtConnection
  <2> QED
    BY <1>2, <2>1, <2>2, <2>3, <2>4, SendsTyped DEF Typed
<1>8. CASE LinkUp \/ LinkDown
  <2>1. UNCHANGED <<switchVars, i2sQueue, events>> /\ (CallBack("up") \/ CallBack("down"))
    BY <1>8 DEF LinkUp, LinkDown, i2sVars
  <2>2. BtTyped'
    <3>1. UNCHANGED btQueue \/ SendBt("up") \/ SendBt("down")
      BY <2>1 DEF CallBack, SendBt
    <3> QED
      BY <3>1, SendsTyped, StepNames
  <2>3. LinkTyped'
    BY <1>1, <1>8 DEF LinkUp, LinkDown, LinkTyped
  <2> QED
    BY <1>2, <2>1, <2>2, <2>3, SendsTyped DEF Typed
<1>9. CASE UNCHANGED vars
  BY <1>1, <1>2, <1>9, SendsTyped DEF vars, i2sVars, btVars, linkVars, Typed, LinkTyped
<1> QED
  BY <1>4, <1>5, <1>6, <1>7, <1>8, <1>9, SelectStepTyped DEF Next

LEMMA FlagsStep == Flags /\ [Next]_vars => Flags'
<1> SUFFICES ASSUME Flags, [Next]_vars PROVE Flags'
  OBVIOUS
<1> USE DEF Flags
<1>1. ASSUME NEW t \in Tasks, SelectStep(t) PROVE Flags'
  <2>1. CASE Detach(t) \/ Suspend(t) \/ SetTarget(t)
    BY <2>1, Zenon DEF Detach, Suspend, SetTarget, i2sVars, btVars, linkVars
  <2>2. CASE Attach(t) \/ CheckConnected(t)
    BY <2>2, Zenon DEF Attach, CheckConnected, i2sVars, btVars, linkVars
  <2>3. CASE StartOutput(t) \/ Undo(t) \/ RollBack(t)
    BY <2>3, Zenon DEF StartOutput, Undo, RollBack, i2sVars, btVars, linkVars
  <2> QED
    BY <1>1, <2>1, <2>2, <2>3 DEF SelectStep
<1>2. ASSUME NEW t, NEW x, Select(t, x) PROVE Flags'
  <2>1. (overlapped \/ \E u \in Tasks \ {t} : pc[u] # "idle") \in BOOLEAN
    BY Zenon
  <2> QED
    BY <1>2, <2>1, Zenon DEF Select, i2sVars, btVars, linkVars
<1>3. CASE HandleEvent \/ \E t \in Users : UserSelects(t)
  BY <1>2, <1>3, Zenon DEF HandleEvent, UserSelects, i2sVars, btVars, linkVars
<1>4. CASE I2sCommand
  <2>1. running' \in BOOLEAN /\ refused' \in BOOLEAN
    BY <1>4, Zenon DEF I2sCommand, Started
  <2>2. i2sProvider' \in BOOLEAN
    <3>1. (Head(i2sQueue) = "attach") \in BOOLEAN
      BY Zenon
    <3>2. i2sProvider' = (Head(i2sQueue) = "attach") \/ i2sProvider' = i2sProvider
      BY <1>4, Zenon DEF I2sCommand
    <3> QED
      BY <3>1, <3>2, Zenon
  <2> QED
    BY <1>4, <2>1, <2>2, Zenon DEF I2sCommand, btVars, linkVars
<1>5. CASE BtControl
  <2>1. (link /\ Head(btQueue) = "start") \in BOOLEAN
    BY Zenon
  <2> QED
    BY <1>5, <2>1, Zenon DEF BtControl, i2sVars
<1>6. CASE BtConnection
  <2>1. (Head(btQueue) = "up") \in BOOLEAN
    BY Zenon
  <2> QED
    BY <1>6, <2>1, Zenon DEF BtConnection, i2sVars, linkVars
<1>7. CASE LinkUp \/ LinkDown
  BY <1>7, Zenon DEF LinkUp, LinkDown, CallBack, i2sVars
<1>8. CASE UNCHANGED vars
  BY <1>8, Zenon DEF vars, i2sVars, btVars, linkVars
<1> QED
  BY <1>1, <1>3, <1>4, <1>5, <1>6, <1>7, <1>8 DEF Next

(* A channel that runs was enabled when it was last told to start.          *)
Tried == ~(running /\ refused)

LEMMA TriedInit == Init => Tried
BY Zenon DEF Init, Tried

LEMMA TriedStep == Tried /\ [Next]_vars => Tried'
<1> SUFFICES ASSUME Tried, [Next]_vars PROVE Tried'
  OBVIOUS
<1>1. ASSUME UNCHANGED <<running, refused>> PROVE Tried'
  BY <1>1 DEF Tried
<1>2. ASSUME NEW t \in Tasks, SelectStep(t) PROVE UNCHANGED <<running, refused>>
  BY <1>2 DEF SelectStep, Detach, Suspend, SetTarget, Attach, CheckConnected, StartOutput, Undo,
              RollBack, i2sVars
<1>3. CASE HandleEvent \/ \E t \in Users : UserSelects(t)
  BY <1>1, <1>3 DEF HandleEvent, UserSelects, Select, i2sVars
<1>4. CASE I2sCommand
  <2>1. \/ refused' = FALSE
        \/ ~running /\ running' = running
        \/ running' = running /\ refused' = refused
    BY <1>4, Zenon DEF I2sCommand, Started
  <2> QED
    BY <2>1 DEF Tried
<1>5. CASE BtControl \/ BtConnection \/ LinkUp \/ LinkDown \/ UNCHANGED vars
  BY <1>1, <1>5 DEF BtControl, BtConnection, LinkUp, LinkDown, i2sVars, vars
<1> QED
  BY <1>1, <1>2, <1>3, <1>4, <1>5 DEF Next

(* Queues never exceed their depths, a select is at a step it has, only one *)
(* of Bluetooth asks for the connection, and the stream runs over a link.   *)
THEOREM TypeCorrect == Spec => []TypeOK
<1>1. Typed /\ Flags => TypeOK
  BY Zenon DEF Typed, SelectsTyped, I2sTyped, BtTyped, EventTyped, LinkTyped, Flags, TypeOK,
               I2sCmds, BtMsgs
<1> QED
  BY <1>1, TypedInit, TypedStep, FlagsStep, PTL DEF Spec

-----------------------------------------------------------------------------
(* What the commands in a queue lead to                                     *)

(* The last of the two commands in the queue is on...                       *)
Ordered(q, on, off) == \E i \in DOMAIN q : q[i] = on /\ \A k \in DOMAIN q : k > i => q[k] # off

(* ... or a command is there at all.                                        *)
Has(q, cmd) == \E k \in DOMAIN q : q[k] = cmd

LEMMA AppendHas ==
  ASSUME NEW S, NEW q \in Seq(S), NEW m \in S, NEW on, NEW off, on # off
  PROVE  /\ Has(Append(q, m), off) <=> Has(q, off) \/ m = off
         /\ Ordered(Append(q, m), on, off) <=> m = on \/ (Ordered(q, on, off) /\ m # off)
<1> DEFINE n == Len(q) + 1  r == Append(q, m)
<1>1. /\ DOMAIN q = 1 .. Len(q) /\ DOMAIN r = 1 .. n /\ Len(q) \in Nat
      /\ r[n] = m /\ \A i \in 1 .. Len(q) : r[i] = q[i]
  OBVIOUS
<1> HIDE DEF r
<1>2. Has(r, off) <=> Has(q, off) \/ m = off
  <2>1. Has(r, off) => Has(q, off) \/ m = off
    BY <1>1 DEF Has
  <2>2. Has(q, off) => Has(r, off)
    BY <1>1 DEF Has
  <2>3. m = off => Has(r, off)
    BY <1>1 DEF Has
  <2> QED
    BY <2>1, <2>2, <2>3
<1>3. Ordered(r, on, off) => m = on \/ (Ordered(q, on, off) /\ m # off)
  <2> SUFFICES ASSUME Ordered(r, on, off), m # on PROVE Ordered(q, on, off) /\ m # off
    OBVIOUS
  <2>1. PICK i \in 1 .. n : r[i] = on /\ \A k \in 1 .. n : k > i => r[k] # off
    BY <1>1 DEF Ordered
  <2>2. i \in 1 .. Len(q) /\ n \in 1 .. n /\ n > i
    BY <1>1, <2>1
  <2> QED
    BY <1>1, <2>1, <2>2 DEF Ordered
<1>4. m = on => Ordered(r, on, off)
  <2> SUFFICES ASSUME m = on PROVE Ordered(r, on, off)
    OBVIOUS
  <2>1. n \in 1 .. n /\ r[n] = on /\ \A k \in 1 .. n : ~(k > n)
    BY <1>1
  <2> QED
    BY <1>1, <2>1 DEF Ordered
<1>5. Ordered(q, on, off) /\ m # off => Ordered(r, on, off)
  <2> SUFFICES ASSUME Ordered(q, on, off), m # off PROVE Ordered(r, on, off)
    OBVIOUS
  <2>1. PICK i \in 1 .. Len(q) : q[i] = on /\ \A k \in 1 .. Len(q) : k > i => q[k] # off
    BY <1>1 DEF Ordered
  <2>2. i \in 1 .. n /\ r[i] = on
    BY <1>1, <2>1
  <2>3. ASSUME NEW k \in 1 .. n, k > i PROVE r[k] # off
    BY <1>1, <2>1, <2>3
  <2> QED
    BY <1>1, <2>2, <2>3 DEF Ordered
<1> QED
  BY <1>2, <1>3, <1>4, <1>5 DEF r

LEMMA TailHas ==
  ASSUME NEW S, NEW q \in Seq(S), q # <<>>, NEW on, NEW off, on # off
  PROVE  /\ Has(q, off) <=> Head(q) = off \/ Has(Tail(q), off)
         /\ Ordered(q, on, off) <=> \/ Ordered(Tail(q), on, off)
                                    \/ Head(q) = on /\ ~Has(Tail(q), off)
<1> DEFINE n == Len(q)  r == Tail(q)
<1>1. /\ DOMAIN q = 1 .. n /\ DOMAIN r = 1 .. n - 1 /\ n \in Nat \ {0}
      /\ q[1] = Head(q) /\ \A i \in 1 .. n - 1 : r[i] = q[i + 1]
  OBVIOUS
<1> HIDE DEF r, n
<1>2. Has(q, off) => Head(q) = off \/ Has(r, off)
  <2> SUFFICES ASSUME Has(q, off), Head(q) # off PROVE Has(r, off)
    OBVIOUS
  <2>1. PICK k \in 1 .. n : q[k] = off
    BY <1>1 DEF Has
  <2>2. k - 1 \in 1 .. n - 1 /\ (k - 1) + 1 = k
    BY <1>1, <2>1
  <2>3. r[k - 1] = off
    BY <1>1, <2>1, <2>2
  <2> QED
    BY <1>1, <2>2, <2>3 DEF Has
<1>3. Head(q) = off \/ Has(r, off) => Has(q, off)
  <2>1. CASE Head(q) = off
    <3>1. 1 \in 1 .. n
      BY <1>1
    <3> QED
      BY <1>1, <2>1, <3>1 DEF Has
  <2>2. CASE Has(r, off)
    <3>1. PICK k \in 1 .. n - 1 : r[k] = off
      BY <1>1, <2>2 DEF Has
    <3>2. k + 1 \in 1 .. n /\ q[k + 1] = off
      BY <1>1, <3>1
    <3> QED
      BY <1>1, <3>2 DEF Has
  <2> QED
    BY <2>1, <2>2
<1>4. Ordered(q, on, off) => Ordered(r, on, off) \/ (Head(q) = on /\ ~Has(r, off))
  <2> SUFFICES ASSUME Ordered(q, on, off) PROVE Ordered(r, on, off) \/ (Head(q) = on /\ ~Has(r, off))
    OBVIOUS
  <2>1. PICK i \in 1 .. n : q[i] = on /\ \A k \in 1 .. n : k > i => q[k] # off
    BY <1>1 DEF Ordered
  <2>2. CASE i = 1
    <3>1. ASSUME NEW k \in 1 .. n - 1 PROVE r[k] # off
      <4>1. k + 1 \in 1 .. n /\ k + 1 > i /\ r[k] = q[k + 1]
        BY <1>1, <2>2
      <4> QED
        BY <2>1, <4>1
    <3> QED
      BY <1>1, <2>1, <2>2, <3>1 DEF Has
  <2>3. CASE i # 1
    <3>1. i - 1 \in 1 .. n - 1 /\ (i - 1) + 1 = i
      BY <1>1, <2>3
    <3>2. r[i - 1] = on
      BY <1>1, <2>1, <3>1
    <3>3. ASSUME NEW k \in 1 .. n - 1, k > i - 1 PROVE r[k] # off
      <4>1. k + 1 \in 1 .. n /\ k + 1 > i /\ r[k] = q[k + 1]
        BY <1>1, <3>3
      <4> QED
        BY <2>1, <4>1
    <3> QED
      BY <1>1, <3>1, <3>2, <3>3 DEF Ordered
  <2> QED
    BY <2>2, <2>3
<1>5. Ordered(r, on, off) => Ordered(q, on, off)
  <2> SUFFICES ASSUME Ordered(r, on, off) PROVE Ordered(q, on, off)
    OBVIOUS
  <2>1. PICK i \in 1 .. n - 1 : r[i] = on /\ \A k \in 1 .. n - 1 : k > i => r[k] # off
    BY <1>1 DEF Ordered
  <2>2. i + 1 \in 1 .. n /\ q[i + 1] = on
    BY <1>1, <2>1
  <2>3. ASSUME NEW k \in 1 .. n, k > i + 1 PROVE q[k] # off
    <3>1. k - 1 \in 1 .. n - 1 /\ k - 1 > i /\ (k - 1) + 1 = k
      BY <1>1, <2>3
    <3>2. r[k - 1] = q[k]
      BY <1>1, <3>1
    <3> QED
      BY <2>1, <3>1, <3>2
  <2> QED
    BY <1>1, <2>2, <2>3 DEF Ordered
<1>6. Head(q) = on /\ ~Has(r, off) => Ordered(q, on, off)
  <2> SUFFICES ASSUME Head(q) = on, ~Has(r, off) PROVE Ordered(q, on, off)
    OBVIOUS
  <2>1. 1 \in 1 .. n /\ q[1] = on
    BY <1>1
  <2>2. ASSUME NEW k \in 1 .. n, k > 1 PROVE q[k] # off
    <3>1. k - 1 \in 1 .. n - 1 /\ (k - 1) + 1 = k
      BY <1>1, <2>2
    <3>2. r[k - 1] = q[k]
      BY <1>1, <3>1
    <3> QED
      BY <1>1, <3>1, <3>2 DEF Has
  <2> QED
    BY <1>1, <2>1, <2>2 DEF Ordered
<1> QED
  BY <1>2, <1>3, <1>4, <1>5, <1>6 DEF r

(* The I2S task has been told to run.                                       *)
On == running \/ refused

(* The I2S task has the provider, and is to run, once its commands are done. *)
Provides == Ordered(i2sQueue, "attach", "detach") \/ (i2sProvider /\ ~Has(i2sQueue, "detach"))
Runs     == Ordered(i2sQueue, "start", "suspend") \/ (On /\ ~Has(i2sQueue, "suspend"))

LEMMA SendFacts ==
  ASSUME Typed, NEW cmd \in I2sCmds, SendI2s(cmd), UNCHANGED <<i2sProvider, running, refused>>
  PROVE  /\ Provides' <=> cmd = "attach" \/ (Provides /\ cmd # "detach")
         /\ Runs' <=> cmd = "start" \/ (Runs /\ cmd # "suspend")
<1>1. i2sQueue' = Append(i2sQueue, cmd) /\ i2sQueue \in Seq(I2sCmds)
  BY DEF SendI2s, Typed, I2sTyped
<1>2. /\ Has(i2sQueue', "detach") <=> Has(i2sQueue, "detach") \/ cmd = "detach"
      /\ Ordered(i2sQueue', "attach", "detach") <=>
           cmd = "attach" \/ (Ordered(i2sQueue, "attach", "detach") /\ cmd # "detach")
  BY <1>1, AppendHas
<1>3. /\ Has(i2sQueue', "suspend") <=> Has(i2sQueue, "suspend") \/ cmd = "suspend"
      /\ Ordered(i2sQueue', "start", "suspend") <=>
           cmd = "start" \/ (Ordered(i2sQueue, "start", "suspend") /\ cmd # "suspend")
  BY <1>1, AppendHas
<1>4. (i2sProvider' <=> i2sProvider) /\ (On' <=> On)
  BY DEF On
<1>5. Provides' <=> cmd = "attach" \/ (Provides /\ cmd # "detach")
  BY <1>2, <1>4 DEF Provides
<1>6. Runs' <=> cmd = "start" \/ (Runs /\ cmd # "suspend")
  BY <1>3, <1>4 DEF Runs
<1> QED
  BY <1>5, <1>6

(* Carrying out a command changes nothing of this.                          *)
LEMMA CommandFacts == Typed /\ I2sCommand => (Provides' <=> Provides) /\ (Runs' <=> Runs)
<1> SUFFICES ASSUME Typed, I2sCommand PROVE (Provides' <=> Provides) /\ (Runs' <=> Runs)
  OBVIOUS
<1> DEFINE cmd == Head(i2sQueue)
<1>1. i2sQueue # <<>> /\ i2sQueue' = Tail(i2sQueue) /\ i2sQueue \in Seq(I2sCmds)
  BY DEF I2sCommand, Typed, I2sTyped
<1>2. On' <=> cmd = "start" \/ (On /\ cmd # "suspend")
  <2>1. CASE cmd = "start"
    <3>1. running' \/ refused'
      BY <2>1, Zenon DEF I2sCommand, Started
    <3> QED
      BY <2>1, <3>1 DEF On
  <2>2. CASE cmd = "suspend"
    <3>1. ~running' /\ ~refused'
      BY <2>2, Zenon DEF I2sCommand
    <3> QED
      BY <2>2, <3>1 DEF On
  <2>3. CASE cmd \notin {"start", "suspend"}
    <3>1. running' = running /\ refused' = refused
      BY <2>3, Zenon DEF I2sCommand
    <3> QED
      BY <2>3, <3>1 DEF On
  <2> QED
    BY <2>1, <2>2, <2>3
<1>3. i2sProvider' <=> cmd = "attach" \/ (i2sProvider /\ cmd # "detach")
  <2>1. CASE cmd \in {"attach", "detach"}
    <3>1. i2sProvider' = (cmd = "attach")
      BY <2>1, Zenon DEF I2sCommand
    <3>2. i2sProvider' <=> cmd = "attach"
      BY <3>1, Zenon
    <3> QED
      BY <2>1, <3>2, Zenon
  <2>2. CASE cmd \notin {"attach", "detach"}
    <3>1. i2sProvider' = i2sProvider
      BY <2>2, Zenon DEF I2sCommand
    <3> QED
      BY <2>2, <3>1, Zenon
  <2> QED
    BY <2>1, <2>2
<1> HIDE DEF cmd
<1>4. /\ Has(i2sQueue, "detach") <=> cmd = "detach" \/ Has(i2sQueue', "detach")
      /\ Ordered(i2sQueue, "attach", "detach") <=>
           \/ Ordered(i2sQueue', "attach", "detach") \/ (cmd = "attach" /\ ~Has(i2sQueue', "detach"))
  BY <1>1, TailHas DEF cmd
<1>5. /\ Has(i2sQueue, "suspend") <=> cmd = "suspend" \/ Has(i2sQueue', "suspend")
      /\ Ordered(i2sQueue, "start", "suspend") <=>
           \/ Ordered(i2sQueue', "start", "suspend") \/ (cmd = "start" /\ ~Has(i2sQueue', "suspend"))
  BY <1>1, TailHas DEF cmd
<1>6. Provides' <=> Provides
  BY <1>3, <1>4 DEF Provides
<1>7. Runs' <=> Runs
  BY <1>2, <1>5 DEF Runs
<1> QED
  BY <1>6, <1>7

-----------------------------------------------------------------------------
(* One select at a time                                                     *)

OneSelect == ~overlapped => \A t, u \in Tasks : pc[t] # "idle" /\ pc[u] # "idle" => t = u

(* The output that is not the target cannot draw PCM.                       *)
Apart == (target = "i2s" => ~btProvider) /\ (target = "bt" => ~Runs)

ApartAt(t) ==
  /\ pc[t] \in {"detach", "suspend", "switch"} => target = back[t] /\ to[t] # back[t]
  /\ pc[t] \in {"attach", "check", "start", "undo", "fail"} => target = to[t]
  /\ pc[t] = "detach" => Apart
  /\ pc[t] = "suspend" => ~btProvider /\ Apart
  /\ pc[t] \in {"switch", "attach", "fail"} => ~btProvider /\ ~Runs
  /\ pc[t] \in {"check", "start", "undo"} => ~Runs /\ (to[t] = "i2s" => ~btProvider)

KeptApart == ~overlapped => (Settled => Apart) /\ \A t \in Tasks : ApartAt(t)

(* The provider is with the target and with no other output.                *)
Exact ==
  /\ btProvider <=> target = "bt"
  /\ Provides <=> target = "i2s"
  /\ Runs <=> target = "i2s"

FollowsAt(t) ==
  /\ pc[t] # "idle" /\ to[t] = "bt" => back[t] = "i2s"
  /\ pc[t] \in {"undo", "fail"} => to[t] = "bt"
  /\ pc[t] = "detach" => Exact
  /\ pc[t] = "suspend" => ~btProvider /\ ~Provides /\ (Runs <=> target = "i2s")
  /\ pc[t] \in {"switch", "attach", "fail"} => ~btProvider /\ ~Provides /\ ~Runs
  /\ pc[t] \in {"check", "start", "undo"} =>
       (btProvider <=> to[t] = "bt") /\ (Provides <=> to[t] = "i2s") /\ ~Runs

Followed == ~overlapped /\ ~lost => (Settled => Exact) /\ \A t \in Tasks : FollowsAt(t)

OutputInv == OneSelect /\ KeptApart /\ Followed

LEMMA OutputInit == Init => OutputInv
<1> SUFFICES ASSUME Init PROVE OutputInv
  OBVIOUS
<1>1. /\ \A t \in Tasks : pc[t] = "idle"
      /\ target = "i2s" /\ btProvider = FALSE /\ i2sQueue = <<"attach", "start">>
  BY DEF Init
<1>2. OneSelect
  BY <1>1 DEF OneSelect
<1>3. \A t \in Tasks : ApartAt(t) /\ FollowsAt(t)
  BY <1>1 DEF ApartAt, FollowsAt
<1>4. Provides
  <2>1. 1 \in DOMAIN i2sQueue /\ i2sQueue[1] = "attach" /\ \A k \in DOMAIN i2sQueue : k > 1 => i2sQueue[k] # "detach"
    BY <1>1
  <2> QED
    BY <2>1 DEF Provides, Ordered
<1>5. Runs
  <2>1. 2 \in DOMAIN i2sQueue /\ i2sQueue[2] = "start" /\ \A k \in DOMAIN i2sQueue : k > 2 => i2sQueue[k] # "suspend"
    BY <1>1
  <2> QED
    BY <2>1 DEF Runs, Ordered
<1>6. Apart /\ Exact
  BY <1>1, <1>4, <1>5 DEF Apart, Exact
<1> QED
  BY <1>2, <1>3, <1>6 DEF OutputInv, KeptApart, Followed

(* A step of one select, from what it makes of the outputs: the others are  *)
(* idle as long as none overlap.                                            *)
LEMMA OneMoves ==
  ASSUME OutputInv, NEW t \in Tasks, pc[t] # "idle",
         \A u \in Tasks \ {t} : pc'[u] = pc[u],
         UNCHANGED overlapped, lost => lost',
         ~overlapped => ApartAt(t)' /\ (pc'[t] = "idle" => Apart'),
         ~overlapped /\ ~lost' => FollowsAt(t)' /\ (pc'[t] = "idle" => Exact')
  PROVE  OutputInv'
<1>1. ASSUME ~overlapped, NEW u \in Tasks \ {t} PROVE pc'[u] = "idle"
  BY <1>1 DEF OutputInv, OneSelect
<1>2. OneSelect'
  BY <1>1 DEF OneSelect
<1>3. ASSUME ~overlapped, NEW u \in Tasks \ {t} PROVE ApartAt(u)' /\ FollowsAt(u)'
  <2>1. pc'[u] = "idle"
    BY <1>1, <1>3
  <2> QED
    BY <2>1 DEF ApartAt, FollowsAt
<1>4. Settled' => pc'[t] = "idle"
  BY DEF Settled
<1>5. KeptApart'
  BY <1>3, <1>4 DEF KeptApart
<1>6. Followed'
  BY <1>3, <1>4 DEF Followed
<1> QED
  BY <1>2, <1>5, <1>6 DEF OutputInv

(* What holds of a select under way.                                        *)
LEMMA Here ==
  ASSUME OutputInv, NEW t \in Tasks
  PROVE  /\ ~overlapped => ApartAt(t)
         /\ ~overlapped /\ ~lost => FollowsAt(t)
BY DEF OutputInv, KeptApart, Followed

(* What the I2S side does when a select leaves it alone.                    *)
LEMMA I2sAlone ==
  UNCHANGED <<i2sQueue, i2sProvider, running, refused>> => (Provides' <=> Provides) /\ (Runs' <=> Runs)
BY DEF Provides, Runs, On

LEMMA DetachKeeps ==
  ASSUME Typed, OutputInv, NEW t \in Tasks, Detach(t) PROVE OutputInv'
<1>1. SelectsTyped /\ pc[t] = "detach" /\ "suspend" \in Steps /\ UNCHANGED <<overlapped, target>>
  BY StepNames DEF Typed, Detach, At
<1>2. CASE GoTo(t, "suspend") /\ UNCHANGED lost
  <2>1. /\ pc'[t] = "suspend" /\ to' = to /\ back' = back
        /\ \A u \in Tasks \ {t} : pc'[u] = pc[u]
    BY <1>1, <1>2, GoToFacts
  <2>2. \/ back[t] = "bt" /\ btProvider' = FALSE /\ (Provides' <=> Provides) /\ (Runs' <=> Runs)
        \/ back[t] = "i2s" /\ btProvider' = btProvider /\ ~Provides' /\ (Runs' <=> Runs)
    <3>1. CASE back[t] = "bt" /\ btProvider' = FALSE /\ UNCHANGED i2sQueue
      BY <1>1, <3>1, I2sAlone DEF Detach
    <3>2. CASE back[t] = "i2s" /\ SendI2s("detach") /\ UNCHANGED btProvider
      <4>1. UNCHANGED <<i2sProvider, running, refused>>
        BY DEF Detach
      <4> QED
        BY <3>2, <4>1, SendFacts, StepNames
    <3>3. back[t] # "bt" => back[t] = "i2s"
      BY <1>1, StepNames DEF SelectsTyped
    <3> QED
      BY <1>2, <2>1, <1>1, <3>1, <3>2, ReturnFacts DEF Detach
  <2>3. ~overlapped => ApartAt(t)'
    <3>1. ~overlapped => Apart /\ target = back[t] /\ to[t] # back[t]
      BY <1>1, Here DEF ApartAt
    <3>2. Apart /\ target = back[t] => ~btProvider' /\ Apart'
      BY <1>1, <2>2 DEF Apart
    <3> QED
      BY <1>1, <2>1, <3>1, <3>2 DEF ApartAt
  <2>4. ~overlapped /\ ~lost' => FollowsAt(t)'
    <3>1. ~overlapped /\ ~lost' => Exact /\ target = back[t] /\ (to[t] = "bt" => back[t] = "i2s")
      BY <1>1, <1>2, Here DEF ApartAt, FollowsAt
    <3>2. Exact /\ target = back[t] => ~btProvider' /\ ~Provides' /\ (Runs' <=> target' = "i2s")
      BY <1>1, <2>2 DEF Exact
    <3> QED
      BY <2>1, <3>1, <3>2 DEF FollowsAt
  <2> QED
    BY <1>1, <1>2, <2>1, <2>3, <2>4, OneMoves
<1>3. CASE back[t] = "i2s" /\ I2sTimesOut /\ Return(t) /\ lost' = TRUE /\ UNCHANGED btProvider
  <2>1. pc'[t] = "idle" /\ \A u \in Tasks \ {t} : pc'[u] = pc[u]
    BY <1>1, <1>3, ReturnFacts
  <2>2. (Runs' <=> Runs) /\ btProvider' = btProvider
    BY <1>3, I2sAlone DEF Detach, I2sTimesOut
  <2>3. ~overlapped => Apart'
    BY <1>1, <2>2, Here DEF ApartAt, Apart
  <2>4. ApartAt(t)'
    BY <2>1 DEF ApartAt
  <2> QED
    BY <1>1, <1>3, <2>1, <2>3, <2>4, OneMoves
<1> QED
  BY <1>2, <1>3 DEF Detach

LEMMA SuspendKeeps ==
  ASSUME Typed, OutputInv, NEW t \in Tasks, Suspend(t) PROVE OutputInv'
<1>1. /\ SelectsTyped /\ pc[t] = "suspend" /\ "switch" \in Steps
      /\ UNCHANGED <<overlapped, target, btProvider, i2sProvider, running, refused>>
  BY StepNames DEF Typed, Suspend, At
<1>2. CASE GoTo(t, "switch") /\ UNCHANGED lost
  <2>1. /\ pc'[t] = "switch" /\ to' = to /\ back' = back
        /\ \A u \in Tasks \ {t} : pc'[u] = pc[u]
    BY <1>1, <1>2, GoToFacts
  <2>2. \/ back[t] = "bt" /\ (Provides' <=> Provides) /\ (Runs' <=> Runs)
        \/ back[t] = "i2s" /\ (Provides' <=> Provides) /\ ~Runs'
    <3>1. CASE back[t] = "bt" /\ UNCHANGED i2sQueue
      BY <1>1, <3>1, I2sAlone
    <3>2. CASE back[t] = "i2s" /\ SendI2s("suspend")
      BY <1>1, <3>2, SendFacts, StepNames
    <3> QED
      BY <1>2, <2>1, <1>1, <3>1, <3>2, ReturnFacts DEF Suspend
  <2>3. ~overlapped => ApartAt(t)'
    <3>1. ~overlapped => Apart /\ ~btProvider /\ target = back[t] /\ to[t] # back[t]
      BY <1>1, Here DEF ApartAt
    <3>2. Apart /\ ~btProvider /\ target = back[t] => ~btProvider' /\ ~Runs'
      BY <1>1, <2>2 DEF Apart
    <3> QED
      BY <1>1, <2>1, <3>1, <3>2 DEF ApartAt
  <2>4. ~overlapped /\ ~lost' => FollowsAt(t)'
    <3>1. ~overlapped /\ ~lost' => /\ ~btProvider /\ ~Provides /\ (Runs <=> target = "i2s")
                                   /\ target = back[t] /\ (to[t] = "bt" => back[t] = "i2s")
      BY <1>1, <1>2, Here DEF ApartAt, FollowsAt
    <3>2. ~overlapped /\ ~lost' => ~btProvider' /\ ~Provides' /\ ~Runs'
      BY <1>1, <2>2, <3>1
    <3> QED
      BY <2>1, <3>1, <3>2 DEF FollowsAt
  <2> QED
    BY <1>1, <1>2, <2>1, <2>3, <2>4, OneMoves
<1>3. CASE Return(t) /\ lost' = TRUE /\ UNCHANGED i2sQueue
  <2>1. pc'[t] = "idle" /\ \A u \in Tasks \ {t} : pc'[u] = pc[u]
    BY <1>1, <1>3, ReturnFacts
  <2>2. Runs' <=> Runs
    BY <1>1, <1>3, I2sAlone
  <2>3. ~overlapped => Apart'
    BY <1>1, <2>2, Here DEF ApartAt, Apart
  <2>4. ApartAt(t)'
    BY <2>1 DEF ApartAt
  <2> QED
    BY <1>1, <1>3, <2>1, <2>3, <2>4, OneMoves
<1> QED
  BY <1>2, <1>3 DEF Suspend, I2sTimesOut

LEMMA SetTargetKeeps ==
  ASSUME Typed, OutputInv, NEW t \in Tasks, SetTarget(t) PROVE OutputInv'
<1>1. /\ SelectsTyped /\ pc[t] = "switch" /\ target' = to[t] /\ GoTo(t, "attach") /\ "attach" \in Steps
      /\ UNCHANGED <<overlapped, lost, btProvider, i2sQueue, i2sProvider, running, refused>>
  BY StepNames DEF Typed, SetTarget, At, i2sVars, btVars
<1>2. /\ pc'[t] = "attach" /\ to' = to /\ back' = back
      /\ \A u \in Tasks \ {t} : pc'[u] = pc[u]
  BY <1>1, GoToFacts
<1>3. (Provides' <=> Provides) /\ (Runs' <=> Runs) /\ (btProvider' <=> btProvider)
  BY <1>1, I2sAlone
<1>4. ~overlapped => ApartAt(t)'
  BY <1>1, <1>2, <1>3, Here DEF ApartAt
<1>5. ~overlapped /\ ~lost' => FollowsAt(t)'
  BY <1>1, <1>2, <1>3, Here DEF FollowsAt
<1> QED
  BY <1>1, <1>2, <1>4, <1>5, OneMoves

LEMMA AttachKeeps ==
  ASSUME Typed, OutputInv, NEW t \in Tasks, Attach(t) PROVE OutputInv'
<1>1. /\ SelectsTyped /\ pc[t] = "attach" /\ {"check", "start", "fail"} \subseteq Steps
      /\ UNCHANGED <<overlapped, target, i2sProvider, running, refused>>
  BY StepNames DEF Typed, Attach, At
<1>2. CASE to[t] = "bt" /\ btProvider' = TRUE /\ GoTo(t, "check") /\ UNCHANGED <<i2sQueue, lost>>
  <2>1. /\ pc'[t] = "check" /\ to' = to /\ back' = back
        /\ \A u \in Tasks \ {t} : pc'[u] = pc[u]
    BY <1>1, <1>2, GoToFacts
  <2>2. (Provides' <=> Provides) /\ (Runs' <=> Runs) /\ btProvider'
    BY <1>1, <1>2, I2sAlone
  <2>3. ~overlapped => ApartAt(t)'
    BY <1>1, <1>2, <2>1, <2>2, Here DEF ApartAt
  <2>4. ~overlapped /\ ~lost' => FollowsAt(t)'
    BY <1>1, <1>2, <2>1, <2>2, Here DEF FollowsAt
  <2> QED
    BY <1>1, <1>2, <2>1, <2>3, <2>4, OneMoves
<1>3. CASE to[t] = "i2s" /\ SendI2s("attach") /\ GoTo(t, "start") /\ UNCHANGED <<btProvider, lost>>
  <2>1. /\ pc'[t] = "start" /\ to' = to /\ back' = back
        /\ \A u \in Tasks \ {t} : pc'[u] = pc[u]
    BY <1>1, <1>3, GoToFacts
  <2>2. Provides' /\ (Runs' <=> Runs) /\ (btProvider' <=> btProvider)
    BY <1>1, <1>3, SendFacts, StepNames
  <2>3. ~overlapped => ApartAt(t)'
    BY <1>1, <1>3, <2>1, <2>2, Here DEF ApartAt
  <2>4. ~overlapped /\ ~lost' => FollowsAt(t)'
    BY <1>1, <1>3, <2>1, <2>2, Here DEF FollowsAt
  <2> QED
    BY <1>1, <1>3, <2>1, <2>3, <2>4, OneMoves
<1>4. CASE GoTo(t, "fail") /\ lost' = TRUE /\ I2sTimesOut /\ UNCHANGED btProvider
  <2>1. /\ pc'[t] = "fail" /\ to' = to /\ back' = back
        /\ \A u \in Tasks \ {t} : pc'[u] = pc[u]
    BY <1>1, <1>4, GoToFacts
  <2>2. (Runs' <=> Runs) /\ (btProvider' <=> btProvider)
    BY <1>1, <1>4, I2sAlone DEF I2sTimesOut
  <2>3. ~overlapped => ApartAt(t)'
    BY <1>1, <2>1, <2>2, Here DEF ApartAt
  <2> QED
    BY <1>1, <1>4, <2>1, <2>3, OneMoves
<1> QED
  BY <1>2, <1>3, <1>4 DEF Attach

LEMMA CheckKeeps ==
  ASSUME Typed, OutputInv, NEW t \in Tasks, CheckConnected(t) PROVE OutputInv'
<1>1. /\ SelectsTyped /\ pc[t] = "check" /\ to[t] = "bt" /\ {"start", "undo"} \subseteq Steps
      /\ GoTo(t, "start") \/ GoTo(t, "undo")
      /\ UNCHANGED <<overlapped, lost, target, btProvider, i2sQueue, i2sProvider, running, refused>>
  BY StepNames DEF Typed, SelectsTyped, CheckConnected, At, i2sVars, btVars
<1>2. /\ pc'[t] \in {"start", "undo"} /\ to' = to /\ back' = back
      /\ \A u \in Tasks \ {t} : pc'[u] = pc[u]
  BY <1>1, GoToFacts
<1>3. (Provides' <=> Provides) /\ (Runs' <=> Runs) /\ (btProvider' <=> btProvider)
  BY <1>1, I2sAlone
<1>4. ~overlapped => ApartAt(t)'
  BY <1>1, <1>2, <1>3, Here DEF ApartAt
<1>5. ~overlapped /\ ~lost' => FollowsAt(t)'
  BY <1>1, <1>2, <1>3, Here DEF FollowsAt
<1> QED
  BY <1>1, <1>2, <1>4, <1>5, OneMoves

LEMMA StartKeeps ==
  ASSUME Typed, OutputInv, NEW t \in Tasks, StartOutput(t) PROVE OutputInv'
<1>1. /\ SelectsTyped /\ pc[t] = "start" /\ "undo" \in Steps /\ to[t] \in {"bt", "i2s"}
      /\ UNCHANGED <<overlapped, target, btProvider, i2sProvider, running, refused>>
  BY StepNames DEF Typed, SelectsTyped, StartOutput, At
<1>2. CASE Return(t) /\ UNCHANGED lost
  <2>1. pc'[t] = "idle" /\ \A u \in Tasks \ {t} : pc'[u] = pc[u]
    BY <1>1, <1>2, ReturnFacts
  <2>2. \/ to[t] = "bt" /\ (Provides' <=> Provides) /\ (Runs' <=> Runs)
        \/ to[t] = "i2s" /\ (Provides' <=> Provides) /\ Runs'
    <3>1. CASE to[t] = "bt" /\ UNCHANGED i2sQueue
      BY <1>1, <3>1, I2sAlone
    <3>2. CASE to[t] = "i2s" /\ SendI2s("start")
      BY <1>1, <3>2, SendFacts, StepNames
    <3>3. ~GoTo(t, "undo")
      BY <1>1, <2>1, GoToFacts
    <3> QED
      BY <3>1, <3>2, <3>3 DEF StartOutput
  <2>3. btProvider' <=> btProvider
    BY <1>1
  <2>4. ~overlapped => Apart'
    <3>1. ~overlapped => target = to[t] /\ ~Runs /\ (to[t] = "i2s" => ~btProvider)
      BY <1>1, Here DEF ApartAt
    <3> QED
      BY <1>1, <2>2, <2>3, <3>1 DEF Apart
  <2>5. ~overlapped /\ ~lost' => Exact'
    <3>1. ~overlapped /\ ~lost' => /\ target = to[t] /\ (btProvider <=> to[t] = "bt")
                                   /\ (Provides <=> to[t] = "i2s") /\ ~Runs
      BY <1>1, <1>2, Here DEF ApartAt, FollowsAt
    <3> QED
      BY <1>1, <2>2, <2>3, <3>1 DEF Exact
  <2>6. ApartAt(t)' /\ FollowsAt(t)'
    BY <2>1 DEF ApartAt, FollowsAt
  <2> QED
    BY <1>1, <1>2, <2>1, <2>4, <2>5, <2>6, OneMoves
<1>3. CASE GoTo(t, "undo") /\ lost' = TRUE /\ UNCHANGED i2sQueue
  <2>1. /\ pc'[t] = "undo" /\ to' = to /\ back' = back
        /\ \A u \in Tasks \ {t} : pc'[u] = pc[u]
    BY <1>1, <1>3, GoToFacts
  <2>2. (Runs' <=> Runs) /\ (btProvider' <=> btProvider)
    BY <1>1, <1>3, I2sAlone
  <2>3. ~overlapped => ApartAt(t)'
    BY <1>1, <2>1, <2>2, Here DEF ApartAt
  <2> QED
    BY <1>1, <1>3, <2>1, <2>3, OneMoves
<1> QED
  BY <1>2, <1>3 DEF StartOutput, I2sTimesOut

LEMMA UndoKeeps ==
  ASSUME Typed, OutputInv, NEW t \in Tasks, Undo(t) PROVE OutputInv'
<1>1. /\ SelectsTyped /\ pc[t] = "undo" /\ GoTo(t, "fail") /\ "fail" \in Steps
      /\ UNCHANGED <<overlapped, target, i2sProvider, running, refused>>
  BY StepNames DEF Typed, SelectsTyped, Undo, At
<1>2. /\ pc'[t] = "fail" /\ to' = to /\ back' = back
      /\ \A u \in Tasks \ {t} : pc'[u] = pc[u]
  BY <1>1, GoToFacts
<1>3. \/ to[t] = "bt" /\ ~btProvider' /\ (Provides' <=> Provides) /\ (Runs' <=> Runs) /\ lost' = lost
      \/ to[t] = "i2s" /\ (btProvider' <=> btProvider) /\ (Runs' <=> Runs) /\ (lost => lost')
         /\ (lost' \/ ~Provides')
  <2>1. CASE to[t] = "bt" /\ btProvider' = FALSE /\ UNCHANGED <<i2sQueue, lost>>
    BY <1>1, <2>1, I2sAlone
  <2>2. CASE to[t] = "i2s" /\ SendI2s("detach") /\ UNCHANGED <<btProvider, lost>>
    BY <1>1, <2>2, SendFacts, StepNames
  <2>3. CASE to[t] = "i2s" /\ I2sTimesOut /\ lost' = TRUE /\ UNCHANGED btProvider
    BY <1>1, <2>3, I2sAlone DEF I2sTimesOut
  <2> QED
    BY <2>1, <2>2, <2>3 DEF Undo
<1>4. ~overlapped => ApartAt(t)'
  <2>1. ~overlapped => target = to[t] /\ ~Runs /\ (to[t] = "i2s" => ~btProvider)
    BY <1>1, Here DEF ApartAt
  <2>2. ~overlapped => ~btProvider' /\ ~Runs'
    BY <1>3, <2>1
  <2> QED
    BY <1>1, <1>2, <2>1, <2>2 DEF ApartAt
<1>5. ~overlapped /\ ~lost' => FollowsAt(t)'
  <2>1. ~overlapped /\ ~lost' => /\ to[t] = "bt" /\ back[t] = "i2s"
                                 /\ ~Provides /\ ~Runs
    BY <1>1, <1>3, Here DEF FollowsAt
  <2>2. ~overlapped /\ ~lost' => ~btProvider' /\ ~Provides' /\ ~Runs'
    BY <1>3, <2>1
  <2> QED
    BY <1>2, <2>1, <2>2 DEF FollowsAt
<1> QED
  BY <1>1, <1>2, <1>3, <1>4, <1>5, OneMoves

LEMMA RollBackKeeps ==
  ASSUME Typed, OutputInv, NEW t \in Tasks, RollBack(t) PROVE OutputInv'
<1>1. /\ SelectsTyped /\ pc[t] = "fail"
      /\ UNCHANGED <<overlapped, lost, btProvider, i2sQueue, i2sProvider, running, refused>>
  BY DEF Typed, RollBack, At, i2sVars, btVars
<1>2. (Provides' <=> Provides) /\ (Runs' <=> Runs) /\ (btProvider' <=> btProvider)
  BY <1>1, I2sAlone
<1>3. ~overlapped => target = to[t] /\ ~Runs /\ ~btProvider
  BY <1>1, Here DEF ApartAt
<1>4. ~overlapped /\ ~lost => to[t] = "bt" /\ back[t] = "i2s" /\ ~Provides
  BY <1>1, Here DEF FollowsAt
<1>5. CASE RollingBack(t)
  <2>1. Return(t) /\ target' = target
    BY <1>5 DEF RollBack
  <2>2. pc'[t] = "idle" /\ \A u \in Tasks \ {t} : pc'[u] = pc[u]
    BY <1>1, <2>1, ReturnFacts
  <2>3. ~overlapped => Apart'
    BY <1>2, <1>3 DEF Apart
  <2>4. overlapped \/ lost
    BY <1>4, <1>5 DEF RollingBack
  <2>5. ApartAt(t)'
    BY <2>2 DEF ApartAt
  <2> QED
    BY <1>1, <2>2, <2>3, <2>4, <2>5, OneMoves
<1>6. CASE ~RollingBack(t)
  <2>1. /\ target' = back[t] /\ to' = [to EXCEPT ![t] = back[t]] /\ back' = back
        /\ pc' = [pc EXCEPT ![t] = "attach"]
    BY <1>6 DEF RollBack
  <2>2. /\ pc'[t] = "attach" /\ to'[t] = back[t] /\ \A u \in Tasks \ {t} : pc'[u] = pc[u]
    BY <1>1, <2>1 DEF SelectsTyped
  <2>3. ~overlapped => ApartAt(t)'
    BY <1>2, <1>3, <2>1, <2>2 DEF ApartAt
  <2>4. ~overlapped /\ ~lost' => FollowsAt(t)'
    BY <1>1, <1>2, <1>3, <1>4, <2>1, <2>2 DEF FollowsAt
  <2> QED
    BY <1>1, <2>2, <2>3, <2>4, OneMoves
<1> QED
  BY <1>5, <1>6

(* A select that begins finds the outputs settled, or overlaps.             *)
LEMMA SelectKeeps ==
  ASSUME Typed, OutputInv, NEW t \in Tasks, NEW x \in Targets, Select(t, x) PROVE OutputInv'
<1>1. /\ SelectsTyped /\ pc[t] = "idle" /\ x # target /\ target \in {"bt", "i2s"} /\ x \in {"bt", "i2s"}
      /\ pc' = [pc EXCEPT ![t] = "detach"] /\ to' = [to EXCEPT ![t] = x]
      /\ back' = [back EXCEPT ![t] = target]
      /\ UNCHANGED <<target, lost, btProvider, i2sQueue, i2sProvider, running, refused>>
  BY StepNames DEF Typed, SelectsTyped, Select, At, i2sVars, btVars
<1>2. /\ pc'[t] = "detach" /\ to'[t] = x /\ back'[t] = target
      /\ \A u \in Tasks \ {t} : pc'[u] = pc[u]
  BY <1>1 DEF SelectsTyped
<1>3. ~overlapped' => ~overlapped /\ \A u \in Tasks : pc[u] = "idle"
  <2>1. overlapped' = (overlapped \/ \E u \in Tasks \ {t} : pc[u] # "idle")
    BY DEF Select
  <2>2. overlapped' <=> (overlapped \/ \E u \in Tasks \ {t} : pc[u] # "idle")
    BY <2>1, Zenon
  <2> QED
    BY <1>1, <2>2
<1>4. (Provides' <=> Provides) /\ (Runs' <=> Runs) /\ (btProvider' <=> btProvider)
  BY <1>1, I2sAlone
<1>5. \A u \in Tasks : ~overlapped' /\ u # t => pc'[u] = "idle"
  BY <1>2, <1>3
<1>6. ~overlapped' => Apart' /\ (~lost => Exact')
  <2>1. ~overlapped' => Apart /\ (~lost => Exact)
    BY <1>3 DEF OutputInv, KeptApart, Followed, Settled
  <2> QED
    BY <1>1, <1>4, <2>1 DEF Apart, Exact
<1>7. OneSelect'
  BY <1>5 DEF OneSelect
<1>8. ~Settled'
  BY <1>2 DEF Settled
<1>9. ASSUME ~overlapped', NEW u \in Tasks PROVE ApartAt(u)' /\ (~lost => FollowsAt(u)')
  <2>1. CASE u # t
    <3>1. pc'[u] = "idle"
      BY <1>5, <1>9, <2>1
    <3> QED
      BY <3>1 DEF ApartAt, FollowsAt
  <2>2. CASE u = t
    <3>1. pc'[u] = "detach" /\ target' = back'[u] /\ to'[u] # back'[u]
      BY <1>1, <1>2, <2>2
    <3>2. to'[u] = "bt" => back'[u] = "i2s"
      BY <1>1, <1>2, <2>2
    <3>3. ApartAt(u)'
      BY <1>6, <1>9, <3>1 DEF ApartAt
    <3>4. ~lost => FollowsAt(u)'
      BY <1>6, <1>9, <3>1, <3>2 DEF FollowsAt
    <3> QED
      BY <3>3, <3>4
  <2> QED
    BY <2>1, <2>2
<1>10. KeptApart'
  BY <1>8, <1>9 DEF KeptApart
<1>11. Followed'
  BY <1>1, <1>8, <1>9 DEF Followed
<1> QED
  BY <1>7, <1>10, <1>11 DEF OutputInv

(* Steps of the queues and of the stack.                                    *)
LEMMA OutputUnseen ==
  ASSUME OutputInv, UNCHANGED <<target, pc, to, back, btProvider, overlapped>>, lost => lost',
         Provides' <=> Provides, Runs' <=> Runs
  PROVE  OutputInv'
<1>1. (Settled' <=> Settled) /\ (Apart' <=> Apart) /\ (Exact' <=> Exact)
  BY DEF Settled, Apart, Exact
<1>2. OneSelect'
  BY DEF OutputInv, OneSelect
<1>3. ASSUME NEW t \in Tasks PROVE (ApartAt(t)' <=> ApartAt(t)) /\ (FollowsAt(t)' <=> FollowsAt(t))
  BY <1>1 DEF ApartAt, FollowsAt
<1>4. KeptApart'
  BY <1>1, <1>3 DEF OutputInv, KeptApart
<1>5. Followed'
  BY <1>1, <1>3 DEF OutputInv, Followed
<1> QED
  BY <1>2, <1>4, <1>5 DEF OutputInv

LEMMA OutputStep == Typed /\ OutputInv /\ [Next]_vars => OutputInv'
<1> SUFFICES ASSUME Typed, OutputInv, [Next]_vars PROVE OutputInv'
  OBVIOUS
<1>1. ASSUME NEW t \in Tasks, SelectStep(t) PROVE OutputInv'
  BY <1>1, DetachKeeps, SuspendKeeps, SetTargetKeeps, AttachKeeps, CheckKeeps, StartKeeps, UndoKeeps,
     RollBackKeeps DEF SelectStep
<1>2. ASSUME NEW t \in Users, UserSelects(t) PROVE OutputInv'
  BY <1>2, SelectKeeps DEF UserSelects, Tasks
<1>3. ASSUME UNCHANGED <<switchVars, i2sVars, btProvider, overlapped>>, lost => lost' PROVE OutputInv'
  <2>1. (Provides' <=> Provides) /\ (Runs' <=> Runs)
    BY <1>3, I2sAlone DEF i2sVars
  <2> QED
    BY <1>3, <2>1, OutputUnseen DEF switchVars
<1>4. CASE HandleEvent
  <2>1. Wanted(Head(events)) \in Targets /\ EventLoop \in Tasks
    BY DEF Wanted, Targets, Tasks
  <2>2. CASE Select(EventLoop, Wanted(Head(events)))
    BY <2>1, <2>2, SelectKeeps
  <2>3. CASE UNCHANGED <<switchVars, i2sVars, btVars, linkVars, overlapped, lost>>
    BY <1>3, <2>3 DEF btVars
  <2> QED
    BY <1>4, <2>2, <2>3 DEF HandleEvent
<1>5. CASE I2sCommand
  <2>1. UNCHANGED <<target, pc, to, back, btProvider, overlapped>> /\ lost' = lost
    BY <1>5 DEF I2sCommand, switchVars, btVars
  <2> QED
    BY <1>5, <2>1, CommandFacts, OutputUnseen
<1>6. CASE BtControl \/ BtConnection
  BY <1>3, <1>6 DEF BtControl, BtConnection
<1>7. CASE LinkUp \/ LinkDown
  BY <1>3, <1>7 DEF LinkUp, LinkDown, CallBack
<1>8. CASE UNCHANGED vars
  BY <1>3, <1>8 DEF vars, btVars
<1> QED
  BY <1>1, <1>2, <1>4, <1>5, <1>6, <1>7, <1>8 DEF Next

(* With no command waiting, what the I2S task will have it has.             *)
LEMMA NoCommands ==
  i2sQueue = <<>> => (Provides <=> i2sProvider) /\ (Runs <=> On)
BY DEF Provides, Runs, Ordered, Has

(* After every select that nothing disturbed, rolled back or not, the PCM   *)
(* provider is with the target's output alone, and I2S runs exactly when it *)
(* is the target and its channel could be enabled.                          *)
THEOREM FollowsTheTarget == Spec => []FollowsTarget
<1>1. Init => Typed /\ Flags /\ Tried /\ OutputInv
  BY TypedInit, TriedInit, OutputInit
<1>2. Typed /\ Flags /\ Tried /\ OutputInv /\ [Next]_vars => Typed' /\ Flags' /\ Tried' /\ OutputInv'
  BY TypedStep, FlagsStep, TriedStep, OutputStep
<1>3. Flags /\ Tried /\ OutputInv => FollowsTarget
  <2> SUFFICES ASSUME Flags, Tried, OutputInv, Quiet, ~overlapped, ~lost
      PROVE  /\ btProvider = (target = "bt")
             /\ i2sProvider = (target = "i2s")
             /\ running = (target = "i2s" /\ ~refused)
    BY Zenon DEF FollowsTarget
  <2>1. /\ btProvider <=> target = "bt"
        /\ i2sProvider <=> target = "i2s"
        /\ On <=> target = "i2s"
    BY NoCommands DEF OutputInv, Followed, Exact, Quiet
  <2>2. running <=> target = "i2s" /\ ~refused
    BY <2>1 DEF On, Tried
  <2> QED
    BY <2>1, <2>2, Zenon DEF Flags
<1> QED
  BY <1>1, <1>2, <1>3, PTL DEF Spec

(* Whatever sends failed on the way, the two outputs do not both draw PCM   *)
(* from the player's stream buffer, unless selects of two tasks overlapped. *)
THEOREM OneDraws == Spec => []OneOutput
<1>1. Init => Typed /\ OutputInv
  BY TypedInit, OutputInit
<1>2. Typed /\ OutputInv /\ [Next]_vars => Typed' /\ OutputInv'
  BY TypedStep, OutputStep
<1>3. Typed /\ OutputInv => OneOutput
  <2> SUFFICES ASSUME Typed, OutputInv, Quiet, ~overlapped, i2sProvider, running, btProvider, streaming
      PROVE  FALSE
    BY DEF OneOutput
  <2>1. Runs /\ Apart
    BY NoCommands DEF On, OutputInv, KeptApart, Quiet
  <2>2. target \in {"bt", "i2s"}
    BY StepNames DEF Typed, SelectsTyped
  <2> QED
    BY <2>1, <2>2 DEF Apart
<1> QED
  BY <1>1, <1>2, <1>3, PTL DEF Spec

================================================================================
