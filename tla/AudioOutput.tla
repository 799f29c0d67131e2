------------------------------ MODULE AudioOutput ------------------------------
(***************************************************************************)
(* Where the sound goes: main/audio_output_switch.c over                   *)
(* main/i2s_service.c and the A2DP part of main/bluetooth_service.c.       *)
(*                                                                         *)
(* audio_output_switch_select moves the PCM provider from one output to    *)
(* the other in several calls, without a lock.  It runs in the event-loop  *)
(* task, when an A2DP connection comes or goes, and in the tasks of the    *)
(* console and the companion.  The I2S task learns of it through a queue   *)
(* of commands; Bluetooth's provider changes at once, but starting and     *)
(* suspending its stream goes through the queue of the main loop, in which *)
(* the Bluetooth stack's callbacks wait too.  A callback that finds that   *)
(* queue full is lost, and so is an event that finds its queue full.       *)
(*                                                                         *)
(* The stack itself is external: its link comes and goes, and it pulls PCM *)
(* while its stream runs.                                                  *)
(***************************************************************************)
EXTENDS Integers, Sequences

CONSTANTS
  EventLoop, Users,              \* tasks that select
  BtDepth, EventDepth, I2sDepth, \* the queues' lengths
  MayTimeOut                     \* bound: may a send that finds a queue full fail

Tasks == {EventLoop} \cup Users

ASSUME AudioOutputAssumption ==
  /\ EventLoop \notin Users
  /\ BtDepth \in Nat \ {0} /\ EventDepth \in Nat \ {0}
  /\ I2sDepth \in Nat \ {0, 1}    \* room for the two commands of main
  /\ MayTimeOut \in BOOLEAN

VARIABLES
  target,                        \* s_target
  pc, to, back,                  \* audio_output_switch_select in each task: its
                                 \* next step, its argument, previous_target
  i2sQueue, i2sProvider, running,\* the I2S task
  refused,                       \* history: its channel could not be enabled when it was
                                 \* last told to start
  btQueue, btProvider, connected,\* the Bluetooth service
  events,                        \* A2DP_CONNECTION_STATE events that wait
  link, streaming,               \* the Bluetooth stack
  overlapped,                    \* history: two selects have run at the same time
  lost                           \* history: a callback, event or command was lost

switchVars == <<target, pc, to, back>>
i2sVars    == <<i2sQueue, i2sProvider, running, refused>>
btVars     == <<btQueue, btProvider, connected>>
linkVars   == <<link, streaming>>
vars == <<switchVars, i2sVars, btVars, events, linkVars, overlapped, lost>>

Targets == {"bt", "i2s"}

(* main: the provider has been set and I2S selected.                         *)
Init ==
  /\ target = "i2s"
  /\ pc = [t \in Tasks |-> "idle"]
  /\ to = [t \in Tasks |-> "i2s"] /\ back = [t \in Tasks |-> "i2s"]
  /\ i2sQueue = <<"attach", "start">> /\ i2sProvider = FALSE
  /\ running = FALSE /\ refused = FALSE
  /\ btQueue = <<>> /\ btProvider = FALSE /\ connected = FALSE
  /\ events = <<>>
  /\ link = FALSE /\ streaming = FALSE
  /\ overlapped = FALSE /\ lost = FALSE

-----------------------------------------------------------------------------
(* Sending to the two queues: a send waits for room, up to 1 s or 5 ms.      *)

SendI2s(cmd) == Len(i2sQueue) < I2sDepth /\ i2sQueue' = Append(i2sQueue, cmd)

SendBt(cmd)  == Len(btQueue) < BtDepth /\ btQueue' = Append(btQueue, cmd)

I2sTimesOut  == MayTimeOut /\ Len(i2sQueue) = I2sDepth /\ UNCHANGED i2sQueue

BtTimesOut   == MayTimeOut /\ Len(btQueue) = BtDepth /\ UNCHANGED btQueue

(* Mutant: a callback finds room in a full queue.                            *)
CallBackAlways(msg) == btQueue' = Append(btQueue, msg) /\ UNCHANGED lost

(* A callback of the stack does not wait.                                    *)
CallBack(msg) ==
  IF Len(btQueue) < BtDepth THEN btQueue' = Append(btQueue, msg) /\ UNCHANGED lost
                            ELSE lost' = TRUE /\ UNCHANGED btQueue

-----------------------------------------------------------------------------
(* audio_output_switch_select *)

At(t, step)   == pc[t] = step
GoTo(t, step) == pc' = [pc EXCEPT ![t] = step] /\ UNCHANGED <<to, back>>

(* The locals of a select that returns are gone.                             *)
Return(t) ==
  /\ pc' = [pc EXCEPT ![t] = "idle"]
  /\ to' = [to EXCEPT ![t] = "i2s"] /\ back' = [back EXCEPT ![t] = "i2s"]

(* A select that does something, not one for the present target or for a     *)
(* Bluetooth output that is not connected.                                   *)
Select(t, x) ==
  /\ At(t, "idle") /\ x # target
  /\ x = "bt" => connected
  /\ pc' = [pc EXCEPT ![t] = "detach"]
  /\ to' = [to EXCEPT ![t] = x] /\ back' = [back EXCEPT ![t] = target]
  /\ overlapped' = (overlapped \/ \E u \in Tasks \ {t} : pc[u] # "idle")
  /\ UNCHANGED <<target, i2sVars, btVars, linkVars, lost>>

(* Mutant: the old output's Bluetooth provider is not taken away.            *)
DetachI2sOnly(t) ==
  /\ At(t, "detach")
  /\ IF back[t] = "i2s" THEN SendI2s("detach") ELSE UNCHANGED i2sQueue
  /\ GoTo(t, "suspend")
  /\ UNCHANGED <<target, i2sProvider, running, refused, btVars, events, linkVars, overlapped,
                 lost>>

(* audio_output_switch_unregister_target: the provider, then the stream.  An *)
(* error ends the select.                                                    *)
Detach(t) ==
  /\ At(t, "detach")
  /\ \/ /\ back[t] = "bt"
        /\ btProvider' = FALSE
        /\ GoTo(t, "suspend")
        /\ UNCHANGED <<i2sQueue, lost>>
     \/ /\ back[t] = "i2s" /\ SendI2s("detach")
        /\ GoTo(t, "suspend")
        /\ UNCHANGED <<btProvider, lost>>
     \/ /\ back[t] = "i2s" /\ I2sTimesOut
        /\ Return(t)
        /\ lost' = TRUE
        /\ UNCHANGED btProvider
  /\ UNCHANGED <<target, i2sProvider, running, refused, btQueue, connected, events,
                 linkVars, overlapped>>

Suspend(t) ==
  /\ At(t, "suspend")
  /\ \/ /\ back[t] = "bt"  /\ SendBt("suspend") /\ UNCHANGED i2sQueue
        /\ GoTo(t, "switch") /\ UNCHANGED lost
     \/ /\ back[t] = "i2s" /\ SendI2s("suspend") /\ UNCHANGED btQueue
        /\ GoTo(t, "switch") /\ UNCHANGED lost
     \/ /\ \/ back[t] = "bt" /\ BtTimesOut /\ UNCHANGED i2sQueue
           \/ back[t] = "i2s" /\ I2sTimesOut /\ UNCHANGED btQueue
        /\ Return(t) /\ lost' = TRUE
  /\ UNCHANGED <<target, i2sProvider, running, refused, btProvider, connected, events,
                 linkVars, overlapped>>

SetTarget(t) ==
  /\ At(t, "switch")
  /\ target' = to[t]
  /\ GoTo(t, "attach")
  /\ UNCHANGED <<i2sVars, btVars, events, linkVars, overlapped, lost>>

(* audio_output_switch_register_target of the new target or, in a rollback,  *)
(* of the previous one.                                                      *)
RollingBack(t) == to[t] = back[t]

Attach(t) ==
  /\ At(t, "attach")
  /\ \/ /\ to[t] = "bt"
        /\ btProvider' = TRUE
        /\ GoTo(t, "check")
        /\ UNCHANGED <<i2sQueue, lost>>
     \/ /\ to[t] = "i2s" /\ SendI2s("attach")
        /\ GoTo(t, "start")
        /\ UNCHANGED <<btProvider, lost>>
     \/ /\ to[t] = "i2s" /\ I2sTimesOut
        /\ GoTo(t, "fail")
        /\ lost' = TRUE
        /\ UNCHANGED btProvider
  /\ UNCHANGED <<target, i2sProvider, running, refused, btQueue, connected, events,
                 linkVars, overlapped>>

(* Mutant: the connection is not looked at again.                            *)
CheckNothing(t) ==
  /\ At(t, "check")
  /\ GoTo(t, "start")
  /\ UNCHANGED <<target, i2sVars, btVars, events, linkVars, overlapped, lost>>

CheckConnected(t) ==
  /\ At(t, "check")
  /\ GoTo(t, IF connected THEN "start" ELSE "undo")
  /\ UNCHANGED <<target, i2sVars, btVars, events, linkVars, overlapped, lost>>

StartOutput(t) ==
  /\ At(t, "start")
  /\ \/ /\ to[t] = "bt" /\ SendBt("start") /\ UNCHANGED i2sQueue
        /\ Return(t) /\ UNCHANGED lost
     \/ /\ to[t] = "i2s" /\ SendI2s("start") /\ UNCHANGED btQueue
        /\ Return(t) /\ UNCHANGED lost
     \/ /\ \/ to[t] = "bt" /\ BtTimesOut /\ UNCHANGED i2sQueue
           \/ to[t] = "i2s" /\ I2sTimesOut /\ UNCHANGED btQueue
        /\ GoTo(t, "undo") /\ lost' = TRUE
  /\ UNCHANGED <<target, i2sProvider, running, refused, btProvider, connected, events,
                 linkVars, overlapped>>

(* Mutant: the provider stays with an output that did not start.             *)
UndoNothing(t) ==
  /\ At(t, "undo")
  /\ GoTo(t, "fail")
  /\ UNCHANGED <<target, i2sVars, btVars, events, linkVars, overlapped, lost>>

(* register_fn(NULL, NULL) of an output that did not start; its result is    *)
(* not looked at.                                                            *)
Undo(t) ==
  /\ At(t, "undo")
  /\ GoTo(t, "fail")
  /\ \/ /\ to[t] = "bt"
        /\ btProvider' = FALSE
        /\ UNCHANGED <<i2sQueue, lost>>
     \/ to[t] = "i2s" /\ SendI2s("detach") /\ UNCHANGED <<btProvider, lost>>
     \/ to[t] = "i2s" /\ I2sTimesOut /\ lost' = TRUE /\ UNCHANGED btProvider
  /\ UNCHANGED <<target, i2sProvider, running, refused, btQueue, connected, events,
                 linkVars, overlapped>>

(* The previous target is restored and registered once.                      *)
RollBack(t) ==
  /\ At(t, "fail")
  /\ IF RollingBack(t)
     THEN Return(t) /\ UNCHANGED target
     ELSE /\ target' = back[t]
          /\ to' = [to EXCEPT ![t] = back[t]]
          /\ pc' = [pc EXCEPT ![t] = "attach"]
          /\ UNCHANGED back
  /\ UNCHANGED <<i2sVars, btVars, events, linkVars, overlapped, lost>>

SelectStep(t) ==
  \/ Detach(t) \/ Suspend(t) \/ SetTarget(t)
  \/ Attach(t) \/ CheckConnected(t) \/ StartOutput(t) \/ Undo(t) \/ RollBack(t)

(* A person chooses an output.                                               *)
UserSelects(t) == \E x \in Targets : Select(t, x) /\ UNCHANGED events

(* audio_output_switch_on_bt_event: Bluetooth when it connects, I2S when it  *)
(* disconnects.                                                              *)
Wanted(e) == IF e = "up" THEN "bt" ELSE "i2s"

HandleEvent ==
  /\ At(EventLoop, "idle") /\ events # <<>>
  /\ events' = Tail(events)
  /\ LET x == Wanted(Head(events))
     IN IF target # x /\ (x = "bt" => connected)
        THEN Select(EventLoop, x)
        ELSE UNCHANGED <<switchVars, i2sVars, btVars, linkVars, overlapped, lost>>

-----------------------------------------------------------------------------
(* The I2S task drains its commands before each write.  i2s_channel_enable   *)
(* may fail, and is not tried again before the next command to start.        *)
Started ==
  \/ running' = TRUE /\ refused' = FALSE
  \/ ~running /\ refused' = TRUE /\ UNCHANGED running

I2sCommand ==
  /\ i2sQueue # <<>>
  /\ i2sQueue' = Tail(i2sQueue)
  /\ LET cmd == Head(i2sQueue)
     IN /\ \/ cmd = "start" /\ Started
           \/ cmd = "suspend" /\ running' = FALSE /\ refused' = FALSE
           \/ cmd \in {"attach", "detach"} /\ UNCHANGED <<running, refused>>
        /\ i2sProvider' = IF cmd \in {"attach", "detach"} THEN cmd = "attach" ELSE i2sProvider
  /\ UNCHANGED <<switchVars, btVars, events, linkVars, overlapped, lost>>

(* bt_svc_process_msg in the main loop.                                      *)
BtControl ==
  /\ btQueue # <<>> /\ Head(btQueue) \in {"start", "suspend"}
  /\ btQueue' = Tail(btQueue)
  /\ streaming' = (link /\ Head(btQueue) = "start")
  /\ UNCHANGED <<switchVars, i2sVars, btProvider, connected, events, link, overlapped, lost>>

BtConnection ==
  /\ btQueue # <<>> /\ Head(btQueue) \in {"up", "down"}
  /\ btQueue' = Tail(btQueue)
  /\ connected' = (Head(btQueue) = "up")
  /\ IF Len(events) < EventDepth THEN events' = Append(events, Head(btQueue)) /\ UNCHANGED lost
                                 ELSE lost' = TRUE /\ UNCHANGED events
  /\ UNCHANGED <<switchVars, i2sVars, btProvider, linkVars, overlapped>>

(* The stack: a speaker connects or goes away, by itself or because the      *)
(* device asked for it.                                                      *)
LinkUp ==
  /\ ~link /\ link' = TRUE
  /\ CallBack("up")
  /\ UNCHANGED <<switchVars, i2sVars, btProvider, connected, events, streaming, overlapped>>

LinkDown ==
  /\ link /\ link' = FALSE /\ streaming' = FALSE
  /\ CallBack("down")
  /\ UNCHANGED <<switchVars, i2sVars, btProvider, connected, events, overlapped>>

Next ==
  \/ \E t \in Tasks : SelectStep(t)
  \/ \E t \in Users : UserSelects(t)
  \/ HandleEvent
  \/ I2sCommand \/ BtControl \/ BtConnection
  \/ LinkUp \/ LinkDown

Spec == Init /\ [][Next]_vars

(* All tasks run.                                                            *)
Fairness ==
  /\ \A t \in Tasks : WF_vars(SelectStep(t))
  /\ WF_vars(HandleEvent)
  /\ WF_vars(I2sCommand)
  /\ WF_vars(BtControl \/ BtConnection)

FairSpec == Spec /\ Fairness

-----------------------------------------------------------------------------
(* Properties *)

Steps == {"idle", "detach", "suspend", "switch", "attach", "check", "start", "undo", "fail"}

(* The state's shape; only a select of Bluetooth asks whether it is          *)
(* connected, and the stream runs only over a link.                          *)
TypeOK ==
  /\ target \in Targets
  /\ pc \in [Tasks -> Steps] /\ to \in [Tasks -> Targets] /\ back \in [Tasks -> Targets]
  /\ i2sQueue \in Seq({"attach", "detach", "start", "suspend"}) /\ Len(i2sQueue) <= I2sDepth
  /\ i2sProvider \in BOOLEAN /\ running \in BOOLEAN /\ refused \in BOOLEAN
  /\ btQueue \in Seq({"start", "suspend", "up", "down"}) /\ Len(btQueue) <= BtDepth
  /\ btProvider \in BOOLEAN /\ connected \in BOOLEAN
  /\ events \in Seq({"up", "down"}) /\ Len(events) <= EventDepth
  /\ link \in BOOLEAN /\ streaming \in BOOLEAN /\ (streaming => link)
  /\ overlapped \in BOOLEAN /\ lost \in BOOLEAN
  /\ \A t \in Tasks : pc[t] = "check" => to[t] = "bt"

Settled == \A t \in Tasks : pc[t] = "idle"
Quiet   == Settled /\ i2sQueue = <<>>

(* When no select is under way and the I2S task has seen its commands, the   *)
(* provider is with the target's output and with no other, and I2S runs      *)
(* exactly when it is the target and its channel could be enabled: also      *)
(* after a select that found the speaker gone half way and rolled back.  It  *)
(* is not so after selects of two tasks ran at the same time, or after a     *)
(* command, callback or event was lost.                                      *)
FollowsTarget ==
  Quiet /\ ~overlapped /\ ~lost =>
    /\ btProvider = (target = "bt")
    /\ i2sProvider = (target = "i2s")
    /\ running = (target = "i2s" /\ ~refused)

(* The provider reads a stream buffer, which one task at a time may do.  The *)
(* two outputs do not both draw from it, whatever sends failed on the way,   *)
(* unless selects of two tasks ran at the same time.                         *)
OneOutput ==
  Quiet /\ ~overlapped => ~(i2sProvider /\ running /\ btProvider /\ streaming)

(* A speaker that goes away leaves the sound on I2S, whatever selects run    *)
(* just then, if no callback, event or command is lost.                      *)
FallsBack == target = "bt" /\ ~link ~> target = "i2s" \/ link \/ lost

=============================================================================
