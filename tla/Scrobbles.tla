------------------------------- MODULE Scrobbles -------------------------------
(***************************************************************************)
(* The queue of scrobbles of main/lastfm_service.c.                        *)
(*                                                                         *)
(* Every listen the play history counts is put into                        *)
(* lastfm_cmd_scrobble_queue; commands go into lastfm_cmd_queue.  Both are *)
(* members of a FreeRTOS queue set: a send to a member adds one entry to   *)
(* the set, and the Last.fm task, once it is online, sleeps on the set     *)
(* and takes from the member whose entry it got.  The set is right only as *)
(* long as entries and items are taken together, which the task does not   *)
(* do while offline, nor the senders when a queue is full.                 *)
(*                                                                         *)
(* A scrobble is its listen's number, so the queue's order and what became *)
(* of each listen can be told.  The set is kept as the number of entries   *)
(* of either queue; it hands them out oldest first, which the fairness of  *)
(* SelectScrobble stands for.                                              *)
(***************************************************************************)
EXTENDS Integers, Sequences

CONSTANTS
  QueueLength,   \* LASTFM_SERVICE_SCROBBLE_QUEUE_LENGTH
  CmdLength,     \* LASTFM_SERVICE_CMD_QUEUE_LENGTH
  MaxListens,    \* bound: listens counted
  Scrobbling,    \* bound: may scrobbling be switched on
  None           \* no scrobble in hand

SetLength == QueueLength + CmdLength
Listens   == 1 .. MaxListens

ASSUME ScrobblesAssumption ==
  /\ QueueLength \in Nat \ {0}
  /\ CmdLength \in Nat \ {0}
  /\ MaxListens \in Nat
  /\ Scrobbling \in BOOLEAN
  /\ None \notin Listens

VARIABLES
  scrobbles, cmds,        \* the two queues; the commands are only counted
  scrobbleReady, cmdReady,\* entries of the queue set
  online,                 \* wifi_service_has_internet
  able,                   \* has_auth, has_session and a clock that is set
  enabled,                \* lastfm_scrobbling_enabled
  task, inHand,           \* the Last.fm task and the scrobble it works on
  panicked,               \* configASSERT failed, the chip resets
  missed,                 \* history: since the queue was last empty an entry was
                          \* taken and its scrobble left
  acked                   \* history: listens the server is known to have taken

queueVars   == <<scrobbles, scrobbleReady, cmds, cmdReady, panicked>>
setVars     == <<cmds, cmdReady>>
envVars     == <<online, able, enabled>>
taskVars    == <<task, inHand>>
scrobbleVars == <<queueVars, envVars, taskVars, missed, acked>>

Running(pc) == ~panicked /\ task = pc

(* prvNotifyQueueSetContainer: one more entry, or the assertion fails when   *)
(* the set is full.                                                          *)
SetFull == scrobbleReady + cmdReady >= SetLength

(* Mutant: the queue is taken for full one scrobble too late.                *)
QueueFullLate == Len(scrobbles) > QueueLength

QueueFull == Len(scrobbles) = QueueLength

NotifyScrobble == IF SetFull THEN panicked' = TRUE /\ UNCHANGED scrobbleReady
                             ELSE scrobbleReady' = scrobbleReady + 1 /\ UNCHANGED panicked

NotifyCmd == IF SetFull THEN panicked' = TRUE /\ UNCHANGED cmdReady
                        ELSE cmdReady' = cmdReady + 1 /\ UNCHANGED panicked

-----------------------------------------------------------------------------
(* Senders *)

(* lastfm_service_send_scrobble, called by the main loop.  A full queue      *)
(* loses its oldest scrobble, whose entry stays in the set.                  *)
SendScrobble(l) ==
  /\ ~panicked
  /\ IF ~enabled
     THEN UNCHANGED <<scrobbles, scrobbleReady, panicked>>
     ELSE /\ NotifyScrobble
          /\ scrobbles' = Append(IF QueueFull THEN Tail(scrobbles) ELSE scrobbles, l)
  /\ UNCHANGED <<setVars, envVars, taskVars, missed, acked>>

(* The mutex of the queue was not free for 50 ms: the listen is not queued.  *)
SendTimesOut ==
  /\ ~panicked
  /\ UNCHANGED <<queueVars, envVars, taskVars, missed, acked>>

(* lastfm_service_enqueue_command, called by the timers for now-playing      *)
(* updates, the console and the companion; it does not wait.                 *)
SendCommand ==
  /\ ~panicked /\ cmds < CmdLength
  /\ cmds' = cmds + 1
  /\ NotifyCmd
  /\ UNCHANGED <<scrobbles, scrobbleReady, envVars, taskVars, missed, acked>>

-----------------------------------------------------------------------------
(* The Last.fm task *)

(* Mutant: offline, an entry is taken from the set instead of a command.     *)
OfflineSelect ==
  /\ Running("loop") /\ ~online /\ scrobbleReady > 0
  /\ scrobbleReady' = scrobbleReady - 1
  /\ UNCHANGED <<scrobbles, setVars, panicked, envVars, taskVars, missed, acked>>

(* Offline, commands are received without asking the set.                    *)
OfflineCommand ==
  /\ Running("loop") /\ ~online /\ cmds > 0
  /\ cmds' = cmds - 1
  /\ UNCHANGED <<scrobbles, scrobbleReady, cmdReady, panicked, envVars, taskVars,
                 missed, acked>>

GoOnline ==
  /\ Running("loop") /\ online
  /\ task' = "select"
  /\ UNCHANGED <<queueVars, envVars, inHand, missed, acked>>

(* The set's entry may be of a command that is gone already.                 *)
SelectCommand ==
  /\ Running("select") /\ cmdReady > 0
  /\ cmdReady' = cmdReady - 1
  /\ cmds' = IF cmds > 0 THEN cmds - 1 ELSE cmds
  /\ task' = "loop"
  /\ UNCHANGED <<scrobbles, scrobbleReady, panicked, envVars, inHand, missed, acked>>

SelectScrobble ==
  /\ Running("select") /\ scrobbleReady > 0
  /\ scrobbleReady' = scrobbleReady - 1
  /\ task' = "selected"
  /\ UNCHANGED <<scrobbles, setVars, panicked, envVars, inHand, missed, acked>>

(* The task goes round again when the connection was lost meanwhile, or when *)
(* it cannot have the mutex: the scrobble stays, its entry does not.         *)
LeaveScrobble ==
  /\ Running("selected")
  /\ task' = "loop"
  /\ missed' = (scrobbles # <<>>)
  /\ UNCHANGED <<queueVars, envVars, inHand, acked>>

LostConnection == ~online /\ LeaveScrobble

ReceiveTimesOut == online /\ LeaveScrobble

Receive ==
  /\ Running("selected") /\ online
  /\ IF scrobbles = <<>>
     THEN task' = "loop" /\ UNCHANGED <<scrobbles, inHand>>
     ELSE task' = "process" /\ inHand' = Head(scrobbles) /\ scrobbles' = Tail(scrobbles)
  /\ missed' = (missed /\ Len(scrobbles) > 1)
  /\ UNCHANGED <<scrobbleReady, setVars, panicked, envVars, acked>>

(* lastfm_service_process_scrobble_payload: disabled meanwhile, or with a    *)
(* track whose names are not found (resolved is false) or offline again, or  *)
(* ready to be sent.                                                         *)
Consume ==
  /\ Running("process") /\ ~enabled
  /\ task' = "loop" /\ inHand' = None
  /\ UNCHANGED <<queueVars, envVars, missed, acked>>

Process(resolved) ==
  /\ Running("process") /\ enabled
  /\ task' = IF resolved /\ online THEN "send" ELSE "requeue"
  /\ UNCHANGED <<queueVars, envVars, inHand, missed, acked>>

(* lastfm_scrobble, which asks the server only if it is able to.  A request  *)
(* that fails may still have reached the server, which then gets the listen  *)
(* twice; the device cannot tell.                                            *)
Sent ==
  /\ Running("send") /\ able
  /\ acked' = acked \cup {inHand}
  /\ task' = "loop" /\ inHand' = None
  /\ UNCHANGED <<queueVars, envVars, missed>>

SendFails ==
  /\ Running("send")
  /\ task' = "requeue"
  /\ UNCHANGED <<queueVars, envVars, inHand, missed, acked>>

(* Mutant: a scrobble is put back at the end.                                *)
Behind(s, l) == Append(s, l)

Before(s, l) == <<l>> \o s

(* lastfm_service_requeue_scrobble: back to the front, in place of the       *)
(* oldest one when the queue is full.                                        *)
Requeue ==
  /\ Running("requeue")
  /\ NotifyScrobble
  /\ scrobbles' = Before(IF QueueFull THEN Tail(scrobbles) ELSE scrobbles, inHand)
  /\ task' = "loop" /\ inHand' = None
  /\ UNCHANGED <<setVars, envVars, missed, acked>>

RequeueTimesOut ==
  /\ Running("requeue")
  /\ task' = "loop" /\ inHand' = None
  /\ UNCHANGED <<queueVars, envVars, missed, acked>>

-----------------------------------------------------------------------------
(* Around it *)

(* The connection comes and goes.                                            *)
ConnectionChanges ==
  /\ ~panicked
  /\ online' = ~online
  /\ UNCHANGED <<queueVars, able, enabled, taskVars, missed, acked>>

(* The session and the URL are stored or cleared, and the clock is set.      *)
AbilityChanges ==
  /\ ~panicked
  /\ able' = ~able
  /\ UNCHANGED <<queueVars, online, enabled, taskVars, missed, acked>>

(* lastfm_service_set_scrobbling_enabled.                                    *)
SetEnabled ==
  /\ ~panicked /\ Scrobbling
  /\ enabled' = ~enabled
  /\ UNCHANGED <<queueVars, online, able, taskVars, missed, acked>>

Waiting == {scrobbles[i] : i \in DOMAIN scrobbles} \cup ({inHand} \ {None})

(* A restart, after a failed assertion or any other: the queues are in RAM.  *)
ScrobblesReset ==
  /\ scrobbles' = <<>> /\ scrobbleReady' = 0
  /\ cmds' = 0 /\ cmdReady' = 0
  /\ panicked' = FALSE
  /\ task' = "loop" /\ inHand' = None
  /\ online' = FALSE /\ able' = FALSE
  /\ missed' = FALSE
  /\ UNCHANGED <<enabled, acked>>

ScrobblesInit ==
  /\ scrobbles = <<>> /\ scrobbleReady = 0
  /\ cmds = 0 /\ cmdReady = 0
  /\ panicked = FALSE
  /\ online = FALSE /\ able = FALSE /\ enabled = Scrobbling
  /\ task = "loop" /\ inHand = None
  /\ missed = FALSE
  /\ acked = {}

=============================================================================
