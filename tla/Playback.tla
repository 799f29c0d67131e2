------------------------------- MODULE Playback -------------------------------
(***************************************************************************)
(* What the playback pipeline of main/player_service.c promises to the     *)
(* code that starts and stops tracks: one session at a time.               *)
(*                                                                         *)
(* A session plays one track from one chunk on, chunk by chunk.  It ends   *)
(* after the track's last chunk, or earlier when it was cancelled; only    *)
(* then can the next one start.  Between sessions the position belongs to  *)
(* whoever restores it.  Queues, buffers, tasks and generations are the    *)
(* pipeline's own affair.                                                  *)
(***************************************************************************)
EXTENDS Integers

CONSTANTS
  Tracks,     \* the playlist
  LastChunk   \* number of a track's last chunk

VARIABLES running, cancelled, session, track, at

vars == <<running, cancelled, session, track, at>>

Positions == 0 .. LastChunk

Init ==
  /\ running = FALSE /\ cancelled = FALSE
  /\ session = 0
  /\ track \in Tracks /\ at \in Positions

Start ==
  /\ ~running /\ running' = TRUE
  /\ cancelled' = FALSE
  /\ session' = session + 1
  /\ track' \in Tracks /\ at' \in Positions

PlayOn ==
  /\ running /\ at < LastChunk
  /\ at' = at + 1
  /\ UNCHANGED <<running, cancelled, session, track>>

Cancel ==
  /\ running /\ cancelled' = TRUE
  /\ UNCHANGED <<running, session, track, at>>

End ==
  /\ running /\ running' = FALSE
  /\ cancelled \/ at = LastChunk
  /\ UNCHANGED <<cancelled, session, track, at>>

Restore ==
  /\ ~running
  /\ track' \in Tracks /\ at' \in Positions
  /\ cancelled' = FALSE
  /\ UNCHANGED <<running, session>>

Next == Start \/ PlayOn \/ Cancel \/ End \/ Restore

Spec == Init /\ [][Next]_vars

=============================================================================
