---------------------------- MODULE PlayerControl ----------------------------
(***************************************************************************)
(* The control logic of main/player_service.c: which track and which       *)
(* second the player goes to next.                                         *)
(*                                                                         *)
(*   player_svc   NEXT, PREVIOUS, PLAY_INDEX, the seeks, PAUSE, automatic  *)
(*                advance, insertion and removal of the cartridge          *)
(*   Setters      tasks that call player_service_set_playback_mode         *)
(*                (console, companion API, script): the mode is changed    *)
(*                and the shuffle order rebuilt in the caller's task,      *)
(*                without a lock                                           *)
(*                                                                         *)
(* The pipeline (module PlayerPipeline) appears by what it promises: chunks *)
(* are decoded one after the other, the end of the track is reported once, *)
(* and a stop ends.  A handler that stops the pipeline is two steps, since *)
(* the decoder and the setters run on while the service waits.             *)
(***************************************************************************)
EXTENDS Integers, FiniteSets

CONSTANTS
  TrackCount,       \* tracks on the cartridge
  LookupLen,        \* seconds (chunks) of a track
  RestartSeconds,   \* PLAYER_SVC_PREVIOUS_RESTART_SECONDS
  FastSeekSeconds,  \* PLAYER_SVC_FAST_SEEK_SECONDS
  Setters,          \* tasks that set the playback mode
  Undisturbed       \* TRUE: no other task runs while a shuffle order is
                    \* built (an assumption; the code takes no lock)

ASSUME ControlAssumption ==
  /\ TrackCount \in Nat \ {0}
  /\ LookupLen \in Nat \ {0}
  /\ RestartSeconds \in Nat
  /\ FastSeekSeconds \in Nat \ {0}
  /\ "svc" \notin Setters
  /\ Undisturbed \in BOOLEAN

Tracks   == 0 .. TrackCount - 1
Chunks   == 0 .. LookupLen - 1
Builders == Setters \cup {"svc"}
Modes    == {"sequential", "single_repeat", "shuffle"}
NoPos    == -1      \* s_shuffle_position == SIZE_MAX

VARIABLES
  mode,            \* s_playback_mode
  order, pos,      \* s_shuffle_order, s_shuffle_position
  hasPlaylist,     \* s_playlist_count > 0, s_shuffle_order not NULL
  index,           \* s_playlist_index
  loaded,          \* s_track_info.lookup_table_len > 0
  playing, paused, resumeChunk, currentChunk,
  emitted,         \* s_countable_play_emitted
  pipe,            \* pipeline: idle, run, stop requested, stop seen too late
  nextChunk,       \* chunk the decoder takes next
  complete,        \* TRACK_COMPLETE of the active generation is queued
  svcPc, svcOp, svcTrack, svcChunk,  \* the handler player_svc is in
  slot,            \* INSERTED queued; cartridge in use; removed
  build,           \* the tasks inside player_service_build_shuffle_order
  faulted,         \* a build went through the NULL s_shuffle_order
  via,             \* history: how the current track was started
  heard,           \* history: tracks of the current pass of the shuffle order
  counted          \* history: countable events of the current play

orderVars == <<mode, order, pos>>
listVars  == <<hasPlaylist, index, loaded, slot>>
playVars  == <<playing, paused, resumeChunk, currentChunk, emitted>>
pipeVars  == <<pipe, nextChunk, complete>>
svcVars   == <<svcPc, svcOp, svcTrack, svcChunk>>
histVars  == <<via, heard, counted>>
vars == <<orderVars, listVars, playVars, pipeVars, svcVars, build, faulted, histVars>>

-----------------------------------------------------------------------------
(* player_service_build_shuffle_order, run by any of the Builders *)

Building(t) == build[t].pc # "idle"

(* Nobody else is inside a build, where that is assumed.                     *)
Alone(t) == Undisturbed => \A u \in Builders \ {t} : ~Building(u)

At(t, pc) == build[t].pc = pc /\ Alone(t) /\ ~faulted

GoBuild(t, pc, i, j, tmp) ==
  build' = [build EXCEPT ![t] = [pc |-> pc, i |-> i, j |-> j, tmp |-> tmp]]

BuildUnchanged == UNCHANGED <<mode, pos, listVars, playVars, pipeVars, svcVars,
                              faulted, histVars>>

BuildFill(t) ==
  /\ At(t, "fill")
  /\ order' = [i \in Tracks |-> i]
  /\ GoBuild(t, "swap", TrackCount - 1, 0, 0)
  /\ BuildUnchanged

(* One round of the Fisher-Yates loop: read both entries, write the first... *)
BuildSwap(t) ==
  /\ At(t, "swap")
  /\ LET i == build[t].i
     IN IF i = 0
        THEN /\ GoBuild(t, "fix", 0, 0, 0)
             /\ UNCHANGED order
        ELSE \E j \in 0 .. i :
               /\ order' = [order EXCEPT ![i] = order[j]]
               /\ GoBuild(t, "put", i, j, order[i])
  /\ BuildUnchanged

(* Mutant: the second write is forgotten.                                    *)
BuildPutDropped(t) ==
  /\ At(t, "put")
  /\ LET b == build[t]
     IN GoBuild(t, IF b.i = 0 THEN "idle" ELSE "swap",
                IF b.i = 0 THEN 0 ELSE b.i - 1, 0, 0)
  /\ UNCHANGED order
  /\ BuildUnchanged

(* ... and the second.                                                       *)
BuildPut(t) ==
  /\ At(t, "put")
  /\ LET b == build[t]
     IN /\ order' = [order EXCEPT ![b.j] = b.tmp]
        /\ GoBuild(t, IF b.i = 0 THEN "idle" ELSE "swap",
                   IF b.i = 0 THEN 0 ELSE b.i - 1, 0, 0)
  /\ BuildUnchanged

(* Mutant: the first entry may be the current track.                         *)
BuildFixNothing(t) ==
  /\ At(t, "fix")
  /\ GoBuild(t, "idle", 0, 0, 0)
  /\ UNCHANGED order
  /\ BuildUnchanged

(* The first entry must not be the current track.                            *)
BuildFix(t) ==
  /\ At(t, "fix")
  /\ IF hasPlaylist /\ TrackCount > 1 /\ order[0] = index
     THEN \E j \in 1 .. TrackCount - 1 :
            /\ order' = [order EXCEPT ![0] = order[j]]
            /\ GoBuild(t, "put", 0, j, order[0])
     ELSE /\ GoBuild(t, "idle", 0, 0, 0)
          /\ UNCHANGED order
  /\ BuildUnchanged

(* player_service_set_playback_mode: the mode first...                       *)
SetMode(t) ==
  /\ At(t, "idle") /\ t # "svc"
  /\ \E m \in Modes :
       /\ mode' = m
       /\ IF m = "shuffle" THEN GoBuild(t, "pos", 0, 0, 0) ELSE UNCHANGED build
  /\ UNCHANGED <<order, pos, listVars, playVars, pipeVars, svcVars, faulted, histVars>>

(* ... then the position, then the order, if there is a playlist.            *)
SetModePos(t) ==
  /\ At(t, "pos")
  /\ pos' = NoPos
  /\ heard' = {}
  /\ GoBuild(t, IF hasPlaylist THEN "fill" ELSE "idle", 0, 0, 0)
  /\ UNCHANGED <<mode, order, listVars, playVars, pipeVars, svcVars, faulted,
                 via, counted>>

Build(t) == \/ BuildFill(t) \/ BuildSwap(t) \/ BuildPut(t) \/ BuildFix(t)
            \/ SetMode(t) \/ SetModePos(t)

-----------------------------------------------------------------------------
(* Which track, which second *)

SequentialNext == IF index + 1 < TrackCount THEN index + 1 ELSE 0

NextPos == IF pos = NoPos \/ pos + 1 >= TrackCount THEN 0 ELSE pos + 1
PrevPos == IF pos = NoPos \/ pos = 0 THEN TrackCount - 1 ELSE pos - 1

Shuffled == mode = "shuffle" /\ TrackCount > 1

(* player_service_next_index and the position it leaves.                     *)
NextIndex(manual) ==
  CASE Shuffled                             -> order[NextPos]
    [] mode = "single_repeat" /\ ~manual    -> index
    [] OTHER                                -> SequentialNext
PosAfterNext == IF Shuffled THEN NextPos ELSE pos
ViaNext      == IF Shuffled THEN "shuffle" ELSE "next"

(* player_service_prev_index.                                                *)
PrevIndex == CASE Shuffled    -> order[PrevPos]
               [] index > 0   -> index - 1
               [] OTHER       -> TrackCount - 1
PosAfterPrev == IF Shuffled THEN PrevPos ELSE pos

Clamp(c) == IF c >= LookupLen THEN LookupLen - 1 ELSE c
Here == IF paused THEN resumeChunk ELSE currentChunk

(* player_service_should_restart_current_track at second c.                  *)
PastRestart(c) == /\ loaded
                  /\ LookupLen > RestartSeconds
                  /\ Clamp(c) > RestartSeconds

(* Mutant: fast forward runs past the end.                                   *)
FastTargetUnclamped(forward) ==
  IF forward THEN Clamp(Here) + FastSeekSeconds
  ELSE IF FastSeekSeconds >= Clamp(Here) THEN 0 ELSE Clamp(Here) - FastSeekSeconds

(* player_service_get_seek_target.                                           *)
FastTarget(forward) ==
  IF forward THEN Clamp(Clamp(Here) + FastSeekSeconds)
  ELSE IF FastSeekSeconds >= Clamp(Here) THEN 0 ELSE Clamp(Here) - FastSeekSeconds

(* Mutant: every start counts as a new play.                                 *)
EmittedAfterAlways(t, c) == FALSE

(* A resumed or repositioned play stays counted.                             *)
EmittedAfter(t, c) ==
  IF t = index /\ c > 0 /\ (playing \/ paused) THEN emitted ELSE FALSE

(* Mutant: a jump leaves the position where it was.                          *)
SyncPosNot(t, p) == p

(* s_shuffle_position follows the track that really starts.                  *)
SyncPos(t, p) ==
  LET found == {i \in Tracks : order[i] = t}
  IN IF mode = "shuffle" /\ found # {}
     THEN CHOOSE i \in found : \A k \in found : i <= k ELSE p

-----------------------------------------------------------------------------
(* Starting a track *)

(* What a start does to the history: a pass goes on when the shuffle order   *)
(* picks the track, and starts anew with a jump.                             *)
Record(t, c, how) ==
  /\ via' = how
  /\ heard' = CASE how = "shuffle"         -> IF heard = Tracks THEN {t}
                                              ELSE heard \cup {t}
                [] how \in {"seek", "resume"} -> heard \cup {t}
                [] OTHER                   -> {t}
  /\ counted' = IF t = index /\ c > 0 /\ how \in {"seek", "resume"}
                THEN counted ELSE 0

(* player_service_start_track; p is the shuffle position before it.          *)
StartTrack(t, c, how, p) ==
  /\ emitted' = EmittedAfter(t, c)
  /\ index' = t
  /\ pos' = SyncPos(t, p)
  /\ playing' = TRUE /\ paused' = FALSE
  /\ resumeChunk' = c /\ currentChunk' = c
  /\ loaded' = TRUE
  /\ pipe' = "run" /\ nextChunk' = c
  /\ complete' = FALSE
  /\ Record(t, c, how)

(* The start is refused (SD error, pipeline still active): the handler       *)
(* clears s_playing; the position has moved all the same.                    *)
StartRefused(p) ==
  /\ playing' = FALSE
  /\ pos' = p
  /\ pipe' = "idle"
  /\ heard' = {}
  /\ UNCHANGED <<index, loaded, paused, resumeChunk, currentChunk, emitted,
                 nextChunk, via, counted>>

Start(t, c, how, p) ==
  /\ \/ StartTrack(t, c, how, p)
     \/ StartRefused(p) /\ UNCHANGED complete
  /\ UNCHANGED <<mode, order, hasPlaylist, slot, build, faulted>>

(* player_service_restore_paused_track.                                      *)
RestorePaused(t, c) ==
  /\ emitted' = FALSE
  /\ index' = t
  /\ pos' = SyncPos(t, NoPos)
  /\ playing' = TRUE /\ paused' = TRUE
  /\ resumeChunk' = c /\ currentChunk' = c
  /\ loaded' = TRUE
  /\ Record(t, 0, "begin")
  /\ UNCHANGED <<mode, order, hasPlaylist, slot, pipeVars, build, faulted>>

-----------------------------------------------------------------------------
(* player_svc *)

SvcMay(pc) == svcPc = pc /\ ~faulted /\ Alone("svc")

Goto(pc, op, t, c) == /\ svcPc' = pc /\ svcOp' = op
                      /\ svcTrack' = t /\ svcChunk' = c
Idle == Goto("idle", "none", 0, 0)

(* player_service_stop_playback: a pipeline at work is told to stop.         *)
Stop(op, t, c) ==
  /\ Goto("stop", op, t, c)
  /\ pipe' = IF pipe = "run" THEN "stop" ELSE pipe
  /\ UNCHANGED <<nextChunk, complete, mode, order, listVars, currentChunk,
                 emitted, playing, build, faulted, histVars>>

NextTrack ==
  /\ SvcMay("idle") /\ hasPlaylist
  /\ pos' = PosAfterNext
  /\ paused' = FALSE
  /\ Stop(ViaNext, NextIndex(TRUE), 0)
  /\ UNCHANGED resumeChunk

Previous ==
  /\ SvcMay("idle") /\ hasPlaylist
  /\ paused' = FALSE
  /\ Stop("prev", 0, 0)
  /\ UNCHANGED <<pos, resumeChunk>>

PlayIndex ==
  /\ SvcMay("idle") /\ hasPlaylist
  /\ paused' = FALSE
  /\ \E t \in Tracks : Stop("jump", t, 0)
  /\ UNCHANGED <<pos, resumeChunk>>

(* SEEK_ABSOLUTE (any target), FAST_FORWARD and FAST_BACKWARD; paused, only  *)
(* the second to resume at moves.                                            *)
Seek ==
  /\ SvcMay("idle") /\ playing /\ loaded
  /\ \E target \in Chunks \cup {FastTarget(TRUE), FastTarget(FALSE)} :
       /\ target # IF paused THEN resumeChunk ELSE Clamp(currentChunk)
       /\ resumeChunk' = target
       /\ \/ /\ paused
             /\ UNCHANGED <<mode, order, listVars, playing, currentChunk,
                            emitted, pipeVars, svcVars, build, faulted, histVars>>
          \/ ~paused /\ Stop("seek", index, target)
  /\ UNCHANGED <<pos, paused>>

Pause ==
  /\ SvcMay("idle") /\ playing /\ ~paused
  /\ resumeChunk' = IF loaded THEN Clamp(currentChunk) ELSE 0
  /\ Stop("pause", 0, 0)
  /\ UNCHANGED <<pos, paused>>

Resume ==
  /\ SvcMay("idle") /\ playing /\ paused
  /\ Start(index, resumeChunk, "resume", pos)
  /\ UNCHANGED svcVars

(* player_service_handle_track_complete of the active generation.            *)
TrackComplete ==
  /\ SvcMay("idle") /\ complete
  /\ IF hasPlaylist
     THEN \/ /\ StartTrack(NextIndex(FALSE), 0, ViaNext, PosAfterNext)
          \/ /\ StartRefused(PosAfterNext)
             /\ complete' = FALSE
     ELSE /\ playing' = FALSE
          /\ complete' = FALSE
          /\ UNCHANGED <<pos, index, loaded, paused, resumeChunk, currentChunk,
                         emitted, pipe, nextChunk, histVars>>
  /\ UNCHANGED <<mode, order, hasPlaylist, slot, build, faulted, svcVars>>

Removed ==
  /\ SvcMay("idle") /\ slot = "in"
  /\ Stop("removed", 0, 0)
  /\ UNCHANGED <<pos, resumeChunk, paused>>

(* The pipeline has stopped.                                                 *)
Stopped == SvcMay("stop") /\ pipe # "run"

StoppedThenStart ==
  /\ Stopped /\ svcOp \in {"next", "shuffle", "jump", "seek"}
  /\ Start(svcTrack, svcChunk, svcOp, pos)
  /\ Idle

StoppedPrevious ==
  /\ Stopped /\ svcOp = "prev"
  /\ IF PastRestart(Here) THEN Start(index, 0, "prev", pos)
                          ELSE Start(PrevIndex, 0, "prev", PosAfterPrev)
  /\ Idle

StoppedPause ==
  /\ Stopped /\ svcOp = "pause"
  /\ paused' = TRUE
  /\ pipe' = "idle"
  /\ Idle
  /\ UNCHANGED <<nextChunk, complete, orderVars, listVars, playing, resumeChunk,
                 currentChunk, emitted, build, faulted, histVars>>

(* player_service_handle_cartridge_removed after the stop.  A build under    *)
(* way in another task runs down from SIZE_MAX or through the NULL pointer.  *)
StoppedRemoved ==
  /\ Stopped /\ svcOp = "removed"
  /\ hasPlaylist' = FALSE /\ loaded' = FALSE /\ slot' = "gone"
  /\ order' = [i \in Tracks |-> 0] /\ pos' = 0
  /\ playing' = FALSE /\ paused' = FALSE
  /\ pipe' = "idle"
  /\ faulted' = \E t \in Builders : build[t].pc \in {"fill", "swap", "put"}
  /\ Idle
  /\ UNCHANGED <<mode, index, nextChunk, complete, resumeChunk, currentChunk,
                 emitted, build, histVars>>

(* player_service_handle_cartridge_inserted: scan the playlist, build an     *)
(* order...                                                                  *)
Inserted ==
  /\ SvcMay("idle") /\ slot = "inserted"
  /\ slot' = "in"
  /\ hasPlaylist' = TRUE /\ index' = 0
  /\ order' = [i \in Tracks |-> 0] /\ pos' = 0
  /\ Goto("scan", "begin", 0, 0)
  /\ GoBuild("svc", "fill", 0, 0, 0)
  /\ UNCHANGED <<mode, loaded, playVars, pipeVars, faulted, histVars>>

(* ... and begin at the saved second, any second of any track, or at 0.      *)
Begin ==
  /\ SvcMay("scan") /\ ~Building("svc")
  /\ \E t \in Tracks, c \in Chunks : \/ Start(t, c, "begin", NoPos)
                                     \/ RestorePaused(t, c)
  /\ Idle

Svc == \/ NextTrack \/ Previous \/ PlayIndex \/ Seek \/ Pause \/ Resume
       \/ TrackComplete \/ Removed \/ Inserted \/ Begin
       \/ StoppedThenStart \/ StoppedPrevious \/ StoppedPause \/ StoppedRemoved

-----------------------------------------------------------------------------
(* The pipeline *)

DecMay == ~faulted /\ Alone("svc")

(* The decoder takes the next chunk: s_current_chunk, then the countable     *)
(* event once the play is past the restart threshold.  A decoder that looked *)
(* before the stop was requested takes one more.                             *)
Advance ==
  /\ DecMay
  /\ pipe \in {"run", "stop"} /\ nextChunk < LookupLen
  /\ pipe' = IF pipe = "stop" THEN "drain" ELSE "run"
  /\ currentChunk' = nextChunk
  /\ nextChunk' = nextChunk + 1
  /\ IF PastRestart(IF paused THEN resumeChunk ELSE nextChunk) /\ ~emitted
     THEN emitted' = TRUE /\ counted' = counted + 1
     ELSE UNCHANGED <<emitted, counted>>
  /\ UNCHANGED <<complete, orderVars, listVars, playing, paused, resumeChunk,
                 svcVars, build, faulted, via, heard>>

(* The end of the track, reported to the service.                            *)
Finish ==
  /\ DecMay
  /\ pipe = "run" /\ nextChunk = LookupLen
  /\ pipe' = "idle" /\ complete' = TRUE
  /\ UNCHANGED <<nextChunk, orderVars, listVars, playVars, svcVars, build,
                 faulted, histVars>>

Init ==
  /\ mode = "sequential" /\ order = [i \in Tracks |-> 0] /\ pos = 0
  /\ hasPlaylist = FALSE /\ index = 0 /\ loaded = FALSE /\ slot = "inserted"
  /\ playing = FALSE /\ paused = FALSE
  /\ resumeChunk = 0 /\ currentChunk = 0 /\ emitted = FALSE
  /\ pipe = "idle" /\ nextChunk = 0 /\ complete = FALSE
  /\ svcPc = "idle" /\ svcOp = "none" /\ svcTrack = 0 /\ svcChunk = 0
  /\ build = [t \in Builders |-> [pc |-> "idle", i |-> 0, j |-> 0, tmp |-> 0]]
  /\ faulted = FALSE
  /\ via = "none" /\ heard = {} /\ counted = 0

Next == Svc \/ Advance \/ Finish \/ \E t \in Builders : Build(t)

Spec == Init /\ [][Next]_vars

-----------------------------------------------------------------------------
(* Properties *)

BuildType == [pc: {"idle", "pos", "fill", "swap", "put", "fix"},
              i: Tracks, j: Tracks, tmp: Tracks]

(* Every index, shuffle position and second stays inside its playlist, order *)
(* and track: no handler leads outside the arrays of player_service.c.       *)
TypeOK ==
  /\ mode \in Modes /\ order \in [Tracks -> Tracks] /\ pos \in Tracks \cup {NoPos}
  /\ hasPlaylist \in BOOLEAN /\ index \in Tracks /\ loaded \in BOOLEAN
  /\ slot \in {"inserted", "in", "gone"}
  /\ playing \in BOOLEAN /\ paused \in BOOLEAN /\ emitted \in BOOLEAN
  /\ resumeChunk \in Chunks /\ currentChunk \in Chunks
  /\ pipe \in {"idle", "run", "stop", "drain"} /\ nextChunk \in 0 .. LookupLen
  /\ complete \in BOOLEAN
  /\ svcPc \in {"idle", "scan", "stop"}
  /\ svcOp \in {"none", "begin", "next", "shuffle", "prev", "jump", "seek",
                "pause", "removed"}
  /\ svcTrack \in Tracks /\ svcChunk \in Chunks
  /\ build \in [Builders -> BuildType]
  /\ faulted \in BOOLEAN
  /\ via \in {"none", "begin", "next", "shuffle", "prev", "jump", "seek", "resume"}
  /\ heard \subseteq Tracks /\ counted \in Nat

(* player_service_build_shuffle_order leaves every playlist index in the     *)
(* order exactly once.                                                       *)
OrderIsPermutation ==
  hasPlaylist /\ (\A t \in Builders : ~Building(t))
    => \A k \in Tracks : \E i \in Tracks : order[i] = k

Starts == pipe # "run" /\ pipe' = "run"

(* Shuffle never repeats the track that plays, however the player came to    *)
(* it: resumed, jumped to, stepped back to, or playing when shuffle was set. *)
NoImmediateRepeat ==
  [][Starts /\ via' = "shuffle" /\ playing => index' # index]_vars

(* A pass of the shuffle order plays every track before it plays one again,  *)
(* counted from the last jump, also across the end of the order, and through *)
(* pauses, seeks and mode changes while the pipeline stops.                  *)
ShuffleVisitsAll ==
  [][Starts /\ via' = "shuffle" => index' \notin heard \/ heard = Tracks]_vars

(* A play is counted (TRACK_BECAME_COUNTABLE) once when it passes the        *)
(* threshold, and not again after a pause or a seek within the track.        *)
CountedOnce ==
  /\ counted = IF emitted THEN 1 ELSE 0
  /\ (pipe = "run" /\ nextChunk = currentChunk + 1 /\ PastRestart(currentChunk))
       => emitted

=============================================================================
