----------------------------- MODULE ResumeState -----------------------------
(***************************************************************************)
(* What the player remembers across a restart (main/player_service.c).     *)
(*                                                                         *)
(* The position is kept in two places: s_resume_rtc_state in RTC memory,   *)
(* which survives every reset but no loss of power, is written whenever a  *)
(* track starts, pauses or is repositioned while paused; the NVS blob is   *)
(* written only by the player's shutdown callback.  On insertion of the    *)
(* cartridge, once per boot, RTC wins over NVS, and what belongs to        *)
(* another cartridge is erased.                                            *)
(*                                                                         *)
(* Actors: player_svc, the task that asks for the reboot (it runs the      *)
(* shutdown callbacks of main/power_mgmt_service.c), the console's sd      *)
(* mount and sd unmount (reboot and rdl unmount too), the event loop, and  *)
(* resets, power losses and swaps of the cartridge at any moment.          *)
(***************************************************************************)
EXTENDS Integers, Sequences

CONSTANTS
  Cartridges,    \* metadata checksums
  TrackCount,    \* tracks of a cartridge
  LookupLen,     \* seconds of a track
  QueueDepth,    \* PLAYER_SVC_QUEUE_DEPTH
  MaxStale,      \* bound: persist commands late at the same time
  None           \* nothing saved

Tracks    == 0 .. TrackCount - 1
Seconds   == 0 .. LookupLen - 1

(* player_service_resume_state_t; version and track count always agree for   *)
(* the same firmware and checksum.                                           *)
Positions == [cart: Cartridges, track: Tracks, sec: Seconds, paused: BOOLEAN]

ASSUME ResumeAssumption ==
  /\ TrackCount \in Nat \ {0}
  /\ LookupLen \in Nat \ {0}
  /\ QueueDepth \in Nat \ {0}
  /\ MaxStale \in Nat
  /\ None \notin Positions

VARIABLES
  on, cart, mounted,           \* powered; the cartridge in the slot; s_mounted
  rtc, nvs,                    \* the two saved positions
  hasPlaylist, playing, paused, index, resumeChunk, currentChunk,
  svcPc, target,               \* player_svc; where insertion will begin
  queue,                       \* s_cmd_queue: inserted, removed, persist
  removing,                    \* UNMOUNTED posted, not yet delivered
  missed,                      \* history: a full queue dropped a removal
  shutdown,                    \* the reboot under way
  stale,                       \* persist commands whose caller has given up
  live,                        \* history: position when the chip was reset
  durable,                     \* history: position found by the last persist
                               \* command that was reported as done
  nvsKept                      \* history: an insertion could not read or erase nvs

deviceVars == <<on, cart, mounted, removing, missed>>
savedVars  == <<rtc, nvs, nvsKept>>
playVars   == <<hasPlaylist, playing, paused, index, resumeChunk, currentChunk>>
svcVars    == <<svcPc, target, queue>>
rebootVars == <<shutdown, stale, durable>>
vars == <<deviceVars, savedVars, playVars, svcVars, rebootVars, live>>

-----------------------------------------------------------------------------
(* Positions *)

Pos(c, t, s, p) == [cart |-> c, track |-> t, sec |-> s, paused |-> p]

Second == IF paused THEN resumeChunk ELSE currentChunk

(* player_service_build_resume_state.                                        *)
CanBuild == mounted /\ hasPlaylist /\ (playing \/ paused)
Here     == Pos(cart, index, Second, paused)

(* player_service_cache_current_playback_status, after the assignments.      *)
Cache(t, s, p) == rtc' = IF mounted /\ hasPlaylist THEN Pos(cart, t, s, p) ELSE rtc

SvcAt(pc) == on /\ svcPc = pc

-----------------------------------------------------------------------------
(* player_svc: playback *)

(* Mutant: the flag is cached before it is cleared.                          *)
StartTrackCachesEarly(t, s) ==
  /\ mounted
  /\ playing' = TRUE /\ paused' = FALSE
  /\ index' = t /\ resumeChunk' = s /\ currentChunk' = s
  /\ Cache(t, s, paused)

(* player_service_start_track: impossible without the cartridge's metadata.  *)
StartTrack(t, s) ==
  /\ mounted
  /\ playing' = TRUE /\ paused' = FALSE
  /\ index' = t /\ resumeChunk' = s /\ currentChunk' = s
  /\ Cache(t, s, FALSE)

(* A start that fails while the track is loaded only clears s_playing; one   *)
(* that fails to reach decoder or reader has already moved the position.     *)
StartFails(t, s) ==
  /\ playing' = FALSE
  /\ \/ UNCHANGED <<paused, index, resumeChunk, currentChunk>>
     \/ /\ mounted
        /\ paused' = FALSE
        /\ index' = t /\ resumeChunk' = s /\ currentChunk' = s
  /\ UNCHANGED rtc

PlayUnchanged == UNCHANGED <<deviceVars, nvs, nvsKept, hasPlaylist, svcVars,
                             rebootVars, live>>

(* The command clears s_paused before its start is refused.                  *)
SwitchRefused == /\ playing' = FALSE /\ paused' = FALSE
                 /\ UNCHANGED <<index, resumeChunk, currentChunk, rtc>>

(* NEXT, PREVIOUS and PLAY_INDEX, which clear s_paused first, and the        *)
(* automatic advance, which does not.                                        *)
Switch ==
  /\ SvcAt("idle") /\ hasPlaylist
  /\ \E t \in Tracks : \/ StartTrack(t, 0)
                       \/ StartFails(t, 0)
                       \/ SwitchRefused
  /\ PlayUnchanged

(* PAUSE while paused.                                                       *)
Resume ==
  /\ SvcAt("idle") /\ playing /\ paused /\ hasPlaylist
  /\ \/ StartTrack(index, resumeChunk)
     \/ StartFails(index, resumeChunk)
  /\ PlayUnchanged

(* Mutant: a pause is not cached.                                            *)
PauseUncached ==
  /\ SvcAt("idle") /\ playing /\ ~paused
  /\ paused' = TRUE
  /\ resumeChunk' = currentChunk
  /\ UNCHANGED <<playing, index, currentChunk, rtc>>
  /\ PlayUnchanged

Pause ==
  /\ SvcAt("idle") /\ playing /\ ~paused
  /\ paused' = TRUE
  /\ resumeChunk' = currentChunk
  /\ Cache(index, currentChunk, TRUE)
  /\ UNCHANGED <<playing, index, currentChunk>>
  /\ PlayUnchanged

(* The seeks restart the track, or move the second to resume at.             *)
Seek ==
  /\ SvcAt("idle") /\ playing
  /\ \E s \in Seconds :
       /\ s # Second
       /\ \/ /\ ~paused /\ hasPlaylist
             /\ StartTrack(index, s)
          \/ /\ ~paused
             /\ playing' = FALSE
             /\ resumeChunk' = s /\ currentChunk' \in {currentChunk, s}
             /\ UNCHANGED <<paused, index, rtc>>
          \/ /\ paused
             /\ resumeChunk' = s
             /\ Cache(index, s, TRUE)
             /\ UNCHANGED <<playing, paused, index, currentChunk>>
  /\ PlayUnchanged

(* Mutant: the position runs past the end of the track.                      *)
AdvanceForever ==
  /\ on /\ playing /\ ~paused
  /\ currentChunk' = currentChunk + 1
  /\ UNCHANGED <<rtc, playing, paused, index, resumeChunk>>
  /\ PlayUnchanged

(* The decoder moves s_current_chunk; nothing is cached.                     *)
Advance ==
  /\ on /\ playing /\ ~paused /\ currentChunk + 1 < LookupLen
  /\ currentChunk' = currentChunk + 1
  /\ UNCHANGED <<rtc, playing, paused, index, resumeChunk>>
  /\ PlayUnchanged

-----------------------------------------------------------------------------
(* player_svc: insertion and removal *)

Take(cmd) == /\ SvcAt("idle")
             /\ queue # <<>> /\ Head(queue) = cmd
             /\ queue' = Tail(queue)

Removed ==
  /\ Take("removed")
  /\ hasPlaylist' = FALSE /\ playing' = FALSE /\ paused' = FALSE
  /\ UNCHANGED <<deviceVars, savedVars, index, resumeChunk, currentChunk,
                 svcPc, target, rebootVars, live>>

(* player_service_handle_cartridge_inserted up to the saved status.          *)
Inserted ==
  /\ Take("inserted")
  /\ playing' = FALSE /\ paused' = FALSE
  /\ IF mounted
     THEN /\ hasPlaylist' = TRUE /\ index' = 0
          /\ svcPc' = "load"
          /\ live' = IF live # None /\ live.cart # cart THEN None ELSE live
     ELSE UNCHANGED <<hasPlaylist, index, svcPc, live>>
  /\ UNCHANGED <<deviceVars, savedVars, resumeChunk, currentChunk, target,
                 rebootVars>>

LoadGoto(pc, p) == /\ svcPc' = pc
                   /\ target' = p
                   /\ UNCHANGED <<deviceVars, nvs, playVars, queue, rebootVars>>

Fresh == Pos(cart, 0, 0, FALSE)

(* player_service_load_saved_playback_status: RTC first.                     *)
LoadRtc ==
  /\ SvcAt("load") /\ rtc # None /\ mounted /\ rtc.cart = cart
  /\ LoadGoto("begin", rtc)
  /\ UNCHANGED <<rtc, nvsKept, live>>

(* Mutant: only the RTC copy of another cartridge is cleared.                *)
LoadForeignRtcOnly ==
  /\ SvcAt("load") /\ rtc # None /\ mounted /\ rtc.cart # cart
  /\ rtc' = None
  /\ LoadGoto("begin", Fresh)
  /\ UNCHANGED <<nvsKept, live>>

(* Another cartridge's: RTC is cleared, then NVS.                            *)
LoadForeignRtc ==
  /\ SvcAt("load") /\ rtc # None /\ mounted /\ rtc.cart # cart
  /\ rtc' = None
  /\ LoadGoto("erase", Fresh)
  /\ UNCHANGED <<nvsKept, live>>

(* Then NVS: a blob of another cartridge, or an unreadable one, is erased;   *)
(* one of this cartridge is used and cached; nvs_open may fail, which leaves *)
(* it alone.                                                                 *)
LoadNvs ==
  /\ SvcAt("load") /\ rtc = None /\ mounted
  /\ \/ /\ nvs = None
        /\ LoadGoto("begin", Fresh)
        /\ UNCHANGED <<rtc, nvsKept>>
     \/ /\ nvs # None
        /\ LoadGoto("erase", Fresh)
        /\ UNCHANGED <<rtc, nvsKept>>
     \/ /\ nvs # None /\ nvs.cart = cart
        /\ LoadGoto("begin", nvs)
        /\ rtc' = nvs
        /\ UNCHANGED nvsKept
     \/ /\ nvs # None
        /\ LoadGoto("begin", Fresh)
        /\ nvsKept' = TRUE
        /\ UNCHANGED rtc
  /\ UNCHANGED live

(* The cartridge was unmounted before its status was read.                   *)
LoadUnmounted ==
  /\ SvcAt("load") /\ ~mounted
  /\ LoadGoto("begin", Fresh)
  /\ nvsKept' = (nvs # None)
  /\ UNCHANGED <<rtc, live>>

(* player_service_erase_saved_playback_status_locked; its result is ignored. *)
Erase ==
  /\ SvcAt("erase")
  /\ \/ nvs' = None /\ nvsKept' = FALSE
     \/ UNCHANGED nvs /\ nvsKept' = TRUE
  /\ svcPc' = "begin"
  /\ UNCHANGED <<deviceVars, rtc, playVars, target, queue, rebootVars, live>>

(* player_service_restore_paused_track or start_track at the saved second.   *)
Begin ==
  /\ SvcAt("begin")
  /\ svcPc' = "idle" /\ target' = None
  /\ \/ /\ ~target.paused
        /\ StartTrack(target.track, target.sec)
        /\ live' = None
     \/ /\ target.paused /\ mounted
        /\ playing' = TRUE /\ paused' = TRUE
        /\ index' = target.track
        /\ resumeChunk' = target.sec /\ currentChunk' = target.sec
        /\ Cache(target.track, target.sec, TRUE)
        /\ live' = None
     \/ StartFails(target.track, target.sec) /\ UNCHANGED live
  /\ UNCHANGED <<deviceVars, nvs, nvsKept, hasPlaylist, queue, rebootVars>>

-----------------------------------------------------------------------------
(* Shutdown *)

(* PERSIST_FOR_SHUTDOWN is done with result ok, having found position p: the *)
(* caller that waits is released.  A command whose caller timed out still    *)
(* points to the semaphore and the result on that caller's stack: a later    *)
(* caller may find itself released, and its own command is then late.        *)
Release(ok, p) ==
  /\ UNCHANGED stale
  /\ \/ ok  /\ shutdown' = "others" /\ durable' = p
     \/ ~ok /\ shutdown' = "none"   /\ durable' = None

Signal(ok, p) ==
  \/ stale = 0 /\ Release(ok, p)
  \/ stale > 0 /\ shutdown = "callback" /\ Release(ok, p)
  \/ /\ stale > 0 /\ stale' = stale - 1
     /\ durable' = IF ok /\ shutdown \in {"others", "pending"} THEN p ELSE durable
     /\ UNCHANGED shutdown

(* player_service_persist_current_playback_status: nothing to save is OK.    *)
PersistNothing ==
  /\ Take("persist") /\ ~CanBuild
  /\ Signal(TRUE, None)
  /\ UNCHANGED <<deviceVars, savedVars, playVars, svcPc, target, live>>

PersistCache ==
  /\ Take("persist") /\ CanBuild
  /\ rtc' = Here
  /\ svcPc' = "write"
  /\ UNCHANGED <<deviceVars, nvs, nvsKept, playVars, target, rebootVars, live>>

PersistUnchanged == UNCHANGED <<deviceVars, rtc, playVars, target, queue, live>>

(* Mutant: a failed write is reported as done.                               *)
PersistWriteUnchecked ==
  /\ SvcAt("write")
  /\ svcPc' = "idle"
  /\ \/ nvs' = rtc /\ nvsKept' = FALSE /\ Signal(TRUE, rtc)
     \/ UNCHANGED <<nvs, nvsKept>> /\ Signal(TRUE, rtc)
  /\ PersistUnchanged

(* player_service_write_playback_status writes what was just cached in rtc.  *)
(* NVS keeps the old blob when the new one cannot be written.                *)
PersistWrite ==
  /\ SvcAt("write")
  /\ svcPc' = "idle"
  /\ \/ nvs' = rtc /\ nvsKept' = FALSE /\ Signal(TRUE, rtc)
     \/ UNCHANGED <<nvs, nvsKept>> /\ Signal(FALSE, rtc)
  /\ PersistUnchanged

(* power_mgmt_service_reboot: the player's callback comes first...           *)
RequestReboot ==
  /\ on /\ shutdown = "none" /\ Len(queue) < QueueDepth
  /\ shutdown' = "callback"
  /\ queue' = Append(queue, "persist")
  /\ UNCHANGED <<deviceVars, savedVars, playVars, svcPc, target, stale, durable, live>>

RebootUnchanged == UNCHANGED <<deviceVars, savedVars, playVars, svcVars, live>>

(* ... it gives up after five seconds...                                     *)
CallbackTimeout ==
  /\ on /\ shutdown = "callback" /\ stale < MaxStale
  /\ shutdown' = "none"
  /\ stale' = stale + 1
  /\ UNCHANGED durable
  /\ RebootUnchanged

(* ... then the other callbacks and the rails, each of which may fail.       *)
RunOthers ==
  /\ on /\ shutdown = "others"
  /\ \/ shutdown' = "pending" /\ UNCHANGED durable
     \/ shutdown' = "none" /\ durable' = None
  /\ UNCHANGED stale
  /\ RebootUnchanged

-----------------------------------------------------------------------------
(* The device *)

RemovalPending == removing \/ missed \/ \E i \in DOMAIN queue : queue[i] = "removed"

(* What a listener would expect to come back to.                             *)
Expected == CASE ~hasPlaylist \/ svcPc \in {"load", "erase", "begin"} -> live
              [] playing /\ mounted /\ ~RemovalPending -> Here
              [] OTHER -> None

Off == /\ on' = FALSE
       /\ mounted' = FALSE /\ removing' = FALSE /\ missed' = FALSE
       /\ hasPlaylist' = FALSE /\ playing' = FALSE /\ paused' = FALSE
       /\ index' = 0 /\ resumeChunk' = 0 /\ currentChunk' = 0
       /\ svcPc' = "idle" /\ target' = None /\ queue' = <<>>
       /\ shutdown' = "none" /\ stale' = 0 /\ durable' = None
       /\ UNCHANGED <<cart, nvs, nvsKept>>

(* power_mgmt_service_process_once, or a panic or watchdog reset.            *)
Restart == on /\ shutdown = "pending" /\ Off /\ live' = Expected /\ UNCHANGED rtc
Crash   == on /\ Off /\ live' = Expected /\ UNCHANGED rtc

(* RTC memory is lost.                                                       *)
PowerLoss == Off /\ live' = None /\ rtc' = None

(* Any cartridge may be in the slot at the next boot.                        *)
Boot ==
  /\ ~on
  /\ on' = TRUE
  /\ cart' \in Cartridges
  /\ mounted' \in BOOLEAN
  /\ queue' \in {<<"inserted">>, <<>>}
  /\ mounted' => queue' = <<"inserted">>
  /\ UNCHANGED <<removing, missed, savedVars, playVars, svcPc, target, rebootVars, live>>

(* sd unmount; reboot and rdl begin with it.                                 *)
Unmount ==
  /\ on /\ mounted
  /\ mounted' = FALSE /\ removing' = TRUE
  /\ live' = None
  /\ UNCHANGED <<on, cart, missed, savedVars, playVars, svcVars, rebootVars>>

(* sd mount, of whichever cartridge is there now: a swap is taken to last    *)
(* longer than the player needs to handle the removal.  Only MOUNTED is      *)
(* posted, which the player does not listen to.                              *)
Mount ==
  /\ on /\ ~mounted
  /\ mounted' = TRUE
  /\ cart' \in IF RemovalPending THEN {cart} ELSE Cartridges
  /\ UNCHANGED <<on, removing, missed, savedVars, playVars, svcVars, rebootVars, live>>

(* The event loop hands the removal over; a full queue drops it.             *)
DeliverRemoved ==
  /\ on /\ removing
  /\ removing' = FALSE
  /\ \/ /\ Len(queue) < QueueDepth
        /\ queue' = Append(queue, "removed")
        /\ UNCHANGED missed
     \/ /\ Len(queue) = QueueDepth
        /\ missed' = TRUE
        /\ UNCHANGED queue
  /\ UNCHANGED <<on, cart, mounted, savedVars, playVars, svcPc, target, rebootVars, live>>

Init ==
  /\ on = FALSE /\ cart \in Cartridges /\ mounted = FALSE /\ removing = FALSE
  /\ missed = FALSE
  /\ rtc = None /\ nvs = None /\ nvsKept = FALSE
  /\ hasPlaylist = FALSE /\ playing = FALSE /\ paused = FALSE
  /\ index = 0 /\ resumeChunk = 0 /\ currentChunk = 0
  /\ svcPc = "idle" /\ target = None /\ queue = <<>>
  /\ shutdown = "none" /\ stale = 0 /\ durable = None /\ live = None

Play   == Switch \/ Resume \/ Pause \/ Seek \/ Advance
Insert == \/ Removed \/ Inserted \/ LoadRtc \/ LoadForeignRtc \/ LoadNvs
          \/ LoadUnmounted \/ Erase \/ Begin
Reboot == \/ PersistNothing \/ PersistCache \/ PersistWrite \/ RequestReboot
          \/ CallbackTimeout \/ RunOthers
Device == \/ Restart \/ Crash \/ PowerLoss \/ Boot \/ Unmount \/ Mount
          \/ DeliverRemoved

Next == Play \/ Insert \/ Reboot \/ Device

Spec == Init /\ [][Next]_vars

-----------------------------------------------------------------------------
(* Properties *)

(* Positions, queue and shutdown steps stay in range.                        *)
TypeOK ==
  /\ on \in BOOLEAN /\ cart \in Cartridges /\ mounted \in BOOLEAN
  /\ removing \in BOOLEAN /\ missed \in BOOLEAN /\ nvsKept \in BOOLEAN
  /\ {rtc, nvs, live, durable} \subseteq Positions \cup {None}
  /\ hasPlaylist \in BOOLEAN /\ playing \in BOOLEAN /\ paused \in BOOLEAN
  /\ index \in Tracks /\ resumeChunk \in Seconds /\ currentChunk \in Seconds
  /\ svcPc \in {"idle", "load", "erase", "begin", "write"}
  /\ target \in IF svcPc \in {"erase", "begin"} THEN Positions ELSE {None}
  /\ queue \in Seq({"inserted", "removed", "persist"}) /\ Len(queue) <= QueueDepth
  /\ shutdown \in {"none", "callback", "others", "pending"}
  /\ stale \in 0 .. MaxStale

(* Once the insertion is handled nothing saved belongs to another cartridge, *)
(* in RTC memory or, unless it could not be read or erased, on flash: a      *)
(* cartridge put back later starts afresh and never at the position it had   *)
(* before another one was played.                                            *)
ForeignErased ==
  (hasPlaylist /\ mounted /\ ~RemovalPending /\ svcPc \in {"idle", "write"})
    => /\ rtc # None => rtc.cart = cart
       /\ nvs # None /\ ~nvsKept => nvs.cart = cart

(* While the player plays, RTC memory names the track that plays, whether it *)
(* is paused, and its second: exactly when paused, no later than the one     *)
(* being played otherwise.                                                   *)
RtcCurrent ==
  (playing /\ mounted /\ ~RemovalPending /\ svcPc \in {"idle", "write"})
    => /\ rtc # None
       /\ rtc.cart = cart /\ rtc.track = index /\ rtc.paused = paused
       /\ IF paused THEN rtc.sec = resumeChunk ELSE rtc.sec <= currentChunk

(* After a reboot, panic or watchdog reset the same cartridge goes on with   *)
(* the track that played, paused if it was paused, and loses seconds of the  *)
(* running track at most; a pause loses nothing.                             *)
ResumesAfterReset ==
  [][(svcPc = "begin" /\ playing' /\ live # None)
       => /\ index' = live.track /\ paused' = live.paused
          /\ IF paused' THEN resumeChunk' = live.sec ELSE resumeChunk' <= live.sec]_vars

(* The chip restarts only after the position that the last persist command   *)
(* reported as saved is on flash, also when an earlier attempt timed out and *)
(* its command runs late, or fails late.                                     *)
SavedBeforeRestart ==
  shutdown \in {"others", "pending"} /\ durable # None => nvs = durable

=============================================================================
