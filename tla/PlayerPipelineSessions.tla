------------------------ MODULE PlayerPipelineSessions ------------------------
(***************************************************************************)
(* The pipeline of main/player_service.c implements the sessions of        *)
(* module Playback, where its tasks are not overtaken in their hand-over   *)
(* windows and nothing fails.                                              *)
(***************************************************************************)
EXTENDS PlayerPipeline

(* A session runs from the assignments of player_service_start_track until   *)
(* both tasks are through with it.  A decoder that has only TRACK_COMPLETE   *)
(* left to report is.                                                        *)
SessionRuns ==
  \/ svcPc \in {"startReset", "sendDecoder", "sendReader"}
  \/ readerCmd # <<>> \/ decoderCmd # <<>>
  \/ rdrPc # "idle" \/ decPc \notin {"idle", "complete"}

Sessions == INSTANCE Playback WITH
  LastChunk <- LookupLen - 1,
  running   <- SessionRuns,
  cancelled <- stopRequested,
  session   <- activeGen,
  track     <- index,
  at        <- currentChunk

(* Sessions never overlap, none ends before its last chunk unless it was     *)
(* cancelled, and no task of an earlier one moves the position of a later    *)
(* one: player_service_start_track, player_service_stop_playback and the two *)
(* tasks together.                                                           *)
OneSession == Sessions!Spec

=============================================================================
