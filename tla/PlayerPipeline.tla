--------------------------- MODULE PlayerPipeline ---------------------------
(***************************************************************************)
(* The playback pipeline of main/player_service.c and the cartridge reader *)
(* of main/cartridge_service.c it pulls its data from.                     *)
(*                                                                         *)
(* Four FreeRTOS tasks run concurrently:                                   *)
(*                                                                         *)
(*   player_svc      takes one command at a time from s_cmd_queue; stops   *)
(*                   and starts the pipeline                               *)
(*   player_reader   turns a track into chunk messages (s_chunk_queue)     *)
(*   player_decoder  turns chunk messages into PCM (s_pcm_stream) and      *)
(*                   reports TRACK_COMPLETE                                *)
(*   cart_reader     serves one SD read request at a time into one of two  *)
(*                   buffers                                               *)
(*                                                                         *)
(* and around them the callers of the public API, the console's sd mount   *)
(* and sd unmount, the event loop and the audio output that pulls PCM.     *)
(*                                                                         *)
(* One chunk is one second of audio.  Chunk i of a track occupies          *)
(* [i, i+1) of the track's data, so a byte offset is a chunk number and    *)
(* PLAYER_SVC_CHUNK_MAX_BYTES is 1.  The next track (playback mode,        *)
(* shuffle order, previous/restart) is any track of the playlist: which    *)
(* one it is belongs to the control logic, not to the pipeline.            *)
(***************************************************************************)
EXTENDS Integers, Sequences, FiniteSets

CONSTANTS
  TrackCount,     \* tracks on the cartridge
  LookupLen,      \* chunks of a track (lookup_table_len)
  WindowEntries,  \* PLAYER_SVC_LOOKUP_WINDOW_ENTRIES
  ReadChunks,     \* chunks that fit one cartridge read buffer
  QueueDepth,     \* PLAYER_SVC_QUEUE_DEPTH
  PcmCapacity,    \* chunks of PCM that fit s_pcm_stream
  MaxGen,         \* bound: starts of a track in one behaviour
  MaxCmds,        \* bound: commands given through the public API
  MaxUnmounts,    \* bound: unmounts of the cartridge
  IoErrors,       \* TRUE: SD reads and opus_dec_open may fail
  Timeouts,       \* TRUE: the two-second waits for the idle bits may run out
  Prompt          \* TRUE: reader and decoder are not overtaken in their
                  \* hand-over windows: a start command is picked up before
                  \* the service takes its next command, and the decoder
                  \* blocks right after setting its idle bit (a scheduling
                  \* assumption; the code does not enforce it)

ASSUME PipelineAssumption ==
  /\ TrackCount \in Nat \ {0}
  /\ LookupLen \in Nat \ {0}
  /\ WindowEntries \in Nat \ {0, 1}
  /\ ReadChunks \in Nat \ {0}
  /\ QueueDepth \in Nat \ {0}
  /\ PcmCapacity \in Nat \ {0}
  /\ MaxGen \in Nat
  /\ MaxCmds \in Nat
  /\ MaxUnmounts \in Nat
  /\ IoErrors \in BOOLEAN
  /\ Timeouts \in BOOLEAN
  /\ Prompt \in BOOLEAN

ChunkBufCount == 2        \* PLAYER_SVC_CHUNK_BUF_COUNT and s_read_buf[2]
Tracks  == 0 .. TrackCount - 1
Chunks  == 0 .. LookupLen - 1
Buffers == 0 .. ChunkBufCount - 1
None    == -1             \* no track, no lookup window, no buffer

VARIABLES
  cmdQueue,      \* s_cmd_queue
  readerCmd,     \* s_reader_cmd_queue, length 1
  decoderCmd,    \* s_decoder_cmd_queue, length 1
  chunkQueue,    \* s_chunk_queue
  pool,          \* count of s_buf_pool_sem
  pcm,           \* s_pcm_stream: the generation of each decoded chunk in it
  idleBits,      \* s_pipeline_event_group
  playing, paused, index,          \* s_playing, s_paused, s_playlist_index
  hasPlaylist,                     \* s_playlist_count > 0
  resumeChunk, currentChunk,       \* s_resume_chunk, s_current_chunk
  loaded, window,                  \* s_track_info: track, first chunk of lookup window
  activeGen, cancelledGen, stopRequested,
  svcPc, svcOp, svcTrack, svcChunk,          \* player_svc
  rdrPc, rdrGen, rdrChunk, rdrBuf, rdrBase, rdrHolds,   \* player_reader
  decPc, decGen, decMsg,                     \* player_decoder
  mounted, mountGen,                         \* s_mounted, s_mount_generation
  readQueue, cartReq, bufIndex, bufData, result,        \* cart_reader
  notified,      \* tasks with a pending task notification
  events,        \* cartridge events not yet delivered by the event loop
  cmds, unmounts,\* bounds used up
  crashed        \* a configASSERT failed: the chip resets

queueVars  == <<cmdQueue, readerCmd, decoderCmd, chunkQueue, pool, pcm, idleBits>>
playVars   == <<playing, paused, index, hasPlaylist, resumeChunk, currentChunk>>
trackVars  == <<loaded, window>>
genVars    == <<activeGen, cancelledGen, stopRequested>>
svcVars    == <<svcPc, svcOp, svcTrack, svcChunk>>
rdrVars    == <<rdrPc, rdrGen, rdrChunk, rdrBuf, rdrBase, rdrHolds>>
decVars    == <<decPc, decGen, decMsg>>
mountVars  == <<mounted, mountGen, events, unmounts>>
cartVars   == <<readQueue, cartReq, bufIndex, bufData, result, notified>>
vars == <<queueVars, playVars, trackVars, genVars, svcVars, rdrVars, decVars,
          mountVars, cartVars, cmds, crashed>>

-----------------------------------------------------------------------------
(* Messages *)

Cmd(kind, track, chunk, gen) ==
  [kind |-> kind, track |-> track, chunk |-> chunk, gen |-> gen]

(* player_service_chunk_msg_t.  The code's message holds a pointer into a    *)
(* read buffer; gen and src are history: the generation that queued the      *)
(* message and what its buffer held at that moment.                          *)
ChunkMsg(kind, gen, chunk, buf, src) ==
  [kind |-> kind, gen |-> gen, chunk |-> chunk, buf |-> buf, src |-> src]

(* What a read buffer holds: the data of a track from chunk base on; base    *)
(* None is the file header the service reads.                                *)
Content(track, base) == [track |-> track, base |-> base]

ContentType == [track: Tracks \cup {None}, base: Chunks \cup {None}]
CmdKinds == {"switch", "seek", "pause", "complete", "removed", "inserted"}
CmdType  == [kind: CmdKinds, track: Tracks, chunk: Chunks, gen: 0 .. MaxGen]
StartType == [gen: 0 .. MaxGen, chunk: Chunks]
ChunkMsgType == [kind: {"data", "flush", "eof"}, gen: 0 .. MaxGen,
                 chunk: Chunks, buf: Buffers \cup {None}, src: ContentType]
RequestType == [who: {"svc", "reader"}, src: ContentType, mount: Nat]
ResultType  == [ok: BOOLEAN, buf: Buffers \cup {None}]

NoContent == Content(None, None)
NoMsg     == ChunkMsg("eof", 0, 0, None, NoContent)
NoReq     == [who |-> "svc", src |-> NoContent, mount |-> 0]
NoResult  == [ok |-> FALSE, buf |-> None]

-----------------------------------------------------------------------------
(* Helpers *)

PipelineIdle == idleBits = {"reader", "decoder"}

ShouldStop(g) == g # 0 /\ (stopRequested \/ g # activeGen)

Clamp(c) == IF c >= LookupLen THEN LookupLen - 1 ELSE c

(* player_service_lookup_window_contains_chunk: the window loaded at chunk   *)
(* w holds entries w .. w+n-1; its last entry has no end offset unless it is *)
(* the track's last chunk.                                                   *)
WindowContains(w, c) ==
  LET n == IF LookupLen - w < WindowEntries THEN LookupLen - w ELSE WindowEntries
  IN /\ w # None
     /\ w <= c /\ c < LookupLen
     /\ \/ c - w + 1 < n
        \/ c + 1 = LookupLen /\ c - w + 1 = n

(* player_service_get_chunk_bounds once the window is known to hold the      *)
(* chunk.  With an invalidated window (start, count and entries all zero)    *)
(* the chunk seems to start at 0 and to end with the file.                   *)
ChunkStart(c) == IF WindowContains(window, c) THEN c ELSE 0
ChunkEnd(c)   == IF WindowContains(window, c) THEN c + 1 ELSE LookupLen

(* Mutant: the pool is created with room for more tokens than buffers.       *)
GiveUncapped(n) == n + 1

(* xSemaphoreGive on the counting semaphore s_buf_pool_sem.                  *)
Give(n) == IF n < ChunkBufCount THEN n + 1 ELSE n

(* A start command is still queued, or taken but its idle bit not cleared.   *)
StartPending == \/ readerCmd # <<>> \/ decoderCmd # <<>>
                \/ rdrPc = "got" \/ decPc = "got"

(* xEventGroupSetBits: a service blocked on both bits is woken by the set    *)
(* itself, whatever happens to the bits before it runs.                      *)
SetIdle(bit) ==
  /\ idleBits' = idleBits \cup {bit}
  /\ svcPc' = IF svcPc = "stopBlocked" /\ idleBits' = {"reader", "decoder"}
              THEN "stopReset" ELSE svcPc

(* Mutant: s_chunk_queue is not reset.                                       *)
ResetKeepsChunks ==
  /\ readerCmd' = <<>>
  /\ decoderCmd' = <<>>
  /\ pcm' = <<>>
  /\ pool' = ChunkBufCount
  /\ UNCHANGED <<cmdQueue, idleBits, chunkQueue>>

(* Mutant: s_pcm_stream is not reset.                                        *)
ResetKeepsPcm ==
  /\ readerCmd' = <<>>
  /\ decoderCmd' = <<>>
  /\ chunkQueue' = <<>>
  /\ pool' = ChunkBufCount
  /\ UNCHANGED <<cmdQueue, idleBits, pcm>>

(* Mutant: s_buf_pool_sem is not refilled.                                   *)
ResetKeepsPool ==
  /\ readerCmd' = <<>>
  /\ decoderCmd' = <<>>
  /\ chunkQueue' = <<>>
  /\ pcm' = <<>>
  /\ UNCHANGED <<cmdQueue, idleBits, pool>>

(* player_service_reset_pipeline.  xStreamBufferReset leaves the stream      *)
(* alone while a task is blocked on it.                                      *)
ResetPipeline ==
  /\ readerCmd' = <<>>
  /\ decoderCmd' = <<>>
  /\ chunkQueue' = <<>>
  /\ pcm' = IF decPc = "write" /\ Len(pcm) = PcmCapacity THEN pcm ELSE <<>>
  /\ pool' = ChunkBufCount
  /\ UNCHANGED <<cmdQueue, idleBits>>

-----------------------------------------------------------------------------
(* player_svc *)

(* What a step of the service leaves alone.                                  *)
Others == <<rdrVars, decVars, mountVars, cmds, crashed>>

SvcTake(kinds) ==
  /\ svcPc = "idle"
  /\ cmdQueue # <<>>
  /\ Head(cmdQueue).kind \in kinds
  /\ Prompt => ~StartPending
  /\ cmdQueue' = Tail(cmdQueue)
  /\ UNCHANGED <<readerCmd, decoderCmd, chunkQueue, pool, pcm, idleBits,
                 cartVars, Others>>

Goto(pc, op, track, chunk) ==
  /\ svcPc' = pc
  /\ svcOp' = op
  /\ svcTrack' = track
  /\ svcChunk' = chunk

SvcIdle == Goto("idle", "none", 0, 0)

(* NEXT, PREVIOUS and PLAY_INDEX: stop, then start the chosen track at 0.    *)
SvcSwitch ==
  /\ SvcTake({"switch"})
  /\ IF hasPlaylist
     THEN /\ paused' = FALSE
          /\ Goto("stop", "switch", Head(cmdQueue).track, 0)
     ELSE UNCHANGED <<paused, svcVars>>
  /\ UNCHANGED <<playing, index, hasPlaylist, resumeChunk, currentChunk,
                 trackVars, genVars>>

(* SEEK_ABSOLUTE, FAST_FORWARD and FAST_BACKWARD.  The lookup window is      *)
(* invalidated before the pipeline is stopped.                               *)
SvcSeek ==
  /\ SvcTake({"seek"})
  /\ LET target == Head(cmdQueue).chunk
         at     == IF paused THEN resumeChunk ELSE Clamp(currentChunk)
     IN IF playing /\ loaded # None /\ target # at
        THEN /\ resumeChunk' = target
             /\ window' = None
             /\ IF paused THEN UNCHANGED svcVars
                          ELSE Goto("stop", "seek", index, target)
        ELSE UNCHANGED <<resumeChunk, window, svcVars>>
  /\ UNCHANGED <<playing, paused, index, hasPlaylist, currentChunk, loaded,
                 genVars>>

SvcPause ==
  /\ SvcTake({"pause"})
  /\ \/ /\ ~playing
        /\ UNCHANGED <<resumeChunk, svcVars>>
     \/ /\ playing /\ paused
        /\ Goto("start", "resume", index, resumeChunk)
        /\ UNCHANGED resumeChunk
     \/ /\ playing /\ ~paused
        /\ resumeChunk' = IF loaded = None THEN 0 ELSE Clamp(currentChunk)
        /\ Goto("stop", "pause", index, 0)
  /\ UNCHANGED <<playing, paused, index, hasPlaylist, currentChunk,
                 trackVars, genVars>>

(* TRACK_COMPLETE of a cancelled or of an older generation is dropped.       *)
SvcComplete ==
  /\ SvcTake({"complete"})
  /\ LET g == Head(cmdQueue).gen
     IN \/ /\ g = cancelledGen \/ g # activeGen
           /\ UNCHANGED <<playing, svcVars>>
        \/ /\ g # cancelledGen /\ g = activeGen /\ hasPlaylist
           /\ \E t \in Tracks : Goto("start", "complete", t, 0)
           /\ UNCHANGED playing
        \/ /\ g # cancelledGen /\ g = activeGen /\ ~hasPlaylist
           /\ playing' = FALSE
           /\ UNCHANGED svcVars
  /\ UNCHANGED <<paused, index, hasPlaylist, resumeChunk, currentChunk,
                 trackVars, genVars>>

SvcCartridge ==
  /\ SvcTake({"removed", "inserted"})
  /\ Goto("stop", Head(cmdQueue).kind, 0, 0)
  /\ UNCHANGED <<playVars, trackVars, genVars>>

(* player_service_stop_playback: an idle pipeline is only reset; the         *)
(* generation is not cancelled and no stop is requested.                     *)
SvcStop ==
  /\ svcPc = "stop"
  /\ IF PipelineIdle
     THEN /\ svcPc' = "stopReset"
          /\ UNCHANGED genVars
     ELSE /\ cancelledGen' = activeGen
          /\ stopRequested' = TRUE
          /\ svcPc' = "stopWait"
          /\ UNCHANGED activeGen
  /\ UNCHANGED <<queueVars, playVars, trackVars, svcOp, svcTrack, svcChunk,
                 cartVars, Others>>

(* player_service_wait_for_idle_bits: returns at once or blocks until the    *)
(* bits are set, for at most two seconds.                                    *)
SvcStopWait ==
  /\ svcPc = "stopWait"
  /\ svcPc' = IF PipelineIdle THEN "stopReset" ELSE "stopBlocked"
  /\ UNCHANGED <<queueVars, playVars, trackVars, genVars, svcOp, svcTrack,
                 svcChunk, cartVars, Others>>

SvcStopTimeout ==
  /\ svcPc = "stopBlocked" /\ Timeouts
  /\ svcPc' = "stopReset"
  /\ UNCHANGED <<queueVars, playVars, trackVars, genVars, svcOp, svcTrack,
                 svcChunk, cartVars, Others>>

(* NEXT, PREVIOUS, PLAY_INDEX and the seeks go on to start a track.          *)
SvcStopReset ==
  /\ svcPc = "stopReset"
  /\ ResetPipeline
  /\ svcPc' = IF svcOp \in {"switch", "seek"} THEN "start" ELSE "stopped"
  /\ UNCHANGED <<playVars, trackVars, genVars, svcOp, svcTrack, svcChunk,
                 cartVars, Others>>

SvcPaused ==
  /\ svcPc = "stopped" /\ svcOp = "pause"
  /\ paused' = TRUE
  /\ SvcIdle
  /\ UNCHANGED <<queueVars, playing, index, hasPlaylist, resumeChunk,
                 currentChunk, trackVars, genVars, cartVars, Others>>

(* Mutant: s_playing is not cleared.                                         *)
SvcRemovedStillPlaying ==
  /\ svcPc = "stopped" /\ svcOp = "removed"
  /\ loaded' = None /\ window' = None
  /\ hasPlaylist' = FALSE
  /\ paused' = FALSE
  /\ SvcIdle
  /\ UNCHANGED <<queueVars, playing, index, resumeChunk, currentChunk, genVars,
                 cartVars, Others>>

SvcRemoved ==
  /\ svcPc = "stopped" /\ svcOp = "removed"
  /\ loaded' = None /\ window' = None
  /\ hasPlaylist' = FALSE
  /\ playing' = FALSE /\ paused' = FALSE
  /\ SvcIdle
  /\ UNCHANGED <<queueVars, index, resumeChunk, currentChunk, genVars,
                 cartVars, Others>>

(* player_service_handle_cartridge_inserted after the stop.  Where playback  *)
(* resumes, and whether paused, comes from the saved status: any track and   *)
(* chunk.                                                                    *)
SvcInserted ==
  /\ svcPc = "stopped" /\ svcOp = "inserted"
  /\ loaded' = None /\ window' = None
  /\ playing' = FALSE /\ paused' = FALSE
  /\ IF mounted
     THEN /\ hasPlaylist' = TRUE
          /\ index' = 0
          /\ \E op \in {"begin", "restore"}, t \in Tracks, c \in Chunks :
               Goto("start", op, t, c)
     ELSE /\ UNCHANGED <<hasPlaylist, index>>
          /\ SvcIdle
  /\ UNCHANGED <<queueVars, resumeChunk, currentChunk, genVars, cartVars, Others>>

(* player_service_start_track / restore_paused_track fail: the handler only  *)
(* clears s_playing.                                                         *)
SvcStartFails ==
  /\ playing' = FALSE
  /\ SvcIdle
  /\ UNCHANGED <<queueVars, paused, index, hasPlaylist, resumeChunk,
                 currentChunk, trackVars, genVars, Others>>

(* The checks at the head of player_service_start_track, and                 *)
(* player_service_ensure_track_loaded up to its read of the file header.     *)
(* Without a mounted cartridge the metadata names no file.                   *)
SvcStart ==
  /\ svcPc = "start"
  /\ \/ /\ ~PipelineIdle \/ ~mounted \/ (loaded # svcTrack /\ readQueue # <<>>)
        /\ SvcStartFails
        /\ UNCHANGED cartVars
     \/ /\ PipelineIdle /\ mounted /\ loaded = svcTrack
        /\ svcPc' = "commit"
        /\ UNCHANGED <<queueVars, playVars, trackVars, genVars, svcOp,
                       svcTrack, svcChunk, cartVars, Others>>
     \/ /\ PipelineIdle /\ mounted /\ loaded # svcTrack /\ readQueue = <<>>
        /\ readQueue' = <<[who |-> "svc", src |-> Content(svcTrack, None),
                           mount |-> mountGen]>>
        /\ svcPc' = "load"
        /\ UNCHANGED <<queueVars, playVars, trackVars, genVars, svcOp,
                       svcTrack, svcChunk, cartReq, bufIndex, bufData, result,
                       notified, Others>>

(* player_service_load_track_info once the read is done: the header must be  *)
(* the file's, and stat must still find the file.                            *)
SvcLoaded ==
  /\ svcPc = "load"
  /\ "svc" \in notified
  /\ notified' = notified \ {"svc"}
  /\ UNCHANGED <<readQueue, cartReq, bufIndex, bufData, result>>
  /\ IF result.ok /\ bufData[result.buf] = Content(svcTrack, None) /\ mounted
     THEN /\ loaded' = svcTrack /\ window' = None
          /\ svcPc' = "commit"
          /\ UNCHANGED <<queueVars, playVars, genVars, svcOp, svcTrack,
                         svcChunk, Others>>
     ELSE SvcStartFails

(* The assignments of player_service_start_track.                            *)
SvcCommit ==
  /\ svcPc = "commit" /\ svcOp # "restore"
  /\ activeGen < MaxGen
  /\ activeGen' = activeGen + 1
  /\ index' = svcTrack
  /\ playing' = TRUE /\ paused' = FALSE
  /\ stopRequested' = FALSE
  /\ resumeChunk' = svcChunk /\ currentChunk' = svcChunk
  /\ svcPc' = "startReset"
  /\ UNCHANGED <<queueVars, hasPlaylist, trackVars, cancelledGen, svcOp,
                 svcTrack, svcChunk, cartVars, Others>>

(* The assignments of player_service_restore_paused_track and its reset.     *)
SvcRestore ==
  /\ svcPc = "commit" /\ svcOp = "restore"
  /\ index' = svcTrack
  /\ playing' = TRUE /\ paused' = TRUE
  /\ stopRequested' = FALSE
  /\ resumeChunk' = svcChunk /\ currentChunk' = svcChunk
  /\ ResetPipeline
  /\ SvcIdle
  /\ UNCHANGED <<hasPlaylist, trackVars, activeGen, cancelledGen, cartVars,
                 Others>>

SvcStartReset ==
  /\ svcPc = "startReset"
  /\ ResetPipeline
  /\ svcPc' = "sendDecoder"
  /\ UNCHANGED <<playVars, trackVars, genVars, svcOp, svcTrack, svcChunk,
                 cartVars, Others>>

(* Both command queues are empty after the reset, so the error paths of the  *)
(* two sends are dead code.                                                  *)
SvcSendDecoder ==
  /\ svcPc = "sendDecoder"
  /\ decoderCmd' = <<[gen |-> activeGen, chunk |-> svcChunk]>>
  /\ svcPc' = "sendReader"
  /\ UNCHANGED <<cmdQueue, readerCmd, chunkQueue, pool, pcm, idleBits,
                 playVars, trackVars, genVars, svcOp, svcTrack, svcChunk,
                 cartVars, Others>>

SvcSendReader ==
  /\ svcPc = "sendReader"
  /\ readerCmd' = <<[gen |-> activeGen, chunk |-> svcChunk]>>
  /\ SvcIdle
  /\ UNCHANGED <<cmdQueue, decoderCmd, chunkQueue, pool, pcm, idleBits,
                 playVars, trackVars, genVars, cartVars, Others>>

Svc == /\ ~crashed
       /\ \/ SvcSwitch \/ SvcSeek \/ SvcPause \/ SvcComplete \/ SvcCartridge
          \/ SvcStop \/ SvcStopWait \/ SvcStopTimeout \/ SvcStopReset
          \/ SvcPaused \/ SvcRemoved \/ SvcInserted
          \/ SvcStart \/ SvcLoaded \/ SvcCommit \/ SvcRestore
          \/ SvcStartReset \/ SvcSendDecoder \/ SvcSendReader

-----------------------------------------------------------------------------
(* player_reader *)

RdrUnchanged == UNCHANGED <<playVars, genVars, svcOp, svcTrack, svcChunk,
                            decGen, decMsg, mountVars, cmds>>

RdrGoto(pc) == /\ rdrPc' = pc
               /\ UNCHANGED <<rdrGen, rdrChunk, rdrBuf, rdrBase, rdrHolds>>

RdrTake ==
  /\ rdrPc = "idle"
  /\ readerCmd # <<>>
  /\ rdrPc' = "got"
  /\ rdrGen' = Head(readerCmd).gen
  /\ rdrChunk' = Head(readerCmd).chunk
  /\ readerCmd' = <<>>
  /\ UNCHANGED <<cmdQueue, decoderCmd, chunkQueue, pool, pcm, idleBits,
                 rdrBuf, rdrBase, rdrHolds, trackVars, cartVars, crashed>>

(* The idle bit is cleared only after the command has left the queue.        *)
RdrBegin ==
  /\ rdrPc = "got"
  /\ idleBits' = idleBits \ {"reader"}
  /\ notified' = notified \ {"reader"}
  /\ rdrBuf' = None /\ rdrBase' = 0 /\ rdrHolds' = FALSE
  /\ rdrPc' = IF loaded = None THEN "done" ELSE "loop"
  /\ UNCHANGED <<rdrGen, rdrChunk, cmdQueue, readerCmd, decoderCmd, chunkQueue,
                 pool, pcm, trackVars, readQueue, cartReq, bufIndex, bufData,
                 result, crashed>>

(* Mutant: the loop ends one chunk early.                                    *)
RdrLoopShort ==
  /\ rdrPc = "loop"
  /\ RdrGoto(CASE \/ loaded = None
                  \/ rdrChunk + 1 >= LookupLen
                  \/ ShouldStop(rdrGen)             -> "done"
               [] OTHER -> IF WindowContains(window, rdrChunk)
                           THEN "bounds" ELSE "loadWindow")
  /\ UNCHANGED <<queueVars, trackVars, cartVars, crashed>>

(* Head of the chunk loop, up to the window check of get_chunk_bounds.       *)
RdrLoop ==
  /\ rdrPc = "loop"
  /\ RdrGoto(CASE \/ loaded = None
                  \/ rdrChunk >= LookupLen
                  \/ ShouldStop(rdrGen)             -> "done"
               [] OTHER -> IF WindowContains(window, rdrChunk)
                           THEN "bounds" ELSE "loadWindow")
  /\ UNCHANGED <<queueVars, trackVars, cartVars, crashed>>

(* player_service_load_lookup_window.                                        *)
RdrLoadWindow ==
  /\ rdrPc = "loadWindow"
  /\ \/ /\ ~ShouldStop(rdrGen) /\ mounted /\ loaded # None
        /\ window' = rdrChunk
        /\ RdrGoto("bounds")
     \/ /\ ShouldStop(rdrGen) \/ ~mounted \/ loaded = None \/ IoErrors
        /\ window' = None
        /\ RdrGoto("done")
  /\ UNCHANGED <<queueVars, loaded, cartVars, crashed>>

(* The rest of get_chunk_bounds reads the window again; then the configASSERT *)
(* on the chunk's size, and whether the chunk lies in the current buffer.    *)
RdrBounds ==
  /\ rdrPc = "bounds"
  /\ LET start == ChunkStart(rdrChunk)
         end   == ChunkEnd(rdrChunk)
     IN \/ /\ loaded = None
           /\ rdrPc' = "loop"
           /\ rdrChunk' = rdrChunk + 1
           /\ UNCHANGED <<rdrGen, rdrBuf, rdrBase, rdrHolds, crashed>>
        \/ /\ loaded # None /\ end - start > 1
           /\ crashed' = TRUE
           /\ UNCHANGED rdrVars
        \/ /\ loaded # None /\ end - start <= 1
           /\ RdrGoto(IF rdrBuf = None THEN "take"
                      ELSE IF start >= rdrBase /\ end <= rdrBase + ReadChunks
                           THEN "send" ELSE "flush")
           /\ UNCHANGED crashed
  /\ UNCHANGED <<queueVars, trackVars, cartVars>>

(* Mutant: a full queue is retried for ever.                                 *)
RdrQueueForever(msg, sent, aborted) ==
  /\ Len(chunkQueue) < ChunkBufCount
  /\ chunkQueue' = Append(chunkQueue, msg)
  /\ rdrPc' = sent
  /\ UNCHANGED <<cmdQueue, readerCmd, decoderCmd, pool, pcm, idleBits,
                 rdrGen, rdrBuf, rdrBase, trackVars, cartVars, crashed>>

(* player_service_queue_chunk_message: a full queue is retried until the     *)
(* reader should stop.                                                       *)
RdrQueue(msg, sent, aborted) ==
  /\ \/ /\ Len(chunkQueue) < ChunkBufCount
        /\ chunkQueue' = Append(chunkQueue, msg)
        /\ rdrPc' = sent
     \/ /\ Len(chunkQueue) = ChunkBufCount /\ ShouldStop(rdrGen)
        /\ rdrPc' = aborted
        /\ UNCHANGED chunkQueue
  /\ UNCHANGED <<cmdQueue, readerCmd, decoderCmd, pool, pcm, idleBits,
                 rdrGen, rdrBuf, rdrBase, trackVars, cartVars, crashed>>

(* The buffer read before goes back to the pool through the decoder.         *)
RdrFlush ==
  /\ rdrPc = "flush"
  /\ RdrQueue(ChunkMsg("flush", rdrGen, 0, None, NoContent), "take", "done")
  /\ rdrHolds' = (rdrHolds /\ rdrPc' = "done")
  /\ UNCHANGED rdrChunk

RdrTakeBuffer ==
  /\ rdrPc = "take"
  /\ \/ /\ pool > 0
        /\ pool' = pool - 1
        /\ rdrHolds' = TRUE
        /\ rdrPc' = "request"
     \/ /\ pool = 0 /\ ShouldStop(rdrGen)
        /\ rdrPc' = "done"
        /\ UNCHANGED <<pool, rdrHolds>>
  /\ UNCHANGED <<cmdQueue, readerCmd, decoderCmd, chunkQueue, pcm, idleBits,
                 rdrGen, rdrChunk, rdrBuf, rdrBase, trackVars, cartVars, crashed>>

(* The reader gives its buffer back and ends with an error.                  *)
RdrFail ==
  /\ pool' = Give(pool)
  /\ rdrHolds' = FALSE /\ rdrBuf' = None
  /\ rdrPc' = "done"
  /\ UNCHANGED <<cmdQueue, readerCmd, decoderCmd, chunkQueue, pcm, idleBits,
                 rdrGen, rdrChunk, rdrBase>>

(* cartridge_service_read_chunk_async.  The file name is a pointer into      *)
(* s_track_info: the track loaded now.                                       *)
RdrRequest ==
  /\ rdrPc = "request"
  /\ \/ /\ ShouldStop(rdrGen)
        /\ RdrGoto("done")
        /\ UNCHANGED <<queueVars, readQueue>>
     \/ /\ ~ShouldStop(rdrGen)
        /\ ~mounted \/ readQueue # <<>>
        /\ RdrFail
        /\ UNCHANGED readQueue
     \/ /\ ~ShouldStop(rdrGen)
        /\ mounted /\ readQueue = <<>>
        /\ readQueue' = <<[who |-> "reader", src |-> Content(loaded, rdrChunk),
                           mount |-> mountGen]>>
        /\ RdrGoto("wait")
        /\ UNCHANGED queueVars
  /\ UNCHANGED <<trackVars, cartReq, bufIndex, bufData, result, notified, crashed>>

(* Mutant: a stop abandons the read.                                         *)
RdrPollStopAbandons ==
  /\ rdrPc = "wait"
  /\ "reader" \notin notified
  /\ ShouldStop(rdrGen)
  /\ RdrGoto("done")
  /\ UNCHANGED <<queueVars, trackVars, cartVars, crashed>>

(* player_service_wait_for_notification: once a poll saw the stop, the read  *)
(* is still awaited but its result is not used.                              *)
RdrPollStop ==
  /\ rdrPc = "wait"
  /\ "reader" \notin notified
  /\ ShouldStop(rdrGen)
  /\ RdrGoto("waitStop")
  /\ UNCHANGED <<queueVars, trackVars, cartVars, crashed>>

RdrNotified ==
  /\ rdrPc \in {"wait", "waitStop"}
  /\ "reader" \in notified
  /\ notified' = notified \ {"reader"}
  /\ \/ /\ rdrPc = "waitStop"
        /\ RdrGoto("done")
        /\ UNCHANGED queueVars
     \/ /\ rdrPc = "wait" /\ ~result.ok
        /\ RdrFail
     \/ /\ rdrPc = "wait" /\ result.ok
        /\ rdrBuf' = result.buf
        /\ rdrBase' = rdrChunk
        /\ rdrPc' = "send"
        /\ UNCHANGED <<rdrGen, rdrChunk, rdrHolds, queueVars>>
  /\ UNCHANGED <<trackVars, readQueue, cartReq, bufIndex, bufData, result, crashed>>

RdrSend ==
  /\ rdrPc = "send"
  /\ RdrQueue(ChunkMsg("data", rdrGen, rdrChunk, rdrBuf,
                       Content(loaded, rdrBase)), "loop", "done")
  /\ rdrChunk' = IF rdrPc' = "loop" THEN rdrChunk + 1 ELSE rdrChunk
  /\ UNCHANGED rdrHolds

(* Mutant: no end-of-file message.                                           *)
RdrDoneNoEof ==
  /\ rdrPc = "done"
  /\ pool' = IF rdrHolds THEN Give(pool) ELSE pool
  /\ rdrHolds' = FALSE
  /\ rdrPc' = "close"
  /\ UNCHANGED <<cmdQueue, readerCmd, decoderCmd, chunkQueue, pcm, idleBits,
                 rdrGen, rdrChunk, rdrBuf, rdrBase, trackVars, cartVars, crashed>>

(* track_done *)
RdrDone ==
  /\ rdrPc = "done"
  /\ pool' = IF rdrHolds THEN Give(pool) ELSE pool
  /\ rdrHolds' = FALSE
  /\ rdrPc' = "eof"
  /\ UNCHANGED <<cmdQueue, readerCmd, decoderCmd, chunkQueue, pcm, idleBits,
                 rdrGen, rdrChunk, rdrBuf, rdrBase, trackVars, cartVars, crashed>>

(* player_service_send_eof_message: sent also by a reader that was stopped.  *)
RdrEof ==
  /\ rdrPc = "eof"
  /\ RdrQueue(ChunkMsg("eof", rdrGen, 0, None, NoContent), "close", "close")
  /\ UNCHANGED <<rdrChunk, rdrHolds>>

(* Back to the head of the task's loop: the idle bit is set and wakes a      *)
(* decoder blocked on it.                                                    *)
RdrClose ==
  /\ rdrPc = "close"
  /\ SetIdle("reader")
  /\ decPc' = IF decPc = "blocked" THEN "complete" ELSE decPc
  /\ RdrGoto("idle")
  /\ UNCHANGED <<cmdQueue, readerCmd, decoderCmd, chunkQueue, pool, pcm,
                 trackVars, cartVars, crashed>>

Reader == /\ ~crashed
          /\ \/ RdrTake \/ RdrBegin \/ RdrLoop \/ RdrLoadWindow \/ RdrBounds
             \/ RdrFlush \/ RdrTakeBuffer \/ RdrRequest \/ RdrPollStop
             \/ RdrNotified \/ RdrSend \/ RdrDone \/ RdrEof \/ RdrClose
          /\ rdrPc # "close" => UNCHANGED <<svcPc, decPc>>
          /\ RdrUnchanged

-----------------------------------------------------------------------------
(* player_decoder *)

DecUnchanged ==
  UNCHANGED <<playing, paused, index, hasPlaylist, resumeChunk, trackVars,
              genVars, svcOp, svcTrack, svcChunk, rdrVars, mountVars, cartVars,
              cmds, crashed>>

DecGoto(pc) == decPc' = pc /\ UNCHANGED <<decGen, decMsg>>

(* Mutant: the command is peeked at, not received.                           *)
DecTakePeeks ==
  /\ decPc = "idle"
  /\ decoderCmd # <<>>
  /\ decPc' = "got"
  /\ decGen' = Head(decoderCmd).gen
  /\ UNCHANGED <<decMsg, queueVars, currentChunk>>

DecTake ==
  /\ decPc = "idle"
  /\ decoderCmd # <<>>
  /\ decPc' = "got"
  /\ decGen' = Head(decoderCmd).gen
  /\ decoderCmd' = <<>>
  /\ UNCHANGED <<decMsg, cmdQueue, readerCmd, chunkQueue, pool, pcm, idleBits,
                 currentChunk>>

(* The idle bit is cleared and the Opus decoder opened.                      *)
DecOpen ==
  /\ decPc = "got"
  /\ idleBits' = idleBits \ {"decoder"}
  /\ \E pc \in {"loop"} \cup (IF IoErrors THEN {"finish"} ELSE {}) : DecGoto(pc)
  /\ UNCHANGED <<cmdQueue, readerCmd, decoderCmd, chunkQueue, pool, pcm,
                 currentChunk>>

DecLoop ==
  /\ decPc = "loop"
  /\ DecGoto(IF ShouldStop(decGen) THEN "finish" ELSE "receive")
  /\ UNCHANGED <<queueVars, currentChunk>>

(* xQueueReceive on s_chunk_queue timed out.                                 *)
DecPoll ==
  /\ decPc = "receive"
  /\ chunkQueue = <<>>
  /\ DecGoto("loop")
  /\ UNCHANGED <<queueVars, currentChunk>>

(* A message carries no generation in the code: whatever is queued is taken. *)
DecReceive ==
  /\ decPc = "receive"
  /\ chunkQueue # <<>>
  /\ chunkQueue' = Tail(chunkQueue)
  /\ LET msg == Head(chunkQueue)
     IN \/ /\ msg.kind = "eof"
           /\ DecGoto("finish")
           /\ UNCHANGED <<pool, currentChunk>>
        \/ /\ msg.kind = "flush"
           /\ pool' = Give(pool)
           /\ DecGoto("loop")
           /\ UNCHANGED currentChunk
        \/ /\ msg.kind = "data"
           /\ currentChunk' = msg.chunk
           /\ decPc' = "chunk"
           /\ decMsg' = msg
           /\ UNCHANGED <<decGen, pool>>
  /\ UNCHANGED <<cmdQueue, readerCmd, decoderCmd, pcm, idleBits>>

(* The buffer behind the message still holds what the reader put there.      *)
Intact(msg) == bufData[msg.buf] = msg.src

(* CRC check: data overwritten in the meantime may or may not pass it.       *)
DecChunk ==
  /\ decPc = "chunk"
  /\ \/ DecGoto("push")
     \/ ~Intact(decMsg) /\ decPc' = "loop" /\ decMsg' = NoMsg /\ UNCHANGED decGen
  /\ UNCHANGED <<queueVars, currentChunk>>

DecPush ==
  /\ decPc = "push"
  /\ IF ShouldStop(decGen)
     THEN decPc' = "finish" /\ decMsg' = NoMsg /\ UNCHANGED decGen
     ELSE DecGoto("write")
  /\ UNCHANGED <<queueVars, currentChunk>>

(* xStreamBufferSend: the chunk's PCM, or a timeout while the stream is full. *)
DecWrite ==
  /\ decPc = "write"
  /\ \/ /\ Len(pcm) < PcmCapacity
        /\ pcm' = Append(pcm, decMsg.gen)
        /\ decPc' = "loop" /\ decMsg' = NoMsg
        /\ UNCHANGED decGen
     \/ /\ Len(pcm) = PcmCapacity
        /\ DecGoto("push")
        /\ UNCHANGED pcm
  /\ UNCHANGED <<cmdQueue, readerCmd, decoderCmd, chunkQueue, pool, idleBits,
                 currentChunk>>

(* Mutant: TRACK_COMPLETE is sent without waiting for the reader.            *)
AwaitNobody == "complete"

(* player_service_queue_track_complete_when_reader_idle: set the own bit,    *)
(* wait for the reader's.                                                    *)
AwaitReader == IF "reader" \in idleBits THEN "complete" ELSE "blocked"

DecFinish ==
  /\ decPc = "finish"
  /\ SetIdle("decoder")
  /\ DecGoto(AwaitReader) \/ (~Prompt /\ DecGoto("await"))
  /\ UNCHANGED <<cmdQueue, readerCmd, decoderCmd, chunkQueue, pool, pcm,
                 currentChunk>>

DecAwait ==
  /\ decPc = "await"
  /\ DecGoto(AwaitReader)
  /\ UNCHANGED <<queueVars, currentChunk>>

DecTimeout ==
  /\ decPc = "blocked" /\ Timeouts
  /\ DecGoto("complete")
  /\ UNCHANGED <<queueVars, currentChunk>>

(* The result of the send is ignored: with a full s_cmd_queue the completion *)
(* is lost.                                                                  *)
DecComplete ==
  /\ decPc = "complete"
  /\ cmdQueue' = IF Len(cmdQueue) < QueueDepth
                 THEN Append(cmdQueue, Cmd("complete", 0, 0, decGen))
                 ELSE cmdQueue
  /\ DecGoto("idle")
  /\ UNCHANGED <<readerCmd, decoderCmd, chunkQueue, pool, pcm, idleBits,
                 currentChunk>>

Decoder == /\ ~crashed
           /\ \/ DecTake \/ DecOpen \/ DecLoop \/ DecPoll \/ DecReceive
              \/ DecChunk \/ DecPush \/ DecWrite \/ DecFinish
              \/ DecAwait \/ DecTimeout \/ DecComplete
           /\ decPc # "finish" => UNCHANGED svcPc
           /\ DecUnchanged

-----------------------------------------------------------------------------
(* cart_reader *)

CartUnchanged == UNCHANGED <<queueVars, playVars, trackVars, genVars, svcVars,
                             rdrVars, decVars, mountVars, cmds, crashed>>

CartTake ==
  /\ cartReq = NoReq
  /\ readQueue # <<>>
  /\ cartReq' = Head(readQueue)
  /\ readQueue' = <<>>
  /\ UNCHANGED <<bufIndex, bufData, result, notified>>

CartNotify ==
  /\ notified' = notified \cup {cartReq.who}
  /\ cartReq' = NoReq
  /\ UNCHANGED readQueue

(* Mutant: s_buf_index is not toggled.                                       *)
CartServeOneBuffer ==
  /\ cartReq # NoReq
  /\ mounted /\ cartReq.mount = mountGen /\ cartReq.src.track # None
  /\ bufData' = [bufData EXCEPT ![bufIndex] = cartReq.src]
  /\ result' = [ok |-> TRUE, buf |-> bufIndex]
  /\ CartNotify
  /\ UNCHANGED bufIndex

(* Under s_state_mutex: a request of an earlier mount is refused; a read     *)
(* fills the buffer whose turn it is.                                        *)
CartServe ==
  /\ cartReq # NoReq
  /\ mounted /\ cartReq.mount = mountGen /\ cartReq.src.track # None
  /\ bufIndex' = 1 - bufIndex
  /\ bufData' = [bufData EXCEPT ![bufIndex] = cartReq.src]
  /\ result' = [ok |-> TRUE, buf |-> bufIndex]
  /\ CartNotify

CartRefuse ==
  /\ cartReq # NoReq
  /\ ~mounted \/ cartReq.mount # mountGen \/ cartReq.src.track = None \/ IoErrors
  /\ result' = NoResult
  /\ CartNotify
  /\ UNCHANGED <<bufIndex, bufData>>

(* fseek fails, or fread comes back short of the chunk: the buffer's turn is *)
(* used up all the same and its contents are what fread left behind.         *)
CartSeekFails ==
  /\ cartReq # NoReq /\ IoErrors
  /\ mounted /\ cartReq.mount = mountGen /\ cartReq.src.track # None
  /\ bufIndex' = 1 - bufIndex
  /\ \E left \in {bufData[bufIndex], NoContent} :
       bufData' = [bufData EXCEPT ![bufIndex] = left]
  /\ result' = NoResult
  /\ CartNotify

Cart == /\ ~crashed
        /\ CartTake \/ CartServe \/ CartRefuse \/ CartSeekFails
        /\ CartUnchanged

-----------------------------------------------------------------------------
(* Environment *)

(* cartridge_service_unmount (sd unmount, reboot): under the mutex, then the *)
(* UNMOUNTED event.                                                          *)
Unmount ==
  /\ mounted /\ unmounts < MaxUnmounts
  /\ mounted' = FALSE
  /\ mountGen' = mountGen + 1
  /\ unmounts' = unmounts + 1
  /\ events' = Append(events, "removed")
  /\ UNCHANGED <<queueVars, cmds>>

(* cartridge_service_mount (sd mount): its event MOUNTED is not one the      *)
(* player listens to.                                                        *)
Mount ==
  /\ ~mounted
  /\ mounted' = TRUE
  /\ mountGen' = mountGen + 1
  /\ UNCHANGED <<events, unmounts, queueVars, cmds>>

QueueCmd(m) ==
  /\ cmdQueue' = IF Len(cmdQueue) < QueueDepth THEN Append(cmdQueue, m)
                                               ELSE cmdQueue
  /\ UNCHANGED <<readerCmd, decoderCmd, chunkQueue, pool, pcm, idleBits>>

(* player_service_on_cartridge_event, run by the event loop.                 *)
DeliverEvent ==
  /\ events # <<>>
  /\ events' = Tail(events)
  /\ QueueCmd(Cmd(Head(events), 0, 0, 0))
  /\ UNCHANGED <<mounted, mountGen, unmounts, cmds>>

(* player_service_request_control, play_track_by_index, seek_to_seconds: a   *)
(* full queue is reported to the caller, nothing else happens.               *)
Request(m) ==
  /\ cmds < MaxCmds
  /\ Len(cmdQueue) < QueueDepth
  /\ cmds' = cmds + 1
  /\ QueueCmd(m)
  /\ UNCHANGED mountVars

RequestSwitch == \E t \in Tracks : Request(Cmd("switch", t, 0, 0))
RequestPause  == Request(Cmd("pause", 0, 0, 0))
RequestSeek   == playing /\ \E c \in Chunks : Request(Cmd("seek", 0, c, 0))

(* player_service_pcm_provider: a paused player returns silence.             *)
PcmPull ==
  /\ ~paused
  /\ pcm # <<>>
  /\ pcm' = Tail(pcm)
  /\ UNCHANGED <<cmdQueue, readerCmd, decoderCmd, chunkQueue, pool, idleBits,
                 mountVars, cmds>>

EnvUnchanged == UNCHANGED <<playVars, trackVars, genVars, svcVars, rdrVars,
                            decVars, cartVars, crashed>>

Output    == ~crashed /\ PcmPull /\ EnvUnchanged
EventLoop == ~crashed /\ DeliverEvent /\ EnvUnchanged
Callers   == /\ ~crashed
             /\ RequestSwitch \/ RequestPause \/ RequestSeek \/ Unmount \/ Mount
             /\ EnvUnchanged

Next == Svc \/ Reader \/ Decoder \/ Cart \/ Output \/ EventLoop \/ Callers

(* Both tasks exist with their idle bits set; the cartridge found at boot is *)
(* mounted and its INSERTED command queued.                                  *)
Init ==
  /\ cmdQueue = <<Cmd("inserted", 0, 0, 0)>>
  /\ readerCmd = <<>> /\ decoderCmd = <<>> /\ chunkQueue = <<>>
  /\ pool = ChunkBufCount
  /\ pcm = <<>>
  /\ idleBits = {"reader", "decoder"}
  /\ playing = FALSE /\ paused = FALSE /\ index = 0 /\ hasPlaylist = FALSE
  /\ resumeChunk = 0 /\ currentChunk = 0
  /\ loaded = None /\ window = None
  /\ activeGen = 0 /\ cancelledGen = 0 /\ stopRequested = FALSE
  /\ svcPc = "idle" /\ svcOp = "none" /\ svcTrack = 0 /\ svcChunk = 0
  /\ rdrPc = "idle" /\ rdrGen = 0 /\ rdrChunk = 0
  /\ rdrBuf = None /\ rdrBase = 0 /\ rdrHolds = FALSE
  /\ decPc = "idle" /\ decGen = 0 /\ decMsg = NoMsg
  /\ mounted = TRUE /\ mountGen = 1 /\ events = <<>>
  /\ readQueue = <<>> /\ cartReq = NoReq /\ bufIndex = 0
  /\ bufData = [b \in Buffers |-> NoContent]
  /\ result = NoResult /\ notified = {}
  /\ cmds = 0 /\ unmounts = 0
  /\ crashed = FALSE

(* FreeRTOS runs every ready task again and again, the audio output keeps    *)
(* asking for PCM; nobody has to press a button.                             *)
Fairness == WF_vars(Svc) /\ WF_vars(Reader) /\ WF_vars(Decoder)
            /\ WF_vars(Cart) /\ WF_vars(Output) /\ WF_vars(EventLoop)

Spec == Init /\ [][Next]_vars
FairSpec == Spec /\ Fairness

-----------------------------------------------------------------------------
(* Properties *)

SvcPcs == {"idle", "stop", "stopWait", "stopBlocked", "stopReset", "stopped",
           "start", "load", "commit", "startReset", "sendDecoder", "sendReader"}
SvcOps == {"none", "switch", "seek", "pause", "removed", "inserted", "resume",
           "complete", "begin", "restore"}
RdrPcs == {"idle", "got", "loop", "loadWindow", "bounds", "flush", "take",
           "request", "wait", "waitStop", "send", "done", "eof", "close"}
DecPcs == {"idle", "got", "loop", "receive", "chunk", "push", "write",
           "finish", "await", "blocked", "complete"}

QueueTypeOK ==
  /\ cmdQueue \in Seq(CmdType) /\ Len(cmdQueue) <= QueueDepth
  /\ readerCmd \in Seq(StartType) /\ Len(readerCmd) <= 1
  /\ decoderCmd \in Seq(StartType) /\ Len(decoderCmd) <= 1
  /\ chunkQueue \in Seq(ChunkMsgType) /\ Len(chunkQueue) <= ChunkBufCount
  /\ pool \in 0 .. ChunkBufCount
  /\ pcm \in Seq(0 .. MaxGen) /\ Len(pcm) <= PcmCapacity
  /\ idleBits \in SUBSET {"reader", "decoder"}

PlayTypeOK ==
  /\ playing \in BOOLEAN /\ paused \in BOOLEAN /\ hasPlaylist \in BOOLEAN
  /\ index \in Tracks /\ resumeChunk \in Chunks /\ currentChunk \in Chunks
  /\ loaded \in Tracks \cup {None} /\ window \in Chunks \cup {None}
  /\ activeGen \in 0 .. MaxGen /\ cancelledGen \in 0 .. MaxGen
  /\ stopRequested \in BOOLEAN /\ crashed \in BOOLEAN
  /\ cmds \in 0 .. MaxCmds

SvcTypeOK == /\ svcPc \in SvcPcs /\ svcOp \in SvcOps
             /\ svcTrack \in Tracks /\ svcChunk \in Chunks

(* Inside the chunk loop the reader's chunk is one of the track's.           *)
RdrTypeOK ==
  /\ rdrPc \in RdrPcs /\ rdrGen \in 0 .. MaxGen /\ rdrChunk \in 0 .. LookupLen
  /\ rdrPc \in {"loadWindow", "bounds", "flush", "take", "request", "wait",
                "waitStop", "send"} => rdrChunk \in Chunks
  /\ rdrBuf \in Buffers \cup {None} /\ rdrBase \in Chunks /\ rdrHolds \in BOOLEAN

DecTypeOK == decPc \in DecPcs /\ decGen \in 0 .. MaxGen /\ decMsg \in ChunkMsgType

CartTypeOK ==
  /\ mounted \in BOOLEAN /\ mountGen \in Nat /\ unmounts \in 0 .. MaxUnmounts
  /\ events \in Seq({"removed"})
  /\ readQueue \in Seq(RequestType) /\ Len(readQueue) <= 1
  /\ cartReq \in RequestType
  /\ bufIndex \in Buffers /\ bufData \in [Buffers -> ContentType]
  /\ result \in ResultType
  /\ notified \in SUBSET {"svc", "reader"}

(* Every queue, flag and program counter of the pipeline stays in its range; *)
(* in particular no queue exceeds its depth and the buffer pool never holds  *)
(* more than PLAYER_SVC_CHUNK_BUF_COUNT tokens.                              *)
TypeOK == /\ QueueTypeOK /\ PlayTypeOK /\ SvcTypeOK
          /\ RdrTypeOK /\ DecTypeOK /\ CartTypeOK

(* The reads a task waits for: queued, being served, or already notified.    *)
Outstanding(w) ==
  (IF \E i \in DOMAIN readQueue : readQueue[i].who = w THEN 1 ELSE 0)
    + (IF cartReq # NoReq /\ cartReq.who = w THEN 1 ELSE 0)
    + (IF w \in notified THEN 1 ELSE 0)

(* No lost and no spurious wake-up.  player_service_wait_for_notification    *)
(* has no time limit: a task that waits has exactly one read outstanding,    *)
(* and a task that does not wait has no notification left over that would    *)
(* end its next wait before the data is there.                               *)
NoLostWakeup ==
  /\ Outstanding("svc") = IF svcPc = "load" THEN 1 ELSE 0
  /\ Outstanding("reader") = IF rdrPc \in {"wait", "waitStop"} THEN 1 ELSE 0

(* Who still owes or carries the TRACK_COMPLETE of a generation.             *)
Commanded(g) == decoderCmd # <<>> /\ decoderCmd[1].gen = g
Decoding(g)  == decPc # "idle" /\ decGen = g
Reported(g, i) == cmdQueue[i].kind = "complete" /\ cmdQueue[i].gen = g

(* A generation is completed at most once: its TRACK_COMPLETE is in exactly  *)
(* one place, the decoder's command, the decoder at work or the service's    *)
(* queue, so a track cannot be skipped by a second completion.               *)
CompletionOnce ==
  \A g \in 1 .. MaxGen :
    /\ ~(Commanded(g) /\ Decoding(g))
    /\ \A i \in DOMAIN cmdQueue :
         Reported(g, i) => /\ ~Commanded(g) /\ ~Decoding(g)
                           /\ \A j \in DOMAIN cmdQueue : Reported(g, j) => i = j

(* Between two commands, a player that claims to play has a playlist and its *)
(* track info is that of the track s_playlist_index names: what is reported  *)
(* as playing is the file being read.                                        *)
PlayingIsLoaded ==
  svcPc = "idle" /\ playing => hasPlaylist /\ loaded = index

(* The chunk the decoder works on was queued by the reader of its own        *)
(* generation: no data of an earlier playback session is decoded.            *)
NoStaleChunk == decPc \in {"chunk", "push", "write"} => decMsg.gen = decGen

(* At most one SD read is queued or being served, as                         *)
(* cartridge_service_read_chunk_async demands of its callers.                *)
SingleRead == Len(readQueue) + (IF cartReq = NoReq THEN 0 ELSE 1) <= 1

(* A data message of the generation being played still finds in its buffer   *)
(* what the reader put there: double buffering never overwrites a chunk the  *)
(* decoder has not decoded.                                                  *)
ChunkIntact ==
  /\ \A i \in DOMAIN chunkQueue :
       (chunkQueue[i].kind = "data" /\ chunkQueue[i].gen = activeGen)
         => Intact(chunkQueue[i])
  /\ (decPc = "chunk" /\ decGen = activeGen) => Intact(decMsg)

(* What waits in the PCM stream belongs to the generation being played.      *)
PcmFresh ==
  svcPc # "startReset" => \A i \in DOMAIN pcm : pcm[i] = activeGen

(* No buffer token is lost or made up: the pool, the reader and the flush    *)
(* messages on their way to the decoder account for both buffers.            *)
PoolConserved ==
  pool + (IF rdrHolds THEN 1 ELSE 0)
       + Cardinality({i \in DOMAIN chunkQueue : chunkQueue[i].kind = "flush"})
     = ChunkBufCount

(* The reader's configASSERT on the chunk's bounds never fails.              *)
BoundsAssertion == ~crashed

(* A paused player is silent and stays where it is: its pipeline is idle and *)
(* no PCM waits to be heard when it resumes elsewhere.                       *)
PausedIsQuiet == svcPc = "idle" /\ paused => PipelineIdle /\ pcm = <<>>

(* Within a generation s_current_chunk, the position that is reported and    *)
(* resumed from, advances chunk by chunk: none is skipped, and the position  *)
(* never goes back.  A chunk decoded twice in a row it would not tell from   *)
(* one decoded once; ChunkIntact and WholeTrack are about the buffers.       *)
PlaysInOrder ==
  [][svcPc # "commit" => currentChunk' \in {currentChunk, currentChunk + 1}]_vars

(* The decoder takes an end of track for the end only after the last chunk.  *)
WholeTrack ==
  [][(decPc = "receive" /\ decPc' = "finish" /\ ~ShouldStop(decGen))
       => currentChunk = LookupLen - 1]_vars

(* Without I/O errors, timeouts and removals playback is never given up: no  *)
(* start is refused because the pipeline is still active.                    *)
NeverGivenUp == [][playing => playing']_vars

(* A stop ends by itself: reader and decoder always reach idle, without the  *)
(* two-second limit of player_service_wait_for_idle_bits, unless the         *)
(* configASSERT resets the chip.                                             *)
StopEnds == svcPc = "stopBlocked" ~> (svcPc = "stopReset" \/ crashed)

(* Every track that plays comes to its end and is followed by another one,   *)
(* unless the player is paused or the configASSERT resets the chip.          *)
AutoAdvance ==
  \A g \in 1 .. MaxGen - 1 :
    (activeGen = g /\ ~paused) ~> (activeGen # g \/ paused \/ crashed)

=============================================================================
