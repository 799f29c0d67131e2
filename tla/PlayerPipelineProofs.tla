------------------------ MODULE PlayerPipelineProofs ------------------------
(***************************************************************************)
(* Proofs of what holds of PlayerPipeline without any scheduling           *)
(* assumption: for Prompt = FALSE, with I/O errors, timeouts and removals, *)
(* and for every value of the other constants.                             *)
(*                                                                         *)
(* First TypeOK, which is inductive: the conjunction of one part per       *)
(* component; for each action the proof shows the parts whose variables    *)
(* the action changes, and Frame carries the others over.  Then            *)
(* NoLostWakeup, PlayingIsLoaded and CompletionOnce, each from an          *)
(* inductive invariant of its own.                                         *)
(***************************************************************************)
EXTENDS PlayerPipeline, TLAPS

(* The truth values of PlayTypeOK that the service changes, apart: the       *)
(* steps below show them first and the rest of PlayTypeOK after them.        *)
Flags == playing \in BOOLEAN /\ paused \in BOOLEAN /\ hasPlaylist \in BOOLEAN

(* The placeholder values have the type of what they stand for.              *)
LEMMA Nothing ==
  /\ NoMsg \in ChunkMsgType /\ NoReq \in RequestType /\ NoResult \in ResultType
  /\ NoContent \in ContentType
  BY PipelineAssumption
  DEF PipelineAssumption, NoMsg, NoReq, NoResult, NoContent, ChunkMsg, Content,
      ContentType, ChunkMsgType, RequestType, ResultType, Buffers,
      ChunkBufCount, Tracks, Chunks, None

(* The state player_service_init leaves is well typed.                       *)
LEMMA InitType == Init => TypeOK
<1> SUFFICES ASSUME Init PROVE TypeOK
  OBVIOUS
<1> USE PipelineAssumption DEF PipelineAssumption
<1>1. Cmd("inserted", 0, 0, 0) \in CmdType
  BY DEF Cmd, CmdType, CmdKinds, Tracks, Chunks
<1>3. QueueTypeOK
  BY <1>1 DEF Init, QueueTypeOK, ChunkBufCount
<1>4. PlayTypeOK /\ SvcTypeOK
  <2>1. Flags /\ stopRequested \in BOOLEAN /\ crashed \in BOOLEAN
    BY Zenon DEF Init, Flags
  <2> QED
    BY <2>1 DEF Init, Flags, PlayTypeOK, SvcTypeOK, Tracks, Chunks, None, SvcPcs, SvcOps
<1>5. RdrTypeOK /\ DecTypeOK
  <2>1. rdrHolds \in BOOLEAN
    BY Zenon DEF Init
  <2> QED
    BY <2>1, Nothing DEF Init, RdrTypeOK, DecTypeOK, Buffers, ChunkBufCount,
                         Chunks, None, RdrPcs, DecPcs
<1>6. CartTypeOK
  BY Nothing DEF Init, CartTypeOK, Buffers, ChunkBufCount
<1> QED
  BY <1>3, <1>4, <1>5, <1>6 DEF TypeOK

(* Taking the head of a nonempty queue.                                      *)
LEMMA TailType ==
  ASSUME NEW S, NEW q \in Seq(S), q # <<>>
  PROVE  Head(q) \in S /\ Tail(q) \in Seq(S) /\ Len(Tail(q)) = Len(q) - 1
  OBVIOUS

(* Adding to the end of a queue.                                             *)
LEMMA AppendType ==
  ASSUME NEW S, NEW q \in Seq(S), NEW e \in S
  PROVE  Append(q, e) \in Seq(S) /\ Len(Append(q, e)) = Len(q) + 1
  OBVIOUS

(* A queue of one element.                                                   *)
LEMMA SingletonType ==
  ASSUME NEW S, NEW e \in S
  PROVE  <<e>> \in Seq(S) /\ Len(<<e>>) = 1
  OBVIOUS

(* What the steps that take a command from s_cmd_queue have in common.       *)
LEMMA TakeType ==
  ASSUME TypeOK, NEW K, SvcTake(K)
  PROVE  /\ Head(cmdQueue) \in CmdType
         /\ QueueTypeOK' /\ RdrTypeOK' /\ DecTypeOK' /\ CartTypeOK'
         /\ cmds' = cmds /\ crashed' = crashed
<1>1. /\ Head(cmdQueue) \in CmdType
      /\ cmdQueue' \in Seq(CmdType) /\ Len(cmdQueue') = Len(cmdQueue) - 1
  BY TailType DEF SvcTake, TypeOK, QueueTypeOK
<1>2. QueueTypeOK'
  BY <1>1, PipelineAssumption DEF PipelineAssumption, SvcTake, TypeOK, QueueTypeOK
<1>3. RdrTypeOK' /\ DecTypeOK'
  BY DEF SvcTake, TypeOK, RdrTypeOK, DecTypeOK, Others, rdrVars, decVars
<1>4. CartTypeOK' /\ cmds' = cmds /\ crashed' = crashed
  BY DEF SvcTake, TypeOK, CartTypeOK, Others, mountVars, cartVars
<1> QED
  BY <1>1, <1>2, <1>3, <1>4

(* Every command handler's first step keeps the types.                       *)
LEMMA TakeActionsType ==
  ASSUME TypeOK, \/ SvcSwitch \/ SvcSeek \/ SvcPause \/ SvcComplete \/ SvcCartridge
  PROVE  TypeOK'
<1>1. PICK K : SvcTake(K)
  BY DEF SvcSwitch, SvcSeek, SvcPause, SvcComplete, SvcCartridge
<1>2. /\ Head(cmdQueue) \in CmdType
      /\ QueueTypeOK' /\ RdrTypeOK' /\ DecTypeOK' /\ CartTypeOK'
      /\ cmds' = cmds /\ crashed' = crashed
  BY <1>1, TakeType
<1>3. PlayTypeOK /\ SvcTypeOK
  BY DEF TypeOK
<1>4. PlayTypeOK' /\ SvcTypeOK'
  <2> USE <1>2, <1>3, PipelineAssumption
      DEF PipelineAssumption, PlayTypeOK, SvcTypeOK, SvcPcs, SvcOps, CmdType,
          Goto, svcVars, playVars, trackVars, genVars, Tracks, Chunks, None
  <2>1. CASE SvcSwitch
    <3>1. Flags'
      BY <2>1, <1>3, Zenon DEF SvcSwitch, Flags, PlayTypeOK
    <3> QED
      BY <2>1, <3>1 DEF SvcSwitch, Flags
  <2>2. CASE SvcSeek
    BY <2>2 DEF SvcSeek
  <2>3. CASE SvcPause
    BY <2>3 DEF SvcPause, Clamp
  <2>4. CASE SvcComplete
    <3>1. Flags'
      BY <2>4, <1>3, Zenon DEF SvcComplete, Flags, PlayTypeOK
    <3> QED
      BY <2>4, <3>1 DEF SvcComplete, Flags
  <2>5. CASE SvcCartridge
    BY <2>5 DEF SvcCartridge, SvcTake
  <2> QED
    BY <2>1, <2>2, <2>3, <2>4, <2>5
<1> QED
  BY <1>2, <1>4 DEF TypeOK

(* player_service_reset_pipeline leaves well-typed queues.                   *)
LEMMA ResetType ==
  ASSUME TypeOK, ResetPipeline PROVE QueueTypeOK'
<1>1. pcm' \in Seq(0 .. MaxGen) /\ Len(pcm') <= PcmCapacity
  <2>1. pcm' = pcm \/ pcm' = <<>>
    BY DEF ResetPipeline
  <2>2. CASE pcm' = pcm
    BY <2>2 DEF TypeOK, QueueTypeOK
  <2>3. CASE pcm' = <<>>
    BY <2>3, PipelineAssumption DEF PipelineAssumption
  <2> QED
    BY <2>1, <2>2, <2>3
<1>2. readerCmd' \in Seq(StartType) /\ decoderCmd' \in Seq(StartType)
      /\ chunkQueue' \in Seq(ChunkMsgType)
      /\ Len(readerCmd') = 0 /\ Len(decoderCmd') = 0 /\ Len(chunkQueue') = 0
  BY DEF ResetPipeline
<1> QED
  BY <1>1, <1>2, PipelineAssumption
  DEF PipelineAssumption, TypeOK, QueueTypeOK, ResetPipeline, ChunkBufCount

(* A part of the type invariant holds on as long as its variables keep their *)
(* values.                                                                   *)
LEMMA Frame ==
  /\ QueueTypeOK /\ UNCHANGED queueVars => QueueTypeOK'
  /\ PlayTypeOK /\ UNCHANGED <<playVars, trackVars, genVars, cmds, crashed>>
       => PlayTypeOK'
  /\ SvcTypeOK /\ UNCHANGED svcVars => SvcTypeOK'
  /\ RdrTypeOK /\ UNCHANGED rdrVars => RdrTypeOK'
  /\ DecTypeOK /\ UNCHANGED decVars => DecTypeOK'
  /\ CartTypeOK /\ UNCHANGED <<mountVars, cartVars>> => CartTypeOK'
<1>1. QueueTypeOK /\ UNCHANGED queueVars => QueueTypeOK'
  BY DEF QueueTypeOK, queueVars
<1>2. PlayTypeOK /\ UNCHANGED <<playVars, trackVars, genVars, cmds, crashed>>
       => PlayTypeOK'
  BY DEF PlayTypeOK, playVars, trackVars, genVars
<1>3. SvcTypeOK /\ UNCHANGED svcVars => SvcTypeOK'
  BY DEF SvcTypeOK, svcVars
<1>4. RdrTypeOK /\ UNCHANGED rdrVars => RdrTypeOK'
  BY DEF RdrTypeOK, rdrVars
<1>5. DecTypeOK /\ UNCHANGED decVars => DecTypeOK'
  BY DEF DecTypeOK, decVars
<1>6. CartTypeOK /\ UNCHANGED <<mountVars, cartVars>> => CartTypeOK'
  BY DEF CartTypeOK, mountVars, cartVars
<1> QED
  BY <1>1, <1>2, <1>3, <1>4, <1>5, <1>6

(* Every step of player_svc keeps the types, one case per action.            *)
LEMMA SvcType == ASSUME TypeOK, Svc PROVE TypeOK'
<1>1. CASE SvcSwitch \/ SvcSeek \/ SvcPause \/ SvcComplete \/ SvcCartridge
  BY <1>1, TakeActionsType
<1>2. CASE SvcStop
  <2>1. UNCHANGED <<queueVars, rdrVars, decVars, mountVars, cartVars>>
    BY <1>2 DEF SvcStop, Others
  <2>2. PlayTypeOK' /\ SvcTypeOK'
    BY <1>2, PipelineAssumption
    DEF SvcStop, PipelineAssumption, TypeOK, PlayTypeOK, SvcTypeOK, playVars, trackVars,
        genVars, Others, SvcPcs, SvcOps, Goto, SvcIdle, Tracks, Chunks, None
  <2> QED
    BY <2>1, <2>2, Frame DEF TypeOK
<1>3. CASE SvcStopWait
  <2>1. UNCHANGED <<queueVars, rdrVars, decVars, mountVars, cartVars, playVars, trackVars, genVars, cmds, crashed>>
    BY <1>3 DEF SvcStopWait, Others
  <2>2. SvcTypeOK'
    BY <1>3 DEF SvcStopWait, TypeOK, SvcTypeOK, SvcPcs
  <2> QED
    BY <2>1, <2>2, Frame DEF TypeOK
<1>4. CASE SvcStopTimeout
  <2>1. UNCHANGED <<queueVars, rdrVars, decVars, mountVars, cartVars, playVars, trackVars, genVars, cmds, crashed>>
    BY <1>4 DEF SvcStopTimeout, Others
  <2>2. SvcTypeOK'
    BY <1>4 DEF SvcStopTimeout, TypeOK, SvcTypeOK, SvcPcs
  <2> QED
    BY <2>1, <2>2, Frame DEF TypeOK
<1>5. CASE SvcStopReset
  <2>1. UNCHANGED <<rdrVars, decVars, mountVars, cartVars, playVars, trackVars, genVars, cmds, crashed>>
    BY <1>5 DEF SvcStopReset, Others
  <2>2. QueueTypeOK'
    BY <1>5, ResetType DEF SvcStopReset
  <2>3. SvcTypeOK'
    BY <1>5 DEF SvcStopReset, TypeOK, SvcTypeOK, SvcPcs
  <2> QED
    BY <2>1, <2>2, <2>3, Frame DEF TypeOK
<1>6. CASE SvcPaused
  <2>1. UNCHANGED <<queueVars, rdrVars, decVars, mountVars, cartVars>>
    BY <1>6 DEF SvcPaused, Others
  <2>2. PlayTypeOK' /\ SvcTypeOK'
    BY <1>6, PipelineAssumption
    DEF SvcPaused, PipelineAssumption, TypeOK, PlayTypeOK, SvcTypeOK, playVars, trackVars,
        genVars, Others, SvcPcs, SvcOps, Goto, SvcIdle, Tracks, Chunks, None
  <2> QED
    BY <2>1, <2>2, Frame DEF TypeOK
<1>7. CASE SvcRemoved
  <2>1. UNCHANGED <<queueVars, rdrVars, decVars, mountVars, cartVars>>
    BY <1>7 DEF SvcRemoved, Others
  <2>2. PlayTypeOK' /\ SvcTypeOK'
    <3>1. Flags' /\ stopRequested' \in BOOLEAN
      BY <1>7, Zenon DEF SvcRemoved, Flags, TypeOK, PlayTypeOK, playVars, trackVars, genVars, Others
    <3> QED
      BY <1>7, <3>1, PipelineAssumption
      DEF Flags, SvcRemoved, PipelineAssumption, TypeOK, PlayTypeOK, SvcTypeOK, playVars, trackVars,
          genVars, Others, SvcPcs, SvcOps, Goto, SvcIdle, Tracks, Chunks, None
  <2> QED
    BY <2>1, <2>2, Frame DEF TypeOK
<1>8. CASE SvcInserted
  <2>1. UNCHANGED <<queueVars, rdrVars, decVars, mountVars, cartVars>>
    BY <1>8 DEF SvcInserted, Others
  <2>2. PlayTypeOK' /\ SvcTypeOK'
    <3>1. Flags' /\ stopRequested' \in BOOLEAN
      BY <1>8, Zenon DEF SvcInserted, Flags, TypeOK, PlayTypeOK, playVars, trackVars, genVars, Others
    <3> QED
      BY <1>8, <3>1, PipelineAssumption
      DEF Flags, SvcInserted, PipelineAssumption, TypeOK, PlayTypeOK, SvcTypeOK, playVars, trackVars,
          genVars, Others, SvcPcs, SvcOps, Goto, SvcIdle, Tracks, Chunks, None
  <2> QED
    BY <2>1, <2>2, Frame DEF TypeOK
<1>8a. CASE SvcStartFails /\ UNCHANGED <<readQueue, cartReq, bufIndex, bufData, result>>
                 /\ notified' \in SUBSET {"svc", "reader"}
  <2>1. UNCHANGED <<queueVars, rdrVars, decVars>>
    BY <1>8a DEF SvcStartFails, Others
  <2>2. PlayTypeOK' /\ SvcTypeOK'
    <3>1. Flags' /\ stopRequested' \in BOOLEAN
      BY <1>8a, Zenon DEF SvcStartFails, Flags, TypeOK, PlayTypeOK, playVars, trackVars, genVars, Others
    <3> QED
      BY <1>8a, <3>1, PipelineAssumption
      DEF Flags, SvcStartFails, PipelineAssumption, TypeOK, PlayTypeOK, SvcTypeOK,
          trackVars, genVars, Others, SvcPcs, SvcOps, Goto, SvcIdle, Tracks, Chunks
  <2>3. CartTypeOK'
    BY <1>8a DEF SvcStartFails, TypeOK, CartTypeOK, Others, mountVars
  <2> QED
    BY <2>1, <2>2, <2>3, Frame DEF TypeOK
<1>9. CASE SvcStart
  <2>1. CASE SvcStartFails /\ UNCHANGED cartVars
    BY <2>1, <1>8a DEF cartVars, TypeOK, CartTypeOK
  <2>2. CASE /\ svcPc' = "commit"
             /\ UNCHANGED <<queueVars, playVars, trackVars, genVars, svcOp,
                            svcTrack, svcChunk, cartVars, Others>>
    <3>1. SvcTypeOK'
      BY <2>2 DEF TypeOK, SvcTypeOK, SvcPcs
    <3> QED
      BY <2>2, <3>1, Frame DEF TypeOK, Others
  <2>3. CASE /\ readQueue' = <<[who |-> "svc", src |-> Content(svcTrack, None),
                                mount |-> mountGen]>>
             /\ svcPc' = "load"
             /\ UNCHANGED <<queueVars, playVars, trackVars, genVars, svcOp,
                            svcTrack, svcChunk, cartReq, bufIndex, bufData,
                            result, notified, Others>>
    <3>1. [who |-> "svc", src |-> Content(svcTrack, None), mount |-> mountGen]
            \in RequestType
      BY DEF TypeOK, SvcTypeOK, CartTypeOK, RequestType, ContentType, Content
    <3>2. readQueue' \in Seq(RequestType) /\ Len(readQueue') = 1
      BY <2>3, <3>1, SingletonType
    <3>3. SvcTypeOK'
      BY <2>3 DEF TypeOK, SvcTypeOK, SvcPcs
    <3>4. CartTypeOK'
      BY <2>3, <3>2 DEF TypeOK, CartTypeOK, Others, mountVars
    <3> QED
      BY <2>3, <3>3, <3>4, Frame DEF TypeOK, Others
  <2> QED
    BY <1>9, <2>1, <2>2, <2>3 DEF SvcStart
<1>10. CASE SvcLoaded
  <2>1. /\ notified' \in SUBSET {"svc", "reader"}
        /\ UNCHANGED <<readQueue, cartReq, bufIndex, bufData, result>>
    BY <1>10 DEF SvcLoaded, TypeOK, CartTypeOK
  <2>2. CASE SvcStartFails
    BY <1>8a, <2>1, <2>2
  <2>3. CASE /\ loaded' = svcTrack /\ window' = None
             /\ svcPc' = "commit"
             /\ UNCHANGED <<queueVars, playVars, genVars, svcOp, svcTrack,
                            svcChunk, Others>>
    <3>1. PlayTypeOK' /\ SvcTypeOK'
      BY <2>3 DEF TypeOK, PlayTypeOK, SvcTypeOK, playVars, genVars, Others, SvcPcs
    <3>2. CartTypeOK'
      BY <2>1, <2>3 DEF TypeOK, CartTypeOK, Others, mountVars
    <3> QED
      BY <2>3, <3>1, <3>2, Frame DEF TypeOK, Others
  <2> QED
    BY <1>10, <2>2, <2>3 DEF SvcLoaded
<1>11. CASE SvcCommit
  <2>1. UNCHANGED <<queueVars, rdrVars, decVars, mountVars, cartVars>>
    BY <1>11 DEF SvcCommit, Others
  <2>2. PlayTypeOK' /\ SvcTypeOK'
    <3>1. Flags' /\ stopRequested' \in BOOLEAN
      BY <1>11, Zenon DEF SvcCommit, Flags, TypeOK, PlayTypeOK, playVars, trackVars, genVars, Others
    <3> QED
      BY <1>11, <3>1, PipelineAssumption
      DEF Flags, SvcCommit, PipelineAssumption, TypeOK, PlayTypeOK, SvcTypeOK, playVars, trackVars,
          genVars, Others, SvcPcs, SvcOps, Goto, SvcIdle, Tracks, Chunks, None
  <2> QED
    BY <2>1, <2>2, Frame DEF TypeOK
<1>12. CASE SvcRestore
  <2>1. UNCHANGED <<rdrVars, decVars, mountVars, cartVars>>
    BY <1>12 DEF SvcRestore, Others
  <2>2. QueueTypeOK'
    BY <1>12, ResetType DEF SvcRestore
  <2>3. PlayTypeOK' /\ SvcTypeOK'
    <3>1. Flags' /\ stopRequested' \in BOOLEAN
      BY <1>12, Zenon DEF SvcRestore, Flags, TypeOK, PlayTypeOK, playVars, trackVars, genVars, Others
    <3> QED
      BY <1>12, <3>1, PipelineAssumption
      DEF Flags, SvcRestore, PipelineAssumption, TypeOK, PlayTypeOK, SvcTypeOK, playVars, trackVars,
          genVars, Others, SvcPcs, SvcOps, Goto, SvcIdle, Tracks, Chunks, None
  <2> QED
    BY <2>1, <2>2, <2>3, Frame DEF TypeOK
<1>13. CASE SvcStartReset
  <2>1. UNCHANGED <<rdrVars, decVars, mountVars, cartVars, playVars, trackVars, genVars, cmds, crashed>>
    BY <1>13 DEF SvcStartReset, Others
  <2>2. QueueTypeOK'
    BY <1>13, ResetType DEF SvcStartReset
  <2>3. SvcTypeOK'
    BY <1>13 DEF SvcStartReset, TypeOK, SvcTypeOK, SvcPcs
  <2> QED
    BY <2>1, <2>2, <2>3, Frame DEF TypeOK
<1>14. CASE SvcSendDecoder
  <2>1. UNCHANGED <<rdrVars, decVars, mountVars, cartVars, playVars, trackVars, genVars, cmds, crashed>>
    BY <1>14 DEF SvcSendDecoder, Others
  <2>2. [gen |-> activeGen, chunk |-> svcChunk] \in StartType
    BY DEF TypeOK, PlayTypeOK, SvcTypeOK, StartType
  <2>3. decoderCmd' \in Seq(StartType) /\ Len(decoderCmd') = 1
    BY <1>14, <2>2, SingletonType DEF SvcSendDecoder
  <2>4. QueueTypeOK'
    BY <1>14, <2>3 DEF SvcSendDecoder, TypeOK, QueueTypeOK
  <2>5. SvcTypeOK'
    BY <1>14, PipelineAssumption
    DEF SvcSendDecoder, PipelineAssumption, TypeOK, SvcTypeOK, SvcPcs, SvcOps, Goto, SvcIdle,
        Tracks, Chunks
  <2> QED
    BY <2>1, <2>2, <2>3, <2>4, <2>5, Frame DEF TypeOK
<1>15. CASE SvcSendReader
  <2>1. UNCHANGED <<rdrVars, decVars, mountVars, cartVars, playVars, trackVars, genVars, cmds, crashed>>
    BY <1>15 DEF SvcSendReader, Others
  <2>2. [gen |-> activeGen, chunk |-> svcChunk] \in StartType
    BY DEF TypeOK, PlayTypeOK, SvcTypeOK, StartType
  <2>3. readerCmd' \in Seq(StartType) /\ Len(readerCmd') = 1
    BY <1>15, <2>2, SingletonType DEF SvcSendReader
  <2>4. QueueTypeOK'
    BY <1>15, <2>3 DEF SvcSendReader, TypeOK, QueueTypeOK
  <2>5. SvcTypeOK'
    BY <1>15, PipelineAssumption
    DEF SvcSendReader, PipelineAssumption, TypeOK, SvcTypeOK, SvcPcs, SvcOps, Goto, SvcIdle,
        Tracks, Chunks
  <2> QED
    BY <2>1, <2>2, <2>3, <2>4, <2>5, Frame DEF TypeOK
<1> QED
  BY <1>1, <1>2, <1>3, <1>4, <1>5, <1>6, <1>7, <1>8, <1>9, <1>10, <1>11,
     <1>12, <1>13, <1>14, <1>15 DEF Svc

(* xEventGroupSetBits changes the bits and may wake the service.             *)
LEMMA SetIdleType ==
  ASSUME TypeOK, NEW bit \in {"reader", "decoder"}, SetIdle(bit),
         UNCHANGED <<svcOp, svcTrack, svcChunk>>
  PROVE  idleBits' \in SUBSET {"reader", "decoder"} /\ SvcTypeOK'
<1>1. idleBits' \in SUBSET {"reader", "decoder"}
  BY DEF SetIdle, TypeOK, QueueTypeOK
<1>2. SvcTypeOK'
  BY DEF SetIdle, TypeOK, SvcTypeOK, SvcPcs
<1> QED
  BY <1>1, <1>2

(* The counting semaphore is capped.                                         *)
LEMMA GiveType == \A n \in 0 .. ChunkBufCount : Give(n) \in 0 .. ChunkBufCount
  BY DEF Give, ChunkBufCount

(* The empty queue.                                                          *)
LEMMA EmptyType == ASSUME NEW S PROVE <<>> \in Seq(S) /\ Len(<<>>) = 0
  OBVIOUS

(* player_service_queue_chunk_message keeps s_chunk_queue within its depth.  *)
LEMMA QueueType ==
  ASSUME TypeOK, NEW m \in ChunkMsgType, NEW s, NEW a, RdrQueue(m, s, a)
  PROVE  QueueTypeOK' /\ rdrPc' \in {s, a}
<1>1. chunkQueue' \in Seq(ChunkMsgType) /\ Len(chunkQueue') <= ChunkBufCount
  <2>1. CASE chunkQueue' = chunkQueue
    BY <2>1 DEF TypeOK, QueueTypeOK
  <2>2. CASE Len(chunkQueue) < ChunkBufCount /\ chunkQueue' = Append(chunkQueue, m)
    BY <2>2, AppendType DEF TypeOK, QueueTypeOK, ChunkBufCount
  <2> QED
    BY <2>1, <2>2 DEF RdrQueue
<1>2. rdrPc' \in {s, a}
  BY DEF RdrQueue
<1>3. UNCHANGED <<cmdQueue, readerCmd, decoderCmd, pool, pcm, idleBits>>
  BY DEF RdrQueue
<1> QED
  BY <1>1, <1>2, <1>3 DEF TypeOK, QueueTypeOK

(* Every step of player_reader but the last keeps the types.                 *)
LEMMA ReaderType == ASSUME TypeOK, Reader, rdrPc # "close" PROVE TypeOK'
<1>0. UNCHANGED <<playVars, genVars, svcVars, decVars, mountVars, cmds>>
  BY DEF Reader, RdrUnchanged, svcVars, decVars
<1>1. CASE RdrTake
  <2>1. UNCHANGED <<trackVars, cartVars, crashed>>
    BY <1>1, <1>0 DEF RdrTake
  <2>2. Head(readerCmd) \in StartType
    BY <1>1, TailType DEF RdrTake, TypeOK, QueueTypeOK
  <2>3. RdrTypeOK'
    BY <1>1, <2>2, PipelineAssumption
    DEF RdrTake, StartType, PipelineAssumption, TypeOK, RdrTypeOK, RdrPcs, Chunks
  <2>4. QueueTypeOK'
    BY <1>1, EmptyType DEF RdrTake, TypeOK, QueueTypeOK
  <2> QED
    BY <1>0, <2>1, <2>2, <2>3, <2>4, Frame DEF TypeOK
<1>2. CASE RdrBegin
  <2>1. UNCHANGED <<trackVars, crashed>>
    BY <1>2, <1>0 DEF RdrBegin
  <2>2. RdrTypeOK'
    <3>1. rdrHolds' \in BOOLEAN
      BY <1>2, Zenon DEF RdrBegin
    <3> QED
      BY <1>2, <3>1, PipelineAssumption
      DEF RdrBegin, RdrGoto, PipelineAssumption, TypeOK, PlayTypeOK, RdrTypeOK, RdrPcs, Chunks,
          Buffers, ChunkBufCount, None
  <2>3. QueueTypeOK'
    BY <1>2 DEF RdrBegin, TypeOK, QueueTypeOK
  <2>4. CartTypeOK'
    BY <1>2, <1>0 DEF RdrBegin, TypeOK, CartTypeOK, mountVars
  <2> QED
    BY <1>0, <2>1, <2>2, <2>3, <2>4, Frame DEF TypeOK
<1>3. CASE RdrLoop
  <2>1. UNCHANGED <<queueVars, trackVars, cartVars, crashed>>
    BY <1>3, <1>0 DEF RdrLoop
  <2>2. rdrPc' \in {"done", "bounds", "loadWindow"} /\ (rdrPc' # "done" => rdrChunk < LookupLen)
        /\ UNCHANGED <<rdrGen, rdrChunk, rdrBuf, rdrBase, rdrHolds>>
    BY <1>3, PipelineAssumption DEF PipelineAssumption, RdrLoop, RdrGoto, TypeOK, RdrTypeOK
  <2>3. RdrTypeOK'
    BY <2>2, PipelineAssumption DEF PipelineAssumption, TypeOK, RdrTypeOK, RdrPcs, Chunks
  <2> QED
    BY <1>0, <2>1, <2>2, <2>3, Frame DEF TypeOK
<1>4. CASE RdrLoadWindow
  <2>1. UNCHANGED <<queueVars, loaded, cartVars, crashed>>
    BY <1>4, <1>0 DEF RdrLoadWindow
  <2>2. RdrTypeOK'
    BY <1>4, PipelineAssumption
    DEF RdrLoadWindow, RdrGoto, PipelineAssumption, TypeOK, PlayTypeOK, RdrTypeOK, RdrPcs, Chunks,
        Buffers, ChunkBufCount, None
  <2>3. PlayTypeOK'
    BY <1>4, <1>0 DEF RdrLoadWindow, TypeOK, PlayTypeOK, RdrTypeOK, playVars, genVars
  <2> QED
    BY <1>0, <2>1, <2>2, <2>3, Frame DEF TypeOK
<1>5. CASE RdrBounds
  <2>1. UNCHANGED <<queueVars, trackVars, cartVars>>
    BY <1>5, <1>0 DEF RdrBounds
  <2>2. RdrTypeOK'
    BY <1>5, PipelineAssumption
    DEF RdrBounds, RdrGoto, PipelineAssumption, TypeOK, PlayTypeOK, RdrTypeOK, RdrPcs, Chunks,
        Buffers, ChunkBufCount, None, rdrVars
  <2>3. PlayTypeOK'
    BY <1>5, <1>0 DEF RdrBounds, TypeOK, PlayTypeOK, playVars, genVars, trackVars
  <2> QED
    BY <1>0, <2>1, <2>2, <2>3, Frame DEF TypeOK
<1>6. CASE RdrFlush
  <2>1. UNCHANGED <<trackVars, cartVars, crashed>>
    BY <1>6, <1>0 DEF RdrFlush, RdrQueue
  <2>2. ChunkMsg("flush", rdrGen, 0, None, NoContent) \in ChunkMsgType
    BY <1>6, PipelineAssumption
    DEF RdrFlush, PipelineAssumption, TypeOK, PlayTypeOK, RdrTypeOK, ChunkMsg, ChunkMsgType,
        Content, NoContent, ContentType, Chunks, Buffers, Tracks, None
  <2>3. QueueTypeOK' /\ rdrPc' \in {"take", "loop", "done", "close"}
    BY <1>6, <2>2, QueueType DEF RdrFlush
  <2>5. RdrTypeOK'
    BY <1>6, PipelineAssumption
    DEF RdrFlush, RdrGoto, PipelineAssumption, TypeOK, PlayTypeOK, RdrTypeOK, RdrPcs, Chunks,
        Buffers, ChunkBufCount, None, RdrQueue
  <2> QED
    BY <1>0, <2>1, <2>2, <2>3, <2>5, Frame DEF TypeOK
<1>7. CASE RdrTakeBuffer
  <2>1. UNCHANGED <<trackVars, cartVars, crashed>>
    BY <1>7, <1>0 DEF RdrTakeBuffer
  <2>2. RdrTypeOK'
    BY <1>7, PipelineAssumption
    DEF RdrTakeBuffer, RdrGoto, PipelineAssumption, TypeOK, PlayTypeOK, RdrTypeOK, RdrPcs, Chunks,
        Buffers, ChunkBufCount, None
  <2>3. QueueTypeOK'
    BY <1>7 DEF RdrTakeBuffer, TypeOK, QueueTypeOK, ChunkBufCount
  <2> QED
    BY <1>0, <2>1, <2>2, <2>3, Frame DEF TypeOK
<1>8. CASE RdrRequest
  <2>1. UNCHANGED <<trackVars, crashed>>
    BY <1>8 DEF RdrRequest
  <2>2. RdrTypeOK'
    BY <1>8 DEF RdrRequest, RdrFail, RdrGoto, TypeOK, RdrTypeOK, RdrPcs
  <2>3. QueueTypeOK'
    BY <1>8, GiveType DEF RdrRequest, RdrFail, TypeOK, QueueTypeOK, queueVars
  <2>4. [who |-> "reader", src |-> Content(loaded, rdrChunk), mount |-> mountGen]
          \in RequestType
    BY <1>8 DEF RdrRequest, TypeOK, PlayTypeOK, RdrTypeOK, CartTypeOK, RequestType,
                Content, ContentType
  <2>5. readQueue' \in Seq(RequestType) /\ Len(readQueue') <= 1
    <3>1. CASE readQueue' = readQueue
      BY <3>1 DEF TypeOK, CartTypeOK
    <3>2. CASE readQueue' = <<[who |-> "reader", src |-> Content(loaded, rdrChunk),
                               mount |-> mountGen]>>
      BY <2>4, <3>2, SingletonType
    <3> QED
      BY <1>8, <3>1, <3>2 DEF RdrRequest
  <2>6. CartTypeOK'
    BY <1>0, <1>8, <2>5 DEF RdrRequest, TypeOK, CartTypeOK, mountVars
  <2> QED
    BY <1>0, <2>1, <2>2, <2>3, <2>6, Frame DEF TypeOK
<1>9. CASE RdrPollStop
  <2>1. UNCHANGED <<queueVars, trackVars, cartVars, crashed>>
    BY <1>9, <1>0 DEF RdrPollStop
  <2>2. RdrTypeOK'
    BY <1>9, PipelineAssumption
    DEF RdrPollStop, RdrGoto, PipelineAssumption, TypeOK, PlayTypeOK, RdrTypeOK, RdrPcs, Chunks,
        Buffers, ChunkBufCount, None
  <2> QED
    BY <1>0, <2>1, <2>2, Frame DEF TypeOK
<1>10. CASE RdrNotified
  <2>1. UNCHANGED <<trackVars, crashed>>
    BY <1>10, <1>0 DEF RdrNotified
  <2>2. RdrTypeOK'
    BY <1>10, PipelineAssumption
    DEF RdrNotified, RdrGoto, PipelineAssumption, TypeOK, PlayTypeOK, RdrTypeOK, RdrPcs, Chunks,
        Buffers, ChunkBufCount, None, RdrFail, CartTypeOK, ResultType
  <2>3. QueueTypeOK'
    BY <1>10, GiveType DEF RdrNotified, RdrFail, TypeOK, QueueTypeOK, queueVars
  <2>4. CartTypeOK'
    BY <1>10, <1>0 DEF RdrNotified, TypeOK, CartTypeOK, mountVars
  <2> QED
    BY <1>0, <2>1, <2>2, <2>3, <2>4, Frame DEF TypeOK
<1>11. CASE RdrSend
  <2>1. UNCHANGED <<trackVars, cartVars, crashed>>
    BY <1>11, <1>0 DEF RdrSend, RdrQueue
  <2>2. ChunkMsg("data", rdrGen, rdrChunk, rdrBuf, Content(loaded, rdrBase)) \in ChunkMsgType
    BY <1>11, PipelineAssumption
    DEF RdrSend, PipelineAssumption, TypeOK, PlayTypeOK, RdrTypeOK, ChunkMsg, ChunkMsgType,
        Content, NoContent, ContentType, Chunks, Buffers, Tracks, None
  <2>3. QueueTypeOK' /\ rdrPc' \in {"take", "loop", "done", "close"}
    BY <1>11, <2>2, QueueType DEF RdrSend
  <2>5. RdrTypeOK'
    BY <1>11, PipelineAssumption
    DEF RdrSend, RdrGoto, PipelineAssumption, TypeOK, PlayTypeOK, RdrTypeOK, RdrPcs, Chunks,
        Buffers, ChunkBufCount, None, RdrQueue
  <2> QED
    BY <1>0, <2>1, <2>2, <2>3, <2>5, Frame DEF TypeOK
<1>12. CASE RdrDone
  <2>1. UNCHANGED <<trackVars, cartVars, crashed>>
    BY <1>12, <1>0 DEF RdrDone
  <2>2. RdrTypeOK'
    BY <1>12, PipelineAssumption
    DEF RdrDone, RdrGoto, PipelineAssumption, TypeOK, PlayTypeOK, RdrTypeOK, RdrPcs, Chunks,
        Buffers, ChunkBufCount, None
  <2>3. QueueTypeOK'
    BY <1>12, GiveType DEF RdrDone, TypeOK, QueueTypeOK
  <2> QED
    BY <1>0, <2>1, <2>2, <2>3, Frame DEF TypeOK
<1>13. CASE RdrEof
  <2>1. UNCHANGED <<trackVars, cartVars, crashed>>
    BY <1>13, <1>0 DEF RdrEof, RdrQueue
  <2>2. ChunkMsg("eof", rdrGen, 0, None, NoContent) \in ChunkMsgType
    BY <1>13, PipelineAssumption
    DEF RdrEof, PipelineAssumption, TypeOK, PlayTypeOK, RdrTypeOK, ChunkMsg, ChunkMsgType,
        Content, NoContent, ContentType, Chunks, Buffers, Tracks, None
  <2>3. QueueTypeOK' /\ rdrPc' \in {"take", "loop", "done", "close"}
    BY <1>13, <2>2, QueueType DEF RdrEof
  <2>5. RdrTypeOK'
    BY <1>13, PipelineAssumption
    DEF RdrEof, RdrGoto, PipelineAssumption, TypeOK, PlayTypeOK, RdrTypeOK, RdrPcs, Chunks,
        Buffers, ChunkBufCount, None, RdrQueue
  <2> QED
    BY <1>0, <2>1, <2>2, <2>3, <2>5, Frame DEF TypeOK
<1> QED
  BY <1>1, <1>2, <1>3, <1>4, <1>5, <1>6, <1>7, <1>8, <1>9, <1>10, <1>11,
     <1>12, <1>13 DEF Reader, RdrClose

(* The reader's last step may also wake the service and the decoder.         *)
LEMMA CloseType == ASSUME TypeOK, Reader, rdrPc = "close" PROVE TypeOK'
<1>1. RdrClose /\ RdrUnchanged
  BY DEF Reader, RdrTake, RdrBegin, RdrLoop, RdrLoadWindow, RdrBounds, RdrFlush,
         RdrTakeBuffer, RdrRequest, RdrPollStop, RdrNotified, RdrSend, RdrDone,
         RdrEof
<1>2. UNCHANGED <<playVars, genVars, trackVars, mountVars, cartVars, cmds, crashed>>
  BY <1>1 DEF RdrClose, RdrUnchanged
<1>3. idleBits' \in SUBSET {"reader", "decoder"} /\ SvcTypeOK'
  BY <1>1, SetIdleType DEF RdrClose, RdrUnchanged
<1>4. QueueTypeOK'
  BY <1>1, <1>3 DEF RdrClose, TypeOK, QueueTypeOK
<1>5. RdrTypeOK'
  BY <1>1 DEF RdrClose, RdrGoto, TypeOK, RdrTypeOK, RdrPcs
<1>6. DecTypeOK'
  BY <1>1 DEF RdrClose, RdrUnchanged, TypeOK, DecTypeOK, DecPcs
<1> QED
  BY <1>2, <1>3, <1>4, <1>5, <1>6, Frame DEF TypeOK

(* Every step of player_decoder keeps the types.                             *)
LEMMA DecoderType == ASSUME TypeOK, Decoder PROVE TypeOK'
<1>0. /\ UNCHANGED <<playing, paused, index, hasPlaylist, resumeChunk>>
      /\ UNCHANGED <<trackVars, genVars, svcOp, svcTrack, svcChunk, rdrVars>>
      /\ UNCHANGED <<mountVars, cartVars, cmds, crashed>>
  BY DEF Decoder, DecUnchanged
<1>f. ASSUME UNCHANGED <<svcPc, currentChunk>>, QueueTypeOK', DecTypeOK'
      PROVE  TypeOK'
  BY <1>0, <1>f, Frame DEF TypeOK, playVars, svcVars
<1>1. CASE DecTake
  <2>1. Head(decoderCmd) \in StartType
    BY <1>1, TailType DEF DecTake, TypeOK, QueueTypeOK
  <2>2. DecTypeOK'
    BY <1>1, <2>1 DEF DecTake, StartType, TypeOK, DecTypeOK, DecPcs
  <2>3. QueueTypeOK' /\ UNCHANGED <<svcPc, currentChunk>>
    BY <1>1, EmptyType DEF Decoder, DecTake, TypeOK, QueueTypeOK
  <2> QED
    BY <1>f, <2>2, <2>3
<1>2. CASE DecOpen
  <2>1. DecTypeOK'
    BY <1>2 DEF DecOpen, DecGoto, TypeOK, DecTypeOK, DecPcs
  <2>2. QueueTypeOK' /\ UNCHANGED <<svcPc, currentChunk>>
    BY <1>2 DEF Decoder, DecOpen, TypeOK, QueueTypeOK
  <2> QED
    BY <1>f, <2>1, <2>2
<1>3. CASE DecLoop \/ DecPoll \/ DecChunk \/ DecPush \/ DecAwait \/ DecTimeout
  <2>1. UNCHANGED <<queueVars, svcPc, currentChunk>>
    BY <1>3 DEF Decoder, DecLoop, DecPoll, DecChunk, DecPush, DecAwait, DecTimeout
  <2>2. DecTypeOK'
    BY <1>3, Nothing
    DEF DecLoop, DecPoll, DecChunk, DecPush, DecAwait, DecTimeout, AwaitReader,
        DecGoto, TypeOK, DecTypeOK, DecPcs
  <2> QED
    BY <1>f, <2>1, <2>2, Frame DEF TypeOK
<1>4. CASE DecReceive
  <2>1. /\ Head(chunkQueue) \in ChunkMsgType /\ chunkQueue' \in Seq(ChunkMsgType)
        /\ Len(chunkQueue') <= ChunkBufCount
    BY <1>4, TailType DEF DecReceive, TypeOK, QueueTypeOK, ChunkBufCount
  <2>2. pool' \in 0 .. ChunkBufCount
    BY <1>4, GiveType DEF DecReceive, TypeOK, QueueTypeOK
  <2>3. QueueTypeOK'
    BY <1>4, <2>1, <2>2 DEF DecReceive, TypeOK, QueueTypeOK
  <2>4. DecTypeOK'
    BY <1>4, <2>1 DEF DecReceive, DecGoto, TypeOK, DecTypeOK, DecPcs
  <2>5. currentChunk' \in Chunks /\ svcPc' = svcPc
    BY <1>4, <2>1 DEF Decoder, DecReceive, ChunkMsgType, TypeOK, PlayTypeOK
  <2>6. PlayTypeOK' /\ SvcTypeOK'
    BY <1>0, <2>5 DEF TypeOK, PlayTypeOK, SvcTypeOK, trackVars, genVars
  <2> QED
    BY <1>0, <2>3, <2>4, <2>6, Frame DEF TypeOK
<1>5. CASE DecWrite
  <2>1. pcm' \in Seq(0 .. MaxGen) /\ Len(pcm') <= PcmCapacity
    <3>1. CASE pcm' = pcm
      BY <3>1 DEF TypeOK, QueueTypeOK
    <3>2. CASE Len(pcm) < PcmCapacity /\ pcm' = Append(pcm, decMsg.gen)
      <4>1. decMsg.gen \in 0 .. MaxGen
        BY DEF TypeOK, DecTypeOK, ChunkMsgType
      <4> QED
        BY <3>2, <4>1, AppendType, PipelineAssumption
        DEF PipelineAssumption, TypeOK, QueueTypeOK
    <3> QED
      BY <1>5, <3>1, <3>2 DEF DecWrite
  <2>2. QueueTypeOK' /\ UNCHANGED <<svcPc, currentChunk>>
    BY <1>5, <2>1 DEF Decoder, DecWrite, TypeOK, QueueTypeOK
  <2>3. DecTypeOK'
    BY <1>5, Nothing DEF DecWrite, DecGoto, TypeOK, DecTypeOK, DecPcs
  <2> QED
    BY <1>f, <2>2, <2>3
<1>6. CASE DecFinish
  <2>1. idleBits' \in SUBSET {"reader", "decoder"} /\ SvcTypeOK'
    BY <1>0, <1>6, SetIdleType DEF DecFinish
  <2>2. QueueTypeOK' /\ currentChunk' = currentChunk
    BY <1>6, <2>1 DEF DecFinish, TypeOK, QueueTypeOK
  <2>3. DecTypeOK'
    BY <1>6 DEF DecFinish, DecGoto, AwaitReader, TypeOK, DecTypeOK, DecPcs
  <2> QED
    BY <1>0, <2>1, <2>2, <2>3, Frame DEF TypeOK, playVars
<1>7. CASE DecComplete
  <2>1. Cmd("complete", 0, 0, decGen) \in CmdType
    BY PipelineAssumption
    DEF PipelineAssumption, TypeOK, DecTypeOK, Cmd, CmdType, CmdKinds, Tracks, Chunks
  <2>2. cmdQueue' \in Seq(CmdType) /\ Len(cmdQueue') <= QueueDepth
    <3>1. CASE cmdQueue' = cmdQueue
      BY <3>1 DEF TypeOK, QueueTypeOK
    <3>2. CASE /\ Len(cmdQueue) < QueueDepth
               /\ cmdQueue' = Append(cmdQueue, Cmd("complete", 0, 0, decGen))
      BY <2>1, <3>2, AppendType, PipelineAssumption
      DEF PipelineAssumption, TypeOK, QueueTypeOK
    <3> QED
      BY <1>7, <3>1, <3>2 DEF DecComplete
  <2>3. QueueTypeOK' /\ UNCHANGED <<svcPc, currentChunk>>
    BY <1>7, <2>2 DEF Decoder, DecComplete, TypeOK, QueueTypeOK
  <2>4. DecTypeOK'
    BY <1>7 DEF DecComplete, DecGoto, TypeOK, DecTypeOK, DecPcs
  <2> QED
    BY <1>f, <2>3, <2>4
<1> QED
  BY <1>1, <1>2, <1>3, <1>4, <1>5, <1>6, <1>7 DEF Decoder

(* Every step of cart_reader keeps the types.                                *)
LEMMA CartType == ASSUME TypeOK, Cart PROVE TypeOK'
<1>0. UNCHANGED <<queueVars, playVars, trackVars, genVars, svcVars, rdrVars,
                  decVars, mountVars, cmds, crashed>>
  BY DEF Cart, CartUnchanged
<1>1. CASE CartTake
  <2>1. Head(readQueue) \in RequestType
    BY <1>1, TailType DEF CartTake, TypeOK, CartTypeOK
  <2>2. CartTypeOK'
    BY <1>0, <1>1, <2>1, EmptyType DEF CartTake, TypeOK, CartTypeOK, mountVars
  <2> QED
    BY <1>0, <2>2, Frame DEF TypeOK
<1>2. CASE CartServe \/ CartRefuse \/ CartSeekFails
  <2>1. cartReq.who \in {"svc", "reader"} /\ cartReq.src \in ContentType
    BY DEF TypeOK, CartTypeOK, RequestType
  <2>2. result' \in ResultType /\ bufIndex' \in Buffers
    <3>1. [ok |-> TRUE, buf |-> bufIndex] \in ResultType
      BY DEF TypeOK, CartTypeOK, ResultType
    <3>2. result' \in ResultType
      BY <1>2, <3>1, Nothing DEF CartServe, CartRefuse, CartSeekFails
    <3>3. bufIndex' \in Buffers
      BY <1>2 DEF CartServe, CartRefuse, CartSeekFails, TypeOK, CartTypeOK, Buffers, ChunkBufCount
    <3> QED
      BY <3>2, <3>3
  <2>a. NoContent \in ContentType /\ bufData[bufIndex] \in ContentType
    BY Nothing DEF TypeOK, CartTypeOK
  <2>3. bufData' \in [Buffers -> ContentType]
    <3>1. CASE CartServe \/ CartRefuse
      BY <3>1, <2>1 DEF CartServe, CartRefuse, TypeOK, CartTypeOK
    <3>2. CASE CartSeekFails
      BY <3>2, <2>a DEF CartSeekFails, TypeOK, CartTypeOK
    <3> QED
      BY <1>2, <3>1, <3>2
  <2>4. CartTypeOK'
    BY <1>0, <1>2, <2>1, <2>2, <2>3, Nothing
    DEF CartServe, CartRefuse, CartSeekFails, CartNotify, TypeOK, CartTypeOK,
        mountVars
  <2> QED
    BY <1>0, <2>4, Frame DEF TypeOK
<1> QED
  BY <1>1, <1>2 DEF Cart

(* Commands enter s_cmd_queue only while it has room.                        *)
LEMMA QueueCmdType ==
  ASSUME TypeOK, NEW m \in CmdType, QueueCmd(m) PROVE QueueTypeOK'
<1>1. cmdQueue' \in Seq(CmdType) /\ Len(cmdQueue') <= QueueDepth
  <2>1. CASE cmdQueue' = cmdQueue
    BY <2>1 DEF TypeOK, QueueTypeOK
  <2>2. CASE Len(cmdQueue) < QueueDepth /\ cmdQueue' = Append(cmdQueue, m)
    BY <2>2, AppendType, PipelineAssumption DEF PipelineAssumption, TypeOK, QueueTypeOK
  <2> QED
    BY <2>1, <2>2 DEF QueueCmd
<1> QED
  BY <1>1 DEF QueueCmd, TypeOK, QueueTypeOK

(* Output, event loop and callers keep the types.                            *)
LEMMA EnvType == ASSUME TypeOK, Output \/ EventLoop \/ Callers PROVE TypeOK'
<1>0. UNCHANGED <<playVars, trackVars, genVars, svcVars, rdrVars, decVars,
                  cartVars, crashed>>
  BY DEF Output, EventLoop, Callers, EnvUnchanged
<1>1. CASE PcmPull
  <2>1. pcm' \in Seq(0 .. MaxGen) /\ Len(pcm') <= PcmCapacity
    BY <1>1, TailType, PipelineAssumption
    DEF PipelineAssumption, PcmPull, TypeOK, QueueTypeOK
  <2>2. QueueTypeOK' /\ UNCHANGED <<mountVars, cmds>>
    BY <1>1, <2>1 DEF PcmPull, TypeOK, QueueTypeOK
  <2> QED
    BY <1>0, <2>2, Frame DEF TypeOK
<1>2. CASE DeliverEvent
  <2>1. Head(events) = "removed" /\ events' \in Seq({"removed"})
    BY <1>2, TailType DEF DeliverEvent, TypeOK, CartTypeOK
  <2>2. Cmd(Head(events), 0, 0, 0) \in CmdType
    BY <2>1, PipelineAssumption
    DEF PipelineAssumption, Cmd, CmdType, CmdKinds, Tracks, Chunks
  <2>3. QueueTypeOK'
    BY <1>2, <2>2, QueueCmdType DEF DeliverEvent
  <2>4. CartTypeOK' /\ cmds' = cmds
    BY <1>0, <1>2, <2>1 DEF DeliverEvent, TypeOK, CartTypeOK, cartVars
  <2> QED
    BY <1>0, <2>3, <2>4, Frame DEF TypeOK
<1>3. CASE RequestSwitch \/ RequestPause \/ RequestSeek
  <2>1. PICK m \in CmdType : Request(m)
    <3>1. \A t \in Tracks, c \in Chunks :
            /\ Cmd("switch", t, 0, 0) \in CmdType /\ Cmd("pause", 0, 0, 0) \in CmdType
            /\ Cmd("seek", 0, c, 0) \in CmdType
      BY PipelineAssumption
      DEF PipelineAssumption, Cmd, CmdType, CmdKinds, Tracks, Chunks
    <3>2. 0 \in Tracks /\ 0 \in Chunks
      BY PipelineAssumption DEF PipelineAssumption, Tracks, Chunks
    <3> QED
      BY <1>3, <3>1, <3>2 DEF RequestSwitch, RequestPause, RequestSeek
  <2>2. QueueTypeOK' /\ UNCHANGED mountVars
    BY <2>1, QueueCmdType DEF Request
  <2>3. cmds' \in 0 .. MaxCmds
    BY <2>1, PipelineAssumption DEF PipelineAssumption, Request, TypeOK, PlayTypeOK
  <2>4. PlayTypeOK'
    BY <1>0, <2>3 DEF TypeOK, PlayTypeOK, playVars, trackVars, genVars
  <2> QED
    BY <1>0, <2>2, <2>4, Frame DEF TypeOK
<1>4. CASE Unmount \/ Mount
  <2>1. events' \in Seq({"removed"})
    <3>1. CASE events' = events
      BY <3>1 DEF TypeOK, CartTypeOK
    <3>2. CASE events' = Append(events, "removed")
      BY <3>2, AppendType DEF TypeOK, CartTypeOK
    <3> QED
      BY <1>4, <3>1, <3>2 DEF Unmount, Mount
  <2>2. CartTypeOK'
    <3>1. mounted' \in BOOLEAN
      BY <1>4, Zenon DEF Unmount, Mount
    <3> QED
      BY <1>0, <1>4, <2>1, <3>1, PipelineAssumption
      DEF PipelineAssumption, Unmount, Mount, TypeOK, CartTypeOK, cartVars
  <2>3. UNCHANGED <<queueVars, cmds>>
    BY <1>4 DEF Unmount, Mount
  <2> QED
    BY <1>0, <2>2, <2>3, Frame DEF TypeOK
<1> QED
  BY <1>1, <1>2, <1>3, <1>4 DEF Output, EventLoop, Callers

(* TypeOK is inductive.                                                      *)
LEMMA NextType == ASSUME TypeOK, [Next]_vars PROVE TypeOK'
<1>1. CASE UNCHANGED vars
  BY <1>1, Frame DEF vars, TypeOK
<1> QED
  BY <1>1, SvcType, ReaderType, CloseType, DecoderType, CartType, EnvType DEF Next

(* Type correctness, for every number of tracks, chunks, commands and        *)
(* generations and every window, buffer and queue size: no queue of the      *)
(* pipeline exceeds its depth, the buffer pool never holds more tokens than  *)
(* there are buffers, and inside its loop the reader never leaves the track. *)
THEOREM TypeCorrect == Spec => []TypeOK
<1>1. Init => TypeOK
  BY InitType
<1>2. TypeOK /\ [Next]_vars => TypeOK'
  BY NextType
<1> QED
  BY <1>1, <1>2, PTL DEF Spec

-----------------------------------------------------------------------------
(* The length of a nonempty queue.                                           *)
LEMMA Nonempty == ASSUME NEW S, NEW q \in Seq(S), q # <<>> PROVE Len(q) \in Nat \ {0}
<1>1. Tail(q) \in Seq(S) /\ Len(Tail(q)) = Len(q) - 1
  BY TailType
<1>2. Len(q) \in Nat /\ Len(Tail(q)) \in Nat
  BY <1>1
<1> QED
  BY <1>1, <1>2

(* The variables of the read path.                                           *)
WakeVars == <<readQueue, cartReq, notified>>

Waiting == {"wait", "waitStop"}

(* NoLostWakeup is inductive once the requests in flight are known to differ *)
(* from the value that stands for "none being served".                       *)
WakeInv == NoLostWakeup /\ \A i \in DOMAIN readQueue : readQueue[i] # NoReq

(* Steps that leave the read path alone.                                     *)
LEMMA WakeFrame ==
  ASSUME WakeInv, UNCHANGED WakeVars,
         svcPc' = "load" <=> svcPc = "load",
         rdrPc' \in Waiting <=> rdrPc \in Waiting
  PROVE  WakeInv'
  BY DEF WakeInv, WakeVars, Waiting, NoLostWakeup, Outstanding

(* SetIdle, the only way reader and decoder reach the service, does not      *)
(* touch a service that waits for a read.                                    *)
LEMMA ReaderWakes ==
  ASSUME Reader PROVE svcPc' = svcPc \/ (svcPc = "stopBlocked" /\ svcPc' = "stopReset")
<1>1. CASE rdrPc = "close"
  <2>1. SetIdle("reader")
    BY <1>1 DEF Reader, RdrTake, RdrBegin, RdrLoop, RdrLoadWindow, RdrBounds,
                RdrFlush, RdrTakeBuffer, RdrRequest, RdrPollStop, RdrNotified,
                RdrSend, RdrDone, RdrEof, RdrClose
  <2> QED
    BY <2>1 DEF SetIdle
<1> QED
  BY <1>1 DEF Reader

(* The same for the decoder.                                                 *)
LEMMA DecoderWakes ==
  ASSUME Decoder PROVE svcPc' = svcPc \/ (svcPc = "stopBlocked" /\ svcPc' = "stopReset")
<1>1. CASE decPc = "finish"
  <2>1. SetIdle("decoder")
    BY <1>1 DEF Decoder, DecTake, DecOpen, DecLoop, DecPoll, DecReceive, DecChunk,
                DecPush, DecWrite, DecFinish, DecAwait, DecTimeout, DecComplete
  <2> QED
    BY <2>1 DEF SetIdle
<1> QED
  BY <1>1 DEF Decoder

(* The service's side.                                                       *)
LEMMA WakeSvc == ASSUME TypeOK, WakeInv, Svc PROVE WakeInv'
<1>1. CASE SvcStart
  <2>1. CASE svcPc' # "load" /\ UNCHANGED <<cartVars, Others>>
    BY <1>1, <2>1, WakeFrame DEF SvcStart, cartVars, Others, rdrVars, WakeVars
  <2>2. CASE /\ readQueue = <<>> /\ svcPc' = "load"
             /\ readQueue' = <<[who |-> "svc", src |-> Content(svcTrack, None),
                                mount |-> mountGen]>>
             /\ UNCHANGED <<cartReq, notified, Others>>
    <3>1. [who |-> "svc", src |-> Content(svcTrack, None), mount |-> mountGen] # NoReq
      BY DEF TypeOK, SvcTypeOK, Tracks, NoReq, NoContent, Content, None
    <3>2. /\ DOMAIN readQueue' = {1} /\ readQueue'[1] # NoReq
          /\ readQueue'[1].who = "svc" /\ rdrPc' = rdrPc
          /\ UNCHANGED <<cartReq, notified>>
      BY <2>2, <3>1 DEF Others, rdrVars
    <3>3. svcPc # "load"
      BY <1>1 DEF SvcStart
    <3> QED
      BY <2>2, <3>2, <3>3 DEF WakeInv, NoLostWakeup, Outstanding
  <2> QED
    BY <1>1, <2>1, <2>2 DEF SvcStart, SvcStartFails, SvcIdle, Goto
<1>2. CASE SvcLoaded
  <2>1. /\ svcPc = "load" /\ svcPc' # "load" /\ rdrPc' = rdrPc
        /\ "svc" \in notified /\ notified' = notified \ {"svc"}
        /\ UNCHANGED <<readQueue, cartReq>>
    BY <1>2 DEF SvcLoaded, SvcStartFails, SvcIdle, Goto, Others, rdrVars
  <2> QED
    BY <2>1 DEF WakeInv, NoLostWakeup, Outstanding
<1>3. CASE \/ SvcSwitch \/ SvcSeek \/ SvcPause \/ SvcComplete \/ SvcCartridge
  <2>1. UNCHANGED <<cartVars, rdrVars>> /\ svcPc = "idle"
    BY <1>3 DEF SvcSwitch, SvcSeek, SvcPause, SvcComplete, SvcCartridge, SvcTake, Others
  <2>2. svcPc' # "load"
    BY <1>3, <2>1
    DEF SvcSwitch, SvcSeek, SvcPause, SvcComplete, SvcCartridge, Goto, svcVars
  <2> QED
    BY <2>1, <2>2, WakeFrame DEF cartVars, rdrVars, WakeVars
<1>4. CASE \/ SvcStop \/ SvcStopWait \/ SvcStopTimeout \/ SvcStopReset
           \/ SvcPaused \/ SvcRemoved \/ SvcInserted
  <2>1. UNCHANGED <<cartVars, rdrVars>> /\ svcPc # "load"
    BY <1>4 DEF SvcStop, SvcStopWait, SvcStopTimeout, SvcStopReset, SvcPaused,
                SvcRemoved, SvcInserted, Others
  <2>2. svcPc' # "load"
    BY <1>4 DEF SvcStop, SvcStopWait, SvcStopTimeout, SvcStopReset, SvcPaused,
                SvcRemoved, SvcInserted, SvcIdle, Goto
  <2> QED
    BY <2>1, <2>2, WakeFrame DEF cartVars, rdrVars, WakeVars
<1>5. CASE \/ SvcCommit \/ SvcRestore \/ SvcStartReset \/ SvcSendDecoder
           \/ SvcSendReader
  <2>1. UNCHANGED <<cartVars, rdrVars>> /\ svcPc # "load" /\ svcPc' # "load"
    BY <1>5 DEF SvcCommit, SvcRestore, SvcStartReset, SvcSendDecoder,
                SvcSendReader, SvcIdle, Goto, Others
  <2> QED
    BY <2>1, WakeFrame DEF cartVars, rdrVars, WakeVars
<1> QED
  BY <1>1, <1>2, <1>3, <1>4, <1>5 DEF Svc

(* The reader's side.                                                        *)
LEMMA WakeReader == ASSUME TypeOK, WakeInv, Reader PROVE WakeInv'
<1>0. svcPc' = "load" <=> svcPc = "load"
  BY ReaderWakes
<1>1. CASE RdrBegin
  <2>1. /\ rdrPc = "got" /\ rdrPc' \notin Waiting /\ notified' = notified \ {"reader"}
        /\ UNCHANGED <<readQueue, cartReq>>
    BY <1>1 DEF RdrBegin, Waiting
  <2> QED
    BY <1>0, <2>1 DEF WakeInv, NoLostWakeup, Outstanding, Waiting
<1>2. CASE RdrRequest
  <2>1. CASE UNCHANGED readQueue
    <3>1. UNCHANGED WakeVars /\ rdrPc \notin Waiting /\ rdrPc' \notin Waiting
      BY <1>2, <2>1, EmptyType
      DEF RdrRequest, RdrFail, RdrGoto, Waiting, WakeVars
    <3> QED
      BY <1>0, <3>1, WakeFrame
  <2>2. CASE /\ readQueue = <<>> /\ rdrPc' = "wait"
             /\ readQueue' = <<[who |-> "reader", src |-> Content(loaded, rdrChunk),
                                mount |-> mountGen]>>
    <3>1. [who |-> "reader", src |-> Content(loaded, rdrChunk), mount |-> mountGen]
            # NoReq
      BY DEF NoReq
    <3>2. /\ DOMAIN readQueue' = {1} /\ readQueue'[1] # NoReq
          /\ readQueue'[1].who = "reader" /\ rdrPc = "request"
          /\ UNCHANGED <<cartReq, notified>>
      BY <1>2, <2>2, <3>1 DEF RdrRequest
    <3> QED
      BY <1>0, <2>2, <3>2 DEF WakeInv, NoLostWakeup, Outstanding
  <2> QED
    BY <1>2, <2>1, <2>2 DEF RdrRequest, RdrGoto
<1>3. CASE RdrNotified
  <2>1. /\ rdrPc \in Waiting /\ rdrPc' \notin Waiting
        /\ "reader" \in notified /\ notified' = notified \ {"reader"}
        /\ UNCHANGED <<readQueue, cartReq>>
    BY <1>3 DEF RdrNotified, RdrFail, RdrGoto, Waiting
  <2> QED
    BY <1>0, <2>1 DEF WakeInv, NoLostWakeup, Outstanding, Waiting
<1>4. CASE RdrPollStop
  <2>1. UNCHANGED cartVars /\ rdrPc \in Waiting /\ rdrPc' \in Waiting
    BY <1>4 DEF RdrPollStop, RdrGoto, Waiting
  <2> QED
    BY <1>0, <2>1, WakeFrame DEF cartVars, WakeVars
<1>5. CASE \/ RdrTake \/ RdrLoop \/ RdrLoadWindow \/ RdrTakeBuffer \/ RdrDone
           \/ RdrClose
  <2>1. UNCHANGED cartVars /\ rdrPc \notin Waiting /\ rdrPc' \notin Waiting
    BY <1>5 DEF RdrTake, RdrLoop, RdrLoadWindow, RdrTakeBuffer, RdrDone, RdrClose,
                RdrGoto, Waiting
  <2> QED
    BY <1>0, <2>1, WakeFrame DEF cartVars, WakeVars
<1>6. CASE RdrBounds \/ RdrFlush \/ RdrSend \/ RdrEof
  <2>1. UNCHANGED cartVars /\ rdrPc \notin Waiting /\ rdrPc' \notin Waiting
    BY <1>6 DEF RdrBounds, RdrFlush, RdrSend, RdrEof, RdrQueue, RdrGoto, Waiting,
                rdrVars
  <2> QED
    BY <1>0, <2>1, WakeFrame DEF cartVars, WakeVars
<1> QED
  BY <1>1, <1>2, <1>3, <1>4, <1>5, <1>6 DEF Reader

(* The cartridge reader moves a request on: from the queue to itself, from   *)
(* itself to the waiting task's notification.                                *)
LEMMA WakeCart == ASSUME TypeOK, WakeInv, Cart PROVE WakeInv'
<1>0. UNCHANGED <<svcPc, rdrPc>>
  BY DEF Cart, CartUnchanged, svcVars, rdrVars
<1>1. CASE CartTake
  <2>1. /\ DOMAIN readQueue = {1} /\ Head(readQueue) = readQueue[1]
        /\ readQueue[1] # NoReq
    <3>0. readQueue \in Seq(RequestType) /\ Len(readQueue) <= 1
      BY DEF TypeOK, CartTypeOK
    <3>1. Len(readQueue) = 1
      <4>1. Len(readQueue) \in Nat \ {0}
        BY <1>1, <3>0, Nonempty DEF CartTake
      <4>2. \A n \in Nat \ {0} : n <= 1 => n = 1
        OBVIOUS
      <4> QED
        BY <3>0, <4>1, <4>2
    <3>2. DOMAIN readQueue = {1} /\ Head(readQueue) = readQueue[1]
      BY <3>0, <3>1
    <3> QED
      BY <3>2 DEF WakeInv
  <2>2. /\ DOMAIN readQueue' = {} /\ cartReq = NoReq /\ cartReq' = readQueue[1]
        /\ notified' = notified
    BY <1>1, <2>1 DEF CartTake
  <2> QED
    BY <1>0, <2>1, <2>2 DEF WakeInv, NoLostWakeup, Outstanding
<1>2. CASE CartServe \/ CartRefuse \/ CartSeekFails
  <2>1. /\ cartReq # NoReq /\ cartReq' = NoReq /\ readQueue' = readQueue
        /\ notified' = notified \cup {cartReq.who}
    BY <1>2 DEF CartServe, CartRefuse, CartSeekFails, CartNotify
  <2>2. cartReq.who \in {"svc", "reader"}
    BY DEF TypeOK, CartTypeOK, RequestType
  <2> QED
    BY <1>0, <2>1, <2>2 DEF WakeInv, NoLostWakeup, Outstanding
<1> QED
  BY <1>1, <1>2 DEF Cart

(* WakeInv is inductive relative to TypeOK.                                  *)
LEMMA WakeNext == ASSUME TypeOK, WakeInv, [Next]_vars PROVE WakeInv'
<1>1. CASE Decoder
  <2>1. UNCHANGED <<cartVars, rdrVars>>
    BY <1>1 DEF Decoder, DecUnchanged
  <2>2. svcPc' = "load" <=> svcPc = "load"
    BY <1>1, DecoderWakes
  <2> QED
    BY <2>1, <2>2, WakeFrame DEF cartVars, rdrVars, WakeVars
<1>2. CASE Output \/ EventLoop \/ Callers
  <2>1. UNCHANGED <<cartVars, svcVars, rdrVars>>
    BY <1>2 DEF Output, EventLoop, Callers, EnvUnchanged
  <2> QED
    BY <2>1, WakeFrame DEF cartVars, svcVars, rdrVars, WakeVars
<1>3. CASE UNCHANGED vars
  BY <1>3, WakeFrame DEF vars, cartVars, svcVars, rdrVars, WakeVars
<1> QED
  BY <1>1, <1>2, <1>3, WakeSvc, WakeReader, WakeCart DEF Next

(* No lost and no spurious wake-up: a task that waits for an SD read without *)
(* a time limit always has exactly one read outstanding, whatever is         *)
(* stopped, unmounted or refused meanwhile.                                  *)
THEOREM WakeupsSafe == Spec => []NoLostWakeup
<1>1. Init => WakeInv
  BY DEF Init, WakeInv, NoLostWakeup, Outstanding
<1>2. TypeOK /\ WakeInv /\ [Next]_vars => WakeInv'
  BY WakeNext
<1>3. WakeInv => NoLostWakeup
  BY DEF WakeInv
<1> QED
  BY <1>1, <1>2, <1>3, TypeCorrect, PTL DEF Spec

-----------------------------------------------------------------------------
(* PlayingIsLoaded speaks about the service between two commands.  In the    *)
(* middle of one, the track info is replaced before s_playlist_index is:     *)
(* between the two (pc "commit") it is that of the track being started, and  *)
(* a command that starts a track has found a playlist.                       *)
PlayInv ==
  /\ svcPc # "commit" /\ playing => hasPlaylist /\ loaded = index
  /\ svcPc \in {"start", "load", "commit"} \/ svcOp \in {"switch", "seek"}
       => hasPlaylist
  /\ svcPc = "commit" => loaded = svcTrack

(* Steps that leave the playback flags alone and do not start a track.       *)
LEMMA PlayFrame ==
  ASSUME PlayInv, UNCHANGED <<playing, hasPlaylist, loaded, index, svcOp, svcTrack>>,
         \/ svcPc' = svcPc
         \/ svcPc' \notin {"start", "load", "commit"} /\ svcPc # "commit"
         \/ svcPc' = "load" /\ svcPc = "start"
  PROVE  PlayInv'
  BY DEF PlayInv

(* The service's side, one case per action.                                  *)
LEMMA PlaySvc == ASSUME TypeOK, PlayInv, Svc PROVE PlayInv'
<1>1. CASE SvcSwitch
  BY <1>1 DEF SvcSwitch, SvcTake, Goto, svcVars, trackVars, PlayInv
<1>2. CASE SvcSeek
  BY <1>2 DEF SvcSeek, SvcTake, Goto, svcVars, PlayInv
<1>3. CASE SvcPause
  BY <1>3 DEF SvcPause, SvcTake, Goto, svcVars, trackVars, PlayInv
<1>4. CASE SvcComplete
  BY <1>4 DEF SvcComplete, SvcTake, Goto, svcVars, trackVars, PlayInv
<1>5. CASE SvcCartridge
  BY <1>5 DEF SvcCartridge, SvcTake, Goto, playVars, trackVars, PlayInv
<1>6. CASE SvcStop \/ SvcStopWait \/ SvcStopTimeout
  BY <1>6, PlayFrame DEF SvcStop, SvcStopWait, SvcStopTimeout, playVars, trackVars
<1>7. CASE SvcStopReset
  BY <1>7 DEF SvcStopReset, playVars, trackVars, PlayInv
<1>8. CASE SvcPaused
  BY <1>8 DEF SvcPaused, SvcIdle, Goto, trackVars, PlayInv
<1>9. CASE SvcRemoved
  BY <1>9 DEF SvcRemoved, SvcIdle, Goto, PlayInv
<1>10. CASE SvcInserted
  BY <1>10 DEF SvcInserted, SvcIdle, Goto, PlayInv
<1>11. CASE SvcStart
  <2>1. CASE SvcStartFails
    BY <2>1 DEF SvcStartFails, SvcIdle, Goto, PlayInv
  <2>2. CASE UNCHANGED <<playVars, trackVars, svcOp, svcTrack>>
    BY <1>11, <2>2 DEF SvcStart, SvcStartFails, SvcIdle, Goto, playVars, trackVars, PlayInv
  <2> QED
    BY <1>11, <2>1, <2>2 DEF SvcStart
<1>12. CASE SvcLoaded
  BY <1>12 DEF SvcLoaded, SvcStartFails, SvcIdle, Goto, playVars, trackVars, PlayInv
<1>13. CASE SvcCommit
  BY <1>13 DEF SvcCommit, trackVars, PlayInv
<1>14. CASE SvcRestore
  BY <1>14 DEF SvcRestore, SvcIdle, Goto, trackVars, PlayInv
<1>15. CASE SvcStartReset \/ SvcSendDecoder
  BY <1>15, PlayFrame DEF SvcStartReset, SvcSendDecoder, playVars, trackVars
<1>16. CASE SvcSendReader
  BY <1>16 DEF SvcSendReader, SvcIdle, Goto, playVars, trackVars, PlayInv
<1> QED
  BY <1>1, <1>2, <1>3, <1>4, <1>5, <1>6, <1>7, <1>8, <1>9, <1>10, <1>11, <1>12,
     <1>13, <1>14, <1>15, <1>16 DEF Svc

(* PlayInv is inductive relative to TypeOK.                                  *)
LEMMA PlayNext == ASSUME TypeOK, PlayInv, [Next]_vars PROVE PlayInv'
<1>1. CASE Reader
  <2>1. UNCHANGED <<playVars, svcOp, svcTrack, loaded>>
    BY <1>1 DEF Reader, RdrUnchanged, RdrTake, RdrBegin, RdrLoop, RdrLoadWindow,
                RdrBounds, RdrFlush, RdrTakeBuffer, RdrRequest, RdrPollStop,
                RdrNotified, RdrSend, RdrDone, RdrEof, RdrClose, RdrQueue, trackVars
  <2> QED
    BY <1>1, <2>1, ReaderWakes, PlayFrame DEF playVars
<1>2. CASE Decoder
  BY <1>2, DecoderWakes, PlayFrame DEF Decoder, DecUnchanged, trackVars
<1>3. CASE Cart
  BY <1>3, PlayFrame DEF Cart, CartUnchanged, playVars, trackVars, svcVars
<1>4. CASE Output \/ EventLoop \/ Callers
  BY <1>4, PlayFrame
  DEF Output, EventLoop, Callers, EnvUnchanged, playVars, trackVars, svcVars
<1>5. CASE UNCHANGED vars
  BY <1>5, PlayFrame DEF vars, playVars, trackVars, svcVars
<1> QED
  BY <1>1, <1>2, <1>3, <1>4, <1>5, PlaySvc DEF Next

(* What is reported as playing is what is read: between two commands a       *)
(* playing player has a playlist and holds the track info of the track       *)
(* s_playlist_index names, through failed starts, removals and timeouts.     *)
THEOREM ReportedIsLoaded == Spec => []PlayingIsLoaded
<1>1. Init => PlayInv
  BY DEF Init, PlayInv
<1>2. TypeOK /\ PlayInv /\ [Next]_vars => PlayInv'
  BY PlayNext
<1>3. PlayInv => PlayingIsLoaded
  BY DEF PlayInv, PlayingIsLoaded
<1> QED
  BY <1>1, <1>2, <1>3, TypeCorrect, PTL DEF Spec

-----------------------------------------------------------------------------
(* The generations some token (a decoder command, a decoder at work, a       *)
(* queued completion) belongs to are not in the future, and while a start is *)
(* prepared its own generation has no token yet.                             *)
Token(g) == Commanded(g) \/ Decoding(g) \/ \E i \in DOMAIN cmdQueue : Reported(g, i)

CompletionInv ==
  /\ CompletionOnce
  /\ \A g \in 1 .. MaxGen : Token(g) => g <= activeGen
  /\ svcPc \in {"startReset", "sendDecoder"} => ~Token(activeGen)

CompletionVars == <<cmdQueue, decoderCmd, decGen, activeGen>>

(* Tokens do not move.                                                       *)
LEMMA CompletionFrame ==
  ASSUME CompletionInv, UNCHANGED CompletionVars,
         decPc' = "idle" <=> decPc = "idle",
         svcPc' \in {"startReset", "sendDecoder"} => svcPc' = svcPc
  PROVE  CompletionInv'
<1>1. \A g : (Commanded(g)' <=> Commanded(g)) /\ (Decoding(g)' <=> Decoding(g))
           /\ \A i : Reported(g, i)' <=> Reported(g, i)
  BY DEF CompletionVars, Commanded, Decoding, Reported
<1>2. cmdQueue' = cmdQueue /\ activeGen' = activeGen
  BY DEF CompletionVars
<1> QED
  BY <1>1, <1>2 DEF CompletionInv, CompletionOnce, Token

(* A command that is no completion enters s_cmd_queue, or none does.         *)
LEMMA CompletionQueue ==
  ASSUME TypeOK, CompletionInv, UNCHANGED <<decoderCmd, decGen, decPc, activeGen, svcPc>>,
         NEW m \in CmdType, m.kind # "complete",
         cmdQueue' = cmdQueue \/ cmdQueue' = Append(cmdQueue, m)
  PROVE  CompletionInv'
<1>1. \A g : (Commanded(g)' <=> Commanded(g)) /\ (Decoding(g)' <=> Decoding(g))
  BY DEF Commanded, Decoding
<1>2. \A i \in DOMAIN cmdQueue' :
        cmdQueue'[i].kind = "complete"
          => i \in DOMAIN cmdQueue /\ cmdQueue'[i] = cmdQueue[i]
  <2>1. CASE cmdQueue' = cmdQueue
    BY <2>1
  <2>2. CASE cmdQueue' = Append(cmdQueue, m)
    BY <2>2 DEF TypeOK, QueueTypeOK
  <2> QED
    BY <2>1, <2>2
<1>3. \A g : \A i \in DOMAIN cmdQueue' :
        Reported(g, i)' => i \in DOMAIN cmdQueue /\ Reported(g, i)
  BY <1>2 DEF Reported
<1> QED
  BY <1>1, <1>3 DEF CompletionInv, CompletionOnce, Token

(* The service takes a command from s_cmd_queue.                             *)
LEMMA CompletionTake ==
  ASSUME TypeOK, CompletionInv, UNCHANGED <<decoderCmd, decGen, decPc, activeGen>>,
         cmdQueue # <<>>, cmdQueue' = Tail(cmdQueue),
         svcPc' \notin {"startReset", "sendDecoder"}
  PROVE  CompletionInv'
<1>1. \A g : (Commanded(g)' <=> Commanded(g)) /\ (Decoding(g)' <=> Decoding(g))
  BY DEF Commanded, Decoding
<1>2. \A i \in DOMAIN cmdQueue' :
        /\ i \in Nat /\ i + 1 \in DOMAIN cmdQueue
        /\ cmdQueue'[i] = cmdQueue[i + 1]
  BY DEF TypeOK, QueueTypeOK
<1>3. \A g : \A i \in DOMAIN cmdQueue' :
        Reported(g, i)' => i + 1 \in DOMAIN cmdQueue /\ Reported(g, i + 1)
  BY <1>2 DEF Reported
<1>4. \A i, j \in DOMAIN cmdQueue' : i + 1 = j + 1 => i = j
  BY <1>2
<1>5. \A g \in 1 .. MaxGen :
        /\ ~(Commanded(g)' /\ Decoding(g)')
        /\ \A i \in DOMAIN cmdQueue' :
             Reported(g, i)' => /\ ~Commanded(g)' /\ ~Decoding(g)'
                                /\ \A j \in DOMAIN cmdQueue' : Reported(g, j)' => i = j
  BY <1>1, <1>3, <1>4 DEF CompletionInv, CompletionOnce
<1>6. CompletionOnce'
  BY <1>5 DEF CompletionOnce
<1>7. \A g \in 1 .. MaxGen : Token(g)' => g <= activeGen'
  BY <1>1, <1>3 DEF CompletionInv, Token
<1> QED
  BY <1>6, <1>7 DEF CompletionInv

(* The command queues are emptied: a command may vanish, none appears.       *)
LEMMA CompletionReset ==
  ASSUME CompletionInv, UNCHANGED <<decGen, decPc, activeGen>>, ResetPipeline,
         svcPc' \in {"startReset", "sendDecoder"} =>
           svcPc \in {"startReset", "sendDecoder"}
  PROVE  CompletionInv'
<1>1. \A g : ~Commanded(g)' /\ (Decoding(g)' <=> Decoding(g))
           /\ \A i : Reported(g, i)' <=> Reported(g, i)
  BY DEF ResetPipeline, Commanded, Decoding, Reported
<1>2. cmdQueue' = cmdQueue
  BY DEF ResetPipeline
<1> QED
  BY <1>1, <1>2 DEF CompletionInv, CompletionOnce, Token

(* The service takes completions, drops the decoder's command, issues a new one. *)
LEMMA CompletionSvc == ASSUME TypeOK, CompletionInv, Svc PROVE CompletionInv'
<1>1. CASE \/ SvcSwitch \/ SvcSeek \/ SvcPause \/ SvcComplete \/ SvcCartridge
  <2>1. /\ svcPc = "idle" /\ cmdQueue # <<>> /\ cmdQueue' = Tail(cmdQueue)
        /\ UNCHANGED <<decoderCmd, decVars, genVars>>
    BY <1>1 DEF SvcSwitch, SvcSeek, SvcPause, SvcComplete, SvcCartridge, SvcTake, Others
  <2>2. svcPc' \notin {"startReset", "sendDecoder"}
    BY <1>1, <2>1
    DEF SvcSwitch, SvcSeek, SvcPause, SvcComplete, SvcCartridge, Goto, svcVars
  <2> QED
    BY <2>1, <2>2, CompletionTake DEF decVars, genVars
<1>2. CASE \/ SvcStop \/ SvcStopWait \/ SvcStopTimeout \/ SvcPaused \/ SvcRemoved
           \/ SvcInserted
  <2>1. UNCHANGED <<queueVars, decVars, activeGen>>
    BY <1>2 DEF SvcStop, SvcStopWait, SvcStopTimeout, SvcPaused, SvcRemoved,
                SvcInserted, Others, genVars
  <2>2. svcPc' \notin {"startReset", "sendDecoder"}
    BY <1>2 DEF SvcStop, SvcStopWait, SvcStopTimeout, SvcPaused, SvcRemoved,
                SvcInserted, SvcIdle, Goto
  <2> QED
    BY <2>1, <2>2, CompletionFrame DEF queueVars, decVars, CompletionVars
<1>3. CASE SvcStart \/ SvcLoaded
  <2>1. /\ UNCHANGED <<queueVars, decVars, genVars>>
        /\ svcPc' \notin {"startReset", "sendDecoder"}
    BY <1>3 DEF SvcStart, SvcLoaded, SvcStartFails, SvcIdle, Goto, Others
  <2> QED
    BY <2>1, CompletionFrame DEF queueVars, decVars, genVars, CompletionVars
<1>4. CASE SvcStopReset \/ SvcRestore \/ SvcStartReset
  <2>1. ResetPipeline /\ UNCHANGED <<decVars, activeGen>>
    BY <1>4 DEF SvcStopReset, SvcRestore, SvcStartReset, Others, genVars
  <2>2. svcPc' \in {"startReset", "sendDecoder"}
          => svcPc \in {"startReset", "sendDecoder"}
    BY <1>4 DEF SvcStopReset, SvcRestore, SvcStartReset, SvcIdle, Goto
  <2> QED
    BY <2>1, <2>2, CompletionReset DEF decVars
<1>5. CASE SvcCommit
  <2>1. /\ UNCHANGED <<cmdQueue, decoderCmd, decGen, decPc>>
        /\ activeGen' = activeGen + 1 /\ activeGen < MaxGen
    BY <1>5 DEF SvcCommit, queueVars, Others, decVars
  <2>2. \A g : (Commanded(g)' <=> Commanded(g)) /\ (Decoding(g)' <=> Decoding(g))
             /\ \A i : Reported(g, i)' <=> Reported(g, i)
    BY <2>1 DEF Commanded, Decoding, Reported
  <2>3. \A g : Token(g)' <=> Token(g)
    BY <2>1, <2>2 DEF Token
  <2>4. activeGen \in Nat /\ activeGen + 1 \in 1 .. MaxGen
    BY <2>1, PipelineAssumption DEF PipelineAssumption, TypeOK, PlayTypeOK
  <2>5. \A g \in 1 .. MaxGen : Token(g) => g <= activeGen
    BY DEF CompletionInv
  <2>6. \A g \in 1 .. MaxGen : Token(g)' => g <= activeGen'
    BY <2>1, <2>3, <2>4, <2>5
  <2>7. ~Token(activeGen + 1)
    BY <2>4, <2>5
  <2>8. ~Token(activeGen)'
    <3>1. \A g : g = activeGen' => ~Token(g)'
      BY <2>1, <2>3, <2>7
    <3> QED
      BY <3>1 DEF Token, Commanded, Decoding, Reported
  <2>9. CompletionOnce'
    BY <2>1, <2>2 DEF CompletionInv, CompletionOnce
  <2> QED
    BY <2>6, <2>8, <2>9 DEF CompletionInv
<1>6. CASE SvcSendDecoder
  <2>1. /\ UNCHANGED <<cmdQueue, decGen, decPc, activeGen>>
        /\ svcPc = "sendDecoder" /\ svcPc' = "sendReader"
        /\ decoderCmd' = <<[gen |-> activeGen, chunk |-> svcChunk]>>
    BY <1>6 DEF SvcSendDecoder, genVars, Others, decVars
  <2>2. \A g : (Commanded(g)' => g = activeGen) /\ (Decoding(g)' <=> Decoding(g))
             /\ \A i : Reported(g, i)' <=> Reported(g, i)
    BY <2>1 DEF Commanded, Decoding, Reported
  <2>3. ~Token(activeGen)
    BY <2>1 DEF CompletionInv
  <2>4. CompletionOnce'
    BY <2>1, <2>2, <2>3 DEF CompletionInv, CompletionOnce, Token
  <2>5. \A g \in 1 .. MaxGen : Token(g)' => g <= activeGen'
    BY <2>1, <2>2 DEF CompletionInv, Token, TypeOK, PlayTypeOK
  <2> QED
    BY <2>1, <2>4, <2>5 DEF CompletionInv
<1>7. CASE SvcSendReader
  <2>1. UNCHANGED CompletionVars /\ decPc' = decPc /\ svcPc' = "idle"
    BY <1>7 DEF SvcSendReader, SvcIdle, Goto, genVars, Others, decVars, CompletionVars
  <2> QED
    BY <2>1, CompletionFrame
<1> QED
  BY <1>1, <1>2, <1>3, <1>4, <1>5, <1>6, <1>7 DEF Svc

(* The token moves with the decoder: from its command to itself, from itself *)
(* to the service's queue, or it is dropped because that queue is full.      *)
LEMMA CompletionDecoder == ASSUME TypeOK, CompletionInv, Decoder PROVE CompletionInv'
<1>0. /\ activeGen' = activeGen
      /\ svcPc' \in {"startReset", "sendDecoder"} => svcPc' = svcPc
  BY DecoderWakes DEF Decoder, DecUnchanged, genVars
<1>1. CASE DecTake
  <2>1. /\ decPc = "idle" /\ decoderCmd # <<>> /\ decGen' = Head(decoderCmd).gen
        /\ decoderCmd' = <<>> /\ cmdQueue' = cmdQueue
    BY <1>1 DEF DecTake
  <2>2. Head(decoderCmd) = decoderCmd[1]
    BY DEF TypeOK, QueueTypeOK
  <2>3. \A g : /\ ~Decoding(g) /\ ~Commanded(g)'
               /\ Decoding(g)' => Commanded(g)
               /\ \A i : Reported(g, i)' <=> Reported(g, i)
    BY <2>1, <2>2 DEF Commanded, Decoding, Reported
  <2>q. cmdQueue' = cmdQueue
    BY <2>1
  <2>4. CompletionOnce'
    BY <2>q, <2>3 DEF CompletionInv, CompletionOnce
  <2>5. \A g : Token(g)' => Token(g)
    BY <2>q, <2>3 DEF Token
  <2> QED
    BY <1>0, <2>4, <2>5 DEF CompletionInv
<1>2. CASE DecComplete
  <2>1. /\ decPc = "complete" /\ decPc' = "idle"
        /\ decGen' = decGen /\ decoderCmd' = decoderCmd
        /\ \/ cmdQueue' = cmdQueue
           \/ cmdQueue' = Append(cmdQueue, Cmd("complete", 0, 0, decGen))
    BY <1>2 DEF DecComplete, DecGoto
  <2>2. \A i \in DOMAIN cmdQueue' :
          \/ i \in DOMAIN cmdQueue /\ cmdQueue'[i] = cmdQueue[i]
          \/ /\ i = Len(cmdQueue) + 1 /\ i \notin DOMAIN cmdQueue
             /\ cmdQueue'[i].gen = decGen
    <3>1. CASE cmdQueue' = cmdQueue
      BY <3>1
    <3>2. CASE cmdQueue' = Append(cmdQueue, Cmd("complete", 0, 0, decGen))
      BY <3>2 DEF TypeOK, QueueTypeOK, Cmd
    <3> QED
      BY <2>1, <3>1, <3>2
  <2>3. \A g : (Commanded(g)' <=> Commanded(g)) /\ ~Decoding(g)'
    BY <2>1 DEF Commanded, Decoding
  <2>4. \A g : \A i \in DOMAIN cmdQueue' :
          Reported(g, i)' => \/ i \in DOMAIN cmdQueue /\ Reported(g, i)
                             \/ i = Len(cmdQueue) + 1 /\ Decoding(g)
    BY <2>1, <2>2 DEF Reported, Decoding
  <2>5. CompletionOnce'
    BY <2>3, <2>4 DEF CompletionInv, CompletionOnce
  <2>6. \A g : Token(g)' => Token(g)
    BY <2>3, <2>4 DEF Token
  <2> QED
    BY <1>0, <2>5, <2>6 DEF CompletionInv
<1>3. CASE \/ DecOpen \/ DecLoop \/ DecPoll \/ DecReceive \/ DecChunk \/ DecPush
           \/ DecWrite \/ DecFinish \/ DecAwait \/ DecTimeout
  <2>1. /\ UNCHANGED <<cmdQueue, decoderCmd, decGen>>
        /\ decPc # "idle" /\ decPc' # "idle"
    BY <1>3 DEF DecOpen, DecLoop, DecPoll, DecReceive, DecChunk, DecPush, DecWrite,
                DecFinish, DecAwait, DecTimeout, DecGoto, AwaitReader, queueVars
  <2> QED
    BY <1>0, <2>1, CompletionFrame DEF CompletionVars
<1> QED
  BY <1>1, <1>2, <1>3 DEF Decoder

(* Callers and events queue commands that are no completions.                *)
LEMMA CompletionEnv ==
  ASSUME TypeOK, CompletionInv, Output \/ EventLoop \/ Callers PROVE CompletionInv'
<1>0. UNCHANGED <<genVars, svcVars, decVars>>
  BY DEF Output, EventLoop, Callers, EnvUnchanged
<1>1. CASE PcmPull \/ Unmount \/ Mount
  BY <1>0, <1>1, CompletionFrame
  DEF PcmPull, Unmount, Mount, queueVars, genVars, svcVars, decVars, CompletionVars
<1>2. ASSUME NEW m \in CmdType, m.kind # "complete", QueueCmd(m) PROVE CompletionInv'
  BY <1>0, <1>2, CompletionQueue DEF QueueCmd, genVars, svcVars, decVars
<1>3. CASE DeliverEvent
  <2>1. Head(events) = "removed"
    BY <1>3, TailType DEF DeliverEvent, TypeOK, CartTypeOK
  <2>2. Cmd(Head(events), 0, 0, 0) \in CmdType /\ Cmd(Head(events), 0, 0, 0).kind # "complete"
    BY <2>1, PipelineAssumption
    DEF PipelineAssumption, Cmd, CmdType, CmdKinds, Tracks, Chunks
  <2> QED
    BY <1>2, <1>3, <2>2 DEF DeliverEvent
<1>4. CASE RequestSwitch \/ RequestPause \/ RequestSeek
  <2>1. \A k \in {"switch", "pause", "seek"}, t \in Tracks, c \in Chunks :
          Cmd(k, t, c, 0) \in CmdType /\ Cmd(k, t, c, 0).kind # "complete"
    BY PipelineAssumption DEF PipelineAssumption, Cmd, CmdType, CmdKinds
  <2>2. 0 \in Tracks /\ 0 \in Chunks
    BY PipelineAssumption DEF PipelineAssumption, Tracks, Chunks
  <2>3. PICK k \in {"switch", "pause", "seek"}, t \in Tracks, c \in Chunks :
          QueueCmd(Cmd(k, t, c, 0))
    BY <1>4, <2>2 DEF RequestSwitch, RequestPause, RequestSeek, Request
  <2> QED
    BY <1>2, <2>1, <2>3
<1> QED
  BY <1>1, <1>3, <1>4 DEF Output, EventLoop, Callers

(* CompletionInv is inductive relative to TypeOK.                            *)
LEMMA CompletionNext == ASSUME TypeOK, CompletionInv, [Next]_vars PROVE CompletionInv'
<1>1. CASE Reader
  <2>1. UNCHANGED CompletionVars
    BY <1>1 DEF Reader, RdrUnchanged, RdrTake, RdrBegin, RdrLoop, RdrLoadWindow,
                RdrBounds, RdrFlush, RdrTakeBuffer, RdrRequest, RdrPollStop,
                RdrNotified, RdrSend, RdrDone, RdrEof, RdrClose, RdrQueue, RdrFail,
                queueVars, genVars, CompletionVars
  <2>2. decPc' = decPc \/ (decPc = "blocked" /\ decPc' = "complete")
    BY <1>1 DEF Reader, RdrTake, RdrBegin, RdrLoop, RdrLoadWindow,
                RdrBounds, RdrFlush, RdrTakeBuffer, RdrRequest, RdrPollStop,
                RdrNotified, RdrSend, RdrDone, RdrEof, RdrClose
  <2> QED
    BY <1>1, <2>1, <2>2, ReaderWakes, CompletionFrame
<1>2. CASE Cart
  BY <1>2, CompletionFrame
  DEF Cart, CartUnchanged, queueVars, genVars, svcVars, decVars, CompletionVars
<1>3. CASE UNCHANGED vars
  BY <1>3, CompletionFrame
  DEF vars, queueVars, genVars, svcVars, decVars, CompletionVars
<1> QED
  BY <1>1, <1>2, <1>3, CompletionSvc, CompletionDecoder, CompletionEnv DEF Next

(* A generation is completed at most once, so no track is skipped by a       *)
(* second TRACK_COMPLETE, for any number of generations and commands in the  *)
(* queue and however the stop, the timeouts and the next start interleave.   *)
THEOREM CompletedOnce == Spec => []CompletionOnce
<1>1. Init => CompletionInv
  <2> SUFFICES ASSUME Init PROVE CompletionInv
    OBVIOUS
  <2>1. /\ DOMAIN cmdQueue = {1} /\ cmdQueue[1].kind = "inserted"
        /\ decoderCmd = <<>> /\ decPc = "idle" /\ svcPc = "idle"
    BY DEF Init, Cmd
  <2>2. \A g : ~Commanded(g) /\ ~Decoding(g)
             /\ \A i \in DOMAIN cmdQueue : ~Reported(g, i)
    BY <2>1 DEF Commanded, Decoding, Reported
  <2> QED
    BY <2>1, <2>2 DEF CompletionInv, CompletionOnce, Token
<1>2. TypeOK /\ CompletionInv /\ [Next]_vars => CompletionInv'
  BY CompletionNext
<1>3. CompletionInv => CompletionOnce
  BY DEF CompletionInv
<1> QED
  BY <1>1, <1>2, <1>3, TypeCorrect, PTL DEF Spec

=============================================================================
