---------------------- MODULE PlayerPipelineSessionProofs ----------------------
(***************************************************************************)
(* Proofs of what holds of PlayerPipeline when its tasks are not overtaken *)
(* in their hand-over windows and no wait for the idle bits runs out       *)
(* (Orderly), for every value of the other constants.                      *)
(*                                                                         *)
(* Then one playback session is over before the next one begins: whenever  *)
(* the service resets the pipeline both tasks are at rest (HandedOver),    *)
(* which their idle bits tell (Bits); so every command, task and message   *)
(* at work is of the generation that plays (Current), and nobody holds a   *)
(* buffer token that the reset hands out again (Tokens).                   *)
(*                                                                         *)
(* Then, if in addition no read fails (Readable), a session that ends by   *)
(* itself leaves nothing behind (Ended, Begun), and double buffering never *)
(* overwrites a chunk still to be decoded: the buffer the reader may fill  *)
(* next is one the decoder has flushed (Buffered).                         *)
(***************************************************************************)
EXTENDS PlayerPipelineProofs, SequenceTheorems, FiniteSetTheorems

Orderly == Prompt /\ ~Timeouts

(* No task works on a track or is told to.  The decoder may still have to    *)
(* report the end of the last one.                                           *)
Rest == /\ rdrPc = "idle" /\ readerCmd = <<>>
        /\ decPc \in {"idle", "complete"} /\ decoderCmd = <<>>

Bits ==
  /\ "reader" \in idleBits <=> rdrPc \in {"idle", "got"}
  /\ "decoder" \in idleBits <=> decPc \in {"idle", "got", "blocked", "complete"}
  /\ decPc # "await"
  /\ decPc = "blocked" => rdrPc \notin {"idle", "got"}

HandedOver ==
  /\ StartPending => svcPc \in {"idle", "sendReader"}
  /\ svcPc \in {"stopReset", "stopped", "load", "commit", "startReset", "sendDecoder"}
       => Rest
  /\ svcPc = "sendReader" => rdrPc = "idle" /\ readerCmd = <<>>

Current ==
  /\ readerCmd # <<>> => readerCmd[1].gen = activeGen
  /\ decoderCmd # <<>> => decoderCmd[1].gen = activeGen
  /\ rdrPc # "idle" => rdrGen = activeGen
  /\ decPc \notin {"idle", "complete"} => decGen = activeGen
  /\ decPc \in {"chunk", "push", "write"} => decMsg.gen = activeGen
  /\ svcPc # "startReset" => \A i \in DOMAIN chunkQueue : chunkQueue[i].gen = activeGen

(* Who holds a buffer token, at each step of the reader.                     *)
Tokens ==
  /\ rdrPc \in {"idle", "got", "take", "eof", "close"} => ~rdrHolds
  /\ rdrPc \in {"flush", "request", "wait", "waitStop", "send"} => rdrHolds
  /\ rdrPc \in {"loop", "loadWindow", "bounds"} => (rdrHolds <=> rdrBuf # None)
  /\ rdrPc \in {"flush", "send"} => rdrBuf # None
  /\ result.ok => result.buf # None

Quiet ==
  /\ paused => Rest /\ pcm = <<>>
  /\ svcPc = "stopped" => pcm = <<>> /\ chunkQueue = <<>>
  /\ svcPc \in {"startReset", "sendDecoder", "sendReader"} => ~paused

SessionInv ==
  Bits /\ HandedOver /\ Current /\ PcmFresh /\ Tokens /\ PoolConserved /\ Quiet

-----------------------------------------------------------------------------
(* Queues                                                                   *)

Flushes(q) == {i \in DOMAIN q : q[i].kind = "flush"}
OfGen(q, g) == \A i \in DOMAIN q : q[i].gen = g

LEMMA FlushesFinite ==
  ASSUME NEW q \in Seq(ChunkMsgType)
  PROVE  IsFiniteSet(Flushes(q)) /\ Cardinality(Flushes(q)) \in Nat
<1>1. Len(q) \in Nat /\ DOMAIN q = 1 .. Len(q)
  OBVIOUS
<1>2. IsFiniteSet(1 .. Len(q))
  BY <1>1, FS_Interval
<1>3. IsFiniteSet(Flushes(q))
  BY <1>1, <1>2, FS_Subset DEF Flushes
<1> QED
  BY <1>3, FS_CardinalityType

LEMMA AppendFlushes ==
  ASSUME NEW q \in Seq(ChunkMsgType), NEW m \in ChunkMsgType
  PROVE  Cardinality(Flushes(Append(q, m))) =
           Cardinality(Flushes(q)) + (IF m.kind = "flush" THEN 1 ELSE 0)
<1> DEFINE n == Len(q) + 1
<1>1. /\ DOMAIN q = 1 .. Len(q) /\ DOMAIN Append(q, m) = 1 .. n /\ Len(q) \in Nat
      /\ Append(q, m)[n] = m /\ \A i \in DOMAIN q : Append(q, m)[i] = q[i]
  OBVIOUS
<1>2. n \notin Flushes(q)
  BY <1>1 DEF Flushes
<1>3. CASE m.kind = "flush"
  <2>1. Flushes(Append(q, m)) = Flushes(q) \cup {n}
    BY <1>1, <1>3 DEF Flushes
  <2> QED
    BY <1>2, <1>3, <2>1, FlushesFinite, FS_AddElement
<1>4. CASE m.kind # "flush"
  <2>1. Flushes(Append(q, m)) = Flushes(q)
    BY <1>1, <1>4 DEF Flushes
  <2> QED
    BY <1>4, <2>1, FlushesFinite
<1> QED
  BY <1>3, <1>4

(* Every element but the first moves one place forward.                      *)
LEMMA TailFlushes ==
  ASSUME NEW q \in Seq(ChunkMsgType), q # <<>>
  PROVE  Cardinality(Flushes(q)) =
           Cardinality(Flushes(Tail(q))) + (IF Head(q).kind = "flush" THEN 1 ELSE 0)
<1> DEFINE later == Flushes(q) \ {1}
           f == [i \in Flushes(Tail(q)) |-> i + 1]
<1>1. /\ Len(q) \in Nat /\ Len(q) >= 1 /\ DOMAIN q = 1 .. Len(q)
      /\ DOMAIN Tail(q) = 1 .. Len(q) - 1
      /\ Head(q) = q[1] /\ \A i \in DOMAIN Tail(q) : Tail(q)[i] = q[i + 1]
  BY HeadTailProperties, LenProperties, EmptySeq
<1>2. Tail(q) \in Seq(ChunkMsgType)
  BY TailType
<1>3. IsFiniteSet(Flushes(q)) /\ IsFiniteSet(Flushes(Tail(q))) /\ IsFiniteSet(later)
  BY <1>2, FlushesFinite, FS_RemoveElement
<1>4. \A i \in Flushes(Tail(q)) : i \in Nat /\ i + 1 \in later
  BY <1>1 DEF Flushes
<1>5. \A j \in later : j - 1 \in Flushes(Tail(q)) /\ j \in Nat
  BY <1>1 DEF Flushes
<1>6. f \in Bijection(Flushes(Tail(q)), later)
  <2>1. f \in [Flushes(Tail(q)) -> later]
    BY <1>4
  <2>2. \A i, j \in Flushes(Tail(q)) : f[i] = f[j] => i = j
    BY <1>4
  <2>3. \A j \in later : \E i \in Flushes(Tail(q)) : f[i] = j
    <3> TAKE j \in later
    <3>1. f[j - 1] = j
      BY <1>5
    <3> QED
      BY <1>5, <3>1
  <2> HIDE DEF f, later
  <2> QED
    BY <2>1, <2>2, <2>3 DEF Bijection, Injection, Surjection, IsInjective
<1>7. Cardinality(later) = Cardinality(Flushes(Tail(q)))
  <2> HIDE DEF f, later
  <2> QED
    BY <1>3, <1>6, FS_Bijection DEF ExistsBijection
<1>8. CASE Head(q).kind = "flush"
  <2>1. 1 \in Flushes(q)
    BY <1>1, <1>8 DEF Flushes
  <2> QED
    BY <1>2, <1>3, <1>7, <1>8, <2>1, FlushesFinite, FS_RemoveElement
<1>9. CASE Head(q).kind # "flush"
  <2>1. later = Flushes(q)
    BY <1>1, <1>9 DEF Flushes
  <2>2. Cardinality(Flushes(Tail(q))) \in Nat
    BY <1>2, FlushesFinite
  <2> HIDE DEF later, f
  <2> QED
    BY <1>7, <1>9, <2>1, <2>2
<1> QED
  BY <1>8, <1>9

LEMMA NoFlushes == Cardinality(Flushes(<<>>)) = 0
<1>1. Flushes(<<>>) = {}
  BY DEF Flushes
<1> QED
  BY <1>1, FS_EmptySet

LEMMA AppendGen ==
  ASSUME NEW q \in Seq(ChunkMsgType), NEW m \in ChunkMsgType, NEW g, OfGen(q, g), m.gen = g
  PROVE  OfGen(Append(q, m), g)
BY DEF OfGen

LEMMA TailGen ==
  ASSUME NEW S, NEW q \in Seq(S), q # <<>>, NEW g, OfGen(q, g)
  PROVE  OfGen(Tail(q), g) /\ Head(q).gen = g
<1>1. /\ Len(q) \in Nat /\ Len(q) >= 1 /\ DOMAIN q = 1 .. Len(q)
      /\ DOMAIN Tail(q) = 1 .. Len(q) - 1
      /\ Head(q) = q[1] /\ \A i \in DOMAIN Tail(q) : Tail(q)[i] = q[i + 1]
  BY HeadTailProperties, LenProperties, EmptySeq
<1> QED
  BY <1>1 DEF OfGen

-----------------------------------------------------------------------------
(* The service                                                              *)

sessionVars == <<readerCmd, decoderCmd, chunkQueue, pool, pcm, idleBits, activeGen,
                 rdrVars, decVars, result>>

LEMMA SessionInit == Init => SessionInv
<1> SUFFICES ASSUME Init PROVE SessionInv
  OBVIOUS
<1>1. Bits /\ HandedOver
  BY DEF Init, Bits, HandedOver, StartPending
<1>2. Current /\ PcmFresh
  BY DEF Init, Current, PcmFresh
<1>3. Tokens /\ Quiet
  BY DEF Init, Tokens, Quiet, NoResult
<1>4. PoolConserved
  <2>1. Cardinality(Flushes(chunkQueue)) = 0
    BY NoFlushes DEF Init
  <2> QED
    BY <2>1 DEF Init, PoolConserved, Flushes, ChunkBufCount
<1> QED
  BY <1>1, <1>2, <1>3, <1>4 DEF SessionInv

(* An idle pipeline without a start on its way is at rest.                   *)
LEMMA IdleRests == ASSUME SessionInv, PipelineIdle, ~StartPending PROVE Rest
BY DEF SessionInv, Bits, PipelineIdle, StartPending, Rest

(* Steps of the service that only move it on.                                *)
LEMMA SvcMoves ==
  ASSUME SessionInv, UNCHANGED sessionVars, svcPc # "startReset",
         StartPending => svcPc' \in {"idle", "sendReader"},
         svcPc' \in {"stopReset", "stopped", "load", "commit"} => Rest,
         svcPc' \notin {"startReset", "sendDecoder", "sendReader"},
         svcPc' = "stopped" => pcm = <<>> /\ chunkQueue = <<>>,
         paused' => Rest /\ pcm = <<>>
  PROVE  SessionInv'
<1>1. UNCHANGED <<readerCmd, decoderCmd, chunkQueue, pool, pcm, idleBits, activeGen,
                  rdrPc, rdrGen, rdrBuf, rdrHolds, decPc, decGen, decMsg, result>>
  BY DEF sessionVars, rdrVars, decVars
<1>2. Bits'
  BY <1>1 DEF SessionInv, Bits
<1>3. HandedOver'
  BY <1>1 DEF HandedOver, StartPending, Rest
<1>4. Current' /\ PcmFresh'
  BY <1>1 DEF SessionInv, Current, PcmFresh
<1>5. Tokens'
  BY <1>1 DEF SessionInv, Tokens
<1>6. PoolConserved'
  BY <1>1 DEF SessionInv, PoolConserved
<1>7. Quiet'
  BY <1>1 DEF Quiet, Rest
<1> QED
  BY <1>2, <1>3, <1>4, <1>5, <1>6, <1>7 DEF SessionInv

(* What player_service_reset_pipeline does when both tasks are at rest.      *)
LEMMA ResetAtRest ==
  ASSUME SessionInv, Rest, ResetPipeline, UNCHANGED <<rdrVars, decVars, result>>,
         svcPc' \in {"idle", "start", "stopped", "sendDecoder"},
         paused' => svcPc' # "sendDecoder"
  PROVE  SessionInv' /\ Rest' /\ pcm' = <<>> /\ chunkQueue' = <<>>
<1>1. /\ readerCmd' = <<>> /\ decoderCmd' = <<>> /\ chunkQueue' = <<>>
      /\ pool' = ChunkBufCount /\ pcm' = <<>>
      /\ UNCHANGED <<idleBits, rdrPc, rdrGen, rdrBuf, rdrHolds,
                     decPc, decGen, decMsg, result>>
  BY DEF ResetPipeline, Rest, rdrVars, decVars
<1>2. rdrPc = "idle" /\ decPc \in {"idle", "complete"} /\ Rest'
  BY <1>1 DEF Rest
<1>3. Bits'
  BY <1>1 DEF SessionInv, Bits
<1>4. HandedOver'
  BY <1>1, <1>2 DEF HandedOver, StartPending
<1>5. Current' /\ PcmFresh'
  BY <1>1, <1>2 DEF Current, PcmFresh
<1>6. Tokens'
  BY <1>1 DEF SessionInv, Tokens
<1>7. PoolConserved'
  <2>1. Cardinality(Flushes(chunkQueue')) = 0
    BY <1>1, NoFlushes
  <2>2. ~rdrHolds'
    BY <1>2, <1>6 DEF Tokens, Rest
  <2> QED
    BY <1>1, <2>1, <2>2 DEF PoolConserved, Flushes, ChunkBufCount
<1>8. Quiet'
  BY <1>1, <1>2 DEF Quiet
<1> QED
  BY <1>1, <1>2, <1>3, <1>4, <1>5, <1>6, <1>7, <1>8 DEF SessionInv

(* A new generation begins at rest.                                          *)
LEMMA CommitAtRest ==
  ASSUME SessionInv, Rest, svcPc' = "startReset", ~paused',
         UNCHANGED <<readerCmd, decoderCmd, chunkQueue, pool, pcm, idleBits,
                     rdrVars, decVars, result>>
  PROVE  SessionInv'
<1>1. UNCHANGED <<readerCmd, decoderCmd, chunkQueue, pool, pcm, idleBits,
                  rdrPc, rdrGen, rdrBuf, rdrHolds, decPc, decGen, decMsg, result>>
  BY DEF rdrVars, decVars
<1>2. Rest'
  BY <1>1 DEF Rest
<1>3. Bits'
  BY <1>1 DEF SessionInv, Bits
<1>4. HandedOver'
  BY <1>2 DEF HandedOver, StartPending, Rest
<1>5. Current' /\ PcmFresh'
  BY <1>2 DEF Current, PcmFresh, Rest
<1>6. Tokens'
  BY <1>1 DEF SessionInv, Tokens
<1>7. PoolConserved'
  BY <1>1 DEF SessionInv, PoolConserved
<1>8. Quiet'
  BY DEF Quiet
<1> QED
  BY <1>3, <1>4, <1>5, <1>6, <1>7, <1>8 DEF SessionInv

LEMMA SendDecoderSession ==
  ASSUME TypeOK, SessionInv, SvcSendDecoder PROVE SessionInv'
<1>1. /\ svcPc = "sendDecoder" /\ svcPc' = "sendReader"
      /\ decoderCmd' = <<[gen |-> activeGen, chunk |-> svcChunk]>>
      /\ UNCHANGED <<readerCmd, chunkQueue, pool, pcm, idleBits, paused, activeGen>>
      /\ UNCHANGED <<rdrPc, rdrGen, rdrBuf, rdrHolds, decPc, decGen, decMsg, result>>
  BY DEF SvcSendDecoder, playVars, genVars, Others, rdrVars, decVars, cartVars
<1>2. Rest /\ ~paused
  BY <1>1 DEF SessionInv, HandedOver, Quiet
<1>3. decoderCmd'[1].gen = activeGen'
  BY <1>1
<1>4. Bits'
  BY <1>1 DEF SessionInv, Bits
<1>5. HandedOver'
  BY <1>1, <1>2 DEF HandedOver, StartPending, Rest
<1>6. Current' /\ PcmFresh'
  BY <1>1, <1>2, <1>3 DEF SessionInv, Current, PcmFresh, Rest
<1>7. Tokens'
  BY <1>1 DEF SessionInv, Tokens
<1>8. PoolConserved'
  BY <1>1 DEF SessionInv, PoolConserved
<1>9. Quiet'
  BY <1>1, <1>2 DEF Quiet
<1> QED
  BY <1>4, <1>5, <1>6, <1>7, <1>8, <1>9 DEF SessionInv

LEMMA SendReaderSession ==
  ASSUME TypeOK, SessionInv, SvcSendReader PROVE SessionInv'
<1>1. /\ svcPc = "sendReader" /\ svcPc' = "idle"
      /\ readerCmd' = <<[gen |-> activeGen, chunk |-> svcChunk]>>
      /\ UNCHANGED <<decoderCmd, chunkQueue, pool, pcm, idleBits, paused, activeGen>>
      /\ UNCHANGED <<rdrPc, rdrGen, rdrBuf, rdrHolds, decPc, decGen, decMsg, result>>
  BY DEF SvcSendReader, SvcIdle, Goto, playVars, genVars, Others, rdrVars, decVars, cartVars
<1>2. ~paused
  BY <1>1 DEF SessionInv, Quiet
<1>3. readerCmd'[1].gen = activeGen'
  BY <1>1
<1>4. Bits'
  BY <1>1 DEF SessionInv, Bits
<1>5. HandedOver'
  BY <1>1 DEF HandedOver, StartPending
<1>6. Current' /\ PcmFresh'
  BY <1>1, <1>3 DEF SessionInv, Current, PcmFresh
<1>7. Tokens'
  BY <1>1 DEF SessionInv, Tokens
<1>8. PoolConserved'
  BY <1>1 DEF SessionInv, PoolConserved
<1>9. Quiet'
  BY <1>1, <1>2 DEF Quiet
<1> QED
  BY <1>4, <1>5, <1>6, <1>7, <1>8, <1>9 DEF SessionInv

(* The service, one case per action.                                         *)
LEMMA SvcSession ==
  ASSUME Orderly, TypeOK, SessionInv, Svc PROVE SessionInv'
<1>1. CASE \/ SvcSwitch \/ SvcSeek \/ SvcPause \/ SvcComplete \/ SvcCartridge
  <2>1. PICK K : SvcTake(K)
    BY <1>1 DEF SvcSwitch, SvcSeek, SvcPause, SvcComplete, SvcCartridge
  <2>2. /\ svcPc = "idle" /\ ~StartPending
        /\ UNCHANGED <<readerCmd, decoderCmd, chunkQueue, pool, pcm, idleBits,
                       rdrVars, decVars, result>>
    BY <2>1 DEF SvcTake, Others, cartVars, Orderly
  <2>3. activeGen' = activeGen /\ svcPc' \in {svcPc, "stop", "start"}
    BY <1>1 DEF SvcSwitch, SvcSeek, SvcPause, SvcComplete, SvcCartridge, Goto, svcVars, genVars
  <2>4. paused' => paused
    BY <1>1 DEF SvcSwitch, SvcSeek, SvcPause, SvcComplete, SvcCartridge, playVars
  <2>5. paused => Rest /\ pcm = <<>>
    BY DEF SessionInv, Quiet
  <2>6. UNCHANGED sessionVars
    BY <2>2, <2>3 DEF sessionVars
  <2> QED
    BY <2>2, <2>3, <2>4, <2>5, <2>6, SvcMoves
<1>2. CASE SvcStop \/ SvcStopWait \/ SvcStopTimeout
  <2>1. /\ UNCHANGED <<queueVars, playVars, cartVars, Others, activeGen>>
        /\ svcPc \in {"stop", "stopWait", "stopBlocked"}
        /\ svcPc' \in {"stopReset", "stopWait", "stopBlocked"}
        /\ svcPc' = "stopReset" => PipelineIdle
    BY <1>2 DEF SvcStop, SvcStopWait, SvcStopTimeout, Orderly, genVars
  <2>2. UNCHANGED sessionVars /\ paused' = paused
    BY <2>1 DEF queueVars, playVars, cartVars, Others, sessionVars
  <2>3. ~StartPending
    BY <2>1 DEF SessionInv, HandedOver
  <2>4. svcPc' = "stopReset" => Rest
    BY <2>1, <2>3, IdleRests
  <2>5. paused => Rest /\ pcm = <<>>
    BY DEF SessionInv, Quiet
  <2> QED
    BY <2>1, <2>2, <2>3, <2>4, <2>5, SvcMoves
<1>3. CASE SvcStopReset
  <2>1. /\ svcPc = "stopReset" /\ ResetPipeline /\ svcPc' \in {"start", "stopped"}
        /\ UNCHANGED <<rdrVars, decVars, result>>
    BY <1>3 DEF SvcStopReset, Others, cartVars
  <2>2. Rest
    BY <2>1 DEF SessionInv, HandedOver
  <2> QED
    BY <2>1, <2>2, ResetAtRest
<1>4. CASE SvcPaused \/ SvcRemoved \/ SvcInserted
  <2>1. /\ svcPc = "stopped" /\ svcPc' \in {"idle", "start"}
        /\ UNCHANGED <<queueVars, genVars, cartVars, Others>>
    BY <1>4 DEF SvcPaused, SvcRemoved, SvcInserted, SvcIdle, Goto
  <2>2. Rest /\ pcm = <<>>
    BY <2>1 DEF SessionInv, HandedOver, Quiet
  <2>3. UNCHANGED sessionVars /\ ~StartPending
    BY <2>1, <2>2 DEF queueVars, genVars, cartVars, Others, sessionVars, Rest, StartPending
  <2> QED
    BY <2>1, <2>2, <2>3, SvcMoves
<1>5. CASE SvcStart \/ SvcLoaded
  <2>1. /\ svcPc \in {"start", "load"}
        /\ UNCHANGED <<queueVars, paused, genVars, Others, result>>
        /\ svcPc' \in {"idle", "load", "commit"}
        /\ svcPc = "start" /\ svcPc' # "idle" => PipelineIdle
    <3>1. CASE SvcStart
      BY <3>1 DEF SvcStart, SvcStartFails, SvcIdle, Goto, playVars, cartVars
    <3>2. CASE SvcLoaded
      BY <3>2 DEF SvcLoaded, SvcStartFails, SvcIdle, Goto, playVars
    <3> QED
      BY <1>5, <3>1, <3>2
  <2>2. ~StartPending /\ (svcPc' # "idle" => Rest)
    <3>1. ~StartPending /\ (svcPc = "load" => Rest)
      BY <2>1 DEF SessionInv, HandedOver
    <3> QED
      BY <2>1, <3>1, IdleRests
  <2>3. UNCHANGED sessionVars /\ paused' = paused
    BY <2>1 DEF queueVars, genVars, Others, sessionVars
  <2>4. paused => Rest /\ pcm = <<>>
    BY DEF SessionInv, Quiet
  <2> QED
    BY <2>1, <2>2, <2>3, <2>4, SvcMoves
<1>6. CASE SvcCommit
  <2>1. /\ svcPc = "commit" /\ svcPc' = "startReset" /\ ~paused'
        /\ UNCHANGED <<queueVars, cartVars, Others>>
    BY <1>6 DEF SvcCommit
  <2>2. Rest
    BY <2>1 DEF SessionInv, HandedOver
  <2> QED
    BY <2>1, <2>2, CommitAtRest DEF queueVars, cartVars, Others
<1>7. CASE SvcRestore
  <2>1. /\ svcPc = "commit" /\ ResetPipeline /\ svcPc' = "idle"
        /\ UNCHANGED <<rdrVars, decVars, result>>
    BY <1>7 DEF SvcRestore, SvcIdle, Goto, Others, cartVars
  <2>2. Rest
    BY <2>1 DEF SessionInv, HandedOver
  <2> QED
    BY <2>1, <2>2, ResetAtRest
<1>8. CASE SvcStartReset
  <2>1. /\ svcPc = "startReset" /\ ResetPipeline /\ svcPc' = "sendDecoder" /\ paused' = paused
        /\ UNCHANGED <<rdrVars, decVars, result>>
    BY <1>8 DEF SvcStartReset, playVars, Others, cartVars
  <2>2. Rest /\ ~paused
    BY <2>1 DEF SessionInv, HandedOver, Quiet
  <2> QED
    BY <2>1, <2>2, ResetAtRest
<1> QED
  BY <1>1, <1>2, <1>3, <1>4, <1>5, <1>6, <1>7, <1>8, SendDecoderSession, SendReaderSession DEF Svc

-----------------------------------------------------------------------------
(* The reader                                                               *)

(* Steps of the reader inside a track: it stays off its idle bit.            *)
InTrack == {"loop", "loadWindow", "bounds", "flush", "take", "request", "wait",
            "waitStop", "send", "done", "eof", "close"}

LEMMA ReaderMoves ==
  ASSUME TypeOK, SessionInv, rdrPc \in InTrack, rdrPc' \in InTrack,
         UNCHANGED <<readerCmd, decoderCmd, pcm, idleBits, paused, activeGen, svcPc,
                     rdrGen, decPc, decGen, decMsg, result>>,
         OfGen(chunkQueue, activeGen) => OfGen(chunkQueue', activeGen),
         Tokens', PoolConserved'
  PROVE  SessionInv'
<1>1. ~Rest /\ svcPc \notin {"stopReset", "stopped", "load", "commit", "startReset",
                             "sendDecoder", "sendReader"}
  BY DEF SessionInv, HandedOver, Rest, InTrack
<1>2. Bits'
  BY DEF SessionInv, Bits, InTrack
<1>3. HandedOver'
  BY <1>1 DEF SessionInv, HandedOver, StartPending, InTrack
<1>4. Current'
  <2>1. OfGen(chunkQueue', activeGen)
    BY <1>1 DEF SessionInv, Current, OfGen
  <2> QED
    BY <2>1 DEF SessionInv, Current, InTrack, OfGen
<1>5. PcmFresh'
  BY DEF SessionInv, PcmFresh
<1>6. Quiet'
  BY <1>1 DEF SessionInv, Quiet
<1> QED
  BY <1>2, <1>3, <1>4, <1>5, <1>6 DEF SessionInv

Counted == pool + (IF rdrHolds THEN 1 ELSE 0) + Cardinality(Flushes(chunkQueue)) = ChunkBufCount

LEMMA CountedPool == PoolConserved <=> Counted
BY DEF PoolConserved, Counted, Flushes

(* player_service_queue_chunk_message: the message is queued, or not.        *)
LEMMA QueueSession ==
  ASSUME TypeOK, SessionInv, NEW m \in ChunkMsgType, NEW s, NEW a, RdrQueue(m, s, a),
         m.gen = activeGen
  PROVE  /\ OfGen(chunkQueue, activeGen) => OfGen(chunkQueue', activeGen)
         /\ \/ rdrPc' = s /\ Cardinality(Flushes(chunkQueue')) =
                 Cardinality(Flushes(chunkQueue)) + (IF m.kind = "flush" THEN 1 ELSE 0)
            \/ rdrPc' = a /\ chunkQueue' = chunkQueue
         /\ UNCHANGED <<pool, readerCmd, decoderCmd, pcm, idleBits, rdrGen, rdrBuf, result>>
<1>1. chunkQueue \in Seq(ChunkMsgType)
  BY DEF TypeOK, QueueTypeOK
<1>2. UNCHANGED <<pool, readerCmd, decoderCmd, pcm, idleBits, rdrGen, rdrBuf, result>>
  BY DEF RdrQueue, cartVars
<1>3. CASE chunkQueue' = Append(chunkQueue, m) /\ rdrPc' = s
  BY <1>1, <1>2, <1>3, AppendFlushes, AppendGen
<1>4. CASE chunkQueue' = chunkQueue /\ rdrPc' = a
  BY <1>2, <1>4
<1> QED
  BY <1>3, <1>4 DEF RdrQueue

(* The reader's messages.                                                    *)
LEMMA Messages ==
  ASSUME TypeOK
  PROVE  /\ ChunkMsg("flush", rdrGen, 0, None, NoContent) \in ChunkMsgType
         /\ ChunkMsg("eof", rdrGen, 0, None, NoContent) \in ChunkMsgType
         /\ rdrPc = "send" => ChunkMsg("data", rdrGen, rdrChunk, rdrBuf, Content(loaded, rdrBase))
                                \in ChunkMsgType
<1>1. 0 \in Chunks /\ NoContent \in ContentType /\ rdrGen \in 0 .. MaxGen
  BY Nothing, PipelineAssumption DEF PipelineAssumption, Chunks, TypeOK, RdrTypeOK
<1>2. rdrPc = "send" => rdrChunk \in Chunks /\ rdrBuf \in Buffers \cup {None}
  BY DEF TypeOK, RdrTypeOK
<1>3. Content(loaded, rdrBase) \in ContentType
  BY DEF TypeOK, RdrTypeOK, PlayTypeOK, Content, ContentType
<1> QED
  BY <1>1, <1>2, <1>3 DEF ChunkMsg, ChunkMsgType

LEMMA CountRange ==
  ASSUME TypeOK, Counted
  PROVE  /\ Cardinality(Flushes(chunkQueue)) \in Nat /\ pool \in 0 .. ChunkBufCount
         /\ rdrHolds => Give(pool) = pool + 1
<1>1. chunkQueue \in Seq(ChunkMsgType) /\ pool \in 0 .. ChunkBufCount
  BY DEF TypeOK, QueueTypeOK
<1>2. Cardinality(Flushes(chunkQueue)) \in Nat
  BY <1>1, FlushesFinite
<1> QED
  BY <1>1, <1>2 DEF Counted, Give, ChunkBufCount

(* A reader that gives its token back.                                       *)
LEMMA FailSession ==
  ASSUME TypeOK, SessionInv, rdrHolds, RdrFail, UNCHANGED result
  PROVE  Tokens' /\ PoolConserved'
<1>1. /\ pool' = Give(pool) /\ rdrHolds' = FALSE /\ rdrPc' = "done" /\ chunkQueue' = chunkQueue
  BY DEF RdrFail
<1>2. Counted
  BY CountedPool DEF SessionInv
<1>3. Counted'
  BY <1>1, <1>2, CountRange DEF Counted
<1>4. PoolConserved'
  BY <1>3 DEF PoolConserved, Counted, Flushes
<1>5. Tokens'
  BY <1>1 DEF SessionInv, Tokens
<1> QED
  BY <1>4, <1>5

LEMMA TakeSession == ASSUME TypeOK, SessionInv, Reader, RdrTake PROVE SessionInv'
<1>1. /\ rdrPc = "idle" /\ rdrPc' = "got" /\ readerCmd # <<>> /\ readerCmd' = <<>>
      /\ rdrGen' = Head(readerCmd).gen
      /\ UNCHANGED <<decoderCmd, chunkQueue, pool, pcm, idleBits, paused, activeGen, svcPc>>
      /\ UNCHANGED <<rdrBuf, rdrHolds, decPc, decGen, decMsg, result>>
  BY DEF RdrTake, Reader, RdrUnchanged, playVars, genVars, cartVars
<1>2. ~Rest /\ StartPending /\ svcPc = "idle"
  BY <1>1 DEF SessionInv, HandedOver, Rest, StartPending
<1>3. rdrGen' = activeGen
  <2>1. Head(readerCmd) = readerCmd[1]
    BY <1>1 DEF TypeOK, QueueTypeOK
  <2> QED
    BY <1>1, <2>1 DEF SessionInv, Current
<1>4. Bits'
  BY <1>1 DEF SessionInv, Bits
<1>5. HandedOver'
  BY <1>1, <1>2 DEF HandedOver
<1>6. Current' /\ PcmFresh'
  BY <1>1, <1>2, <1>3 DEF SessionInv, Current, PcmFresh
<1>7. Tokens'
  BY <1>1 DEF SessionInv, Tokens
<1>8. PoolConserved'
  BY <1>1 DEF SessionInv, PoolConserved
<1>9. Quiet'
  BY <1>1, <1>2 DEF SessionInv, Quiet
<1> QED
  BY <1>4, <1>5, <1>6, <1>7, <1>8, <1>9 DEF SessionInv

LEMMA BeginSession == ASSUME TypeOK, SessionInv, Reader, RdrBegin PROVE SessionInv'
<1>1. /\ rdrPc = "got" /\ rdrPc' \in {"done", "loop"}
      /\ idleBits' = idleBits \ {"reader"} /\ rdrBuf' = None /\ rdrHolds' = FALSE
      /\ UNCHANGED <<readerCmd, decoderCmd, chunkQueue, pool, pcm, paused, activeGen, svcPc>>
      /\ UNCHANGED <<rdrGen, decPc, decGen, decMsg, result>>
  BY DEF RdrBegin, Reader, RdrUnchanged, playVars, genVars
<1>2. ~Rest /\ StartPending /\ svcPc = "idle"
  BY <1>1 DEF SessionInv, HandedOver, Rest, StartPending
<1>3. ~rdrHolds /\ decPc # "blocked"
  BY <1>1 DEF SessionInv, Tokens, Bits
<1>4. Bits'
  BY <1>1, <1>3 DEF SessionInv, Bits
<1>5. HandedOver'
  BY <1>1, <1>2 DEF HandedOver
<1>6. Current' /\ PcmFresh'
  BY <1>1, <1>2 DEF SessionInv, Current, PcmFresh
<1>7. Tokens'
  BY <1>1 DEF SessionInv, Tokens
<1>8. PoolConserved'
  BY <1>1, <1>3 DEF SessionInv, PoolConserved
<1>9. Quiet'
  BY <1>1, <1>2 DEF SessionInv, Quiet
<1> QED
  BY <1>4, <1>5, <1>6, <1>7, <1>8, <1>9 DEF SessionInv

(* At the end of a track the reader wakes the service and the decoder that   *)
(* wait for it.                                                              *)
LEMMA CloseSession == ASSUME TypeOK, SessionInv, Reader, RdrClose PROVE SessionInv'
<1>1. /\ rdrPc = "close" /\ rdrPc' = "idle" /\ SetIdle("reader")
      /\ decPc' = IF decPc = "blocked" THEN "complete" ELSE decPc
      /\ UNCHANGED <<readerCmd, decoderCmd, chunkQueue, pool, pcm, paused, activeGen>>
      /\ UNCHANGED <<rdrGen, rdrBuf, rdrHolds, decGen, decMsg, result>>
  BY DEF RdrClose, RdrGoto, Reader, RdrUnchanged, playVars, genVars, cartVars
<1>2. /\ idleBits' = idleBits \cup {"reader"}
      /\ svcPc' = svcPc \/ (svcPc = "stopBlocked" /\ svcPc' = "stopReset" /\ PipelineIdle')
  BY <1>1 DEF SetIdle, PipelineIdle
<1>3. Bits'
  BY <1>1, <1>2 DEF SessionInv, Bits
<1>4. /\ ~Rest /\ svcPc \notin {"stopReset", "stopped", "load", "commit", "startReset",
                                "sendDecoder", "sendReader"}
      /\ svcPc = "stopBlocked" => ~StartPending
      /\ StartPending' => StartPending
  BY <1>1 DEF SessionInv, HandedOver, Rest, StartPending
<1>5. HandedOver'
  <2>1. CASE svcPc' = svcPc
    BY <1>4, <2>1 DEF SessionInv, HandedOver
  <2>2. CASE svcPc = "stopBlocked" /\ svcPc' = "stopReset" /\ PipelineIdle'
    <3>1. decPc' \in {"idle", "complete"} /\ rdrPc' = "idle"
          /\ readerCmd' = <<>> /\ decoderCmd' = <<>> /\ ~StartPending'
      BY <1>1, <1>3, <1>4, <2>2 DEF Bits, PipelineIdle, StartPending
    <3> QED
      BY <2>2, <3>1 DEF HandedOver, Rest
  <2> QED
    BY <1>2, <2>1, <2>2
<1>6. Current' /\ PcmFresh'
  <2>1. svcPc # "startReset" /\ svcPc' # "startReset"
    BY <1>2, <1>4
  <2>2. /\ decPc' \notin {"idle", "complete"} => decPc = decPc'
        /\ decPc' \in {"chunk", "push", "write"} => decPc = decPc'
    BY <1>1
  <2> QED
    BY <1>1, <2>1, <2>2 DEF SessionInv, Current, PcmFresh
<1>7. Tokens'
  BY <1>1 DEF SessionInv, Tokens
<1>8. PoolConserved'
  BY <1>1 DEF SessionInv, PoolConserved
<1>9. Quiet'
  BY <1>1, <1>2, <1>4 DEF SessionInv, Quiet
<1> QED
  BY <1>3, <1>5, <1>6, <1>7, <1>8, <1>9 DEF SessionInv

LEMMA ReaderSession == ASSUME TypeOK, SessionInv, Reader PROVE SessionInv'
<1>1. CASE RdrTake
  BY <1>1, TakeSession
<1>2. CASE RdrBegin
  BY <1>2, BeginSession
<1>3. CASE RdrClose
  BY <1>3, CloseSession
<1>4. rdrPc # "close" => UNCHANGED <<paused, activeGen, svcPc, decPc, decGen, decMsg>>
  BY DEF Reader, RdrUnchanged, playVars, genVars
<1>5. CASE RdrLoop \/ RdrLoadWindow \/ RdrBounds \/ RdrPollStop
  <2>1. /\ rdrPc \in InTrack /\ rdrPc' \in InTrack /\ rdrPc # "close"
        /\ UNCHANGED <<queueVars, rdrGen, rdrBuf, rdrHolds, result>>
    BY <1>5 DEF RdrLoop, RdrLoadWindow, RdrBounds, RdrPollStop, RdrGoto, InTrack, rdrVars, cartVars
  <2>2. Tokens'
    <3>1. CASE RdrLoop \/ RdrLoadWindow \/ RdrPollStop
      BY <2>1, <3>1 DEF SessionInv, Tokens, RdrLoop, RdrLoadWindow, RdrPollStop, RdrGoto
    <3>2. CASE RdrBounds
      BY <2>1, <3>2 DEF SessionInv, Tokens, RdrBounds, RdrGoto, rdrVars
    <3> QED
      BY <1>5, <3>1, <3>2
  <2>3. PoolConserved'
    BY <2>1 DEF SessionInv, PoolConserved, queueVars
  <2> QED
    BY <1>4, <2>1, <2>2, <2>3, ReaderMoves DEF queueVars
<1>6. CASE RdrFlush
  <2>1. /\ rdrPc = "flush" /\ RdrQueue(ChunkMsg("flush", rdrGen, 0, None, NoContent), "take", "done")
        /\ rdrHolds' = (rdrHolds /\ rdrPc' = "done")
    BY <1>6 DEF RdrFlush
  <2>2. rdrHolds /\ rdrGen = activeGen /\ Counted
    BY <2>1, CountedPool DEF SessionInv, Tokens, Current
  <2>3. /\ OfGen(chunkQueue, activeGen) => OfGen(chunkQueue', activeGen)
        /\ UNCHANGED <<pool, readerCmd, decoderCmd, pcm, idleBits, rdrGen, rdrBuf, result>>
        /\ \/ rdrPc' = "take" /\ Cardinality(Flushes(chunkQueue')) = Cardinality(Flushes(chunkQueue)) + 1
           \/ rdrPc' = "done" /\ chunkQueue' = chunkQueue
    BY <2>1, <2>2, Messages, QueueSession DEF ChunkMsg
  <2>4. Tokens'
    BY <2>1, <2>2, <2>3 DEF SessionInv, Tokens
  <2>5. Counted'
    <3>1. (rdrPc' = "take" => ~rdrHolds') /\ (rdrPc' = "done" => rdrHolds')
      BY <2>1, <2>2, Zenon
    <3> QED
      BY <2>2, <2>3, <3>1, CountRange DEF Counted
  <2>6. PoolConserved'
    BY <2>5 DEF PoolConserved, Counted, Flushes
  <2> QED
    BY <1>4, <2>1, <2>3, <2>4, <2>6, ReaderMoves DEF InTrack
<1>7. CASE RdrTakeBuffer
  <2>1. /\ rdrPc = "take" /\ rdrPc' \in {"request", "done"}
        /\ rdrPc' = "request" => pool' = pool - 1 /\ rdrHolds' = TRUE
        /\ rdrPc' = "done" => UNCHANGED <<pool, rdrHolds>>
        /\ UNCHANGED <<chunkQueue, readerCmd, decoderCmd, pcm, idleBits, rdrGen, rdrBuf, result>>
    BY <1>7 DEF RdrTakeBuffer, cartVars
  <2>2. ~rdrHolds /\ Counted
    BY <2>1, CountedPool DEF SessionInv, Tokens
  <2>3. Tokens'
    BY <2>1, <2>2 DEF SessionInv, Tokens
  <2>4. Counted'
    BY <2>1, <2>2, CountRange DEF Counted
  <2>5. PoolConserved'
    BY <2>4 DEF PoolConserved, Counted, Flushes
  <2> QED
    BY <1>4, <2>1, <2>3, <2>5, ReaderMoves DEF InTrack
<1>8. CASE RdrRequest
  <2>1. rdrPc = "request" /\ rdrHolds /\ rdrPc' \in {"done", "wait"} /\ result' = result
    BY <1>8 DEF RdrRequest, RdrGoto, RdrFail, SessionInv, Tokens
  <2>2. UNCHANGED <<chunkQueue, readerCmd, decoderCmd, pcm, idleBits, rdrGen>>
    BY <1>8 DEF RdrRequest, RdrGoto, RdrFail, queueVars
  <2>3. CASE RdrFail
    BY <1>4, <2>1, <2>2, <2>3, FailSession, ReaderMoves DEF InTrack
  <2>4. CASE UNCHANGED <<queueVars, rdrBuf, rdrHolds>>
    <3>1. Tokens'
      BY <2>1, <2>4 DEF SessionInv, Tokens
    <3>2. PoolConserved'
      BY <2>4 DEF SessionInv, PoolConserved, queueVars
    <3> QED
      BY <1>4, <2>1, <2>2, <3>1, <3>2, ReaderMoves DEF InTrack
  <2> QED
    BY <1>8, <2>3, <2>4 DEF RdrRequest, RdrGoto
<1>9. CASE RdrNotified
  <2>1. rdrPc \in {"wait", "waitStop"} /\ rdrHolds /\ rdrPc' \in {"done", "send"} /\ result' = result
    BY <1>9 DEF RdrNotified, RdrGoto, RdrFail, SessionInv, Tokens
  <2>2. UNCHANGED <<chunkQueue, readerCmd, decoderCmd, pcm, idleBits, rdrGen>>
    BY <1>9 DEF RdrNotified, RdrGoto, RdrFail, queueVars
  <2>3. CASE RdrFail
    BY <1>4, <2>1, <2>2, <2>3, FailSession, ReaderMoves DEF InTrack
  <2>4. CASE /\ UNCHANGED <<queueVars, rdrHolds>>
             /\ rdrPc' = "send" => result.ok /\ rdrBuf' = result.buf
    <3>1. Tokens'
      BY <2>1, <2>4 DEF SessionInv, Tokens
    <3>2. PoolConserved'
      BY <2>4 DEF SessionInv, PoolConserved, queueVars
    <3> QED
      BY <1>4, <2>1, <2>2, <3>1, <3>2, ReaderMoves DEF InTrack
  <2> QED
    BY <1>9, <2>3, <2>4 DEF RdrNotified, RdrGoto
<1>10. CASE RdrSend
  <2> DEFINE msg == ChunkMsg("data", rdrGen, rdrChunk, rdrBuf, Content(loaded, rdrBase))
  <2>1. rdrPc = "send" /\ RdrQueue(msg, "loop", "done") /\ rdrHolds' = rdrHolds
    BY <1>10 DEF RdrSend
  <2>2. rdrHolds /\ rdrBuf # None /\ rdrGen = activeGen /\ Counted
    BY <2>1, CountedPool DEF SessionInv, Tokens, Current
  <2>3. msg \in ChunkMsgType /\ msg.gen = activeGen /\ msg.kind = "data"
    BY <2>1, <2>2, Messages DEF ChunkMsg
  <2> HIDE DEF msg
  <2>4. /\ OfGen(chunkQueue, activeGen) => OfGen(chunkQueue', activeGen)
        /\ UNCHANGED <<pool, readerCmd, decoderCmd, pcm, idleBits, rdrGen, rdrBuf, result>>
        /\ rdrPc' \in {"loop", "done"}
        /\ Cardinality(Flushes(chunkQueue')) = Cardinality(Flushes(chunkQueue))
    BY <2>1, <2>2, <2>3, CountRange, QueueSession
  <2>5. Tokens'
    BY <2>1, <2>2, <2>4 DEF SessionInv, Tokens
  <2>6. Counted'
    BY <2>1, <2>2, <2>4 DEF Counted
  <2>7. PoolConserved'
    BY <2>6 DEF PoolConserved, Counted, Flushes
  <2> QED
    BY <1>4, <2>1, <2>4, <2>5, <2>7, ReaderMoves DEF InTrack
<1>11. CASE RdrDone
  <2>1. /\ rdrPc = "done" /\ rdrPc' = "eof" /\ pool' = (IF rdrHolds THEN Give(pool) ELSE pool)
        /\ rdrHolds' = FALSE
        /\ UNCHANGED <<chunkQueue, readerCmd, decoderCmd, pcm, idleBits, rdrGen, rdrBuf, result>>
    BY <1>11 DEF RdrDone, cartVars
  <2>2. Counted
    BY CountedPool DEF SessionInv
  <2>3. Tokens'
    BY <2>1 DEF SessionInv, Tokens
  <2>4. Counted'
    BY <2>1, <2>2, CountRange DEF Counted
  <2>5. PoolConserved'
    BY <2>4 DEF PoolConserved, Counted, Flushes
  <2> QED
    BY <1>4, <2>1, <2>3, <2>5, ReaderMoves DEF InTrack
<1>12. CASE RdrEof
  <2>1. /\ rdrPc = "eof" /\ RdrQueue(ChunkMsg("eof", rdrGen, 0, None, NoContent), "close", "close")
        /\ rdrHolds' = rdrHolds
    BY <1>12 DEF RdrEof
  <2>2. ~rdrHolds /\ rdrGen = activeGen /\ Counted
    BY <2>1, CountedPool DEF SessionInv, Tokens, Current
  <2>3. /\ OfGen(chunkQueue, activeGen) => OfGen(chunkQueue', activeGen)
        /\ UNCHANGED <<pool, readerCmd, decoderCmd, pcm, idleBits, rdrGen, rdrBuf, result>>
        /\ rdrPc' = "close"
        /\ Cardinality(Flushes(chunkQueue')) = Cardinality(Flushes(chunkQueue))
    BY <2>1, <2>2, Messages, CountRange, QueueSession DEF ChunkMsg
  <2>4. Tokens'
    BY <2>1, <2>2, <2>3 DEF SessionInv, Tokens
  <2>5. Counted'
    BY <2>1, <2>2, <2>3 DEF Counted
  <2>6. PoolConserved'
    BY <2>5 DEF PoolConserved, Counted, Flushes
  <2> QED
    BY <1>4, <2>1, <2>3, <2>4, <2>6, ReaderMoves DEF InTrack
<1> QED
  BY <1>1, <1>2, <1>3, <1>5, <1>6, <1>7, <1>8, <1>9, <1>10, <1>11, <1>12 DEF Reader

-----------------------------------------------------------------------------
(* The decoder                                                              *)

AtWork == {"loop", "receive", "chunk", "push", "write", "finish"}

LEMMA DecoderMoves ==
  ASSUME TypeOK, SessionInv, decPc \in AtWork \cup {"got"}, decPc' \in AtWork,
         UNCHANGED <<readerCmd, decoderCmd, paused, activeGen, svcPc, decGen,
                     rdrPc, rdrGen, rdrBuf, rdrHolds, result>>,
         idleBits' = IF decPc = "got" THEN idleBits \ {"decoder"} ELSE idleBits,
         OfGen(chunkQueue, activeGen) => OfGen(chunkQueue', activeGen),
         decPc' \in {"chunk", "push", "write"} => decMsg'.gen = activeGen,
         PcmFresh', PoolConserved'
  PROVE  SessionInv'
<1>1. /\ ~Rest /\ ~paused
      /\ svcPc \notin {"stopReset", "stopped", "load", "commit", "startReset", "sendDecoder"}
  BY DEF SessionInv, HandedOver, Quiet, Rest, AtWork
<1>2. Bits'
  BY DEF SessionInv, Bits, AtWork
<1>3. HandedOver'
  BY <1>1 DEF SessionInv, HandedOver, StartPending, AtWork
<1>4. Current'
  <2>1. OfGen(chunkQueue', activeGen)
    BY <1>1 DEF SessionInv, Current, OfGen
  <2> QED
    BY <2>1 DEF SessionInv, Current, AtWork, OfGen
<1>5. Tokens'
  BY DEF SessionInv, Tokens
<1>6. Quiet'
  BY <1>1 DEF SessionInv, Quiet
<1> QED
  BY <1>2, <1>3, <1>4, <1>5, <1>6 DEF SessionInv

LEMMA DecTakeSession == ASSUME TypeOK, SessionInv, Decoder, DecTake PROVE SessionInv'
<1>1. /\ decPc = "idle" /\ decPc' = "got" /\ decoderCmd # <<>> /\ decoderCmd' = <<>>
      /\ decGen' = Head(decoderCmd).gen
      /\ UNCHANGED <<readerCmd, chunkQueue, pool, pcm, idleBits, paused, activeGen, svcPc>>
      /\ UNCHANGED <<rdrPc, rdrGen, rdrBuf, rdrHolds, decMsg, result>>
  BY DEF DecTake, Decoder, DecUnchanged, genVars, rdrVars, cartVars
<1>2. ~Rest /\ StartPending /\ svcPc \in {"idle", "sendReader"}
  BY <1>1 DEF SessionInv, HandedOver, Rest, StartPending
<1>3. decGen' = activeGen
  <2>1. Head(decoderCmd) = decoderCmd[1]
    BY <1>1 DEF TypeOK, QueueTypeOK
  <2> QED
    BY <1>1, <2>1 DEF SessionInv, Current
<1>4. Bits'
  BY <1>1 DEF SessionInv, Bits
<1>5. HandedOver'
  BY <1>1, <1>2 DEF SessionInv, HandedOver
<1>6. Current' /\ PcmFresh'
  BY <1>1, <1>2, <1>3 DEF SessionInv, Current, PcmFresh
<1>7. Tokens'
  BY <1>1 DEF SessionInv, Tokens
<1>8. PoolConserved'
  BY <1>1 DEF SessionInv, PoolConserved
<1>9. Quiet'
  BY <1>1, <1>2 DEF SessionInv, Quiet
<1> QED
  BY <1>4, <1>5, <1>6, <1>7, <1>8, <1>9 DEF SessionInv

(* At the end of its work the decoder wakes the service that waits for it.   *)
LEMMA FinishSession ==
  ASSUME Orderly, TypeOK, SessionInv, Decoder, DecFinish PROVE SessionInv'
<1>1. /\ decPc = "finish" /\ SetIdle("decoder")
      /\ decPc' = IF "reader" \in idleBits THEN "complete" ELSE "blocked"
      /\ UNCHANGED <<readerCmd, decoderCmd, chunkQueue, pool, pcm, paused, activeGen>>
      /\ UNCHANGED <<rdrPc, rdrGen, rdrBuf, rdrHolds, decGen, decMsg, result>>
  BY DEF DecFinish, DecGoto, AwaitReader, Decoder, DecUnchanged, genVars, rdrVars, cartVars, Orderly
<1>2. /\ idleBits' = idleBits \cup {"decoder"}
      /\ svcPc' = svcPc \/ (svcPc = "stopBlocked" /\ svcPc' = "stopReset" /\ PipelineIdle')
  BY <1>1 DEF SetIdle, PipelineIdle
<1>3. Bits'
  BY <1>1, <1>2 DEF SessionInv, Bits
<1>4. /\ ~Rest /\ ~paused
      /\ svcPc \notin {"stopReset", "stopped", "load", "commit", "startReset", "sendDecoder"}
      /\ svcPc = "stopBlocked" => ~StartPending
      /\ StartPending' => StartPending
  BY <1>1 DEF SessionInv, HandedOver, Quiet, Rest, StartPending
<1>5. HandedOver'
  <2>1. CASE svcPc' = svcPc
    BY <1>1, <1>4, <2>1 DEF SessionInv, HandedOver
  <2>2. CASE svcPc = "stopBlocked" /\ svcPc' = "stopReset" /\ PipelineIdle'
    <3>1. decPc' \in {"idle", "complete"} /\ rdrPc' = "idle"
          /\ readerCmd' = <<>> /\ decoderCmd' = <<>> /\ ~StartPending'
      BY <1>1, <1>3, <1>4, <2>2 DEF Bits, PipelineIdle, StartPending
    <3> QED
      BY <2>2, <3>1 DEF HandedOver, Rest
  <2> QED
    BY <1>2, <2>1, <2>2
<1>6. Current' /\ PcmFresh'
  <2>1. svcPc # "startReset" /\ svcPc' # "startReset"
    BY <1>2, <1>4
  <2> QED
    BY <1>1, <2>1 DEF SessionInv, Current, PcmFresh
<1>7. Tokens'
  BY <1>1 DEF SessionInv, Tokens
<1>8. PoolConserved'
  BY <1>1 DEF SessionInv, PoolConserved
<1>9. Quiet'
  BY <1>1, <1>2, <1>4 DEF SessionInv, Quiet
<1> QED
  BY <1>3, <1>5, <1>6, <1>7, <1>8, <1>9 DEF SessionInv

LEMMA ReceiveSession == ASSUME TypeOK, SessionInv, Decoder, DecReceive PROVE SessionInv'
<1>1. /\ decPc = "receive" /\ chunkQueue # <<>> /\ chunkQueue' = Tail(chunkQueue)
      /\ UNCHANGED <<readerCmd, decoderCmd, pcm, idleBits, paused, activeGen, svcPc>>
      /\ UNCHANGED <<rdrPc, rdrGen, rdrBuf, rdrHolds, result, decGen>>
  BY DEF DecReceive, DecGoto, Decoder, DecUnchanged, genVars, rdrVars, cartVars
<1>2. chunkQueue \in Seq(ChunkMsgType) /\ Head(chunkQueue) \in ChunkMsgType
  BY <1>1, TailType DEF TypeOK, QueueTypeOK
<1>3. svcPc # "startReset"
  BY <1>1 DEF SessionInv, HandedOver, Rest
<1>4. OfGen(chunkQueue, activeGen)
  BY <1>3 DEF SessionInv, Current, OfGen
<1>5. OfGen(chunkQueue', activeGen) /\ Head(chunkQueue).gen = activeGen
  BY <1>1, <1>2, <1>4, TailGen
<1>6. /\ decPc' \in {"finish", "loop", "chunk"}
      /\ decPc' = "chunk" => decMsg' = Head(chunkQueue)
      /\ pool' = IF Head(chunkQueue).kind = "flush" THEN Give(pool) ELSE pool
  <2>1. Head(chunkQueue).kind \in {"data", "flush", "eof"}
    BY <1>2 DEF ChunkMsgType
  <2> QED
    BY <2>1 DEF DecReceive, DecGoto
<1>7. Counted
  BY CountedPool DEF SessionInv
<1>8. Counted'
  <2>1. Cardinality(Flushes(chunkQueue)) =
          Cardinality(Flushes(chunkQueue')) + (IF Head(chunkQueue).kind = "flush" THEN 1 ELSE 0)
    BY <1>1, <1>2, TailFlushes
  <2>2. Cardinality(Flushes(chunkQueue')) \in Nat
    BY <1>1, <1>2, TailType, FlushesFinite
  <2>3. pool \in 0 .. ChunkBufCount /\ rdrHolds' = rdrHolds
    BY <1>1 DEF TypeOK, QueueTypeOK
  <2> QED
    BY <1>6, <1>7, <2>1, <2>2, <2>3 DEF Counted, Give, ChunkBufCount
<1>9. PoolConserved'
  BY <1>8 DEF PoolConserved, Counted, Flushes
<1>10. PcmFresh'
  BY <1>1 DEF SessionInv, PcmFresh
<1> QED
  BY <1>1, <1>5, <1>6, <1>9, <1>10, DecoderMoves DEF AtWork

LEMMA WriteSession == ASSUME TypeOK, SessionInv, Decoder, DecWrite PROVE SessionInv'
<1>1. /\ decPc = "write" /\ decPc' \in {"loop", "push"}
      /\ pcm' = Append(pcm, decMsg.gen) \/ pcm' = pcm
      /\ decPc' = "push" => decMsg' = decMsg
      /\ UNCHANGED <<chunkQueue, pool, readerCmd, decoderCmd, idleBits, paused, activeGen, svcPc>>
      /\ UNCHANGED <<rdrPc, rdrGen, rdrBuf, rdrHolds, result, decGen>>
  BY DEF DecWrite, DecGoto, Decoder, DecUnchanged, genVars, rdrVars, cartVars
<1>2. decMsg.gen = activeGen /\ svcPc # "startReset"
  BY <1>1 DEF SessionInv, HandedOver, Rest, Current
<1>3. PcmFresh'
  <2>1. pcm \in Seq(0 .. MaxGen)
    BY DEF TypeOK, QueueTypeOK
  <2>2. \A i \in DOMAIN pcm : pcm[i] = activeGen
    BY <1>2 DEF SessionInv, PcmFresh
  <2>3. CASE pcm' = pcm
    BY <1>1, <2>2, <2>3 DEF PcmFresh
  <2>4. CASE pcm' = Append(pcm, activeGen)
    <3>1. \A i \in DOMAIN pcm' : pcm'[i] = activeGen
      BY <2>1, <2>2, <2>4
    <3> QED
      BY <1>1, <3>1 DEF PcmFresh
  <2> QED
    BY <1>1, <1>2, <2>3, <2>4
<1>4. PoolConserved'
  BY <1>1 DEF SessionInv, PoolConserved
<1> QED
  BY <1>1, <1>2, <1>3, <1>4, DecoderMoves DEF AtWork

LEMMA DecoderSession ==
  ASSUME Orderly, TypeOK, SessionInv, Decoder PROVE SessionInv'
<1>1. CASE DecTake
  BY <1>1, DecTakeSession
<1>2. CASE DecFinish
  BY <1>2, FinishSession
<1>3. CASE DecReceive
  BY <1>3, ReceiveSession
<1>4. CASE DecWrite
  BY <1>4, WriteSession
<1>5. CASE DecOpen \/ DecLoop \/ DecPoll \/ DecChunk \/ DecPush
  <2>1. /\ decPc \in AtWork \cup {"got"} /\ decPc # "finish" /\ decPc' \in AtWork
        /\ UNCHANGED <<readerCmd, decoderCmd, chunkQueue, pool, pcm, decGen>>
        /\ idleBits' = IF decPc = "got" THEN idleBits \ {"decoder"} ELSE idleBits
        /\ decPc' \in {"chunk", "push", "write"} =>
             decMsg' = decMsg /\ decPc \in {"chunk", "push", "write"}
    <3>1. CASE DecOpen
      BY <3>1 DEF DecOpen, DecGoto, AtWork
    <3>2. CASE DecLoop \/ DecPoll
      BY <3>2 DEF DecLoop, DecPoll, DecGoto, AtWork, queueVars
    <3>3. CASE DecChunk \/ DecPush
      BY <3>3 DEF DecChunk, DecPush, DecGoto, AtWork, queueVars
    <3> QED
      BY <1>5, <3>1, <3>2, <3>3
  <2>2. UNCHANGED <<paused, activeGen, svcPc, rdrPc, rdrGen, rdrBuf, rdrHolds, result>>
    BY <2>1 DEF Decoder, DecUnchanged, genVars, rdrVars, cartVars
  <2>3. decPc' \in {"chunk", "push", "write"} => decMsg'.gen = activeGen
    BY <2>1 DEF SessionInv, Current
  <2>4. PcmFresh' /\ PoolConserved'
    BY <2>1, <2>2 DEF SessionInv, PcmFresh, PoolConserved
  <2> QED
    BY <2>1, <2>2, <2>3, <2>4, DecoderMoves
<1>6. CASE DecComplete
  <2>1. /\ decPc = "complete" /\ decPc' = "idle"
        /\ UNCHANGED <<readerCmd, decoderCmd, chunkQueue, pool, pcm, idleBits, decGen, decMsg>>
        /\ UNCHANGED <<paused, activeGen, svcPc, rdrPc, rdrGen, rdrBuf, rdrHolds, result>>
    BY <1>6 DEF DecComplete, DecGoto, Decoder, DecUnchanged, genVars, rdrVars, cartVars
  <2>2. Bits'
    BY <2>1 DEF SessionInv, Bits
  <2>3. HandedOver'
    BY <2>1 DEF SessionInv, HandedOver, StartPending, Rest
  <2>4. Current' /\ PcmFresh'
    BY <2>1 DEF SessionInv, Current, PcmFresh
  <2>5. Tokens'
    BY <2>1 DEF SessionInv, Tokens
  <2>6. PoolConserved'
    BY <2>1 DEF SessionInv, PoolConserved
  <2>7. Quiet'
    BY <2>1 DEF SessionInv, Quiet, Rest
  <2> QED
    BY <2>2, <2>3, <2>4, <2>5, <2>6, <2>7 DEF SessionInv
<1>7. ~DecAwait /\ ~DecTimeout
  BY DEF SessionInv, Bits, DecAwait, DecTimeout, Orderly
<1> QED
  BY <1>1, <1>2, <1>3, <1>4, <1>5, <1>6, <1>7 DEF Decoder

-----------------------------------------------------------------------------
(* The cartridge reader and the environment                                 *)

(* Steps that leave the sessions alone but may draw PCM or end a read.       *)
LEMMA OthersMove ==
  ASSUME SessionInv,
         UNCHANGED <<readerCmd, decoderCmd, chunkQueue, pool, idleBits, paused,
                     activeGen, svcPc, rdrVars, decVars>>,
         paused => pcm' = pcm, svcPc = "stopped" => pcm' = <<>>,
         PcmFresh', result'.ok => result'.buf # None
  PROVE  SessionInv'
<1>1. UNCHANGED <<readerCmd, decoderCmd, chunkQueue, pool, idleBits, paused, activeGen,
                  svcPc, rdrPc, rdrGen, rdrBuf, rdrHolds, decPc, decGen, decMsg>>
  BY DEF rdrVars, decVars
<1>2. Bits'
  BY <1>1 DEF SessionInv, Bits
<1>3. HandedOver'
  BY <1>1 DEF SessionInv, HandedOver, StartPending, Rest
<1>4. Current'
  BY <1>1 DEF SessionInv, Current
<1>5. Tokens'
  BY <1>1 DEF SessionInv, Tokens
<1>6. PoolConserved'
  BY <1>1 DEF SessionInv, PoolConserved
<1>7. Quiet'
  BY <1>1 DEF SessionInv, Quiet, Rest
<1> QED
  BY <1>2, <1>3, <1>4, <1>5, <1>6, <1>7 DEF SessionInv

LEMMA CartSession == ASSUME TypeOK, SessionInv, Cart PROVE SessionInv'
<1>1. UNCHANGED <<readerCmd, decoderCmd, chunkQueue, pool, idleBits, paused, activeGen,
                  svcPc, rdrVars, decVars, pcm>>
  BY DEF Cart, CartUnchanged, queueVars, playVars, genVars, svcVars
<1>2. svcPc = "stopped" => pcm' = <<>>
  BY <1>1 DEF SessionInv, Quiet
<1>3. PcmFresh'
  BY <1>1 DEF SessionInv, PcmFresh
<1>4. result'.ok => result'.buf # None
  <2>1. bufIndex # None /\ (result.ok => result.buf # None)
    BY DEF TypeOK, CartTypeOK, Buffers, ChunkBufCount, None, SessionInv, Tokens
  <2>2. result' = result \/ result' = NoResult \/ result' = [ok |-> TRUE, buf |-> bufIndex]
    BY DEF Cart, CartTake, CartServe, CartRefuse, CartSeekFails
  <2> QED
    BY <2>1, <2>2 DEF NoResult
<1> QED
  BY <1>1, <1>2, <1>3, <1>4, OthersMove

LEMMA EnvSession ==
  ASSUME TypeOK, SessionInv, Output \/ EventLoop \/ Callers PROVE SessionInv'
<1>1. UNCHANGED <<paused, activeGen, svcPc, rdrVars, decVars, result>>
  BY DEF Output, EventLoop, Callers, EnvUnchanged, playVars, genVars, svcVars, cartVars
<1>2. /\ UNCHANGED <<readerCmd, decoderCmd, chunkQueue, pool, idleBits>>
      /\ pcm' = pcm \/ (~paused /\ pcm # <<>> /\ pcm' = Tail(pcm))
  BY DEF Output, EventLoop, Callers, PcmPull, DeliverEvent, QueueCmd, RequestSwitch,
         RequestPause, RequestSeek, Request, Unmount, Mount, queueVars
<1>3. svcPc = "stopped" => pcm' = <<>>
  BY <1>2 DEF SessionInv, Quiet
<1>4. PcmFresh'
  <2>1. CASE pcm' = pcm
    BY <1>1, <2>1 DEF SessionInv, PcmFresh
  <2>2. CASE pcm # <<>> /\ pcm' = Tail(pcm)
    <3>1. /\ Len(pcm) \in Nat /\ Len(pcm) >= 1 /\ DOMAIN pcm = 1 .. Len(pcm)
          /\ DOMAIN pcm' = 1 .. Len(pcm) - 1
          /\ \A i \in DOMAIN pcm' : pcm'[i] = pcm[i + 1]
      BY <2>2, HeadTailProperties, LenProperties, EmptySeq DEF TypeOK, QueueTypeOK
    <3> QED
      BY <1>1, <3>1 DEF SessionInv, PcmFresh
  <2> QED
    BY <1>2, <2>1, <2>2
<1>5. result'.ok => result'.buf # None
  BY <1>1 DEF SessionInv, Tokens
<1> QED
  BY <1>1, <1>2, <1>3, <1>4, <1>5, OthersMove

LEMMA SessionNext ==
  ASSUME Orderly, TypeOK, SessionInv, [Next]_vars PROVE SessionInv'
<1>1. CASE UNCHANGED vars
  <2>1. UNCHANGED <<readerCmd, decoderCmd, chunkQueue, pool, idleBits, paused, activeGen,
                    svcPc, rdrVars, decVars, pcm, result>>
    BY <1>1 DEF vars, queueVars, playVars, genVars, svcVars, cartVars
  <2>2. /\ svcPc = "stopped" => pcm' = <<>>
        /\ result'.ok => result'.buf # None
        /\ PcmFresh'
    BY <2>1 DEF SessionInv, Quiet, Tokens, PcmFresh
  <2> QED
    BY <2>1, <2>2, OthersMove
<1> QED
  BY <1>1, SvcSession, ReaderSession, DecoderSession, CartSession, EnvSession DEF Next

(* Sessions do not overlap, whatever else goes wrong.                        *)
THEOREM SessionsApart == Orderly => (Spec => []SessionInv)
<1> SUFFICES ASSUME Orderly PROVE Spec => []SessionInv
  OBVIOUS
<1>1. Init => SessionInv
  BY SessionInit
<1>2. TypeOK /\ SessionInv /\ [Next]_vars => SessionInv'
  BY SessionNext
<1> QED
  BY <1>1, <1>2, TypeCorrect, PTL DEF Spec

(* The chunk in the decoder's hands is of its own generation: with tasks     *)
(* that are not overtaken nothing of an earlier session is ever decoded.     *)
THEOREM NothingStale == Orderly => (Spec => []NoStaleChunk)
<1>1. SessionInv => NoStaleChunk
  BY DEF SessionInv, Current, NoStaleChunk
<1> QED
  BY <1>1, SessionsApart, PTL

(* What waits to be heard is of the generation that plays.                   *)
THEOREM PcmIsFresh == Orderly => (Spec => []PcmFresh)
<1>1. SessionInv => PcmFresh
  BY DEF SessionInv
<1> QED
  BY <1>1, SessionsApart, PTL

(* No buffer token is lost or made up, through stops and resets.             *)
THEOREM TokensKept == Orderly => (Spec => []PoolConserved)
<1>1. SessionInv => PoolConserved
  BY DEF SessionInv
<1> QED
  BY <1>1, SessionsApart, PTL

(* A paused player is idle and has no PCM left over.                         *)
THEOREM QuietWhenPaused == Orderly => (Spec => []PausedIsQuiet)
<1>1. SessionInv /\ TypeOK => PausedIsQuiet
  <2> SUFFICES ASSUME SessionInv, TypeOK, paused PROVE PipelineIdle /\ pcm = <<>>
    BY DEF PausedIsQuiet
  <2>1. rdrPc = "idle" /\ decPc \in {"idle", "complete"} /\ pcm = <<>>
    BY DEF SessionInv, Quiet, Rest
  <2>2. "reader" \in idleBits /\ "decoder" \in idleBits
    BY <2>1 DEF SessionInv, Bits
  <2>3. idleBits \subseteq {"reader", "decoder"}
    BY DEF TypeOK, QueueTypeOK
  <2> QED
    BY <2>1, <2>2, <2>3 DEF PipelineIdle
<1> QED
  BY <1>1, SessionsApart, TypeCorrect, PTL

(* The service reads a header only while the reader rests, so the cartridge  *)
(* reader never has two requests.                                            *)
THEOREM OneRead == Orderly => (Spec => []SingleRead)
<1>1. SessionInv /\ WakeInv /\ TypeOK => SingleRead
  <2> SUFFICES ASSUME SessionInv, WakeInv, TypeOK PROVE SingleRead
    OBVIOUS
  <2>1. ~(svcPc = "load" /\ rdrPc \in {"wait", "waitStop"})
    BY DEF SessionInv, HandedOver, Rest
  <2>2. CASE cartReq = NoReq
    BY <2>2 DEF SingleRead, TypeOK, CartTypeOK
  <2>3. CASE cartReq # NoReq
    <3>1. cartReq.who \in {"svc", "reader"}
      BY DEF TypeOK, CartTypeOK, RequestType
    <3>2. \A i \in DOMAIN readQueue : readQueue[i].who \in {"svc", "reader"}
      <4>1. readQueue \in Seq(RequestType)
        BY DEF TypeOK, CartTypeOK
      <4>2. \A i \in DOMAIN readQueue : readQueue[i] \in RequestType
        BY <4>1
      <4> QED
        BY <4>2 DEF RequestType
    <3>3. DOMAIN readQueue = {}
      <4> SUFFICES ASSUME NEW i \in DOMAIN readQueue PROVE FALSE
        OBVIOUS
      <4>1. readQueue[i].who = "svc" => svcPc = "load"
        BY DEF WakeInv, NoLostWakeup, Outstanding
      <4>2. readQueue[i].who = "reader" => rdrPc \in {"wait", "waitStop"}
        BY DEF WakeInv, NoLostWakeup, Outstanding
      <4>3. cartReq.who = "svc" => svcPc = "load" /\ readQueue[i].who # "svc"
        BY <2>3 DEF WakeInv, NoLostWakeup, Outstanding
      <4>4. cartReq.who = "reader" =>
              rdrPc \in {"wait", "waitStop"} /\ readQueue[i].who # "reader"
        BY <2>3 DEF WakeInv, NoLostWakeup, Outstanding
      <4> QED
        BY <2>1, <3>1, <3>2, <4>1, <4>2, <4>3, <4>4
    <3>4. Len(readQueue) = 0
      BY <3>3 DEF TypeOK, CartTypeOK
    <3> QED
      BY <2>3, <3>4 DEF SingleRead
  <2> QED
    BY <2>2, <2>3
<1>2. Init => WakeInv
  BY DEF Init, WakeInv, NoLostWakeup, Outstanding
<1>3. TypeOK /\ WakeInv /\ [Next]_vars => WakeInv'
  BY WakeNext
<1>4. Spec => []WakeInv
  BY <1>2, <1>3, TypeCorrect, PTL DEF Spec
<1> QED
  BY <1>1, <1>4, SessionsApart, TypeCorrect, PTL

-----------------------------------------------------------------------------
(* Without I/O errors a decoder that stops on its own has taken the end of   *)
(* its track, which the reader queues last (Ended); and it works on no track *)
(* before the reader does (Begun).  So a session that ends by itself leaves  *)
(* nothing behind, although nobody resets the pipeline.                      *)

Readable == Orderly /\ ~IoErrors

Stopping == {"stopWait", "stopBlocked", "stopReset"}
Over     == chunkQueue = <<>> /\ rdrPc \in {"close", "idle"} /\ readerCmd = <<>>
Starting == svcPc \in {"sendDecoder", "sendReader"} \/ readerCmd # <<>> \/ rdrPc = "got"
Unused   == decPc \in {"idle", "complete"} /\ decoderCmd = <<>>

EofLast ==
  \A i \in DOMAIN chunkQueue : chunkQueue[i].kind = "eof" =>
    i = Len(chunkQueue) /\ rdrPc \in {"close", "idle"} /\ readerCmd = <<>>

Ended ==
  /\ decPc \in {"finish", "blocked"} => stopRequested \/ Over
  /\ Rest => svcPc \in Stopping \/ chunkQueue = <<>>
  /\ stopRequested => svcPc \in Stopping \/ Rest
  /\ Unused => rdrPc = "idle" /\ readerCmd = <<>>
  /\ EofLast

Begun ==
  /\ Starting => chunkQueue = <<>> /\ decPc \in {"idle", "complete", "got", "loop", "receive"}
  /\ svcPc \in {"startReset", "sendDecoder", "sendReader"} => ~stopRequested
  /\ svcPc = "sendReader" => ~Unused
  /\ readerCmd # <<>> => rdrPc = "idle"

EndInv == SessionInv /\ Ended /\ Begun

LEMMA EndInit == Init => EndInv
<1> SUFFICES ASSUME Init PROVE EndInv
  OBVIOUS
<1>1. Ended
  BY DEF Init, Ended, EofLast, Rest, Unused
<1>2. Begun
  BY DEF Init, Begun, Starting, Unused
<1> QED
  BY <1>1, <1>2, SessionInit DEF EndInv

LEMMA TailEof ==
  ASSUME EofLast, chunkQueue \in Seq(ChunkMsgType), chunkQueue # <<>>,
         chunkQueue' = Tail(chunkQueue), UNCHANGED <<rdrPc, readerCmd>>
  PROVE  EofLast' /\ (Head(chunkQueue).kind = "eof" => Over')
<1>1. /\ Len(chunkQueue) \in Nat /\ Len(chunkQueue) >= 1
      /\ DOMAIN chunkQueue = 1 .. Len(chunkQueue)
      /\ chunkQueue' \in Seq(ChunkMsgType) /\ Len(chunkQueue') = Len(chunkQueue) - 1
      /\ DOMAIN chunkQueue' = 1 .. Len(chunkQueue) - 1
      /\ Head(chunkQueue) = chunkQueue[1]
      /\ \A i \in DOMAIN chunkQueue' : chunkQueue'[i] = chunkQueue[i + 1]
  BY HeadTailProperties, LenProperties, EmptySeq
<1>2. EofLast'
  <2> SUFFICES ASSUME NEW i \in DOMAIN chunkQueue', chunkQueue'[i].kind = "eof"
               PROVE  i = Len(chunkQueue') /\ rdrPc \in {"close", "idle"} /\ readerCmd = <<>>
    BY DEF EofLast
  <2>1. i + 1 \in DOMAIN chunkQueue /\ chunkQueue[i + 1].kind = "eof" /\ i \in Nat
    BY <1>1
  <2> QED
    BY <1>1, <2>1 DEF EofLast
<1>3. ASSUME Head(chunkQueue).kind = "eof" PROVE Over'
  <2>1. /\ 1 = Len(chunkQueue) /\ rdrPc \in {"close", "idle"} /\ readerCmd = <<>>
    BY <1>1, <1>3 DEF EofLast
  <2>2. chunkQueue' = <<>>
    BY <1>1, <2>1, EmptySeq
  <2> QED
    BY <2>1, <2>2 DEF Over
<1> QED
  BY <1>2, <1>3

(* Steps that only move the service on, outside a stop and a start.          *)
LEMMA SvcKeepsEnd ==
  ASSUME Ended, Begun, svcPc \notin Stopping,
         UNCHANGED <<readerCmd, decoderCmd, chunkQueue, stopRequested, rdrPc, decPc>>,
         svcPc' \notin {"startReset", "sendDecoder", "sendReader"}
  PROVE  Ended' /\ Begun'
<1>1. Ended'
  BY DEF Ended, EofLast, Rest, Unused, Over
<1>2. Begun'
  BY DEF Begun, Starting
<1> QED
  BY <1>1, <1>2

LEMMA RestEnds ==
  ASSUME Rest', chunkQueue' = <<>>, svcPc' # "sendReader",
         stopRequested' => svcPc' \notin {"startReset", "sendDecoder", "sendReader"}
  PROVE  Ended' /\ Begun'
<1>1. Ended'
  BY DEF Ended, EofLast, Rest, Unused
<1>2. Begun'
  BY DEF Begun, Starting, Rest
<1> QED
  BY <1>1, <1>2

LEMMA SvcEnd ==
  ASSUME Readable, TypeOK, EndInv, Svc PROVE Ended' /\ Begun'
<1> USE DEF Stopping
<1>1. Ended /\ Begun /\ SessionInv
  BY DEF EndInv
<1>2. CASE \/ SvcSwitch \/ SvcSeek \/ SvcPause \/ SvcComplete \/ SvcCartridge
  <2>1. PICK K : SvcTake(K)
    BY <1>2 DEF SvcSwitch, SvcSeek, SvcPause, SvcComplete, SvcCartridge
  <2>2. /\ svcPc = "idle"
        /\ UNCHANGED <<readerCmd, decoderCmd, chunkQueue, rdrPc, decPc>>
    BY <2>1 DEF SvcTake, Others, rdrVars, decVars
  <2>3. stopRequested' = stopRequested /\ svcPc' \in {svcPc, "stop", "start"}
    BY <1>2 DEF SvcSwitch, SvcSeek, SvcPause, SvcComplete, SvcCartridge, Goto, svcVars, genVars
  <2> QED
    BY <1>1, <2>2, <2>3, SvcKeepsEnd
<1>3. CASE SvcPaused \/ SvcRemoved \/ SvcInserted \/ SvcStart \/ SvcLoaded
  <2>1. /\ svcPc \in {"stopped", "start", "load"}
        /\ svcPc' \in {"idle", "start", "load", "commit"}
    BY <1>3 DEF SvcPaused, SvcRemoved, SvcInserted, SvcStart, SvcLoaded, SvcStartFails, SvcIdle, Goto
  <2>2. UNCHANGED <<readerCmd, decoderCmd, chunkQueue, stopRequested, rdrPc, decPc>>
    BY <1>3 DEF SvcPaused, SvcRemoved, SvcInserted, SvcStart, SvcLoaded, SvcStartFails, Others,
                queueVars, genVars, rdrVars, decVars
  <2> QED
    BY <1>1, <2>1, <2>2, SvcKeepsEnd
<1>4. CASE SvcStop \/ SvcStopWait
  <2>1. /\ svcPc \in {"stop", "stopWait"} /\ svcPc' \in Stopping
        /\ UNCHANGED <<readerCmd, decoderCmd, chunkQueue, rdrPc, decPc>>
        /\ stopRequested => stopRequested'
    BY <1>4 DEF SvcStop, SvcStopWait, Others, queueVars, genVars, rdrVars, decVars
  <2>2. Ended'
    BY <1>1, <2>1 DEF Ended, EofLast, Rest, Unused, Over
  <2>3. Begun'
    BY <1>1, <2>1 DEF Begun, Starting
  <2> QED
    BY <2>2, <2>3
<1>5. CASE SvcStopReset \/ SvcRestore \/ SvcStartReset
  <2>1. /\ svcPc \in {"stopReset", "commit", "startReset"} /\ ResetPipeline
        /\ UNCHANGED <<rdrPc, decPc>>
        /\ svcPc' \in {"idle", "start", "stopped", "sendDecoder"}
    BY <1>5 DEF SvcStopReset, SvcRestore, SvcStartReset, SvcIdle, Goto, Others, rdrVars, decVars
  <2>2. svcPc' = "sendDecoder" => ~stopRequested'
    BY <1>1, <1>5 DEF SvcStopReset, SvcRestore, SvcStartReset, SvcIdle, Goto, genVars, Begun
  <2>3. Rest
    BY <1>1, <2>1 DEF SessionInv, HandedOver
  <2>4. Rest' /\ chunkQueue' = <<>>
    BY <2>1, <2>3 DEF ResetPipeline, Rest
  <2> QED
    BY <2>1, <2>2, <2>4, RestEnds
<1>6. CASE SvcCommit
  <2>1. /\ svcPc = "commit" /\ svcPc' = "startReset" /\ stopRequested' = FALSE
        /\ UNCHANGED <<readerCmd, decoderCmd, chunkQueue, rdrPc, decPc>>
    BY <1>6 DEF SvcCommit, Others, queueVars, rdrVars, decVars
  <2>2. Rest /\ Rest'
    BY <1>1, <2>1 DEF SessionInv, HandedOver, Rest
  <2>3. chunkQueue' = <<>>
    BY <1>1, <2>1, <2>2 DEF Ended
  <2> QED
    BY <2>1, <2>2, <2>3, RestEnds
<1>7. CASE SvcSendDecoder
  <2>1. /\ svcPc = "sendDecoder" /\ svcPc' = "sendReader"
        /\ decoderCmd' # <<>>
        /\ UNCHANGED <<readerCmd, chunkQueue, stopRequested, rdrPc, decPc>>
    BY <1>7 DEF SvcSendDecoder, Others, genVars, rdrVars, decVars
  <2>2. Rest /\ chunkQueue = <<>> /\ ~stopRequested
    BY <1>1, <2>1 DEF SessionInv, HandedOver, Ended, Begun
  <2>3. Ended'
    BY <2>1, <2>2 DEF Ended, EofLast, Rest, Unused
  <2>4. Begun'
    BY <2>1, <2>2 DEF Begun, Starting, Rest, Unused
  <2> QED
    BY <2>3, <2>4
<1>8. CASE SvcSendReader
  <2>1. /\ svcPc = "sendReader" /\ svcPc' = "idle"
        /\ readerCmd' # <<>>
        /\ UNCHANGED <<decoderCmd, chunkQueue, stopRequested, rdrPc, decPc>>
    BY <1>8 DEF SvcSendReader, SvcIdle, Goto, Others, genVars, rdrVars, decVars
  <2>2. /\ rdrPc = "idle" /\ ~Unused /\ ~stopRequested /\ chunkQueue = <<>>
        /\ decPc \in {"idle", "complete", "got", "loop", "receive"}
    BY <1>1, <2>1 DEF SessionInv, HandedOver, Begun, Starting
  <2>3. Ended'
    BY <2>1, <2>2 DEF Ended, EofLast, Rest, Unused
  <2>4. Begun'
    BY <2>1, <2>2 DEF Begun, Starting
  <2> QED
    BY <2>3, <2>4
<1>9. ~SvcStopTimeout
  BY DEF SvcStopTimeout, Readable, Orderly
<1> QED
  BY <1>2, <1>3, <1>4, <1>5, <1>6, <1>7, <1>8, <1>9 DEF Svc

(* The reader inside a track may queue a message.                            *)
LEMMA InTrackEnd ==
  ASSUME TypeOK, EndInv, rdrPc \in InTrack \ {"close"}, rdrPc' \in InTrack,
         UNCHANGED <<readerCmd, decoderCmd, stopRequested, svcPc, decPc>>,
         NEW m \in ChunkMsgType, m.kind = "eof" => rdrPc' = "close",
         chunkQueue' = chunkQueue \/ chunkQueue' = Append(chunkQueue, m)
  PROVE  Ended' /\ Begun'
<1>1. Ended /\ Begun /\ SessionInv
  BY DEF EndInv
<1>2. /\ ~Rest /\ ~Rest' /\ ~Unused /\ ~Unused' /\ ~Over /\ readerCmd = <<>>
      /\ svcPc \notin {"sendDecoder", "sendReader"}
  BY <1>1 DEF Ended, Begun, SessionInv, HandedOver, Rest, Unused, Over, InTrack
<1>3. EofLast'
  <2>1. \A i \in DOMAIN chunkQueue : chunkQueue[i].kind # "eof"
    BY <1>1 DEF Ended, EofLast, InTrack
  <2>2. CASE chunkQueue' = chunkQueue
    BY <2>1, <2>2 DEF EofLast
  <2>3. CASE chunkQueue' = Append(chunkQueue, m)
    <3>1. chunkQueue \in Seq(ChunkMsgType)
      BY DEF TypeOK, QueueTypeOK
    <3>2. /\ Len(chunkQueue') = Len(chunkQueue) + 1 /\ Len(chunkQueue) \in Nat
          /\ DOMAIN chunkQueue' = 1 .. Len(chunkQueue')
          /\ DOMAIN chunkQueue = 1 .. Len(chunkQueue)
          /\ chunkQueue'[Len(chunkQueue')] = m
          /\ \A i \in DOMAIN chunkQueue : chunkQueue'[i] = chunkQueue[i]
      BY <2>3, <3>1
    <3>3. ASSUME NEW i \in DOMAIN chunkQueue', chunkQueue'[i].kind = "eof"
          PROVE  i = Len(chunkQueue') /\ m.kind = "eof"
      BY <2>1, <3>2, <3>3
    <3> QED
      BY <1>2, <3>3 DEF EofLast
  <2> QED
    BY <2>2, <2>3
<1>4. Ended'
  BY <1>1, <1>2, <1>3 DEF Ended
<1>5. Begun'
  BY <1>1, <1>2 DEF Begun, Starting, InTrack
<1> QED
  BY <1>4, <1>5

(* What the reader queues; only an end of file ends its work.                *)
Queues(m) == /\ chunkQueue' = chunkQueue \/ chunkQueue' = Append(chunkQueue, m)
             /\ m.kind = "eof" => rdrPc' = "close"

LEMMA Queued ==
  ASSUME TypeOK, RdrFlush \/ RdrSend \/ RdrEof
  PROVE  \E m \in ChunkMsgType : Queues(m)
<1> DEFINE flush == ChunkMsg("flush", rdrGen, 0, None, NoContent)
           eof   == ChunkMsg("eof", rdrGen, 0, None, NoContent)
           data  == ChunkMsg("data", rdrGen, rdrChunk, rdrBuf, Content(loaded, rdrBase))
<1>1. /\ flush \in ChunkMsgType /\ eof \in ChunkMsgType /\ (rdrPc = "send" => data \in ChunkMsgType)
      /\ flush.kind = "flush" /\ eof.kind = "eof" /\ data.kind = "data"
  BY Messages DEF ChunkMsg
<1>2. CASE RdrFlush
  <2>1. chunkQueue' = chunkQueue \/ chunkQueue' = Append(chunkQueue, flush)
    BY <1>2 DEF RdrFlush, RdrQueue
  <2> HIDE DEF flush
  <2> QED
    BY <1>1, <2>1 DEF Queues
<1>3. CASE RdrEof
  <2>1. /\ chunkQueue' = chunkQueue \/ chunkQueue' = Append(chunkQueue, eof)
        /\ rdrPc' = "close"
    BY <1>3 DEF RdrEof, RdrQueue
  <2> HIDE DEF eof
  <2> QED
    BY <1>1, <2>1 DEF Queues
<1>4. CASE RdrSend
  <2>1. /\ rdrPc = "send"
        /\ chunkQueue' = chunkQueue \/ chunkQueue' = Append(chunkQueue, data)
    BY <1>4 DEF RdrSend, RdrQueue
  <2> HIDE DEF data
  <2> QED
    BY <1>1, <2>1 DEF Queues
<1> QED
  BY <1>2, <1>3, <1>4

LEMMA ReaderEnd ==
  ASSUME Readable, TypeOK, EndInv, Reader PROVE Ended' /\ Begun'
<1>1. Ended /\ Begun /\ SessionInv
  BY DEF EndInv
<1>2. stopRequested' = stopRequested /\ (rdrPc # "close" => UNCHANGED <<svcPc, decPc>>)
  BY DEF Reader, RdrUnchanged, genVars
<1>3. CASE RdrTake
  <2>1. /\ rdrPc = "idle" /\ readerCmd # <<>> /\ rdrPc' = "got" /\ readerCmd' = <<>>
        /\ UNCHANGED <<decoderCmd, chunkQueue, stopRequested, svcPc, decPc>>
    BY <1>2, <1>3 DEF RdrTake
  <2>2. /\ ~Unused /\ svcPc = "idle" /\ chunkQueue = <<>> /\ ~Rest
        /\ decPc \in {"idle", "complete", "got", "loop", "receive"}
    BY <1>1, <2>1 DEF Ended, Begun, Starting, SessionInv, HandedOver, StartPending, Rest
  <2>3. ~stopRequested
    BY <1>1, <2>2 DEF Ended, Stopping
  <2>4. Ended'
    BY <2>1, <2>2, <2>3 DEF Ended, EofLast, Unused, Rest
  <2>5. Begun'
    BY <2>1, <2>2 DEF Begun, Starting
  <2> QED
    BY <2>4, <2>5
<1>4. CASE RdrBegin
  <2>1. /\ rdrPc = "got" /\ rdrPc' \in {"done", "loop"}
        /\ UNCHANGED <<readerCmd, decoderCmd, chunkQueue, stopRequested, svcPc, decPc>>
    BY <1>2, <1>4 DEF RdrBegin
  <2>2. /\ ~Unused /\ svcPc = "idle" /\ chunkQueue = <<>> /\ ~Rest /\ readerCmd = <<>>
        /\ decPc \in {"idle", "complete", "got", "loop", "receive"}
    BY <1>1, <2>1 DEF Ended, Begun, Starting, SessionInv, HandedOver, StartPending, Rest
  <2>3. ~stopRequested
    BY <1>1, <2>2 DEF Ended, Stopping
  <2>4. Ended'
    BY <2>1, <2>2, <2>3 DEF Ended, EofLast, Unused, Rest
  <2>5. Begun'
    BY <2>1, <2>2 DEF Begun, Starting
  <2> QED
    BY <2>4, <2>5
<1>5. CASE \/ RdrLoop \/ RdrLoadWindow \/ RdrBounds \/ RdrTakeBuffer \/ RdrRequest
           \/ RdrPollStop \/ RdrNotified \/ RdrDone
  <2>1. rdrPc \in InTrack \ {"close"} /\ rdrPc' \in InTrack
    BY <1>5 DEF RdrLoop, RdrLoadWindow, RdrBounds, RdrTakeBuffer, RdrRequest, RdrPollStop,
                RdrNotified, RdrDone, RdrFail, RdrGoto, InTrack, rdrVars
  <2>2. UNCHANGED <<readerCmd, decoderCmd, chunkQueue>>
    BY <1>5 DEF RdrLoop, RdrLoadWindow, RdrBounds, RdrTakeBuffer, RdrRequest, RdrPollStop,
                RdrNotified, RdrDone, RdrFail, queueVars
  <2>3. PICK m \in ChunkMsgType : m.kind = "flush"
    BY Messages DEF ChunkMsg
  <2> QED
    BY <1>2, <2>1, <2>2, <2>3, InTrackEnd
<1>6. CASE RdrFlush \/ RdrSend \/ RdrEof
  <2>1. /\ rdrPc \in {"flush", "send", "eof"} /\ rdrPc' \in {"take", "loop", "done", "close"}
        /\ UNCHANGED <<readerCmd, decoderCmd>>
    BY <1>6 DEF RdrFlush, RdrSend, RdrEof, RdrQueue
  <2>2. PICK m \in ChunkMsgType : Queues(m)
    BY <1>6, Queued
  <2> QED
    BY <1>2, <2>1, <2>2, InTrackEnd DEF InTrack, Queues
<1>7. CASE RdrClose
  <2>1. /\ rdrPc = "close" /\ rdrPc' = "idle"
        /\ decPc' = (IF decPc = "blocked" THEN "complete" ELSE decPc)
        /\ UNCHANGED <<readerCmd, decoderCmd, chunkQueue, stopRequested>>
        /\ svcPc' = svcPc \/ (svcPc = "stopBlocked" /\ svcPc' = "stopReset")
    BY <1>2, <1>7 DEF RdrClose, RdrGoto, SetIdle
  <2>2. /\ ~Unused /\ ~Rest /\ readerCmd = <<>>
        /\ svcPc \notin {"startReset", "sendDecoder", "sendReader"}
    BY <1>1, <2>1 DEF Ended, Begun, SessionInv, HandedOver, Rest
  <2>3. stopRequested => svcPc' \in Stopping
    BY <1>1, <2>1, <2>2 DEF Ended, Stopping
  <2>4. decPc = "blocked" => stopRequested \/ chunkQueue = <<>>
    BY <1>1 DEF Ended, Over
  <2>5. Rest' \/ Unused' => decPc = "blocked"
    BY <2>1, <2>2 DEF Rest, Unused
  <2>6. EofLast'
    BY <1>1, <2>1 DEF Ended, EofLast
  <2>7. decPc' \in {"finish", "blocked"} => stopRequested' \/ Over'
    BY <1>1, <2>1 DEF Ended, Over
  <2>8. Ended'
    BY <2>1, <2>2, <2>3, <2>4, <2>5, <2>6, <2>7 DEF Ended
  <2>9. Begun'
    BY <2>1, <2>2 DEF Begun, Starting
  <2> QED
    BY <2>8, <2>9
<1> QED
  BY <1>3, <1>4, <1>5, <1>6, <1>7 DEF Reader

(* The decoder works on its track until it is stopped or has its end.        *)
LEMMA DecoderMovesEnd ==
  ASSUME EndInv, decPc \in AtWork \cup {"got"}, decPc # "finish",
         UNCHANGED <<readerCmd, decoderCmd, stopRequested, svcPc, rdrPc>>,
         decPc' \in AtWork, decPc' = "finish" => stopRequested \/ Over',
         EofLast', Starting => decPc' \in {"loop", "receive"} /\ chunkQueue' = chunkQueue
  PROVE  Ended' /\ Begun'
<1>1. Ended /\ Begun
  BY DEF EndInv
<1>2. ~Rest /\ ~Rest' /\ ~Unused /\ ~Unused'
  BY DEF AtWork, Rest, Unused
<1>3. decPc' # "blocked"
  BY DEF AtWork
<1>4. Ended'
  BY <1>1, <1>2, <1>3 DEF Ended
<1>5. Begun'
  BY <1>1, <1>2 DEF Begun, Starting
<1> QED
  BY <1>4, <1>5

LEMMA DecoderEnd ==
  ASSUME Readable, TypeOK, EndInv, Decoder PROVE Ended' /\ Begun'
<1>1. Ended /\ Begun /\ SessionInv
  BY DEF EndInv
<1>2. /\ UNCHANGED <<stopRequested, activeGen, rdrPc>>
      /\ decPc # "finish" => svcPc' = svcPc
  BY DEF Decoder, DecUnchanged, genVars, rdrVars
<1>3. Starting => StartPending \/ svcPc \in {"sendDecoder", "sendReader"}
  BY DEF Starting, StartPending
<1>4. Starting => svcPc \notin Stopping
  BY <1>1, <1>3 DEF SessionInv, HandedOver, Stopping
<1>5. CASE DecTake
  <2>1. /\ decPc = "idle" /\ decoderCmd # <<>> /\ decPc' = "got" /\ decoderCmd' = <<>>
        /\ UNCHANGED <<readerCmd, chunkQueue, stopRequested, rdrPc, svcPc>>
    BY <1>2, <1>5 DEF DecTake
  <2>2. ~Rest /\ ~Rest' /\ ~Unused /\ ~Unused'
    BY <2>1 DEF Rest, Unused
  <2>3. Ended'
    BY <1>1, <2>1, <2>2 DEF Ended, EofLast
  <2>4. Begun'
    BY <1>1, <2>1, <2>2 DEF Begun, Starting
  <2> QED
    BY <2>3, <2>4
<1>6. CASE DecOpen \/ DecLoop \/ DecPoll \/ DecChunk \/ DecPush \/ DecWrite
  <2>1. /\ decPc \in AtWork \cup {"got"} /\ decPc # "finish" /\ decPc' \in AtWork
        /\ UNCHANGED <<readerCmd, decoderCmd, chunkQueue>>
        /\ decPc \in {"got", "loop", "receive"} => decPc' \in {"loop", "receive", "finish"}
        /\ decPc' = "finish" => ShouldStop(decGen) /\ decPc # "got"
    <3>1. CASE DecOpen
      BY <3>1 DEF DecOpen, DecGoto, AtWork, Readable
    <3>2. CASE DecLoop \/ DecPoll
      BY <3>2 DEF DecLoop, DecPoll, DecGoto, AtWork, queueVars
    <3>3. CASE DecChunk \/ DecPush \/ DecWrite
      BY <3>3 DEF DecChunk, DecPush, DecWrite, DecGoto, AtWork, queueVars
    <3> QED
      BY <1>6, <3>1, <3>2, <3>3
  <2>2. decPc' = "finish" => stopRequested
    BY <1>1, <2>1 DEF ShouldStop, SessionInv, Current, AtWork
  <2>3. Starting => ~stopRequested
    BY <1>1, <1>4, <2>1 DEF Ended, Rest, AtWork
  <2>4. Starting => decPc' \in {"loop", "receive"}
    BY <1>1, <2>1, <2>2, <2>3 DEF Begun, AtWork
  <2>5. EofLast'
    BY <1>1, <1>2, <2>1 DEF Ended, EofLast
  <2> QED
    BY <1>2, <2>1, <2>2, <2>4, <2>5, DecoderMovesEnd
<1>7. CASE DecReceive
  <2>1. /\ decPc = "receive" /\ chunkQueue # <<>> /\ chunkQueue' = Tail(chunkQueue)
        /\ UNCHANGED <<readerCmd, decoderCmd>>
    BY <1>7 DEF DecReceive
  <2>2. decPc' \in {"finish", "loop", "chunk"} /\ (decPc' = "finish" => Head(chunkQueue).kind = "eof")
    BY <1>7 DEF DecReceive, DecGoto
  <2>3. chunkQueue \in Seq(ChunkMsgType)
    BY DEF TypeOK, QueueTypeOK
  <2>4. EofLast' /\ (decPc' = "finish" => Over')
    BY <1>1, <1>2, <2>1, <2>2, <2>3, TailEof DEF Ended
  <2>5. ~Starting
    BY <1>1, <2>1 DEF Begun
  <2> QED
    BY <1>2, <2>1, <2>2, <2>4, <2>5, DecoderMovesEnd DEF AtWork
<1>8. CASE DecFinish
  <2>1. /\ decPc = "finish"
        /\ decPc' = (IF "reader" \in idleBits THEN "complete" ELSE "blocked")
        /\ UNCHANGED <<readerCmd, decoderCmd, chunkQueue, stopRequested, rdrPc>>
        /\ svcPc' = svcPc \/ (svcPc = "stopBlocked" /\ svcPc' = "stopReset")
    BY <1>2, <1>8 DEF DecFinish, DecGoto, SetIdle, AwaitReader, Readable, Orderly
  <2>2. /\ ~Unused /\ ~Rest /\ ~Starting /\ readerCmd = <<>> /\ rdrPc # "got"
        /\ svcPc \notin {"sendDecoder", "sendReader", "startReset"}
    BY <1>1, <2>1 DEF Begun, Starting, Unused, Rest, SessionInv, HandedOver
  <2>3. stopRequested => svcPc' \in Stopping
    BY <1>1, <2>1, <2>2 DEF Ended, Stopping
  <2>4. stopRequested \/ Over
    BY <1>1, <2>1 DEF Ended
  <2>5. decPc' = "complete" => rdrPc = "idle"
    BY <1>1, <2>1, <2>2 DEF SessionInv, Bits
  <2>6. EofLast'
    BY <1>1, <2>1 DEF Ended, EofLast
  <2>7. Unused' => rdrPc' = "idle" /\ readerCmd' = <<>>
    BY <2>1, <2>2, <2>5 DEF Unused
  <2>8. stopRequested' \/ Over'
    BY <2>1, <2>4 DEF Over
  <2>9. Ended'
    BY <2>1, <2>3, <2>4, <2>6, <2>7, <2>8 DEF Ended, Over
  <2>10. Begun'
    BY <2>1, <2>2 DEF Begun, Starting
  <2> QED
    BY <2>9, <2>10
<1>9. CASE DecComplete
  <2>1. /\ decPc = "complete" /\ decPc' = "idle"
        /\ UNCHANGED <<readerCmd, decoderCmd, chunkQueue, stopRequested, rdrPc, svcPc>>
    BY <1>2, <1>9 DEF DecComplete, DecGoto
  <2>2. (Rest' <=> Rest) /\ (Unused' <=> Unused)
    BY <2>1 DEF Rest, Unused
  <2>3. Ended'
    BY <1>1, <2>1, <2>2 DEF Ended, EofLast
  <2>4. Begun'
    BY <1>1, <2>1, <2>2 DEF Begun, Starting
  <2> QED
    BY <2>3, <2>4
<1>10. ~DecAwait /\ ~DecTimeout
  BY <1>1 DEF SessionInv, Bits, DecAwait, DecTimeout, Readable, Orderly
<1> QED
  BY <1>5, <1>6, <1>7, <1>8, <1>9, <1>10 DEF Decoder

LEMMA OthersEnd ==
  ASSUME EndInv,
         UNCHANGED <<readerCmd, decoderCmd, chunkQueue, stopRequested, svcPc, rdrPc, decPc>>
  PROVE  Ended' /\ Begun'
<1>1. Ended /\ Begun
  BY DEF EndInv
<1>2. Ended'
  BY <1>1 DEF Ended, EofLast, Rest, Unused, Over
<1>3. Begun'
  BY <1>1 DEF Begun, Starting, Unused
<1> QED
  BY <1>2, <1>3

LEMMA EndNext ==
  ASSUME Readable, TypeOK, EndInv, [Next]_vars PROVE EndInv'
<1>1. SessionInv'
  BY SessionNext DEF EndInv, Readable
<1>2. CASE Cart \/ Output \/ EventLoop \/ Callers \/ UNCHANGED vars
  <2>1. UNCHANGED <<readerCmd, decoderCmd, chunkQueue, stopRequested, svcPc, rdrPc, decPc>>
    <3>1. CASE Cart
      BY <3>1 DEF Cart, CartUnchanged, queueVars, genVars, svcVars, rdrVars, decVars
    <3>2. CASE Output \/ EventLoop \/ Callers
      BY <3>2 DEF Output, EventLoop, Callers, EnvUnchanged, PcmPull, DeliverEvent, QueueCmd,
                  RequestSwitch, RequestPause, RequestSeek, Request, Unmount, Mount,
                  queueVars, genVars, svcVars, rdrVars, decVars
    <3>3. CASE UNCHANGED vars
      BY <3>3 DEF vars, queueVars, genVars, svcVars, rdrVars, decVars
    <3> QED
      BY <1>2, <3>1, <3>2, <3>3
  <2> QED
    BY <1>1, <2>1, OthersEnd DEF EndInv
<1> QED
  BY <1>1, <1>2, SvcEnd, ReaderEnd, DecoderEnd DEF Next, EndInv

-----------------------------------------------------------------------------
(* Double buffering.  What the decoder has still to decode is the line: the  *)
(* chunk in its hands and those in the queue.  While the reader has a buffer *)
(* it fills the other one next (Buffered): data in front of a flush message  *)
(* lies in that other buffer, and the token for it comes back only with the  *)
(* flush, so that nothing of the buffer is left in the line by then.         *)

Line == IF decPc = "chunk" THEN <<decMsg>> \o chunkQueue ELSE chunkQueue

Behind(q, i) == {j \in DOMAIN q : j > i /\ q[j].kind = "flush"}

(* All data is in front of a flush; that in front of just one is in b.       *)
AllBehind(q, b) ==
  \A i \in DOMAIN q : q[i].kind = "data" =>
    /\ Behind(q, i) # {}
    /\ (\A j, k \in Behind(q, i) : j = k) => q[i].buf = b

(* Data in front of a flush is in the other buffer than b, the rest in b.    *)
Split(q, b) ==
  \A i \in DOMAIN q : q[i].kind = "data" =>
    q[i].buf = IF Behind(q, i) = {} THEN b ELSE 1 - b

AllIntact(q) == \A i \in DOMAIN q : q[i].kind = "data" => Intact(q[i])

LEMMA TailShape ==
  ASSUME NEW S, NEW q \in Seq(S), q # <<>>
  PROVE  /\ Len(q) \in Nat /\ Len(q) >= 1 /\ DOMAIN q = 1 .. Len(q)
         /\ Tail(q) \in Seq(S) /\ Len(Tail(q)) = Len(q) - 1
         /\ DOMAIN Tail(q) = 1 .. Len(q) - 1
         /\ Head(q) = q[1] /\ q[1] \in S
         /\ \A i \in DOMAIN Tail(q) : Tail(q)[i] = q[i + 1]
BY HeadTailProperties, LenProperties, EmptySeq

LEMMA TailBehind ==
  ASSUME NEW q \in Seq(ChunkMsgType), q # <<>>, NEW i \in DOMAIN Tail(q)
  PROVE  /\ i + 1 \in DOMAIN q /\ Tail(q)[i] = q[i + 1]
         /\ \A j \in Behind(Tail(q), i) : j + 1 \in Behind(q, i + 1) /\ j \in Nat
         /\ \A j \in Behind(q, i + 1) : j - 1 \in Behind(Tail(q), i) /\ j \in Nat
<1>1. /\ Len(q) \in Nat /\ Len(q) >= 1 /\ DOMAIN q = 1 .. Len(q)
      /\ DOMAIN Tail(q) = 1 .. Len(q) - 1
      /\ \A k \in DOMAIN Tail(q) : Tail(q)[k] = q[k + 1]
  BY TailShape
<1>2. i \in Nat /\ i + 1 \in DOMAIN q /\ Tail(q)[i] = q[i + 1]
  BY <1>1
<1>3. ASSUME NEW j \in Behind(Tail(q), i) PROVE j + 1 \in Behind(q, i + 1) /\ j \in Nat
  <2>1. j \in DOMAIN Tail(q) /\ j > i /\ Tail(q)[j].kind = "flush"
    BY DEF Behind
  <2> QED
    BY <1>1, <1>2, <2>1 DEF Behind
<1>4. ASSUME NEW j \in Behind(q, i + 1) PROVE j - 1 \in Behind(Tail(q), i) /\ j \in Nat
  <2>1. j \in DOMAIN q /\ j > i + 1 /\ q[j].kind = "flush"
    BY DEF Behind
  <2>2. j - 1 \in DOMAIN Tail(q) /\ j - 1 > i /\ Tail(q)[j - 1] = q[j]
    BY <1>1, <1>2, <2>1
  <2> QED
    BY <1>1, <2>1, <2>2 DEF Behind
<1> QED
  BY <1>2, <1>3, <1>4

(* Taking the first message leaves the others as they are.                   *)
LEMMA TailLine ==
  ASSUME NEW q \in Seq(ChunkMsgType), q # <<>>, NEW b
  PROVE  /\ AllBehind(q, b) => AllBehind(Tail(q), b)
         /\ Split(q, b) => Split(Tail(q), b)
         /\ AllIntact(q) => AllIntact(Tail(q))
<1>1. ASSUME AllBehind(q, b) PROVE AllBehind(Tail(q), b)
  <2> SUFFICES ASSUME NEW i \in DOMAIN Tail(q), Tail(q)[i].kind = "data"
               PROVE  /\ Behind(Tail(q), i) # {}
                      /\ (\A j, k \in Behind(Tail(q), i) : j = k) => Tail(q)[i].buf = b
    BY DEF AllBehind
  <2>1. i + 1 \in DOMAIN q /\ Tail(q)[i] = q[i + 1]
    BY TailBehind
  <2>2. /\ Behind(q, i + 1) # {}
        /\ (\A j, k \in Behind(q, i + 1) : j = k) => q[i + 1].buf = b
    BY <1>1, <2>1 DEF AllBehind
  <2>3. Behind(Tail(q), i) # {}
    BY <2>2, TailBehind
  <2>4. ASSUME \A j, k \in Behind(Tail(q), i) : j = k
        PROVE  \A j, k \in Behind(q, i + 1) : j = k
    <3> TAKE j, k \in Behind(q, i + 1)
    <3>1. j - 1 = k - 1 /\ j \in Nat /\ k \in Nat
      BY <2>4, TailBehind
    <3> QED
      BY <3>1
  <2> QED
    BY <2>1, <2>2, <2>3, <2>4
<1>2. ASSUME Split(q, b) PROVE Split(Tail(q), b)
  <2> SUFFICES ASSUME NEW i \in DOMAIN Tail(q), Tail(q)[i].kind = "data"
               PROVE  Tail(q)[i].buf = IF Behind(Tail(q), i) = {} THEN b ELSE 1 - b
    BY DEF Split
  <2>1. i + 1 \in DOMAIN q /\ Tail(q)[i] = q[i + 1]
    BY TailBehind
  <2>2. Behind(Tail(q), i) = {} <=> Behind(q, i + 1) = {}
    BY TailBehind
  <2>3. q[i + 1].buf = IF Behind(q, i + 1) = {} THEN b ELSE 1 - b
    BY <1>2, <2>1 DEF Split
  <2> QED
    BY <2>1, <2>2, <2>3
<1>3. ASSUME AllIntact(q) PROVE AllIntact(Tail(q))
  BY <1>3, TailBehind DEF AllIntact
<1> QED
  BY <1>1, <1>2, <1>3

LEMMA AppendShape ==
  ASSUME NEW q \in Seq(ChunkMsgType), NEW m \in ChunkMsgType
  PROVE  /\ Append(q, m) \in Seq(ChunkMsgType) /\ Len(q) \in Nat
         /\ DOMAIN q = 1 .. Len(q) /\ DOMAIN Append(q, m) = 1 .. Len(q) + 1
         /\ Append(q, m)[Len(q) + 1] = m
         /\ \A i \in DOMAIN q : Append(q, m)[i] = q[i]
OBVIOUS

LEMMA AppendIntact ==
  ASSUME NEW q \in Seq(ChunkMsgType), NEW m \in ChunkMsgType, AllIntact(q),
         m.kind = "data" => Intact(m)
  PROVE  AllIntact(Append(q, m))
BY AppendShape DEF AllIntact

(* A flush comes behind all data; what had none behind it has just this one. *)
LEMMA AppendFlush ==
  ASSUME NEW q \in Seq(ChunkMsgType), NEW m \in ChunkMsgType, m.kind = "flush",
         NEW b, Split(q, b)
  PROVE  AllBehind(Append(q, m), b)
<1> DEFINE p == Append(q, m)
           n == Len(q) + 1
<1>1. /\ n \in Nat /\ DOMAIN q = 1 .. n - 1 /\ DOMAIN p = 1 .. n /\ p[n] = m
      /\ \A i \in DOMAIN q : p[i] = q[i]
  BY AppendShape
<1> HIDE DEF p, n
<1> SUFFICES ASSUME NEW i \in DOMAIN p, p[i].kind = "data"
             PROVE  /\ Behind(p, i) # {}
                    /\ (\A j, k \in Behind(p, i) : j = k) => p[i].buf = b
  BY DEF AllBehind, p
<1>2. i \in DOMAIN q /\ p[i] = q[i] /\ i < n
  BY <1>1
<1>3. n \in Behind(p, i)
  BY <1>1, <1>2 DEF Behind
<1>4. ASSUME \A j, k \in Behind(p, i) : j = k PROVE Behind(q, i) = {}
  <2> SUFFICES ASSUME NEW j \in Behind(q, i) PROVE FALSE
    OBVIOUS
  <2>1. j \in DOMAIN q /\ j > i /\ q[j].kind = "flush"
    BY DEF Behind
  <2>2. j \in Behind(p, i) /\ j # n
    BY <1>1, <2>1 DEF Behind
  <2> QED
    BY <1>3, <1>4, <2>2
<1> QED
  BY <1>2, <1>3, <1>4 DEF Split

LEMMA AppendData ==
  ASSUME NEW q \in Seq(ChunkMsgType), NEW m \in ChunkMsgType, m.kind = "data",
         NEW b, Split(q, b), m.buf = b
  PROVE  Split(Append(q, m), b)
<1> DEFINE p == Append(q, m)
           n == Len(q) + 1
<1>1. /\ n \in Nat /\ DOMAIN q = 1 .. n - 1 /\ DOMAIN p = 1 .. n /\ p[n] = m
      /\ \A i \in DOMAIN q : p[i] = q[i]
  BY AppendShape
<1> HIDE DEF p, n
<1>2. \A i \in DOMAIN q : Behind(p, i) = Behind(q, i)
  BY <1>1 DEF Behind
<1>3. Behind(p, n) = {}
  BY <1>1 DEF Behind
<1> SUFFICES ASSUME NEW i \in DOMAIN p, p[i].kind = "data"
             PROVE  p[i].buf = IF Behind(p, i) = {} THEN b ELSE 1 - b
  BY DEF Split, p
<1>4. CASE i = n
  BY <1>1, <1>3, <1>4
<1>5. CASE i # n
  <2>1. i \in DOMAIN q
    BY <1>1, <1>5
  <2> QED
    BY <1>1, <1>2, <2>1 DEF Split
<1> QED
  BY <1>4, <1>5

(* With one flush in the line, all data in front of it is in one buffer.     *)
LEMMA OneBehind ==
  ASSUME NEW q \in Seq(ChunkMsgType), NEW b, AllBehind(q, b),
         \A j, k \in Flushes(q) : j = k
  PROVE  \A i \in DOMAIN q : q[i].kind = "data" => q[i].buf = b /\ Behind(q, i) # {}
<1> TAKE i \in DOMAIN q
<1>1. \A j \in Behind(q, i) : j \in Flushes(q)
  BY DEF Behind, Flushes
<1>2. \A j, k \in Behind(q, i) : j = k
  BY <1>1
<1> QED
  BY <1>2 DEF AllBehind

-----------------------------------------------------------------------------
(* How the line changes.                                                     *)

LEMMA LineShape ==
  ASSUME TypeOK
  PROVE  /\ chunkQueue \in Seq(ChunkMsgType) /\ decMsg \in ChunkMsgType
         /\ Line \in Seq(ChunkMsgType)
         /\ decPc = "chunk" => /\ Line = <<decMsg>> \o chunkQueue
                               /\ Len(Line) = Len(chunkQueue) + 1 /\ Line # <<>>
                               /\ Line[1] = decMsg
                               /\ \A i \in DOMAIN chunkQueue : Line[i + 1] = chunkQueue[i]
         /\ decPc # "chunk" => Line = chunkQueue
<1>1. chunkQueue \in Seq(ChunkMsgType) /\ decMsg \in ChunkMsgType
  BY DEF TypeOK, QueueTypeOK, DecTypeOK
<1>2. <<decMsg>> \in Seq(ChunkMsgType) /\ Len(<<decMsg>>) = 1 /\ <<decMsg>>[1] = decMsg
  BY <1>1
<1>3. /\ <<decMsg>> \o chunkQueue \in Seq(ChunkMsgType)
      /\ Len(<<decMsg>> \o chunkQueue) = Len(chunkQueue) + 1
      /\ \A i \in 1 .. Len(chunkQueue) + 1 : (<<decMsg>> \o chunkQueue)[i] =
            IF i <= 1 THEN <<decMsg>>[i] ELSE chunkQueue[i - 1]
  BY <1>1, <1>2, ConcatProperties
<1>4. Len(chunkQueue) \in Nat /\ DOMAIN chunkQueue = 1 .. Len(chunkQueue)
  BY <1>1
<1> DEFINE q == <<decMsg>> \o chunkQueue
<1>5. /\ q[1] = decMsg /\ q # <<>>
      /\ \A i \in DOMAIN chunkQueue : q[i + 1] = chunkQueue[i]
  <2>1. q[1] = decMsg
    BY <1>2, <1>3, <1>4
  <2>2. q # <<>>
    BY <1>3, <1>4, EmptySeq
  <2>3. ASSUME NEW i \in DOMAIN chunkQueue PROVE q[i + 1] = chunkQueue[i]
    <3>1. i \in Nat /\ i + 1 \in 1 .. Len(chunkQueue) + 1 /\ ~(i + 1 <= 1) /\ (i + 1) - 1 = i
      BY <1>4
    <3> QED
      BY <1>3, <3>1
  <2> QED
    BY <2>1, <2>2, <2>3
<1> QED
  BY <1>1, <1>3, <1>5 DEF Line

LEMMA LineAppend ==
  ASSUME TypeOK, NEW m \in ChunkMsgType, chunkQueue' = Append(chunkQueue, m),
         decMsg' = decMsg, decPc' = "chunk" <=> decPc = "chunk"
  PROVE  Line' = Append(Line, m)
<1>1. chunkQueue \in Seq(ChunkMsgType) /\ decMsg \in ChunkMsgType /\ <<m>> \in Seq(ChunkMsgType)
  BY LineShape
<1>2. CASE decPc = "chunk"
  <2>1. <<decMsg>> \in Seq(ChunkMsgType) /\ <<decMsg>> \o chunkQueue \in Seq(ChunkMsgType)
    BY <1>1, ConcatProperties
  <2>2. Append(chunkQueue, m) = chunkQueue \o <<m>>
    BY <1>1, AppendIsConcat
  <2>3. Append(<<decMsg>> \o chunkQueue, m) = (<<decMsg>> \o chunkQueue) \o <<m>>
    BY <2>1, AppendIsConcat
  <2>4. (<<decMsg>> \o chunkQueue) \o <<m>> = <<decMsg>> \o (chunkQueue \o <<m>>)
    BY <1>1, <2>1, ConcatAssociative
  <2>5. Line = <<decMsg>> \o chunkQueue /\ Line' = <<decMsg>> \o chunkQueue'
    BY <1>2 DEF Line
  <2> QED
    BY <2>2, <2>3, <2>4, <2>5
<1>3. CASE decPc # "chunk"
  BY <1>3 DEF Line
<1> QED
  BY <1>2, <1>3

(* A chunk that is received stays in the line.                               *)
LEMMA LineReceived ==
  ASSUME TypeOK, chunkQueue # <<>>, chunkQueue' = Tail(chunkQueue), decPc # "chunk",
         decPc' = "chunk", decMsg' = Head(chunkQueue)
  PROVE  Line' = Line
<1>1. chunkQueue \in Seq(ChunkMsgType) /\ Line = chunkQueue
  BY LineShape
<1> DEFINE h == Head(chunkQueue)
           t == Tail(chunkQueue)
<1>2. /\ Len(chunkQueue) \in Nat /\ Len(chunkQueue) >= 1 /\ DOMAIN t = 1 .. Len(chunkQueue) - 1
      /\ t \in Seq(ChunkMsgType) /\ Len(t) = Len(chunkQueue) - 1
      /\ h = chunkQueue[1] /\ h \in ChunkMsgType
      /\ \A i \in DOMAIN t : t[i] = chunkQueue[i + 1]
  BY <1>1, TailShape
<1>3. Line' = <<h>> \o t
  BY DEF Line
<1> HIDE DEF h, t
<1>4. <<h>> \in Seq(ChunkMsgType) /\ Len(<<h>>) = 1 /\ <<h>>[1] = h
  BY <1>2
<1>5. /\ <<h>> \o t \in Seq(ChunkMsgType)
      /\ Len(<<h>> \o t) = Len(chunkQueue)
      /\ \A i \in 1 .. Len(chunkQueue) : (<<h>> \o t)[i] = IF i <= 1 THEN <<h>>[i] ELSE t[i - 1]
  BY <1>2, <1>4, ConcatProperties
<1>6. ASSUME NEW i \in 1 .. Len(chunkQueue) PROVE (<<h>> \o t)[i] = chunkQueue[i]
  <2>1. CASE i = 1
    BY <1>2, <1>4, <1>5, <2>1
  <2>2. CASE i > 1
    <3>1. i - 1 \in DOMAIN t /\ (i - 1) + 1 = i /\ ~(i <= 1)
      BY <1>2, <2>2
    <3> QED
      BY <1>2, <1>5, <3>1
  <2> QED
    BY <1>2, <2>1, <2>2
<1>7. <<h>> \o t = chunkQueue
  BY <1>1, <1>5, <1>6, SeqEqual
<1> QED
  BY <1>1, <1>3, <1>7

LEMMA LineDecoded ==
  ASSUME TypeOK, decPc = "chunk", decPc' # "chunk", chunkQueue' = chunkQueue
  PROVE  Line # <<>> /\ Line' = Tail(Line)
<1>1. /\ chunkQueue \in Seq(ChunkMsgType) /\ Line \in Seq(ChunkMsgType) /\ Line # <<>>
      /\ Len(Line) = Len(chunkQueue) + 1
      /\ \A i \in DOMAIN chunkQueue : Line[i + 1] = chunkQueue[i]
  BY LineShape
<1>2. /\ Tail(Line) \in Seq(ChunkMsgType) /\ Len(Tail(Line)) = Len(chunkQueue)
      /\ DOMAIN Tail(Line) = 1 .. Len(chunkQueue)
      /\ \A i \in DOMAIN Tail(Line) : Tail(Line)[i] = Line[i + 1]
  <2>1. Len(chunkQueue) \in Nat
    BY <1>1
  <2> HIDE DEF Line
  <2> QED
    BY <1>1, <2>1, TailShape
<1>3. \A i \in 1 .. Len(chunkQueue) : Tail(Line)[i] = chunkQueue[i]
  BY <1>1, <1>2
<1>4. Tail(Line) = chunkQueue
  BY <1>1, <1>2, <1>3, SeqEqual
<1>5. Line' = chunkQueue
  BY DEF Line
<1> QED
  BY <1>1, <1>4, <1>5

(* While the reader holds a token, one flush at most is on its way.          *)
LEMMA OneFlush ==
  ASSUME TypeOK, SessionInv, rdrHolds, decPc = "chunk" => decMsg.kind = "data"
  PROVE  \A j, k \in Flushes(Line) : j = k
<1>1. Counted /\ chunkQueue \in Seq(ChunkMsgType) /\ pool \in 0 .. ChunkBufCount
  BY CountedPool, LineShape DEF SessionInv, TypeOK, QueueTypeOK
<1>2. IsFiniteSet(Flushes(chunkQueue)) /\ Cardinality(Flushes(chunkQueue)) \in Nat
  BY <1>1, FlushesFinite
<1>3. Cardinality(Flushes(chunkQueue)) <= 1
  BY <1>1, <1>2 DEF Counted, ChunkBufCount
<1>4. ASSUME NEW j \in Flushes(chunkQueue), NEW k \in Flushes(chunkQueue) PROVE j = k
  <2>1. IsFiniteSet({j}) /\ Cardinality({j}) = 1
    BY FS_Singleton
  <2>2. {j} \subseteq Flushes(chunkQueue)
    OBVIOUS
  <2>3. Cardinality({j}) <= Cardinality(Flushes(chunkQueue))
    BY <1>2, <2>2, FS_Subset
  <2>4. Cardinality(Flushes(chunkQueue)) = Cardinality({j})
    BY <1>2, <1>3, <2>1, <2>3
  <2>5. {j} = Flushes(chunkQueue)
    BY <1>2, <2>2, <2>4, FS_Subset
  <2> QED
    BY <2>5
<1>5. CASE decPc # "chunk"
  BY <1>4, <1>5, LineShape
<1>6. CASE decPc = "chunk"
  <2>1. /\ Line \in Seq(ChunkMsgType) /\ Len(Line) = Len(chunkQueue) + 1 /\ Line[1] = decMsg
        /\ \A i \in DOMAIN chunkQueue : Line[i + 1] = chunkQueue[i]
    BY <1>6, LineShape
  <2>2. /\ Len(chunkQueue) \in Nat /\ DOMAIN chunkQueue = 1 .. Len(chunkQueue)
        /\ DOMAIN Line = 1 .. Len(chunkQueue) + 1
    BY <1>1, <2>1, LenProperties
  <2>3. ASSUME NEW j \in Flushes(Line) PROVE j - 1 \in Flushes(chunkQueue) /\ j \in Nat
    <3>1. j \in DOMAIN Line /\ Line[j].kind = "flush"
      BY DEF Flushes
    <3>2. j # 1
      BY <1>6, <2>1, <3>1
    <3>3. j - 1 \in DOMAIN chunkQueue /\ (j - 1) + 1 = j /\ j \in Nat
      BY <2>2, <3>1, <3>2
    <3>4. Line[j] = chunkQueue[j - 1]
      BY <2>1, <3>3
    <3> QED
      BY <3>1, <3>3, <3>4 DEF Flushes
  <2> TAKE j, k \in Flushes(Line)
  <2>4. j - 1 = k - 1 /\ j \in Nat /\ k \in Nat
    BY <1>4, <2>3
  <2> QED
    BY <2>4
<1> QED
  BY <1>5, <1>6

-----------------------------------------------------------------------------
(* What the reader asked for and what it got.                                *)

Wanted == Content(loaded, rdrChunk)
Arrived == rdrPc \in {"wait", "waitStop"} /\ "reader" \in notified /\ result.ok

Reads ==
  rdrPc \in {"wait", "waitStop"} =>
    /\ \A i \in DOMAIN readQueue : readQueue[i].who = "reader" => readQueue[i].src = Wanted
    /\ cartReq # NoReq /\ cartReq.who = "reader" => cartReq.src = Wanted
    /\ Arrived => result.buf = 1 - bufIndex /\ bufData[result.buf] = Wanted

(* The reader has not read yet; has a buffer; is about to get the next one.  *)
Empty == rdrPc \in {"loop", "loadWindow", "bounds"} /\ rdrBuf = None
Owns  == rdrPc \in {"loop", "loadWindow", "bounds", "send", "flush"} /\ rdrBuf # None
Asks  == rdrPc \in {"take", "request", "wait", "waitStop"}

Buffered ==
  /\ Empty => Line = <<>>
  /\ Owns => /\ bufIndex = 1 - rdrBuf /\ bufData[rdrBuf] = Content(loaded, rdrBase)
             /\ Split(Line, rdrBuf)
  /\ Asks => AllBehind(Line, IF Arrived THEN bufIndex ELSE 1 - bufIndex)
  /\ AllIntact(Line)
  /\ decPc = "chunk" => decMsg.kind = "data"

BufferInv == EndInv /\ WakeInv /\ Reads /\ Buffered

LEMMA BufferInit == Init => BufferInv
<1> SUFFICES ASSUME Init PROVE BufferInv
  OBVIOUS
<1>1. WakeInv
  BY DEF Init, WakeInv, NoLostWakeup, Outstanding
<1>2. Reads
  BY DEF Init, Reads
<1>3. Line = <<>>
  BY DEF Init, Line
<1>4. Buffered
  BY <1>3 DEF Init, Buffered, Empty, Owns, Asks, AllIntact
<1> QED
  BY <1>1, <1>2, <1>4, EndInit DEF BufferInv

(* A reader at rest leaves only the line to look at.                         *)
LEMMA RestBuffers ==
  ASSUME AllIntact(Line), rdrPc' = "idle", decPc' # "chunk",
         Line' = <<>> \/ (Line' = Line /\ bufData' = bufData)
  PROVE  Reads' /\ Buffered'
<1>1. Reads'
  BY DEF Reads
<1>2. AllIntact(Line)'
  BY DEF AllIntact, Intact
<1>3. Buffered'
  BY <1>2 DEF Buffered, Empty, Owns, Asks
<1> QED
  BY <1>1, <1>3

(* Steps that touch no buffer and neither give the reader one nor take it.   *)
LEMMA BufferedMoves ==
  ASSUME TypeOK, Buffered,
         UNCHANGED <<rdrPc, rdrBuf, rdrBase, bufIndex, bufData, loaded>>,
         Arrived' <=> Arrived,
         Line' = Line \/ (Line # <<>> /\ Line' = Tail(Line)),
         decPc' = "chunk" => decMsg'.kind = "data"
  PROVE  Buffered'
<1>1. Line \in Seq(ChunkMsgType)
  BY LineShape
<1>2. (Empty' <=> Empty) /\ (Owns' <=> Owns) /\ (Asks' <=> Asks)
  BY DEF Empty, Owns, Asks
<1> DEFINE b == IF Arrived THEN bufIndex ELSE 1 - bufIndex
<1>3. b' = b
  OBVIOUS
<1>4. ASSUME Empty PROVE Line' = <<>>
  BY <1>4 DEF Buffered
<1>5. AllIntact(Line) /\ (Owns => Split(Line, rdrBuf)) /\ (Asks => AllBehind(Line, b))
  BY DEF Buffered
<1> HIDE DEF b
<1>6. AllIntact(Line') /\ (Owns => Split(Line', rdrBuf)) /\ (Asks => AllBehind(Line', b))
  <2>1. CASE Line' = Line
    BY <1>5, <2>1
  <2>2. CASE Line # <<>> /\ Line' = Tail(Line)
    BY <1>1, <1>5, <2>2, TailLine
  <2> QED
    BY <2>1, <2>2
<1>7. AllIntact(Line)'
  BY <1>6 DEF AllIntact, Intact
<1>8. Owns' => /\ bufIndex' = 1 - rdrBuf' /\ bufData'[rdrBuf'] = Content(loaded', rdrBase')
               /\ Split(Line', rdrBuf')
  BY <1>2, <1>6 DEF Buffered
<1>9. Asks' => AllBehind(Line', b')
  BY <1>2, <1>3, <1>6
<1> QED
  BY <1>2, <1>4, <1>7, <1>8, <1>9 DEF Buffered, b

LEMMA LineMoves ==
  ASSUME TypeOK, Reads, Buffered,
         UNCHANGED <<rdrPc, rdrBuf, rdrBase, rdrChunk, bufIndex, bufData, loaded, result,
                     readQueue, cartReq>>,
         "reader" \in notified' <=> "reader" \in notified,
         Line' = Line \/ (Line # <<>> /\ Line' = Tail(Line)),
         decPc' = "chunk" => decMsg'.kind = "data"
  PROVE  Reads' /\ Buffered'
<1>1. Reads' /\ (Arrived' <=> Arrived)
  BY DEF Reads, Wanted, Arrived
<1> QED
  BY <1>1, BufferedMoves

LEMMA SvcBuffers ==
  ASSUME TypeOK, BufferInv, Svc PROVE Reads' /\ Buffered'
<1>1. EndInv /\ SessionInv /\ Ended /\ Reads /\ Buffered
  BY DEF BufferInv, EndInv
<1>2. /\ UNCHANGED <<rdrVars, decVars, bufIndex, bufData, result, cartReq>>
      /\ "reader" \in notified' <=> "reader" \in notified
      /\ readQueue' = readQueue \/ (svcPc = "start" /\ PipelineIdle)
      /\ loaded' = loaded \/ svcPc \in {"stopped", "load"}
      /\ chunkQueue' = chunkQueue \/ (chunkQueue' = <<>> /\ svcPc \in {"stopReset", "commit", "startReset"})
  <2>1. CASE \/ SvcSwitch \/ SvcSeek \/ SvcPause \/ SvcComplete \/ SvcCartridge
    <3>1. PICK K : SvcTake(K)
      BY <2>1 DEF SvcSwitch, SvcSeek, SvcPause, SvcComplete, SvcCartridge
    <3>2. loaded' = loaded
      BY <2>1 DEF SvcSwitch, SvcSeek, SvcPause, SvcComplete, SvcCartridge, trackVars
    <3> QED
      BY <3>1, <3>2 DEF SvcTake, Others, cartVars
  <2>2. CASE SvcStop \/ SvcStopWait \/ SvcStopTimeout \/ SvcPaused \/ SvcRemoved \/ SvcInserted
    BY <2>2 DEF SvcStop, SvcStopWait, SvcStopTimeout, SvcPaused, SvcRemoved, SvcInserted,
                Others, cartVars, queueVars, trackVars
  <2>3. CASE SvcStart \/ SvcLoaded
    BY <2>3 DEF SvcStart, SvcLoaded, SvcStartFails, Others, cartVars, queueVars, trackVars
  <2>4. CASE SvcStopReset \/ SvcRestore \/ SvcStartReset
    BY <2>4 DEF SvcStopReset, SvcRestore, SvcStartReset, ResetPipeline, Others, cartVars, trackVars
  <2>5. CASE SvcCommit \/ SvcSendDecoder \/ SvcSendReader
    BY <2>5 DEF SvcCommit, SvcSendDecoder, SvcSendReader, Others, cartVars, queueVars, trackVars
  <2> QED
    BY <2>1, <2>2, <2>3, <2>4, <2>5 DEF Svc
<1>3. UNCHANGED <<rdrPc, rdrBuf, rdrBase, rdrChunk, decPc, decMsg>>
  BY <1>2 DEF rdrVars, decVars
<1>4. \/ Rest
      \/ readQueue' = readQueue /\ loaded' = loaded /\ chunkQueue' = chunkQueue
  <2>1. svcPc = "start" /\ PipelineIdle => Rest
    <3>1. svcPc = "start" => ~StartPending
      BY <1>1 DEF SessionInv, HandedOver
    <3> QED
      BY <1>1, <3>1, IdleRests
  <2>2. svcPc \in {"stopped", "load", "stopReset", "commit", "startReset"} => Rest
    BY <1>1 DEF SessionInv, HandedOver
  <2> QED
    BY <1>2, <2>1, <2>2
<1>5. CASE Rest
  <2>1. rdrPc' = "idle" /\ decPc \in {"idle", "complete"} /\ decPc' \in {"idle", "complete"}
    BY <1>3, <1>5 DEF Rest
  <2>2. Line = chunkQueue /\ Line' = chunkQueue'
    BY <2>1 DEF Line
  <2>3. Line' = <<>> \/ (Line' = Line /\ bufData' = bufData)
    BY <1>2, <2>2
  <2> QED
    BY <1>1, <2>1, <2>3, RestBuffers DEF Buffered
<1>6. CASE readQueue' = readQueue /\ loaded' = loaded /\ chunkQueue' = chunkQueue
  <2>1. Line' = Line
    BY <1>3, <1>6 DEF Line
  <2>2. decPc' = "chunk" => decMsg'.kind = "data"
    BY <1>1, <1>3 DEF Buffered
  <2> QED
    BY <1>1, <1>2, <1>3, <1>6, <2>1, <2>2, LineMoves
<1> QED
  BY <1>4, <1>5, <1>6

LEMMA DecoderBuffers ==
  ASSUME TypeOK, BufferInv, Decoder PROVE Reads' /\ Buffered'
<1>1. Reads /\ Buffered
  BY DEF BufferInv
<1>2. /\ UNCHANGED <<rdrPc, rdrBuf, rdrBase, rdrChunk, bufIndex, bufData, loaded, result,
                     readQueue, cartReq, notified>>
  BY DEF Decoder, DecUnchanged, rdrVars, cartVars, trackVars
<1>3. CASE DecReceive
  <2>1. /\ decPc = "receive" /\ chunkQueue # <<>> /\ chunkQueue' = Tail(chunkQueue)
        /\ decPc' \in {"finish", "loop", "chunk"}
        /\ decPc' = "chunk" => decMsg' = Head(chunkQueue) /\ decMsg'.kind = "data"
    BY <1>3 DEF DecReceive, DecGoto
  <2>2. Line' = Line \/ (Line # <<>> /\ Line' = Tail(Line))
    <3>1. CASE decPc' = "chunk"
      BY <2>1, <3>1, LineReceived
    <3>2. CASE decPc' # "chunk"
      BY <2>1, <3>2 DEF Line
    <3> QED
      BY <3>1, <3>2
  <2> QED
    BY <1>1, <1>2, <2>1, <2>2, LineMoves
<1>4. CASE ~DecReceive
  <2>1. /\ chunkQueue' = chunkQueue
        /\ decPc' # "chunk"
    BY <1>4 DEF Decoder, DecTake, DecOpen, DecLoop, DecPoll, DecChunk, DecPush, DecWrite, DecFinish,
                DecAwait, DecTimeout, DecComplete, DecGoto, AwaitReader, queueVars
  <2>2. Line' = Line \/ (Line # <<>> /\ Line' = Tail(Line))
    <3>1. CASE decPc = "chunk"
      BY <2>1, <3>1, LineDecoded
    <3>2. CASE decPc # "chunk"
      BY <2>1, <3>2 DEF Line
    <3> QED
      BY <3>1, <3>2
  <2> QED
    BY <1>1, <1>2, <2>1, <2>2, LineMoves
<1> QED
  BY <1>3, <1>4

(* A read fills the buffer whose turn it is.  The reader's finds only data   *)
(* of the other one in the line, the service's finds no line at all.         *)
LEMMA ServeBuffers ==
  ASSUME Readable, TypeOK, BufferInv, Cart, CartServe PROVE Reads' /\ Buffered'
<1>1. EndInv /\ SessionInv /\ Ended /\ WakeInv /\ Reads /\ Buffered
  BY DEF BufferInv, EndInv
<1>2. /\ cartReq # NoReq /\ cartReq' = NoReq /\ readQueue' = readQueue
      /\ bufIndex' = 1 - bufIndex /\ bufData' = [bufData EXCEPT ![bufIndex] = cartReq.src]
      /\ result' = [ok |-> TRUE, buf |-> bufIndex] /\ notified' = notified \cup {cartReq.who}
  BY DEF CartServe, CartNotify
<1>3. UNCHANGED <<rdrPc, rdrBuf, rdrBase, rdrChunk, rdrHolds, loaded, chunkQueue, decPc, decMsg, svcPc>>
  BY DEF Cart, CartUnchanged, queueVars, trackVars, svcVars, rdrVars, decVars
<1>4. /\ bufIndex \in {0, 1} /\ bufData \in [Buffers -> ContentType] /\ Buffers = {0, 1}
      /\ cartReq.who \in {"svc", "reader"}
  BY DEF TypeOK, CartTypeOK, Buffers, ChunkBufCount, RequestType
<1>5. /\ bufData'[bufIndex] = cartReq.src
      /\ \A x \in {0, 1} : x # bufIndex => bufData'[x] = bufData[x]
  BY <1>2, <1>4
<1>6. CASE cartReq.who = "svc"
  <2>1. svcPc = "load"
    BY <1>1, <1>2, <1>6 DEF WakeInv, NoLostWakeup, Outstanding
  <2>2. Rest /\ chunkQueue = <<>>
    BY <1>1, <2>1 DEF SessionInv, HandedOver, Ended, Stopping
  <2>3. rdrPc' = "idle" /\ decPc' # "chunk" /\ Line' = <<>>
    BY <1>3, <2>2 DEF Rest, Line
  <2> QED
    BY <1>1, <2>3, RestBuffers DEF Buffered
<1>7. CASE cartReq.who = "reader"
  <2>1. /\ rdrPc \in {"wait", "waitStop"} /\ "reader" \notin notified
        /\ \A i \in DOMAIN readQueue : readQueue[i].who # "reader"
    BY <1>1, <1>2, <1>7 DEF WakeInv, NoLostWakeup, Outstanding
  <2>2. rdrHolds /\ ~Arrived /\ Asks
    BY <1>1, <2>1 DEF SessionInv, Tokens, Arrived, Asks
  <2>3. Line \in Seq(ChunkMsgType) /\ Line' = Line
    BY <1>3, LineShape DEF Line
  <2>4. \A i \in DOMAIN Line : Line[i].kind = "data" => Line[i].buf = 1 - bufIndex
    BY <1>1, <2>2, <2>3, OneBehind, OneFlush DEF Buffered
  <2>5. AllIntact(Line)'
    <3> SUFFICES ASSUME NEW i \in DOMAIN Line, Line[i].kind = "data"
                 PROVE  bufData'[Line[i].buf] = Line[i].src
      BY <2>3 DEF AllIntact, Intact
    <3>1. bufData[Line[i].buf] = Line[i].src
      BY <1>1 DEF Buffered, AllIntact, Intact
    <3>2. Line[i].buf = 1 - bufIndex
      BY <2>4
    <3> QED
      BY <1>4, <1>5, <3>1, <3>2
  <2>6. cartReq.src = Wanted
    BY <1>1, <1>2, <1>7, <2>1 DEF Reads
  <2>7. result'.ok /\ result'.buf = bufIndex /\ 1 - bufIndex' = bufIndex
    BY <1>2, <1>4
  <2>8. bufData'[result'.buf] = Wanted'
    BY <1>3, <1>5, <2>6, <2>7 DEF Wanted
  <2>9. Reads'
    BY <1>2, <2>1, <2>7, <2>8 DEF Reads
  <2>10. Arrived' /\ Asks' /\ ~Empty' /\ ~Owns'
    BY <1>2, <1>3, <1>7, <2>1, <2>7 DEF Arrived, Asks, Empty, Owns
  <2>11. AllBehind(Line', bufIndex')
    BY <1>1, <1>2, <2>2, <2>3 DEF Buffered
  <2>12. decPc' = "chunk" => decMsg'.kind = "data"
    BY <1>1, <1>3 DEF Buffered
  <2> QED
    BY <2>5, <2>9, <2>10, <2>11, <2>12 DEF Buffered
<1> QED
  BY <1>4, <1>6, <1>7

LEMMA CartBuffers ==
  ASSUME Readable, TypeOK, BufferInv, Cart PROVE Reads' /\ Buffered'
<1>1. SessionInv /\ WakeInv /\ Reads /\ Buffered
  BY DEF BufferInv, EndInv
<1>2. UNCHANGED <<rdrPc, rdrBuf, rdrBase, rdrChunk, loaded, chunkQueue, decPc, decMsg>>
  BY DEF Cart, CartUnchanged, queueVars, trackVars, rdrVars, decVars
<1>3. Line' = Line /\ (decPc' = "chunk" => decMsg'.kind = "data")
  BY <1>1, <1>2 DEF Line, Buffered
<1>4. CASE CartTake
  <2>1. /\ readQueue # <<>> /\ cartReq' = Head(readQueue) /\ readQueue' = <<>>
        /\ UNCHANGED <<bufIndex, bufData, result, notified>>
    BY <1>4 DEF CartTake
  <2>2. readQueue[1] = Head(readQueue) /\ 1 \in DOMAIN readQueue
    <3>1. readQueue \in Seq(RequestType)
      BY DEF TypeOK, CartTypeOK
    <3> QED
      BY <2>1, <3>1, TailShape
  <2>3. Reads' /\ (Arrived' <=> Arrived)
    BY <1>1, <1>2, <2>1, <2>2 DEF Reads, Wanted, Arrived
  <2> QED
    BY <1>1, <1>2, <1>3, <2>1, <2>3, BufferedMoves
<1>5. CASE CartRefuse
  <2>1. /\ cartReq # NoReq /\ cartReq' = NoReq /\ readQueue' = readQueue /\ ~result'.ok
        /\ UNCHANGED <<bufIndex, bufData>>
    BY <1>5 DEF CartRefuse, CartNotify, NoResult
  <2>2. ~Arrived
    <3> SUFFICES ASSUME Arrived PROVE FALSE
      OBVIOUS
    <3>1. cartReq.who = "svc"
      <4>1. cartReq.who \in {"svc", "reader"}
        BY DEF TypeOK, CartTypeOK, RequestType
      <4>2. cartReq.who # "reader"
        BY <1>1, <2>1 DEF Arrived, WakeInv, NoLostWakeup, Outstanding
      <4> QED
        BY <4>1, <4>2
    <3>2. svcPc = "load"
      BY <1>1, <2>1, <3>1 DEF WakeInv, NoLostWakeup, Outstanding
    <3> QED
      BY <1>1, <3>2 DEF SessionInv, HandedOver, Rest, Arrived
  <2>3. ~Arrived'
    BY <2>1 DEF Arrived
  <2>4. Reads'
    BY <1>1, <1>2, <2>1, <2>3 DEF Reads, Wanted
  <2> QED
    BY <1>1, <1>2, <1>3, <2>1, <2>2, <2>3, <2>4, BufferedMoves
<1>6. ~CartSeekFails
  BY DEF CartSeekFails, Readable
<1> QED
  BY <1>4, <1>5, <1>6, ServeBuffers DEF Cart

(* The reader's steps, by what they do to the line and to its buffer.        *)

(* It goes on with, or without, what it has.                                 *)
LEMMA ReaderKeeps ==
  ASSUME TypeOK, Buffered, rdrPc' \in {"wait", "waitStop"} => Reads' /\ ~Arrived',
         UNCHANGED <<chunkQueue, bufIndex, bufData, loaded, decMsg>>,
         decPc' = "chunk" <=> decPc = "chunk",
         Empty' => Empty,
         Owns' => Owns /\ UNCHANGED <<rdrBuf, rdrBase>>,
         Asks' => Empty \/ (Asks /\ ~Arrived)
  PROVE  Reads' /\ Buffered'
<1>1. Reads' /\ ~Arrived'
  BY DEF Reads, Arrived
<1>2. Line' = Line
  BY DEF Line
<1>3. AllIntact(Line)'
  BY <1>2 DEF Buffered, AllIntact, Intact
<1>4. Empty' => Line' = <<>>
  BY <1>2 DEF Buffered
<1>5. Owns' => /\ bufIndex' = 1 - rdrBuf' /\ bufData'[rdrBuf'] = Content(loaded', rdrBase')
               /\ Split(Line', rdrBuf')
  BY <1>2 DEF Buffered
<1>6. Asks' => AllBehind(Line', 1 - bufIndex')
  <2>1. CASE Asks /\ ~Arrived
    BY <1>2, <2>1 DEF Buffered
  <2>2. CASE Empty
    BY <1>2, <2>2 DEF Buffered, AllBehind
  <2> QED
    BY <2>1, <2>2
<1>7. decPc' = "chunk" => decMsg'.kind = "data"
  BY DEF Buffered
<1> QED
  BY <1>1, <1>3, <1>4, <1>5, <1>6, <1>7 DEF Buffered

(* It queues an end of file or a message for the buffer it has.              *)
LEMMA ReaderQueues ==
  ASSUME TypeOK, Buffered, NEW m \in ChunkMsgType, chunkQueue' = Append(chunkQueue, m),
         UNCHANGED <<rdrBuf, rdrBase, bufIndex, bufData, loaded, decMsg, decPc>>,
         \/ m.kind = "eof" /\ rdrPc' = "close"
         \/ m.kind = "flush" /\ rdrPc' = "take" /\ Owns
         \/ /\ m.kind = "data" /\ rdrPc' = "loop" /\ Owns
            /\ m.buf = rdrBuf /\ m.src = Content(loaded, rdrBase)
  PROVE  Reads' /\ Buffered'
<1>1. Reads' /\ ~Arrived'
  BY DEF Reads, Arrived
<1>2. Line \in Seq(ChunkMsgType) /\ Line' = Append(Line, m)
  BY LineShape, LineAppend
<1>3. m.kind = "data" => Intact(m)
  BY DEF Buffered, Intact
<1>4. AllIntact(Line')
  BY <1>2, <1>3, AppendIntact DEF Buffered
<1>5. AllIntact(Line)'
  BY <1>4 DEF AllIntact, Intact
<1>6. ~Empty'
  BY DEF Empty, Owns
<1>7. Owns' => /\ bufIndex' = 1 - rdrBuf' /\ bufData'[rdrBuf'] = Content(loaded', rdrBase')
               /\ Split(Line', rdrBuf')
  <2> SUFFICES ASSUME Owns' PROVE /\ bufIndex = 1 - rdrBuf /\ bufData[rdrBuf] = Content(loaded, rdrBase)
                                  /\ Split(Append(Line, m), rdrBuf)
    BY <1>2
  <2>1. Owns /\ m.kind = "data" /\ m.buf = rdrBuf
    BY DEF Owns
  <2> QED
    BY <1>2, <2>1, AppendData DEF Buffered
<1>8. Asks' => AllBehind(Line', 1 - bufIndex')
  <2> SUFFICES ASSUME Asks' PROVE AllBehind(Append(Line, m), 1 - bufIndex)
    BY <1>2
  <2>1. Owns /\ m.kind = "flush"
    BY DEF Asks
  <2>2. Split(Line, rdrBuf) /\ bufIndex = 1 - rdrBuf /\ rdrBuf \in {0, 1}
    BY <2>1 DEF Buffered, Owns, TypeOK, RdrTypeOK, Buffers, ChunkBufCount
  <2>3. 1 - bufIndex = rdrBuf
    BY <2>2
  <2> QED
    BY <1>2, <2>1, <2>2, <2>3, AppendFlush
<1>9. decPc' = "chunk" => decMsg'.kind = "data"
  BY DEF Buffered
<1> QED
  BY <1>1, <1>5, <1>6, <1>7, <1>8, <1>9 DEF Buffered

LEMMA ReaderBuffers ==
  ASSUME TypeOK, BufferInv, Reader PROVE Reads' /\ Buffered'
<1>1. EndInv /\ SessionInv /\ Begun /\ WakeInv /\ Reads /\ Buffered
  BY DEF BufferInv, EndInv
<1>2. /\ UNCHANGED <<bufIndex, bufData, result, cartReq, loaded, decMsg>>
      /\ decPc' = "chunk" <=> decPc = "chunk"
      /\ rdrPc # "close" => decPc' = decPc
  BY DEF Reader, RdrUnchanged, RdrTake, RdrBegin, RdrLoop, RdrLoadWindow, RdrBounds, RdrFlush,
         RdrTakeBuffer, RdrRequest, RdrPollStop, RdrNotified, RdrSend, RdrDone, RdrEof, RdrClose,
         RdrQueue, trackVars, cartVars
<1>3. CASE RdrTake \/ RdrDone \/ RdrClose
  <2>1. /\ rdrPc' \in {"got", "eof", "idle"}
        /\ UNCHANGED <<chunkQueue, rdrBuf, rdrBase>>
    BY <1>3 DEF RdrTake, RdrDone, RdrClose, RdrGoto
  <2>2. ~Empty' /\ ~Owns' /\ ~Asks'
    BY <2>1 DEF Empty, Owns, Asks
  <2> QED
    BY <1>1, <1>2, <2>1, <2>2, ReaderKeeps
<1>4. CASE RdrBegin
  <2>1. /\ rdrPc = "got" /\ rdrPc' \in {"done", "loop"} /\ rdrBuf' = None
        /\ UNCHANGED chunkQueue
    BY <1>4 DEF RdrBegin
  <2>2. Line' = <<>> /\ decPc' # "chunk"
    BY <1>1, <1>2, <2>1 DEF Begun, Starting, Line
  <2>3. Reads' /\ ~Owns' /\ ~Asks'
    BY <2>1 DEF Reads, Owns, Asks
  <2> QED
    BY <2>2, <2>3 DEF Buffered, AllIntact
<1>5. CASE RdrLoop \/ RdrLoadWindow \/ RdrBounds \/ RdrTakeBuffer
  <2>1. UNCHANGED <<chunkQueue, rdrBuf, rdrBase>>
    BY <1>5 DEF RdrLoop, RdrLoadWindow, RdrBounds, RdrTakeBuffer, RdrGoto, queueVars, rdrVars
  <2>2. \/ /\ rdrPc \in {"loop", "loadWindow"} /\ rdrPc' \in {"loadWindow", "bounds", "done"}
        \/ /\ rdrPc = "bounds" /\ rdrPc' \in {"loop", "bounds"}
        \/ /\ rdrPc = "bounds" /\ rdrBuf = None /\ rdrPc' = "take"
        \/ /\ rdrPc = "bounds" /\ rdrBuf # None /\ rdrPc' \in {"send", "flush"}
        \/ /\ rdrPc = "take" /\ rdrPc' \in {"request", "done"}
    <3>1. CASE RdrLoop \/ RdrLoadWindow \/ RdrTakeBuffer
      BY <3>1 DEF RdrLoop, RdrLoadWindow, RdrTakeBuffer, RdrGoto
    <3>2. CASE RdrBounds
      BY <3>2 DEF RdrBounds, RdrGoto, rdrVars
    <3> QED
      BY <1>5, <3>1, <3>2
  <2>3. /\ Empty' => Empty
        /\ Owns' => Owns /\ UNCHANGED <<rdrBuf, rdrBase>>
        /\ Asks' => Empty \/ (Asks /\ ~Arrived)
        /\ rdrPc' \notin {"wait", "waitStop"}
    BY <2>1, <2>2 DEF Empty, Owns, Asks, Arrived
  <2> QED
    BY <1>1, <1>2, <2>1, <2>3, ReaderKeeps
<1>6. CASE RdrFlush
  <2> DEFINE m == ChunkMsg("flush", rdrGen, 0, None, NoContent)
  <2>1. /\ rdrPc = "flush" /\ UNCHANGED <<rdrBuf, rdrBase>>
        /\ \/ rdrPc' = "take" /\ chunkQueue' = Append(chunkQueue, m)
           \/ rdrPc' = "done" /\ chunkQueue' = chunkQueue
    BY <1>6 DEF RdrFlush, RdrQueue
  <2>2. m \in ChunkMsgType /\ m.kind = "flush"
    BY Messages DEF ChunkMsg
  <2>3. rdrHolds
    BY <1>1, <2>1 DEF SessionInv, Tokens
  <2> HIDE DEF m
  <2>4. CASE rdrPc' = "take" /\ chunkQueue' = Append(chunkQueue, m)
    <3>1. Owns
      BY <1>1, <2>1 DEF Owns, SessionInv, Tokens
    <3> QED
      BY <1>1, <1>2, <2>1, <2>2, <2>4, <3>1, ReaderQueues
  <2>5. CASE rdrPc' = "done" /\ chunkQueue' = chunkQueue
    <3>1. ~Empty' /\ ~Owns' /\ ~Asks'
      BY <2>5 DEF Empty, Owns, Asks
    <3> QED
      BY <1>1, <1>2, <2>1, <2>5, <3>1, ReaderKeeps
  <2> QED
    BY <2>1, <2>4, <2>5
<1>7. CASE RdrRequest
  <2>1. /\ rdrPc = "request" /\ UNCHANGED <<chunkQueue, rdrChunk, rdrBase, notified>>
        /\ \/ rdrPc' = "done"
           \/ /\ rdrPc' = "wait" /\ rdrBuf' = rdrBuf
              /\ readQueue' = <<[who |-> "reader", src |-> Wanted, mount |-> mountGen]>>
    BY <1>7 DEF RdrRequest, RdrFail, RdrGoto, queueVars, Wanted
  <2>2. CASE rdrPc' = "done"
    BY <1>1, <1>2, <2>1, <2>2, ReaderKeeps DEF Empty, Owns, Asks
  <2>3. CASE /\ rdrPc' = "wait" /\ rdrBuf' = rdrBuf
             /\ readQueue' = <<[who |-> "reader", src |-> Wanted, mount |-> mountGen]>>
    <3>1. /\ "reader" \notin notified
          /\ cartReq # NoReq => cartReq.who # "reader"
      BY <1>1, <2>1 DEF WakeInv, NoLostWakeup, Outstanding
    <3>2. Wanted' = Wanted
      BY <1>2, <2>1 DEF Wanted
    <3>3. \A i \in DOMAIN readQueue' : readQueue'[i].src = Wanted
      BY <2>3
    <3>4. ~Arrived'
      BY <2>1, <3>1 DEF Arrived
    <3>5. Reads'
      BY <1>2, <3>1, <3>2, <3>3, <3>4 DEF Reads
    <3>6. Asks /\ ~Arrived /\ ~Empty' /\ ~Owns'
      BY <2>1, <2>3 DEF Asks, Arrived, Empty, Owns
    <3> QED
      BY <1>1, <1>2, <2>1, <3>4, <3>5, <3>6, ReaderKeeps
  <2> QED
    BY <2>1, <2>2, <2>3
<1>8. CASE RdrPollStop
  <2>1. /\ rdrPc = "wait" /\ rdrPc' = "waitStop" /\ "reader" \notin notified
        /\ UNCHANGED <<chunkQueue, rdrChunk, readQueue, notified>>
    BY <1>8 DEF RdrPollStop, RdrGoto, queueVars, cartVars
  <2>2. ~Arrived /\ ~Arrived' /\ Wanted' = Wanted /\ Asks /\ ~Empty' /\ ~Owns'
    BY <1>2, <2>1 DEF Arrived, Wanted, Asks, Empty, Owns
  <2>3. Reads'
    BY <1>1, <1>2, <2>1, <2>2 DEF Reads
  <2> QED
    BY <1>1, <1>2, <2>1, <2>2, <2>3, ReaderKeeps
<1>9. CASE RdrNotified
  <2>1. /\ rdrPc \in {"wait", "waitStop"} /\ chunkQueue' = chunkQueue
        /\ \/ rdrPc' = "done"
           \/ /\ rdrPc' = "send" /\ Arrived
              /\ rdrBuf' = result.buf /\ rdrBase' = rdrChunk
    BY <1>9 DEF RdrNotified, RdrFail, RdrGoto, queueVars, Arrived
  <2>2. CASE rdrPc' = "done"
    BY <1>1, <1>2, <2>1, <2>2, ReaderKeeps DEF Empty, Owns, Asks
  <2>3. CASE /\ rdrPc' = "send" /\ Arrived
             /\ rdrBuf' = result.buf /\ rdrBase' = rdrChunk
    <3>1. rdrBuf' = 1 - bufIndex /\ bufData[rdrBuf'] = Wanted /\ bufIndex \in {0, 1}
      BY <1>1, <2>1, <2>3 DEF Reads, TypeOK, CartTypeOK, Buffers, ChunkBufCount
    <3>2. rdrHolds /\ Asks /\ AllBehind(Line, bufIndex)
      BY <1>1, <2>1, <2>3 DEF SessionInv, Tokens, Asks, Buffered
    <3>3. Line \in Seq(ChunkMsgType) /\ Line' = Line
      BY <1>2, <2>1, LineShape DEF Line
    <3>4. \A i \in DOMAIN Line :
            Line[i].kind = "data" => Line[i].buf = bufIndex /\ Behind(Line, i) # {}
      BY <1>1, <3>2, <3>3, OneBehind, OneFlush DEF Buffered
    <3>5. Split(Line', rdrBuf')
      BY <3>1, <3>3, <3>4 DEF Split
    <3>6. AllIntact(Line)'
      BY <1>1, <1>2, <3>3 DEF Buffered, AllIntact, Intact
    <3>7. Reads' /\ ~Empty' /\ ~Asks'
      BY <2>3 DEF Reads, Empty, Asks
    <3>8. bufIndex' = 1 - rdrBuf' /\ bufData'[rdrBuf'] = Content(loaded', rdrBase')
      BY <1>2, <2>3, <3>1 DEF Wanted
    <3>9. decPc' = "chunk" => decMsg'.kind = "data"
      BY <1>1, <1>2 DEF Buffered
    <3> QED
      BY <3>5, <3>6, <3>7, <3>8, <3>9 DEF Buffered
  <2> QED
    BY <2>1, <2>2, <2>3
<1>10. CASE RdrSend
  <2> DEFINE m == ChunkMsg("data", rdrGen, rdrChunk, rdrBuf, Content(loaded, rdrBase))
  <2>1. /\ rdrPc = "send" /\ UNCHANGED <<rdrBuf, rdrBase>>
        /\ \/ rdrPc' = "loop" /\ chunkQueue' = Append(chunkQueue, m)
           \/ rdrPc' = "done" /\ chunkQueue' = chunkQueue
    BY <1>10 DEF RdrSend, RdrQueue
  <2>2. /\ m \in ChunkMsgType /\ m.kind = "data" /\ m.buf = rdrBuf
        /\ m.src = Content(loaded, rdrBase)
    BY <2>1, Messages DEF ChunkMsg
  <2>3. Owns
    BY <1>1, <2>1 DEF Owns, SessionInv, Tokens
  <2>4. decPc' = decPc
    BY <1>2, <2>1
  <2> HIDE DEF m
  <2>5. CASE rdrPc' = "loop" /\ chunkQueue' = Append(chunkQueue, m)
    BY <1>1, <1>2, <2>1, <2>2, <2>3, <2>4, <2>5, ReaderQueues
  <2>6. CASE rdrPc' = "done" /\ chunkQueue' = chunkQueue
    BY <1>1, <1>2, <2>6, ReaderKeeps DEF Empty, Owns, Asks
  <2> QED
    BY <2>1, <2>5, <2>6
<1>11. CASE RdrEof
  <2> DEFINE m == ChunkMsg("eof", rdrGen, 0, None, NoContent)
  <2>1. /\ rdrPc = "eof" /\ rdrPc' = "close" /\ UNCHANGED <<rdrBuf, rdrBase>>
        /\ chunkQueue' = Append(chunkQueue, m) \/ chunkQueue' = chunkQueue
    BY <1>11 DEF RdrEof, RdrQueue
  <2>2. m \in ChunkMsgType /\ m.kind = "eof"
    BY Messages DEF ChunkMsg
  <2>3. decPc' = decPc
    BY <1>2, <2>1
  <2> HIDE DEF m
  <2>4. CASE chunkQueue' = Append(chunkQueue, m)
    BY <1>1, <1>2, <2>1, <2>2, <2>3, <2>4, ReaderQueues
  <2>5. CASE chunkQueue' = chunkQueue
    BY <1>1, <1>2, <2>1, <2>5, ReaderKeeps DEF Empty, Owns, Asks
  <2> QED
    BY <2>1, <2>4, <2>5
<1> QED
  BY <1>3, <1>4, <1>5, <1>6, <1>7, <1>8, <1>9, <1>10, <1>11 DEF Reader

LEMMA OthersBuffers ==
  ASSUME TypeOK, BufferInv, Output \/ EventLoop \/ Callers \/ UNCHANGED vars
  PROVE  Reads' /\ Buffered'
<1>1. Reads /\ Buffered
  BY DEF BufferInv
<1>2. UNCHANGED <<rdrPc, rdrBuf, rdrBase, rdrChunk, bufIndex, bufData, loaded, result,
                  readQueue, cartReq, notified, chunkQueue, decPc, decMsg>>
  BY DEF Output, EventLoop, Callers, EnvUnchanged, PcmPull, DeliverEvent, QueueCmd, Request,
         RequestSwitch, RequestPause, RequestSeek, Unmount, Mount, vars, queueVars, trackVars,
         rdrVars, decVars, cartVars
<1>3. Line' = Line
  BY <1>2 DEF Line
<1>4. decPc' = "chunk" => decMsg'.kind = "data"
  BY <1>1, <1>2 DEF Buffered
<1> QED
  BY <1>1, <1>2, <1>3, <1>4, LineMoves

LEMMA BufferNext ==
  ASSUME Readable, TypeOK, BufferInv, [Next]_vars PROVE BufferInv'
<1>1. EndInv' /\ WakeInv'
  BY EndNext, WakeNext DEF BufferInv
<1>2. Reads' /\ Buffered'
  BY SvcBuffers, ReaderBuffers, DecoderBuffers, CartBuffers, OthersBuffers DEF Next
<1> QED
  BY <1>1, <1>2 DEF BufferInv

(* Double buffering: no data message, queued or in the decoder's hands, ever *)
(* loses the bytes its buffer held when the reader queued it.                *)
THEOREM BuffersIntact == Readable => (Spec => []ChunkIntact)
<1>1. TypeOK /\ BufferInv => ChunkIntact
  <2> SUFFICES ASSUME TypeOK, BufferInv PROVE ChunkIntact
    OBVIOUS
  <2>1. AllIntact(Line) /\ (decPc = "chunk" => decMsg.kind = "data")
    BY DEF BufferInv, Buffered
  <2>2. ASSUME NEW i \in DOMAIN chunkQueue, chunkQueue[i].kind = "data"
        PROVE  Intact(chunkQueue[i])
    <3>1. CASE decPc = "chunk"
      BY <2>1, <2>2, <3>1, LineShape DEF AllIntact
    <3>2. CASE decPc # "chunk"
      BY <2>1, <2>2, <3>2 DEF AllIntact, Line
    <3> QED
      BY <3>1, <3>2
  <2>3. decPc = "chunk" => Intact(decMsg)
    BY <2>1, LineShape DEF AllIntact
  <2> QED
    BY <2>2, <2>3 DEF ChunkIntact
<1>2. Readable => (Spec => []BufferInv)
  <2> SUFFICES ASSUME Readable PROVE Spec => []BufferInv
    OBVIOUS
  <2>1. Init => BufferInv
    BY BufferInit
  <2>2. TypeOK /\ BufferInv /\ [Next]_vars => BufferInv'
    BY BufferNext
  <2> QED
    BY <2>1, <2>2, TypeCorrect, PTL DEF Spec
<1> QED
  BY <1>1, <1>2, TypeCorrect, PTL

=============================================================================
