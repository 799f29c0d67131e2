----------------------- MODULE PlayerPipelineOrderProofs -----------------------
(***************************************************************************)
(* Proofs of what a playback session plays: in order (PlaysInOrder), to    *)
(* the end of its track (WholeTrack), without being given up               *)
(* (NeverGivenUp), and so the sessions of module Playback (OneSession).    *)
(*                                                                         *)
(* Order holds if sessions do not overlap (Orderly); the rest where in     *)
(* addition no read fails and the cartridge stays in (Faultless).          *)
(***************************************************************************)
EXTENDS PlayerPipelineSessionProofs, PlayerPipelineSessions

-----------------------------------------------------------------------------
(* The chunks of the data messages in q follow each other; the first is      *)
(* chunk c, the next to be queued chunk r.                                   *)
Chain(q, c, r) ==
  \E p \in [0 .. Len(q) -> 0 .. LookupLen] :
    /\ p[0] = c /\ p[Len(q)] = r
    /\ \A i \in 1 .. Len(q) :
         IF q[i].kind = "data" THEN q[i].chunk = p[i - 1] /\ p[i] = p[i - 1] + 1
                               ELSE p[i] = p[i - 1]

LEMMA ChainEmpty == ASSUME NEW c \in 0 .. LookupLen PROVE Chain(<<>>, c, c)
<1> DEFINE p == [i \in 0 .. 0 |-> c]
<1>1. Len(<<>>) = 0 /\ p \in [0 .. 0 -> 0 .. LookupLen] /\ p[0] = c
  OBVIOUS
<1> HIDE DEF p
<1> QED
  BY <1>1 DEF Chain

LEMMA ChainNone == ASSUME NEW c, NEW r, Chain(<<>>, c, r) PROVE c = r
  BY DEF Chain

LEMMA ChainAppend ==
  ASSUME NEW q \in Seq(ChunkMsgType), NEW m \in ChunkMsgType, NEW c, NEW r, Chain(q, c, r),
         m.kind = "data" => m.chunk = r /\ r < LookupLen
  PROVE  Chain(Append(q, m), c, IF m.kind = "data" THEN r + 1 ELSE r)
<1> DEFINE n == Len(q) + 1
           s == IF m.kind = "data" THEN r + 1 ELSE r
<1>1. /\ Len(q) \in Nat /\ Len(Append(q, m)) = n /\ Append(q, m)[n] = m
      /\ \A i \in 1 .. Len(q) : Append(q, m)[i] = q[i]
  OBVIOUS
<1>2. PICK p \in [0 .. Len(q) -> 0 .. LookupLen] :
        /\ p[0] = c /\ p[Len(q)] = r
        /\ \A i \in 1 .. Len(q) :
             IF q[i].kind = "data" THEN q[i].chunk = p[i - 1] /\ p[i] = p[i - 1] + 1
                                   ELSE p[i] = p[i - 1]
  BY DEF Chain
<1>3. r \in 0 .. LookupLen /\ s \in 0 .. LookupLen
  BY <1>1, <1>2, PipelineAssumption DEF PipelineAssumption
<1> HIDE DEF s
<1> DEFINE p2 == [i \in 0 .. n |-> IF i = n THEN s ELSE p[i]]
<1>4. /\ p2 \in [0 .. n -> 0 .. LookupLen] /\ p2[n] = s
      /\ \A i \in 0 .. Len(q) : p2[i] = p[i]
  BY <1>1, <1>2, <1>3
<1> HIDE DEF p2
<1>5. p2[0] = c /\ p2[n - 1] = r
  BY <1>1, <1>2, <1>4
<1>6. ASSUME NEW i \in 1 .. n
      PROVE  IF Append(q, m)[i].kind = "data"
             THEN Append(q, m)[i].chunk = p2[i - 1] /\ p2[i] = p2[i - 1] + 1
             ELSE p2[i] = p2[i - 1]
  <2>1. CASE i = n
    BY <1>1, <1>4, <1>5, <2>1 DEF s
  <2>2. CASE i # n
    <3>1. i \in 1 .. Len(q) /\ i \in 0 .. Len(q) /\ i - 1 \in 0 .. Len(q)
      BY <1>1, <2>2
    <3> QED
      BY <1>1, <1>2, <1>4, <3>1
  <2> QED
    BY <2>1, <2>2
<1>7. Chain(Append(q, m), c, s)
  BY <1>1, <1>4, <1>5, <1>6 DEF Chain
<1> QED
  BY <1>7 DEF s

LEMMA ChainTail ==
  ASSUME NEW q \in Seq(ChunkMsgType), q # <<>>, NEW c, NEW r, Chain(q, c, r)
  PROVE  IF Head(q).kind = "data" THEN Head(q).chunk = c /\ Chain(Tail(q), c + 1, r)
                                  ELSE Chain(Tail(q), c, r)
<1> DEFINE n == Len(q) - 1
           d == IF Head(q).kind = "data" THEN c + 1 ELSE c
<1>1. /\ Len(q) \in Nat /\ Len(q) >= 1 /\ n \in Nat /\ Len(Tail(q)) = n /\ Head(q) = q[1]
      /\ \A i \in 1 .. n : Tail(q)[i] = q[i + 1]
  BY TailShape
<1>2. PICK p \in [0 .. Len(q) -> 0 .. LookupLen] :
        /\ p[0] = c /\ p[Len(q)] = r
        /\ \A i \in 1 .. Len(q) :
             IF q[i].kind = "data" THEN q[i].chunk = p[i - 1] /\ p[i] = p[i - 1] + 1
                                   ELSE p[i] = p[i - 1]
  BY DEF Chain
<1>3. p[1] = d /\ (Head(q).kind = "data" => Head(q).chunk = c)
  BY <1>1, <1>2
<1> HIDE DEF d
<1> DEFINE p2 == [i \in 0 .. n |-> p[i + 1]]
<1>4. /\ p2 \in [0 .. n -> 0 .. LookupLen] /\ \A i \in 0 .. n : p2[i] = p[i + 1]
  BY <1>1, <1>2
<1> HIDE DEF p2
<1>5. p2[0] = d /\ p2[n] = r
  BY <1>1, <1>2, <1>3, <1>4
<1>6. ASSUME NEW i \in 1 .. n
      PROVE  IF Tail(q)[i].kind = "data"
             THEN Tail(q)[i].chunk = p2[i - 1] /\ p2[i] = p2[i - 1] + 1
             ELSE p2[i] = p2[i - 1]
  <2>1. /\ i + 1 \in 1 .. Len(q) /\ i \in 0 .. n /\ i - 1 \in 0 .. n
        /\ (i + 1) - 1 = i /\ (i - 1) + 1 = i
    BY <1>1
  <2> QED
    BY <1>1, <1>2, <1>4, <2>1
<1>7. Chain(Tail(q), d, r)
  BY <1>1, <1>4, <1>5, <1>6 DEF Chain
<1> QED
  BY <1>3, <1>7 DEF d

-----------------------------------------------------------------------------
(* From the service's assignments on, the position is where the session      *)
(* begins (Fresh); once the reader has its command, what is queued leads     *)
(* from the position to the reader's next chunk (InLine).                    *)

Fresh ==
  /\ svcPc \in {"startReset", "sendDecoder", "sendReader"} => currentChunk = svcChunk
  /\ readerCmd # <<>> => readerCmd[1].chunk = currentChunk
  /\ readerCmd # <<>> \/ svcPc \in {"sendDecoder", "sendReader"}
       => chunkQueue = <<>> /\ rdrPc = "idle"

Held == ~Rest \/ svcPc \in {"commit", "startReset", "sendDecoder", "sendReader"}
          => loaded # None

Fed == ~Rest /\ svcPc # "sendReader" /\ readerCmd = <<>>

InLine == Fed => \E c \in {currentChunk, currentChunk + 1} : Chain(chunkQueue, c, rdrChunk)

OrderInv == SessionInv /\ Fresh /\ Held /\ InLine

LEMMA OrderInit == Init => OrderInv
<1> SUFFICES ASSUME Init PROVE OrderInv
  OBVIOUS
<1>1. Rest
  BY DEF Init, Rest
<1>2. Fresh /\ Held /\ InLine
  BY <1>1 DEF Init, Fresh, Held, Fed, InLine
<1> QED
  BY <1>2, SessionInit DEF OrderInv

(* Steps that move neither the position nor what leads to it.                *)
LEMMA OrderMoves ==
  ASSUME OrderInv, UNCHANGED <<currentChunk, chunkQueue, rdrChunk, readerCmd>>,
         svcPc' \in {"startReset", "sendDecoder", "sendReader"} => UNCHANGED <<svcPc, svcChunk>>,
         rdrPc = "idle" => rdrPc' = "idle",
         Fed' => Fed, Held'
  PROVE  Fresh' /\ Held' /\ InLine'
<1>1. Fresh'
  BY DEF OrderInv, Fresh
<1>2. InLine'
  BY DEF OrderInv, InLine
<1> QED
  BY <1>1, <1>2

LEMMA SvcOrder == ASSUME TypeOK, OrderInv, Svc PROVE Fresh' /\ Held' /\ InLine'
<1>1. SessionInv /\ Fresh /\ Held /\ InLine
  BY DEF OrderInv
<1>2. UNCHANGED <<rdrPc, rdrChunk, decPc>>
  <2>1. UNCHANGED <<rdrVars, decVars>>
    BY DEF Svc, SvcSwitch, SvcSeek, SvcPause, SvcComplete, SvcCartridge, SvcTake, SvcStop,
           SvcStopWait, SvcStopTimeout, SvcStopReset, SvcPaused, SvcRemoved, SvcInserted, SvcStart,
           SvcStartFails, SvcLoaded, SvcCommit, SvcRestore, SvcStartReset, SvcSendDecoder,
           SvcSendReader, Others
  <2> QED
    BY <2>1 DEF rdrVars, decVars
<1>3. CASE \/ SvcSwitch \/ SvcSeek \/ SvcPause \/ SvcComplete \/ SvcCartridge
           \/ SvcStop \/ SvcStopWait \/ SvcStopTimeout
  <2>1. /\ UNCHANGED <<currentChunk, chunkQueue, readerCmd, decoderCmd, loaded>>
        /\ svcPc \in {"idle", "stop", "stopWait", "stopBlocked"}
        /\ svcPc' \in {"idle", "stop", "start", "stopWait", "stopBlocked", "stopReset"}
    <3>1. CASE \/ SvcSwitch \/ SvcSeek \/ SvcPause \/ SvcComplete \/ SvcCartridge
      <4>1. PICK K : SvcTake(K)
        BY <3>1 DEF SvcSwitch, SvcSeek, SvcPause, SvcComplete, SvcCartridge
      <4>2. svcPc = "idle" /\ UNCHANGED <<chunkQueue, readerCmd, decoderCmd>>
        BY <4>1 DEF SvcTake
      <4>3. svcPc' \in {svcPc, "stop", "start"} /\ UNCHANGED <<currentChunk, loaded>>
        BY <3>1 DEF SvcSwitch, SvcSeek, SvcPause, SvcComplete, SvcCartridge, Goto, svcVars,
                    playVars, trackVars
      <4> QED
        BY <4>2, <4>3
    <3>2. CASE SvcStop \/ SvcStopWait \/ SvcStopTimeout
      BY <3>2 DEF SvcStop, SvcStopWait, SvcStopTimeout, queueVars, playVars, trackVars
    <3> QED
      BY <1>3, <3>1, <3>2
  <2>2. Rest' <=> Rest
    BY <1>2, <2>1 DEF Rest
  <2>3. Held' /\ (Fed' => Fed)
    BY <1>1, <2>1, <2>2 DEF Held, Fed
  <2> QED
    BY <1>2, <2>1, <2>3, OrderMoves
<1>4. CASE SvcPaused \/ SvcRemoved \/ SvcInserted \/ SvcStart \/ SvcLoaded
  <2>1. /\ UNCHANGED <<currentChunk, chunkQueue, readerCmd, decoderCmd>>
        /\ svcPc \in {"stopped", "start", "load"}
        /\ svcPc' \in {"idle", "start", "load", "commit"}
        /\ loaded' = loaded \/ svcPc \in {"stopped", "load"}
        /\ svcPc' = "commit" => loaded' = svcTrack
    BY <1>4 DEF SvcPaused, SvcRemoved, SvcInserted, SvcStart, SvcLoaded, SvcStartFails, SvcIdle,
                Goto, queueVars, playVars, trackVars
  <2>2. Rest' <=> Rest
    BY <1>2, <2>1 DEF Rest
  <2>3. svcTrack # None
    BY PipelineAssumption DEF PipelineAssumption, TypeOK, SvcTypeOK, Tracks, None
  <2>4. svcPc \in {"stopped", "load"} => Rest
    BY <1>1 DEF SessionInv, HandedOver
  <2>5. Held' /\ (Fed' => Fed)
    BY <1>1, <2>1, <2>2, <2>3, <2>4 DEF Held, Fed
  <2> QED
    BY <1>2, <2>1, <2>5, OrderMoves
<1>5. CASE SvcStopReset \/ SvcRestore \/ SvcStartReset
  <2>1. /\ svcPc \in {"stopReset", "commit", "startReset"} /\ ResetPipeline
        /\ svcPc' \in {"idle", "start", "stopped"} \/ (svcPc = "startReset" /\ svcPc' = "sendDecoder"
                                                      /\ UNCHANGED <<svcChunk, currentChunk, loaded>>)
    BY <1>5 DEF SvcStopReset, SvcRestore, SvcStartReset, SvcIdle, Goto, playVars, trackVars
  <2>2. Rest
    BY <1>1, <2>1 DEF SessionInv, HandedOver
  <2>3. Rest' /\ chunkQueue' = <<>>
    BY <1>2, <2>1, <2>2 DEF ResetPipeline, Rest
  <2>4. Fresh'
    BY <1>1, <2>1, <2>3 DEF Fresh, Rest
  <2>5. Held'
    BY <1>1, <2>1, <2>3 DEF Held
  <2> QED
    BY <2>3, <2>4, <2>5 DEF InLine, Fed
<1>6. CASE SvcCommit
  <2>1. /\ svcPc = "commit" /\ svcPc' = "startReset" /\ currentChunk' = svcChunk'
        /\ UNCHANGED <<chunkQueue, readerCmd, decoderCmd, loaded>>
    BY <1>6 DEF SvcCommit, queueVars, trackVars
  <2>2. Rest'
    BY <1>1, <1>2, <2>1 DEF SessionInv, HandedOver, Rest
  <2>3. Fresh' /\ Held'
    BY <1>1, <2>1, <2>2 DEF Fresh, Held, Rest
  <2> QED
    BY <2>2, <2>3 DEF InLine, Fed
<1>7. CASE SvcSendDecoder
  <2>1. /\ svcPc = "sendDecoder" /\ svcPc' = "sendReader"
        /\ UNCHANGED <<currentChunk, chunkQueue, readerCmd, loaded, svcChunk>>
    BY <1>7 DEF SvcSendDecoder, playVars, trackVars
  <2> QED
    BY <1>1, <1>2, <2>1 DEF Fresh, Held, InLine, Fed
<1>8. CASE SvcSendReader
  <2>1. /\ svcPc = "sendReader" /\ svcPc' = "idle"
        /\ readerCmd' # <<>> /\ readerCmd'[1].chunk = svcChunk
        /\ UNCHANGED <<currentChunk, chunkQueue, loaded>>
    BY <1>8 DEF SvcSendReader, SvcIdle, Goto, playVars, trackVars
  <2> QED
    BY <1>1, <1>2, <2>1 DEF Fresh, Held, InLine, Fed
<1> QED
  BY <1>3, <1>4, <1>5, <1>6, <1>7, <1>8 DEF Svc

(* A reader at work is fed with nothing but what it queues.                  *)
LEMMA AtWorkFeeds ==
  ASSUME OrderInv, rdrPc # "idle"
  PROVE  /\ Fed /\ ~Rest /\ loaded # None
         /\ svcPc \notin {"startReset", "sendDecoder", "sendReader"}
  BY DEF OrderInv, SessionInv, HandedOver, Fresh, Held, Fed, Rest

LEMMA ReaderOrder == ASSUME TypeOK, OrderInv, Reader PROVE Fresh' /\ Held' /\ InLine'
<1>1. SessionInv /\ Fresh /\ Held /\ InLine
  BY DEF OrderInv
<1>2. /\ UNCHANGED <<currentChunk, svcChunk, loaded>>
      /\ rdrPc # "close" => svcPc' = svcPc /\ decPc' = decPc
      /\ svcPc' # svcPc => svcPc' = "stopReset"
  BY DEF Reader, RdrUnchanged, playVars, RdrTake, RdrBegin, RdrLoop, RdrLoadWindow, RdrBounds,
         RdrFlush, RdrTakeBuffer, RdrRequest, RdrPollStop, RdrNotified, RdrSend, RdrDone, RdrEof,
         RdrClose, RdrQueue, SetIdle, trackVars
<1>3. CASE RdrTake
  <2>1. /\ rdrPc = "idle" /\ rdrPc' = "got" /\ readerCmd # <<>> /\ readerCmd' = <<>>
        /\ rdrChunk' = Head(readerCmd).chunk /\ chunkQueue' = chunkQueue /\ decoderCmd' = decoderCmd
    BY <1>3 DEF RdrTake
  <2>2. /\ Head(readerCmd) = readerCmd[1] /\ svcPc = "idle" /\ svcPc' = "idle"
        /\ chunkQueue = <<>> /\ readerCmd[1].chunk = currentChunk
    <3>1. svcPc \in {"idle", "sendReader"} /\ svcPc # "sendReader"
      BY <1>1, <2>1 DEF SessionInv, HandedOver, StartPending
    <3> QED
      BY <1>1, <1>2, <2>1, <3>1 DEF Fresh
  <2>3. currentChunk \in 0 .. LookupLen
    BY PipelineAssumption DEF PipelineAssumption, TypeOK, PlayTypeOK, Chunks
  <2>4. Chain(chunkQueue', currentChunk', rdrChunk')
    BY <1>2, <2>1, <2>2, <2>3, ChainEmpty
  <2>5. ~Rest /\ Fresh' /\ Held'
    BY <1>1, <1>2, <2>1, <2>2 DEF Fresh, Held, Rest
  <2> QED
    BY <2>4, <2>5 DEF InLine
<1>4. CASE ~RdrTake
  <2>1. rdrPc # "idle" /\ readerCmd' = readerCmd
    BY <1>4 DEF Reader, RdrBegin, RdrLoop, RdrLoadWindow, RdrBounds, RdrFlush, RdrTakeBuffer,
                RdrRequest, RdrPollStop, RdrNotified, RdrSend, RdrDone, RdrEof, RdrClose, RdrQueue,
                RdrFail, queueVars
  <2>2. /\ Fed /\ ~Rest /\ loaded # None /\ readerCmd = <<>>
        /\ svcPc \notin {"startReset", "sendDecoder", "sendReader"}
    BY <2>1, AtWorkFeeds DEF Fed
  <2>3. Fresh' /\ Held'
    BY <1>2, <2>1, <2>2 DEF Fresh, Held
  <2>4. PICK c \in {currentChunk, currentChunk + 1} : Chain(chunkQueue, c, rdrChunk)
    BY <1>1, <2>2 DEF InLine
  <2>5. Chain(chunkQueue', c, rdrChunk')
    <3>1. CASE RdrFlush \/ RdrSend \/ RdrEof
      <4>1. chunkQueue \in Seq(ChunkMsgType)
        BY DEF TypeOK, QueueTypeOK
      <4>2. CASE RdrFlush
        <5> DEFINE m == ChunkMsg("flush", rdrGen, 0, None, NoContent)
        <5>1. rdrChunk' = rdrChunk /\ (chunkQueue' = chunkQueue \/ chunkQueue' = Append(chunkQueue, m))
          BY <4>2 DEF RdrFlush, RdrQueue
        <5>2. m \in ChunkMsgType /\ m.kind = "flush"
          BY Messages DEF ChunkMsg
        <5> HIDE DEF m
        <5> QED
          BY <2>4, <4>1, <5>1, <5>2, ChainAppend
      <4>3. CASE RdrEof
        <5> DEFINE m == ChunkMsg("eof", rdrGen, 0, None, NoContent)
        <5>1. rdrChunk' = rdrChunk /\ (chunkQueue' = chunkQueue \/ chunkQueue' = Append(chunkQueue, m))
          BY <4>3 DEF RdrEof, RdrQueue
        <5>2. m \in ChunkMsgType /\ m.kind = "eof"
          BY Messages DEF ChunkMsg
        <5> HIDE DEF m
        <5> QED
          BY <2>4, <4>1, <5>1, <5>2, ChainAppend
      <4>4. CASE RdrSend
        <5> DEFINE m == ChunkMsg("data", rdrGen, rdrChunk, rdrBuf, Content(loaded, rdrBase))
        <5>1. /\ rdrPc = "send"
              /\ \/ rdrChunk' = rdrChunk + 1 /\ chunkQueue' = Append(chunkQueue, m)
                 \/ rdrChunk' = rdrChunk /\ chunkQueue' = chunkQueue
          BY <4>4 DEF RdrSend, RdrQueue
        <5>2. m \in ChunkMsgType /\ m.kind = "data" /\ m.chunk = rdrChunk
          BY <5>1, Messages DEF ChunkMsg
        <5>3. rdrChunk < LookupLen
          BY <5>1, PipelineAssumption DEF PipelineAssumption, TypeOK, RdrTypeOK, Chunks
        <5> HIDE DEF m
        <5> QED
          BY <2>4, <4>1, <5>1, <5>2, <5>3, ChainAppend
      <4> QED
        BY <3>1, <4>2, <4>3, <4>4
    <3>2. CASE ~(RdrFlush \/ RdrSend \/ RdrEof)
      <4>1. chunkQueue' = chunkQueue /\ rdrChunk' = rdrChunk
        BY <1>4, <2>2, <3>2
        DEF Reader, RdrBegin, RdrLoop, RdrLoadWindow, RdrBounds, RdrTakeBuffer, RdrRequest,
            RdrPollStop, RdrNotified, RdrDone, RdrClose, RdrFail, RdrGoto, queueVars, rdrVars
      <4> QED
        BY <2>4, <4>1
    <3> QED
      BY <3>1, <3>2
  <2> QED
    BY <1>2, <2>3, <2>4, <2>5 DEF InLine
<1> QED
  BY <1>3, <1>4

(* What the decoder takes is the chunk at the position or the next one.      *)
LEMMA ReceiveOrder ==
  ASSUME TypeOK, OrderInv, DecReceive
  PROVE  /\ Fed /\ currentChunk' \in {currentChunk, currentChunk + 1}
         /\ \E c \in {currentChunk', currentChunk' + 1} : Chain(chunkQueue', c, rdrChunk)
<1>1. SessionInv /\ Fresh /\ Held /\ InLine
  BY DEF OrderInv
<1>2. /\ decPc = "receive" /\ chunkQueue # <<>> /\ chunkQueue' = Tail(chunkQueue)
      /\ \/ Head(chunkQueue).kind # "data" /\ currentChunk' = currentChunk
         \/ Head(chunkQueue).kind = "data" /\ currentChunk' = Head(chunkQueue).chunk
  BY DEF DecReceive
<1>3. Fed
  BY <1>1, <1>2 DEF Fresh, Fed, Rest
<1>4. PICK c \in {currentChunk, currentChunk + 1} : Chain(chunkQueue, c, rdrChunk)
  BY <1>1, <1>3 DEF InLine
<1>5. chunkQueue \in Seq(ChunkMsgType)
  BY DEF TypeOK, QueueTypeOK
<1>6. IF Head(chunkQueue).kind = "data"
      THEN Head(chunkQueue).chunk = c /\ Chain(chunkQueue', c + 1, rdrChunk)
      ELSE Chain(chunkQueue', c, rdrChunk)
  BY <1>2, <1>4, <1>5, ChainTail
<1> QED
  BY <1>2, <1>3, <1>4, <1>6

LEMMA DecoderOrder == ASSUME TypeOK, OrderInv, Decoder PROVE Fresh' /\ Held' /\ InLine'
<1>1. SessionInv /\ Fresh /\ Held /\ InLine
  BY DEF OrderInv
<1>2. UNCHANGED <<rdrPc, rdrChunk, loaded, svcChunk>>
  BY DEF Decoder, DecUnchanged, rdrVars, trackVars
<1>3. /\ svcPc' # svcPc => svcPc = "stopBlocked" /\ svcPc' = "stopReset"
      /\ readerCmd' = readerCmd
  BY DEF Decoder, DecTake, DecOpen, DecLoop, DecPoll, DecReceive, DecChunk, DecPush, DecWrite,
         DecFinish, DecAwait, DecTimeout, DecComplete, SetIdle, queueVars
<1>4. CASE DecReceive
  <2>1. /\ Fed /\ \E c \in {currentChunk', currentChunk' + 1} : Chain(chunkQueue', c, rdrChunk)
    BY <1>4, ReceiveOrder
  <2>2. ~Rest /\ readerCmd = <<>> /\ svcPc \notin {"startReset", "sendDecoder", "sendReader"}
    BY <1>1, <1>4, <2>1 DEF Fed, DecReceive, SessionInv, HandedOver
  <2>3. Fresh' /\ Held'
    BY <1>1, <1>2, <1>3, <2>2 DEF Fresh, Held
  <2> QED
    BY <1>2, <2>1, <2>3 DEF InLine
<1>5. CASE ~DecReceive
  <2>1. /\ UNCHANGED <<currentChunk, chunkQueue>>
        /\ decPc = "idle" => decoderCmd # <<>>
        /\ decPc = "complete" => decPc' = "idle" /\ decoderCmd' = decoderCmd
    BY <1>5 DEF Decoder, DecTake, DecOpen, DecLoop, DecPoll, DecChunk, DecPush, DecWrite,
                DecFinish, DecAwait, DecTimeout, DecComplete, DecGoto, queueVars
  <2>2. Rest => Rest'
    BY <1>2, <1>3, <2>1 DEF Rest
  <2>3. Held' /\ (Fed' => Fed)
    BY <1>1, <1>2, <1>3, <2>2 DEF Held, Fed
  <2> QED
    BY <1>2, <1>3, <2>1, <2>3, OrderMoves
<1> QED
  BY <1>4, <1>5

LEMMA OthersOrder ==
  ASSUME OrderInv, Cart \/ Output \/ EventLoop \/ Callers \/ UNCHANGED vars
  PROVE  Fresh' /\ Held' /\ InLine'
<1>1. UNCHANGED <<currentChunk, chunkQueue, rdrPc, rdrChunk, readerCmd, decoderCmd, decPc, svcPc,
                  svcChunk, loaded>>
  BY DEF Cart, CartUnchanged, Output, EventLoop, Callers, EnvUnchanged, PcmPull, DeliverEvent,
         QueueCmd, Request, RequestSwitch, RequestPause, RequestSeek, Unmount, Mount, vars,
         queueVars, playVars, trackVars, svcVars, rdrVars, decVars
<1>2. Held' /\ (Fed' => Fed)
  BY <1>1 DEF OrderInv, Held, Fed, Rest
<1> QED
  BY <1>1, <1>2, OrderMoves

LEMMA OrderNext ==
  ASSUME Orderly, TypeOK, OrderInv, [Next]_vars PROVE OrderInv'
<1>1. SessionInv'
  BY SessionNext DEF OrderInv
<1> QED
  BY <1>1, SvcOrder, ReaderOrder, DecoderOrder, OthersOrder DEF OrderInv, Next

(* The position follows the chunks one by one.                               *)
LEMMA OrderStep ==
  ASSUME TypeOK, OrderInv, [Next]_vars, svcPc # "commit"
  PROVE  currentChunk' \in {currentChunk, currentChunk + 1}
<1>1. CASE DecReceive
  BY <1>1, ReceiveOrder
<1>2. CASE ~DecReceive
  BY <1>2
  DEF Next, Svc, SvcSwitch, SvcSeek, SvcPause, SvcComplete, SvcCartridge, SvcStop, SvcStopWait,
      SvcStopTimeout, SvcStopReset, SvcPaused, SvcRemoved, SvcInserted, SvcStart, SvcStartFails,
      SvcLoaded, SvcCommit, SvcRestore, SvcStartReset, SvcSendDecoder, SvcSendReader,
      Reader, RdrUnchanged, Decoder, DecTake, DecOpen, DecLoop, DecPoll, DecChunk, DecPush,
      DecWrite, DecFinish, DecAwait, DecTimeout, DecComplete, Cart, CartUnchanged,
      Output, EventLoop, Callers, EnvUnchanged, playVars, vars
<1> QED
  BY <1>1, <1>2

LEMMA OrderAlways == Orderly => (Spec => []OrderInv)
<1> SUFFICES ASSUME Orderly PROVE Spec => []OrderInv
  OBVIOUS
<1>1. Init => OrderInv
  BY OrderInit
<1>2. TypeOK /\ OrderInv /\ [Next]_vars => OrderInv'
  BY OrderNext
<1> QED
  BY <1>1, <1>2, TypeCorrect, PTL DEF Spec

(* Within a generation the position moves chunk by chunk, whatever is        *)
(* flushed, paused or refused: no chunk is skipped and none gone back to.    *)
THEOREM OrderKept == Orderly => (Spec => PlaysInOrder)
<1>1. TypeOK /\ OrderInv /\ [Next]_vars
        => [svcPc # "commit" => currentChunk' \in {currentChunk, currentChunk + 1}]_vars
  BY OrderStep
<1> QED
  BY <1>1, OrderAlways, TypeCorrect, PTL DEF Spec, PlaysInOrder

-----------------------------------------------------------------------------
(* Nothing fails: besides, no read fails and the cartridge stays in.         *)

Faultless == Readable /\ MaxUnmounts = 0

(* s_cmd_queue: one command taken, one sent.                                 *)
Taken == svcPc = "idle" /\ cmdQueue # <<>> /\ cmdQueue' = Tail(cmdQueue)

Sent(m) ==
  /\ cmdQueue' = Append(cmdQueue, m)
  /\ \/ m.kind \in {"switch", "pause", "seek"}
     \/ m.kind = "complete" /\ m.gen = decGen /\ decPc = "complete" /\ decPc' = "idle"
     \/ m.kind = "removed" /\ events # <<>>

LEMMA CmdsMove ==
  ASSUME TypeOK, [Next]_vars
  PROVE  cmdQueue' = cmdQueue \/ Taken \/ \E m : Sent(m)
<1>1. CASE Svc
  <2>1. CASE \/ SvcSwitch \/ SvcSeek \/ SvcPause \/ SvcComplete \/ SvcCartridge
    BY <2>1 DEF SvcSwitch, SvcSeek, SvcPause, SvcComplete, SvcCartridge, SvcTake, Taken
  <2>2. CASE ~(\/ SvcSwitch \/ SvcSeek \/ SvcPause \/ SvcComplete \/ SvcCartridge)
    BY <1>1, <2>2 DEF Svc, SvcStop, SvcStopWait, SvcStopTimeout, SvcStopReset, SvcPaused,
      SvcRemoved, SvcInserted, SvcStart, SvcStartFails, SvcLoaded, SvcCommit, SvcRestore,
      SvcStartReset, SvcSendDecoder, SvcSendReader, ResetPipeline, queueVars
  <2> QED
    BY <2>1, <2>2
<1>2. CASE Reader
  BY <1>2 DEF Reader, RdrTake, RdrBegin, RdrLoop, RdrLoadWindow, RdrBounds, RdrFlush,
              RdrTakeBuffer, RdrRequest, RdrFail, RdrPollStop, RdrNotified, RdrSend, RdrDone,
              RdrEof, RdrClose, RdrQueue, queueVars
<1>3. CASE Decoder
  <2>1. CASE DecComplete
    <3>1. /\ decPc = "complete" /\ decPc' = "idle"
          /\ cmdQueue' = cmdQueue \/ cmdQueue' = Append(cmdQueue, Cmd("complete", 0, 0, decGen))
      BY <2>1 DEF DecComplete, DecGoto
    <3> QED
      BY <3>1 DEF Sent, Cmd
  <2>2. CASE ~DecComplete
    BY <1>3, <2>2 DEF Decoder, DecTake, DecOpen, DecLoop, DecPoll, DecReceive, DecChunk, DecPush,
      DecWrite, DecFinish, DecAwait, DecTimeout, queueVars
  <2> QED
    BY <2>1, <2>2
<1>4. CASE EventLoop
  <2>1. events \in Seq({"removed"}) /\ events # <<>>
    BY <1>4 DEF EventLoop, DeliverEvent, TypeOK, CartTypeOK
  <2>2. Head(events) = "removed"
    BY <2>1
  <2> QED
    BY <1>4, <2>1, <2>2 DEF EventLoop, DeliverEvent, QueueCmd, Cmd, Sent
<1>5. CASE Callers
  <2>1. CASE RequestSwitch \/ RequestPause \/ RequestSeek
    <3>1. \A k, t, c, g : Cmd(k, t, c, g).kind = k
      BY DEF Cmd
    <3>2. \E k \in {"switch", "pause", "seek"} : \E t, c : Request(Cmd(k, t, c, 0))
      BY <2>1 DEF RequestSwitch, RequestPause, RequestSeek
    <3>3. PICK m : Request(m) /\ m.kind \in {"switch", "pause", "seek"}
      BY <3>1, <3>2
    <3> QED
      BY <3>3 DEF Request, QueueCmd, Sent
  <2>2. CASE Unmount \/ Mount
    BY <2>2 DEF Unmount, Mount, queueVars
  <2> QED
    BY <1>5, <2>1, <2>2 DEF Callers
<1>6. CASE Cart \/ Output \/ UNCHANGED vars
  BY <1>6 DEF Cart, CartUnchanged, Output, PcmPull, vars, queueVars
<1> QED
  BY <1>1, <1>2, <1>3, <1>4, <1>5, <1>6 DEF Next

LEMMA TakenCmds ==
  ASSUME TypeOK, Taken
  PROVE  /\ 1 \in DOMAIN cmdQueue /\ Head(cmdQueue) = cmdQueue[1]
         /\ \A i \in DOMAIN cmdQueue' : i + 1 \in DOMAIN cmdQueue /\ i + 1 # 1
                                        /\ cmdQueue'[i] = cmdQueue[i + 1]
<1>1. cmdQueue \in Seq(CmdType)
  BY DEF TypeOK, QueueTypeOK
<1>2. /\ Len(cmdQueue) \in Nat /\ Len(cmdQueue) >= 1 /\ DOMAIN cmdQueue = 1 .. Len(cmdQueue)
      /\ DOMAIN Tail(cmdQueue) = 1 .. Len(cmdQueue) - 1
      /\ Head(cmdQueue) = cmdQueue[1]
      /\ \A i \in DOMAIN Tail(cmdQueue) : Tail(cmdQueue)[i] = cmdQueue[i + 1]
  BY <1>1, HeadTailProperties, LenProperties, EmptySeq DEF Taken
<1> QED
  BY <1>2 DEF Taken

LEMMA SentCmds ==
  ASSUME TypeOK, NEW m, Sent(m)
  PROVE  /\ DOMAIN cmdQueue' = DOMAIN cmdQueue \cup {Len(cmdQueue) + 1}
         /\ cmdQueue'[Len(cmdQueue) + 1] = m
         /\ \A i \in DOMAIN cmdQueue : cmdQueue'[i] = cmdQueue[i]
<1>1. cmdQueue \in Seq(CmdType)
  BY DEF TypeOK, QueueTypeOK
<1>2. Len(cmdQueue) \in Nat /\ DOMAIN cmdQueue = 1 .. Len(cmdQueue)
  BY <1>1
<1>3. /\ DOMAIN Append(cmdQueue, m) = 1 .. Len(cmdQueue) + 1
      /\ Append(cmdQueue, m)[Len(cmdQueue) + 1] = m
      /\ \A i \in 1 .. Len(cmdQueue) : Append(cmdQueue, m)[i] = cmdQueue[i]
  BY <1>1
<1> QED
  BY <1>2, <1>3 DEF Sent

-----------------------------------------------------------------------------
(* The cartridge stays in: every read is of its mount and succeeds.          *)

Inserted == /\ mounted /\ events = <<>> /\ svcOp # "removed"
            /\ \A i \in DOMAIN cmdQueue : cmdQueue[i].kind # "removed"

Reading == /\ \A i \in DOMAIN readQueue : /\ readQueue[i].mount = mountGen
                                          /\ readQueue[i].src.track # None
           /\ cartReq # NoReq => cartReq.mount = mountGen /\ cartReq.src.track # None
           /\ notified # {} => result.ok

Seated == Inserted /\ Reading

LEMMA SeatedInit == Init => Seated
  BY DEF Init, Seated, Inserted, Reading, Cmd

LEMMA ReadsServed == ASSUME Faultless, Seated PROVE ~CartRefuse /\ ~CartSeekFails
  BY DEF Faultless, Readable, Seated, Inserted, Reading, CartRefuse, CartSeekFails

LEMMA MountKept ==
  ASSUME MaxUnmounts = 0, TypeOK, Inserted, [Next]_vars
  PROVE  UNCHANGED <<mounted, mountGen, events>>
<1>1. unmounts = 0
  BY DEF TypeOK, CartTypeOK
<1>2. CASE Callers
  <2>1. ~Unmount /\ ~Mount
    BY <1>1 DEF Unmount, Mount, Inserted
  <2>2. PICK m : Request(m)
    BY <1>2, <2>1 DEF Callers, RequestSwitch, RequestPause, RequestSeek
  <2> QED
    BY <2>2 DEF Request, mountVars
<1>3. CASE EventLoop
  BY <1>3 DEF EventLoop, DeliverEvent, Inserted
<1>4. CASE Output \/ Cart \/ Reader \/ Decoder \/ UNCHANGED vars
  BY <1>4 DEF Output, PcmPull, Cart, CartUnchanged, Reader, RdrUnchanged, Decoder, DecUnchanged,
    vars, mountVars
<1>5. CASE Svc
  BY <1>5 DEF Svc, SvcSwitch, SvcSeek, SvcPause, SvcComplete, SvcCartridge, SvcTake, SvcStop,
    SvcStopWait, SvcStopTimeout, SvcStopReset, SvcPaused, SvcRemoved, SvcInserted,
    SvcStart, SvcStartFails, SvcLoaded, SvcCommit, SvcRestore, SvcStartReset,
    SvcSendDecoder, SvcSendReader, Others, mountVars
<1> QED
  BY <1>2, <1>3, <1>4, <1>5 DEF Next

(* What the service is at changes when it takes a command or ends one.       *)
LEMMA OpMoves ==
  ASSUME TypeOK, [Next]_vars
  PROVE  \/ svcOp' = svcOp
         \/ svcOp' \in {"none", "begin", "restore", "switch", "seek", "pause", "resume", "complete"}
         \/ Taken /\ svcOp' = Head(cmdQueue).kind /\ svcPc' = "stop" /\ UNCHANGED <<playing, index>>
<1>1. CASE SvcCartridge
  BY <1>1 DEF SvcCartridge, SvcTake, Taken, Goto, playVars
<1>2. CASE Svc /\ ~SvcCartridge
  BY <1>2 DEF Svc, SvcSwitch, SvcSeek, SvcPause, SvcComplete, SvcStop,
    SvcStopWait, SvcStopTimeout, SvcStopReset, SvcPaused, SvcRemoved, SvcInserted,
    SvcStart, SvcStartFails, SvcLoaded, SvcCommit, SvcRestore, SvcStartReset,
    SvcSendDecoder, SvcSendReader, SvcIdle, Goto, svcVars
<1>3. CASE \/ Output \/ EventLoop \/ Callers \/ Cart \/ Reader \/ Decoder \/ UNCHANGED vars
  BY <1>3 DEF Output, EventLoop, Callers, EnvUnchanged, Cart, CartUnchanged, Reader, RdrUnchanged,
    Decoder, DecUnchanged, vars, svcVars
<1> QED
  BY <1>1, <1>2, <1>3 DEF Next

LEMMA InsertedNext ==
  ASSUME MaxUnmounts = 0, TypeOK, Inserted, [Next]_vars PROVE Inserted'
<1>1. mounted' /\ events' = <<>>
  BY MountKept DEF Inserted
<1>2. svcOp' # "removed"
  BY OpMoves, TakenCmds DEF Inserted
<1>3. \A i \in DOMAIN cmdQueue' : cmdQueue'[i].kind # "removed"
  <2>1. CASE cmdQueue' = cmdQueue
    BY <2>1 DEF Inserted
  <2>2. CASE Taken
    BY <2>2, TakenCmds DEF Inserted
  <2>3. CASE \E m : Sent(m)
    <3>1. PICK m : Sent(m)
      BY <2>3
    <3>2. m.kind # "removed"
      BY <3>1 DEF Sent, Inserted
    <3> QED
      BY <3>1, <3>2, SentCmds DEF Inserted
  <2> QED
    BY <2>1, <2>2, <2>3, CmdsMove
<1> QED
  BY <1>1, <1>2, <1>3 DEF Inserted

LEMMA ReadingNext ==
  ASSUME Faultless, TypeOK, OrderInv, Seated, [Next]_vars PROVE Reading'
<1>1. UNCHANGED <<mounted, mountGen>> /\ mounted /\ Reading /\ ~IoErrors
  BY MountKept DEF Faultless, Readable, Seated, Inserted
<1>2. CASE Svc
  <2>1. svcTrack # None
    BY PipelineAssumption DEF PipelineAssumption, TypeOK, SvcTypeOK, Tracks, None
  <2>2. CASE SvcStart
    <3>1. UNCHANGED <<cartReq, result, notified>>
          /\ \/ readQueue' = readQueue
             \/ readQueue' = <<[who |-> "svc", src |-> Content(svcTrack, None), mount |-> mountGen]>>
      BY <2>2 DEF SvcStart, cartVars
    <3>2. Content(svcTrack, None).track = svcTrack
      BY DEF Content
    <3> QED
      BY <1>1, <2>1, <3>1, <3>2 DEF Reading
  <2>3. CASE SvcLoaded
    BY <1>1, <2>3 DEF SvcLoaded, Reading
  <2>4. CASE ~SvcStart /\ ~SvcLoaded
    BY <1>1, <1>2, <2>4 DEF Reading, Svc, SvcSwitch, SvcSeek, SvcPause, SvcComplete, SvcCartridge,
      SvcTake, SvcStop, SvcStopWait, SvcStopTimeout, SvcStopReset, SvcPaused, SvcRemoved, SvcInserted,
      SvcCommit, SvcRestore, SvcStartReset, SvcSendDecoder, SvcSendReader, cartVars
  <2> QED
    BY <2>2, <2>3, <2>4
<1>3. CASE Reader
  <2>1. CASE RdrRequest
    <3>1. /\ UNCHANGED <<cartReq, result, notified>> /\ rdrPc = "request"
          /\ \/ readQueue' = readQueue
             \/ readQueue' = <<[who |-> "reader", src |-> Content(loaded, rdrChunk), mount |-> mountGen]>>
      BY <2>1 DEF RdrRequest
    <3>2. loaded # None /\ Content(loaded, rdrChunk).track = loaded
      BY <3>1, AtWorkFeeds DEF Content
    <3> QED
      BY <1>1, <3>1, <3>2 DEF Reading
  <2>2. CASE ~RdrRequest
    <3>1. UNCHANGED <<readQueue, cartReq, result>> /\ notified' \in {notified, notified \ {"reader"}}
      BY <1>3, <2>2 DEF Reader, RdrTake, RdrBegin, RdrLoop, RdrLoadWindow, RdrBounds, RdrFlush,
        RdrTakeBuffer, RdrPollStop, RdrNotified, RdrSend, RdrDone, RdrEof, RdrClose, RdrQueue, cartVars
    <3> QED
      BY <1>1, <3>1 DEF Reading
  <2> QED
    BY <2>1, <2>2
<1>4. CASE Cart
  <2>1. CASE CartTake
    <3>1. readQueue \in Seq(RequestType)
      BY DEF TypeOK, CartTypeOK
    <3>2. /\ readQueue # <<>> /\ cartReq' = Head(readQueue) /\ readQueue' = <<>>
          /\ UNCHANGED <<result, notified>>
      BY <2>1 DEF CartTake
    <3>3. 1 \in DOMAIN readQueue /\ Head(readQueue) = readQueue[1]
      BY <3>1, <3>2, TailShape
    <3> QED
      BY <1>1, <3>2, <3>3 DEF Reading
  <2>2. CASE CartServe
    <3>1. readQueue' = readQueue /\ cartReq' = NoReq /\ result'.ok
      BY <2>2 DEF CartServe, CartNotify
    <3> QED
      BY <1>1, <3>1 DEF Reading
  <2> QED
    BY <1>4, <2>1, <2>2, ReadsServed DEF Cart
<1>5. CASE Output \/ EventLoop \/ Callers \/ Decoder \/ UNCHANGED vars
  BY <1>1, <1>5 DEF Reading, Output, EventLoop, Callers, EnvUnchanged, Decoder, DecUnchanged, vars,
    cartVars
<1> QED
  BY <1>2, <1>3, <1>4, <1>5 DEF Next

-----------------------------------------------------------------------------
(* The header the service waits for is what it finds in the buffer.          *)

HeaderOf(t) == Content(t, None)

Header ==
  svcPc = "load" =>
    /\ \A i \in DOMAIN readQueue : readQueue[i].who = "svc" => readQueue[i].src = HeaderOf(svcTrack)
    /\ cartReq # NoReq /\ cartReq.who = "svc" => cartReq.src = HeaderOf(svcTrack)
    /\ "svc" \in notified => bufData[result.buf] = HeaderOf(svcTrack)

LEMMA HeaderNext ==
  ASSUME Faultless, TypeOK, OrderInv, WakeInv, Seated, Header, [Next]_vars PROVE Header'
<1> SUFFICES ASSUME svcPc' = "load" PROVE Header'
  BY DEF Header
<1>1. SessionInv /\ NoLostWakeup
  BY DEF OrderInv, WakeInv
<1>2. CASE svcPc # "load"
  <2>1. svcPc = "start" /\ SvcStart
    <3>1. CASE Svc
      BY <1>2, <3>1 DEF Svc, SvcSwitch, SvcSeek, SvcPause, SvcComplete, SvcCartridge, SvcStop,
        SvcStopWait, SvcStopTimeout, SvcStopReset, SvcPaused, SvcRemoved, SvcInserted,
        SvcStart, SvcLoaded, SvcCommit, SvcRestore, SvcStartReset, SvcSendDecoder, SvcSendReader,
        SvcIdle, Goto, svcVars
    <3>2. CASE ~Svc
      BY <1>2, <3>2, ReaderWakes, DecoderWakes
      DEF Next, Output, EventLoop, Callers, EnvUnchanged, Cart, CartUnchanged, vars, svcVars
    <3> QED
      BY <3>1, <3>2
  <2>2. /\ readQueue' = <<[who |-> "svc", src |-> Content(svcTrack, None), mount |-> mountGen]>>
        /\ UNCHANGED <<cartReq, notified, svcTrack>>
    BY <1>2, <2>1 DEF SvcStart, SvcStartFails, SvcIdle, Goto
  <2>3. ~(cartReq # NoReq /\ cartReq.who = "svc") /\ "svc" \notin notified
    BY <1>1, <2>1 DEF NoLostWakeup, Outstanding
  <2> QED
    BY <2>2, <2>3 DEF Header, HeaderOf
<1>3. CASE svcPc = "load"
  <2>1. Rest /\ ~Reader
    BY <1>1, <1>3 DEF SessionInv, HandedOver, Rest, Reader, RdrTake, RdrBegin, RdrLoop, RdrLoadWindow,
      RdrBounds, RdrFlush, RdrTakeBuffer, RdrRequest, RdrPollStop, RdrNotified, RdrSend, RdrDone,
      RdrEof, RdrClose
  <2>2. ~Svc
    BY <1>3 DEF Svc, SvcSwitch, SvcSeek, SvcPause, SvcComplete, SvcCartridge, SvcTake, SvcStop,
      SvcStopWait, SvcStopTimeout, SvcStopReset, SvcPaused, SvcRemoved, SvcInserted,
      SvcStart, SvcLoaded, SvcStartFails, SvcIdle, Goto, SvcCommit, SvcRestore, SvcStartReset,
      SvcSendDecoder, SvcSendReader
  <2>3. CASE Cart
    <3>1. svcTrack' = svcTrack
      BY <2>3 DEF Cart, CartUnchanged, svcVars
    <3>2. CASE CartTake
      <4>1. readQueue \in Seq(RequestType)
        BY DEF TypeOK, CartTypeOK
      <4>2. /\ readQueue # <<>> /\ cartReq' = Head(readQueue) /\ readQueue' = <<>>
            /\ UNCHANGED <<bufData, result, notified>>
        BY <3>2 DEF CartTake
      <4>3. 1 \in DOMAIN readQueue /\ Head(readQueue) = readQueue[1]
        BY <4>1, <4>2, TailShape
      <4> QED
        BY <1>3, <3>1, <4>2, <4>3 DEF Header
    <3>3. CASE CartServe
      <4>1. /\ cartReq # NoReq /\ readQueue' = readQueue /\ cartReq' = NoReq
            /\ bufData' = [bufData EXCEPT ![bufIndex] = cartReq.src] /\ result'.buf = bufIndex
        BY <3>3 DEF CartServe, CartNotify
      <4>2. cartReq.who = "svc"
        <5>1. cartReq.who # "reader"
          BY <1>1, <2>1, <4>1 DEF NoLostWakeup, Outstanding, Rest
        <5> QED
          BY <5>1 DEF TypeOK, CartTypeOK, RequestType
      <4>3. bufData'[result'.buf] = cartReq.src
        BY <4>1 DEF TypeOK, CartTypeOK
      <4> QED
        BY <1>3, <3>1, <4>1, <4>2, <4>3 DEF Header
    <3> QED
      BY <2>3, <3>2, <3>3, ReadsServed DEF Cart
  <2>4. CASE Output \/ EventLoop \/ Callers \/ Decoder \/ UNCHANGED vars
    <3>1. UNCHANGED <<svcTrack, readQueue, cartReq, notified, bufData, result>>
      BY <2>4 DEF Output, EventLoop, Callers, EnvUnchanged, Decoder, DecUnchanged, vars, svcVars, cartVars
    <3> QED
      BY <1>3, <3>1 DEF Header
  <2> QED
    BY <2>1, <2>2, <2>3, <2>4 DEF Next
<1> QED
  BY <1>2, <1>3

-----------------------------------------------------------------------------
(* The cartridge found at boot is handled before anything plays.             *)

Boot ==
  /\ svcOp = "inserted" =>
       /\ ~playing /\ index = 0
       /\ svcPc \in {"stop", "stopWait", "stopBlocked", "stopReset", "stopped"}
  /\ \A i \in DOMAIN cmdQueue : cmdQueue[i].kind = "inserted" =>
       i = 1 /\ svcPc = "idle" /\ ~playing /\ index = 0

LEMMA BootInit == Init => Boot
  BY DEF Init, Boot, Cmd


LEMMA BootNext == ASSUME TypeOK, Boot, [Next]_vars PROVE Boot'
<1>1. CASE Taken
  <2>1. \A i \in DOMAIN cmdQueue' : cmdQueue'[i].kind # "inserted"
    BY <1>1, TakenCmds DEF Boot
  <2>2. ASSUME svcOp' = "inserted" PROVE svcPc' = "stop" /\ ~playing' /\ index' = 0
    <3>1. svcPc = "idle"
      BY <1>1 DEF Taken
    <3>2. Head(cmdQueue).kind = "inserted" /\ svcPc' = "stop" /\ UNCHANGED <<playing, index>>
      BY <2>2, <3>1, OpMoves DEF Boot
    <3> QED
      BY <1>1, <3>2, TakenCmds DEF Boot
  <2> QED
    BY <2>1, <2>2 DEF Boot
<1>2. CASE ~Taken /\ Svc
  <2>1. /\ svcPc # "idle" /\ cmdQueue' = cmdQueue
        /\ svcOp' = "inserted" =>
             /\ svcOp = "inserted" /\ UNCHANGED <<playing, index>>
             /\ svcPc' \in {"stop", "stopWait", "stopBlocked", "stopReset", "stopped"}
    <3>1. CASE SvcStop \/ SvcStopWait \/ SvcStopTimeout \/ SvcStopReset
      BY <3>1 DEF SvcStop, SvcStopWait, SvcStopTimeout, SvcStopReset, ResetPipeline, queueVars, playVars
    <3>2. CASE SvcPaused \/ SvcRemoved \/ SvcInserted
      BY <3>2 DEF SvcPaused, SvcRemoved, SvcInserted, SvcIdle, Goto, queueVars
    <3>3. CASE SvcStart \/ SvcLoaded \/ SvcCommit \/ SvcRestore \/ SvcStartReset \/ SvcSendDecoder
               \/ SvcSendReader
      <4>1. svcPc # "idle" /\ svcOp # "inserted" /\ cmdQueue' = cmdQueue
        BY <3>3 DEF Boot, SvcStart, SvcStartFails, SvcLoaded, SvcCommit, SvcRestore, SvcStartReset,
          SvcSendDecoder, SvcSendReader, ResetPipeline, queueVars
      <4>2. svcOp' # "inserted"
        BY <3>3, <4>1 DEF SvcStart, SvcStartFails, SvcLoaded, SvcCommit, SvcRestore, SvcStartReset,
          SvcSendDecoder, SvcSendReader, SvcIdle, Goto
      <4> QED
        BY <4>1, <4>2
    <3> QED
      BY <1>2, <3>1, <3>2, <3>3
      DEF Svc, SvcSwitch, SvcSeek, SvcPause, SvcComplete, SvcCartridge, SvcTake, Taken
  <2> QED
    BY <2>1 DEF Boot
<1>3. CASE ~Taken /\ ~Svc
  <2>1. /\ UNCHANGED <<svcOp, playing, index>>
        /\ svcPc' = svcPc \/ (svcPc = "stopBlocked" /\ svcPc' = "stopReset")
    BY <1>3, ReaderWakes, DecoderWakes
    DEF Next, Reader, RdrUnchanged, Decoder, DecUnchanged, Cart, CartUnchanged, Output, EventLoop,
        Callers, EnvUnchanged, vars, playVars, svcVars
  <2>2. CASE cmdQueue' = cmdQueue
    BY <2>1, <2>2 DEF Boot
  <2>3. CASE \E m : Sent(m)
    <3>1. PICK m : Sent(m)
      BY <2>3
    <3>2. m.kind # "inserted"
      BY <3>1 DEF Sent
    <3>3. \A i \in DOMAIN cmdQueue' : cmdQueue'[i].kind = "inserted" =>
            i \in DOMAIN cmdQueue /\ cmdQueue[i].kind = "inserted"
      BY <3>1, <3>2, SentCmds
    <3> QED
      BY <2>1, <3>3 DEF Boot
  <2> QED
    BY <1>3, <2>2, <2>3, CmdsMove
<1> QED
  BY <1>1, <1>2, <1>3


-----------------------------------------------------------------------------
(* What reports the end of the session that plays finds both tasks at rest:  *)
(* the track after it is not refused.                                        *)

Finished ==
  /\ decPc = "complete" /\ decGen = activeGen => Rest
  /\ \A i \in DOMAIN cmdQueue : Reported(activeGen, i) => Rest
  /\ decoderCmd # <<>> => decPc \in {"idle", "complete"}
  /\ svcPc = "start" => Rest

LEMMA FinishedInit == Init => Finished
  BY DEF Init, Finished, Rest

(* What waits in s_cmd_queue after a step was there, or was sent by it.      *)
LEMMA ReportsMove ==
  ASSUME TypeOK, [Next]_vars, NEW g, NEW i \in DOMAIN cmdQueue', Reported(g, i)'
  PROVE  \/ \E j \in DOMAIN cmdQueue : Reported(g, j)
         \/ DecComplete /\ decGen = g
<1>1. CASE cmdQueue' = cmdQueue \/ Taken
  BY <1>1, TakenCmds DEF Reported
<1>2. CASE \E m : Sent(m)
  <2>1. PICK m : Sent(m)
    BY <1>2
  <2>2. CASE i \in DOMAIN cmdQueue
    BY <2>1, <2>2, SentCmds DEF Reported
  <2>3. CASE i \notin DOMAIN cmdQueue
    <3>1. m.kind = "complete" /\ m.gen = g
      BY <2>1, <2>3, SentCmds DEF Reported
    <3>2. decGen = g /\ decPc = "complete" /\ decPc' = "idle"
      BY <2>1, <3>1 DEF Sent
    <3>3. DecComplete
      <4>1. ~Svc
        BY <3>2 DEF Svc, SvcSwitch, SvcSeek, SvcPause, SvcComplete, SvcCartridge, SvcTake, SvcStop,
          SvcStopWait, SvcStopTimeout, SvcStopReset, SvcPaused, SvcRemoved, SvcInserted, SvcStart,
          SvcStartFails, SvcLoaded, SvcCommit, SvcRestore, SvcStartReset, SvcSendDecoder,
          SvcSendReader, Others, decVars
      <4>2. ~Reader
        BY <3>2 DEF Reader, RdrTake, RdrBegin, RdrLoop, RdrLoadWindow, RdrBounds, RdrFlush,
          RdrTakeBuffer, RdrRequest, RdrPollStop, RdrNotified, RdrSend, RdrDone, RdrEof, RdrClose
      <4>3. Decoder
        BY <3>2, <4>1, <4>2 DEF Next, Cart, CartUnchanged, Output, EventLoop, Callers, EnvUnchanged,
          vars, decVars
      <4> QED
        BY <3>2, <4>3 DEF Decoder, DecTake, DecOpen, DecLoop, DecPoll, DecReceive, DecChunk, DecPush,
          DecWrite, DecFinish, DecAwait, DecTimeout
    <3> QED
      BY <3>2, <3>3
  <2> QED
    BY <2>2, <2>3
<1> QED
  BY <1>1, <1>2, CmdsMove

(* Steps that report nothing and leave the tasks where they are.             *)
LEMMA FinishedMoves ==
  ASSUME TypeOK, [Next]_vars, Finished, ~DecComplete,
         Rest => Rest', UNCHANGED activeGen,
         decPc' = "complete" => decPc = "complete" /\ decGen' = decGen,
         decoderCmd' # <<>> => UNCHANGED <<decPc, decoderCmd>>,
         svcPc' = "start" => Rest'
  PROVE  Finished'
<1>1. \A i \in DOMAIN cmdQueue' : Reported(activeGen, i)' => Rest'
  BY ReportsMove DEF Finished
<1> QED
  BY <1>1 DEF Finished

LEMMA FinishedSvc ==
  ASSUME Readable, TypeOK, EndInv, CompletionInv, Finished, Svc PROVE Finished'
<1>1. SessionInv /\ Ended /\ Begun
  BY DEF EndInv
<1>2. UNCHANGED <<rdrPc, decPc, decGen>> /\ [Next]_vars
  BY DEF Next, Svc, SvcSwitch, SvcSeek, SvcPause, SvcComplete, SvcCartridge, SvcTake, SvcStop,
    SvcStopWait, SvcStopTimeout, SvcStopReset, SvcPaused, SvcRemoved, SvcInserted, SvcStart,
    SvcStartFails, SvcLoaded, SvcCommit, SvcRestore, SvcStartReset, SvcSendDecoder,
    SvcSendReader, Others, rdrVars, decVars
<1>3. CASE \/ SvcSwitch \/ SvcSeek \/ SvcPause \/ SvcComplete \/ SvcCartridge
  <2>1. UNCHANGED <<activeGen, readerCmd, decoderCmd>> /\ svcPc = "idle"
    BY <1>3 DEF SvcSwitch, SvcSeek, SvcPause, SvcComplete, SvcCartridge, SvcTake, genVars
  <2>2. Rest' <=> Rest
    BY <1>2, <2>1 DEF Rest
  <2>3. svcPc' = "start" => Rest
    <3>1. CASE SvcPause
      BY <1>1, <2>1, <3>1 DEF SvcPause, Goto, SessionInv, Quiet, svcVars
    <3>2. CASE SvcComplete
      <4>1. 1 \in DOMAIN cmdQueue /\ Head(cmdQueue) = cmdQueue[1]
        BY <3>2, TakenCmds DEF SvcComplete, SvcTake, Taken
      <4>2. Head(cmdQueue).kind = "complete" /\ (svcPc' = "start" => Head(cmdQueue).gen = activeGen)
        BY <2>1, <3>2 DEF SvcComplete, SvcTake, svcVars
      <4> QED
        BY <4>1, <4>2 DEF Finished, Reported
    <3> QED
      BY <1>3, <2>1, <3>1, <3>2 DEF SvcSwitch, SvcSeek, SvcCartridge, Goto, svcVars
  <2>4. ~DecComplete
    BY <1>2 DEF DecComplete, DecGoto
  <2> QED
    BY <1>2, <2>1, <2>2, <2>3, <2>4, FinishedMoves
<1>4. CASE \/ SvcStop \/ SvcStopWait \/ SvcStopTimeout \/ SvcPaused \/ SvcRemoved \/ SvcInserted
           \/ SvcStart \/ SvcLoaded
  <2>1. /\ UNCHANGED <<activeGen, readerCmd, decoderCmd>>
        /\ svcPc' = "start" => svcPc = "stopped"
    BY <1>4 DEF SvcStop, SvcStopWait, SvcStopTimeout, SvcPaused, SvcRemoved, SvcInserted, SvcStart,
      SvcStartFails, SvcLoaded, SvcIdle, Goto, genVars, queueVars
  <2>2. Rest' <=> Rest
    BY <1>2, <2>1 DEF Rest
  <2>3. svcPc' = "start" => Rest
    BY <1>1, <2>1 DEF SessionInv, HandedOver
  <2>4. ~DecComplete
    BY <1>2 DEF DecComplete, DecGoto
  <2> QED
    BY <1>2, <2>1, <2>2, <2>3, <2>4, FinishedMoves
<1>5. CASE SvcStopReset \/ SvcRestore \/ SvcStartReset
  <2>1. svcPc \in {"stopReset", "commit", "startReset"} /\ ResetPipeline
    BY <1>5 DEF SvcStopReset, SvcRestore, SvcStartReset
  <2>2. Rest
    BY <1>1, <2>1 DEF SessionInv, HandedOver
  <2>3. Rest'
    BY <1>2, <2>1, <2>2 DEF ResetPipeline, Rest
  <2> QED
    BY <2>3 DEF Finished, Rest
<1>6. CASE SvcCommit
  <2>1. /\ svcPc = "commit" /\ svcPc' = "startReset" /\ activeGen' = activeGen + 1
        /\ activeGen < MaxGen /\ UNCHANGED <<readerCmd, decoderCmd, cmdQueue>>
    BY <1>6 DEF SvcCommit, queueVars
  <2>2. Rest'
    BY <1>1, <1>2, <2>1 DEF SessionInv, HandedOver, Rest
  <2> QED
    BY <2>1, <2>2 DEF Finished, Rest
<1>7. CASE SvcSendDecoder
  <2>1. /\ svcPc = "sendDecoder" /\ svcPc' = "sendReader" /\ UNCHANGED <<activeGen, cmdQueue>>
    BY <1>7 DEF SvcSendDecoder, genVars
  <2>2. ~Token(activeGen) /\ Rest
    BY <1>1, <2>1 DEF CompletionInv, SessionInv, HandedOver
  <2>3. ~(decPc = "complete" /\ decGen = activeGen)
        /\ \A i \in DOMAIN cmdQueue : ~Reported(activeGen, i)
    BY <2>2 DEF Token, Decoding
  <2> QED
    BY <1>2, <2>1, <2>2, <2>3 DEF Finished, Rest, Reported
<1>8. CASE SvcSendReader
  <2>1. /\ svcPc = "sendReader" /\ svcPc' = "idle" /\ UNCHANGED <<activeGen, cmdQueue, decoderCmd>>
    BY <1>8 DEF SvcSendReader, SvcIdle, Goto, genVars
  <2>2. ~Rest
    BY <1>1, <2>1 DEF Begun, Unused, Rest
  <2> QED
    BY <1>2, <2>1, <2>2 DEF Finished, Reported
<1> QED
  BY <1>3, <1>4, <1>5, <1>6, <1>7, <1>8 DEF Svc

LEMMA FinishedNext ==
  ASSUME Readable, TypeOK, EndInv, CompletionInv, Finished, [Next]_vars PROVE Finished'
<1>1. SessionInv /\ Ended /\ Begun /\ Prompt /\ ~Timeouts
  BY DEF EndInv, Readable, Orderly
<1>2. CASE Reader
  <2>1. /\ ~Rest /\ UNCHANGED <<activeGen, cmdQueue, decGen, decoderCmd>>
        /\ svcPc' = svcPc \/ svcPc' = "stopReset"
    <3>1. ~Rest
      BY <1>2 DEF Rest, Reader, RdrTake, RdrBegin, RdrLoop, RdrLoadWindow, RdrBounds,
        RdrFlush, RdrTakeBuffer, RdrRequest, RdrPollStop, RdrNotified, RdrSend, RdrDone, RdrEof, RdrClose
    <3>2. UNCHANGED <<activeGen, decGen>>
      BY <1>2 DEF Reader, RdrUnchanged, genVars
    <3>3. UNCHANGED <<cmdQueue, decoderCmd>>
      BY <1>2 DEF Reader, RdrTake, RdrBegin, RdrLoop, RdrLoadWindow, RdrBounds, RdrFlush,
        RdrTakeBuffer, RdrRequest, RdrPollStop, RdrNotified, RdrSend, RdrDone, RdrEof, RdrClose,
        RdrQueue, RdrFail, queueVars
    <3> QED
      BY <1>2, <3>1, <3>2, <3>3, ReaderWakes
  <2>2. CASE decPc' = decPc
    BY <2>1, <2>2 DEF Finished, Reported
  <2>3. CASE decPc' # decPc
    <3>1. rdrPc = "close" /\ rdrPc' = "idle" /\ decPc = "blocked" /\ decPc' = "complete"
          /\ readerCmd' = readerCmd
      BY <1>2, <2>3 DEF Reader, RdrTake, RdrBegin, RdrLoop, RdrLoadWindow, RdrBounds, RdrFlush,
        RdrTakeBuffer, RdrRequest, RdrPollStop, RdrNotified, RdrSend, RdrDone, RdrEof, RdrClose, RdrGoto
    <3>2. readerCmd = <<>> /\ decoderCmd = <<>>
      BY <1>1, <3>1 DEF Begun, Finished
    <3>3. Rest'
      BY <2>1, <3>1, <3>2 DEF Rest
    <3> QED
      BY <3>3 DEF Finished, Rest
  <2> QED
    BY <2>2, <2>3
<1>3. CASE Decoder
  <2>1. /\ UNCHANGED <<activeGen, rdrPc, readerCmd>>
        /\ svcPc' = svcPc \/ svcPc' = "stopReset"
    <3>1. UNCHANGED <<activeGen, rdrPc>>
      BY <1>3 DEF Decoder, DecUnchanged, genVars, rdrVars
    <3>2. UNCHANGED readerCmd
      BY <1>3 DEF Decoder, DecTake, DecOpen, DecLoop, DecPoll, DecReceive, DecChunk, DecPush, DecWrite,
        DecFinish, DecAwait, DecTimeout, DecComplete, queueVars
    <3> QED
      BY <1>3, <3>1, <3>2, DecoderWakes
  <2>2. CASE DecComplete
    <3>1. decPc = "complete" /\ decPc' = "idle" /\ decoderCmd' = decoderCmd
      BY <2>2 DEF DecComplete, DecGoto
    <3>2. Rest => Rest'
      BY <2>1, <3>1 DEF Rest
    <3>3. \A i \in DOMAIN cmdQueue' : Reported(activeGen, i)' => Rest'
      BY <2>1, <3>1, <3>2, ReportsMove DEF Finished
    <3> QED
      BY <2>1, <3>1, <3>2, <3>3 DEF Finished
  <2>3. CASE DecFinish
    <3>1. /\ decPc = "finish" /\ decoderCmd' = decoderCmd
          /\ decPc' = IF "reader" \in idleBits THEN "complete" ELSE "blocked"
      BY <1>1, <2>3 DEF DecFinish, DecGoto, AwaitReader
    <3>2. ~Rest /\ decoderCmd = <<>> /\ svcPc # "start"
      BY <3>1 DEF Finished, Rest
    <3>3. "reader" \in idleBits => Rest'
      <4>1. "reader" \in idleBits => rdrPc \in {"idle", "got"}
        BY <1>1 DEF SessionInv, Bits
      <4>2. "reader" \in idleBits => rdrPc = "idle" /\ readerCmd = <<>>
        <5>1. CASE Over
          BY <4>1, <5>1 DEF Over
        <5>2. CASE stopRequested
          <6>1. svcPc \in Stopping
            BY <1>1, <3>2, <5>2 DEF Ended
          <6>2. ~StartPending
            BY <1>1, <6>1 DEF SessionInv, HandedOver, Stopping
          <6> QED
            BY <4>1, <6>2 DEF StartPending
        <5> QED
          BY <1>1, <3>1, <5>1, <5>2 DEF Ended
      <4> QED
        BY <2>1, <3>1, <3>2, <4>2 DEF Rest
    <3>4. UNCHANGED cmdQueue
      BY <2>3 DEF DecFinish
    <3> QED
      BY <2>1, <3>1, <3>2, <3>3, <3>4 DEF Finished, Reported
  <2>4. CASE ~DecComplete /\ ~DecFinish
    <3>1. /\ ~Rest /\ decPc' \notin {"complete", "idle"}
          /\ decoderCmd' = <<>> \/ (decoderCmd' = decoderCmd /\ decPc \notin {"complete", "idle"})
          /\ UNCHANGED cmdQueue
      BY <1>1, <1>3, <2>4 DEF Rest, Decoder, DecTake, DecOpen, DecLoop, DecPoll, DecReceive, DecChunk,
        DecPush, DecWrite, DecAwait, DecTimeout, DecGoto, SessionInv, Bits, queueVars
    <3> QED
      BY <2>1, <3>1 DEF Finished, Reported
  <2> QED
    BY <2>2, <2>3, <2>4
<1>4. CASE \/ Output \/ EventLoop \/ Callers \/ Cart \/ UNCHANGED vars
  <2>1. UNCHANGED <<activeGen, rdrPc, decPc, decGen, svcPc>>
    BY <1>4 DEF Output, EventLoop, Callers, EnvUnchanged, Cart, CartUnchanged, vars, genVars, rdrVars,
      decVars, svcVars
  <2>2. UNCHANGED <<readerCmd, decoderCmd>>
    BY <1>4 DEF Output, PcmPull, EventLoop, DeliverEvent, QueueCmd, Callers, RequestSwitch,
      RequestPause, RequestSeek, Request, Unmount, Mount, Cart, CartUnchanged, vars, queueVars
  <2>3. ~DecComplete
    BY <2>1 DEF DecComplete, DecGoto
  <2>4. Rest' <=> Rest
    BY <2>1, <2>2 DEF Rest
  <2>5. svcPc' = "start" => Rest'
    BY <2>1, <2>4 DEF Finished
  <2> QED
    BY <2>1, <2>2, <2>3, <2>4, <2>5, FinishedMoves
<1> QED
  BY <1>2, <1>3, <1>4, FinishedSvc DEF Next


-----------------------------------------------------------------------------
(* A reader that is through with its track has queued all of it, and so has  *)
(* a decoder at its end decoded it, unless the session was stopped.          *)

Whole ==
  /\ rdrPc \in {"done", "eof", "close"} => stopRequested \/ rdrChunk = LookupLen
  /\ Fed /\ rdrPc = "idle" => stopRequested \/ rdrChunk = LookupLen
  /\ rdrPc = "waitStop" => stopRequested
  /\ decPc \in {"finish", "blocked"} => stopRequested \/ currentChunk = LookupLen - 1
  /\ ~Rest \/ svcPc \in {"startReset", "sendDecoder", "sendReader"} => activeGen # 0

LEMMA WholeInit == Init => Whole
  BY DEF Init, Whole, Fed, Rest

(* Steps that move neither the position nor the tasks.                       *)
LEMMA WholeMoves ==
  ASSUME Whole, UNCHANGED <<rdrPc, rdrChunk, decPc, currentChunk, activeGen>>,
         stopRequested => stopRequested', Fed' => Fed, Rest => Rest',
         svcPc' \in {"startReset", "sendDecoder", "sendReader"} =>
           svcPc \in {"startReset", "sendDecoder", "sendReader"}
  PROVE  Whole'
  BY DEF Whole

LEMMA WholeSvc == ASSUME TypeOK, OrderInv, EndInv, Whole, Svc PROVE Whole'
<1>1. SessionInv /\ Begun
  BY DEF EndInv
<1>2. UNCHANGED <<rdrPc, rdrChunk, decPc>>
  BY DEF Svc, SvcSwitch, SvcSeek, SvcPause, SvcComplete, SvcCartridge, SvcTake, SvcStop,
    SvcStopWait, SvcStopTimeout, SvcStopReset, SvcPaused, SvcRemoved, SvcInserted, SvcStart,
    SvcStartFails, SvcLoaded, SvcCommit, SvcRestore, SvcStartReset, SvcSendDecoder,
    SvcSendReader, Others, rdrVars, decVars
<1>3. CASE \/ SvcSwitch \/ SvcSeek \/ SvcPause \/ SvcComplete \/ SvcCartridge
  <2>1. UNCHANGED <<currentChunk, activeGen, stopRequested, readerCmd, decoderCmd>>
        /\ svcPc = "idle" /\ svcPc' \in {"idle", "stop", "start"}
    BY <1>3 DEF SvcSwitch, SvcSeek, SvcPause, SvcComplete, SvcCartridge, SvcTake, Goto, svcVars,
      genVars, playVars
  <2>2. Rest' <=> Rest
    BY <1>2, <2>1 DEF Rest
  <2> QED
    BY <1>2, <2>1, <2>2, WholeMoves DEF Fed
<1>4. CASE \/ SvcStop \/ SvcStopWait \/ SvcStopTimeout \/ SvcPaused \/ SvcRemoved \/ SvcInserted
           \/ SvcStart \/ SvcLoaded
  <2>1. /\ UNCHANGED <<currentChunk, activeGen, readerCmd, decoderCmd>>
        /\ stopRequested => stopRequested'
        /\ svcPc \notin {"startReset", "sendDecoder", "sendReader"}
        /\ svcPc' \notin {"startReset", "sendDecoder", "sendReader"}
    BY <1>4 DEF SvcStop, SvcStopWait, SvcStopTimeout, SvcPaused, SvcRemoved, SvcInserted, SvcStart,
      SvcStartFails, SvcLoaded, SvcIdle, Goto, genVars, queueVars, playVars
  <2>2. Rest' <=> Rest
    BY <1>2, <2>1 DEF Rest
  <2> QED
    BY <1>2, <2>1, <2>2, WholeMoves DEF Fed
<1>5. CASE SvcStopReset \/ SvcRestore \/ SvcStartReset
  <2>1. /\ svcPc \in {"stopReset", "commit", "startReset"} /\ ResetPipeline /\ activeGen' = activeGen
        /\ svcPc' \in {"startReset", "sendDecoder", "sendReader"} => svcPc = "startReset"
    BY <1>5 DEF SvcStopReset, SvcRestore, SvcStartReset, SvcIdle, Goto, genVars
  <2>2. Rest
    BY <1>1, <2>1 DEF SessionInv, HandedOver
  <2>3. Rest'
    BY <1>2, <2>1, <2>2 DEF ResetPipeline, Rest
  <2> QED
    BY <2>1, <2>3 DEF Whole, Fed, Rest
<1>6. CASE SvcCommit
  <2>1. /\ svcPc = "commit" /\ activeGen' = activeGen + 1 /\ UNCHANGED <<readerCmd, decoderCmd>>
    BY <1>6 DEF SvcCommit, queueVars
  <2>2. Rest'
    BY <1>1, <1>2, <2>1 DEF SessionInv, HandedOver, Rest
  <2>3. activeGen' # 0
    BY <2>1 DEF TypeOK, PlayTypeOK
  <2> QED
    BY <2>2, <2>3 DEF Whole, Fed, Rest
<1>7. CASE SvcSendDecoder
  <2>1. /\ svcPc = "sendDecoder" /\ svcPc' = "sendReader" /\ UNCHANGED activeGen
    BY <1>7 DEF SvcSendDecoder, genVars
  <2>2. Rest
    BY <1>1, <2>1 DEF SessionInv, HandedOver
  <2> QED
    BY <1>2, <2>1, <2>2 DEF Whole, Fed, Rest
<1>8. CASE SvcSendReader
  <2>1. /\ svcPc = "sendReader" /\ UNCHANGED <<activeGen, stopRequested, currentChunk>>
        /\ readerCmd' # <<>>
    BY <1>8 DEF SvcSendReader, genVars, playVars
  <2>2. rdrPc = "idle"
    BY <1>1, <2>1 DEF SessionInv, HandedOver
  <2> QED
    BY <1>2, <2>1, <2>2 DEF Whole, Fed, Rest
<1> QED
  BY <1>3, <1>4, <1>5, <1>6, <1>7, <1>8 DEF Svc

(* Only a task that waits for a read has one queued.                         *)
LEMMA NothingQueued ==
  ASSUME TypeOK, WakeInv, svcPc # "load", rdrPc \notin {"wait", "waitStop"}
  PROVE  readQueue = <<>>
<1>1. \A i \in DOMAIN readQueue : readQueue[i].who # "reader" /\ readQueue[i].who # "svc"
  BY DEF WakeInv, NoLostWakeup, Outstanding
<1>2. readQueue \in Seq(RequestType)
  BY DEF TypeOK, CartTypeOK
<1>3. readQueue # <<>> => 1 \in DOMAIN readQueue /\ readQueue[1] \in RequestType
  BY <1>2, TailShape
<1> QED
  BY <1>1, <1>3 DEF RequestType

(* The reader ends on its own only after the last chunk.                     *)
LEMMA ReaderEnds ==
  ASSUME Faultless, TypeOK, OrderInv, WakeInv, Seated, Whole, Reader, rdrPc # "idle"
  PROVE  /\ UNCHANGED <<stopRequested, activeGen, currentChunk, readerCmd, decoderCmd>>
         /\ rdrPc' \in {"done", "eof", "close", "idle"} => stopRequested \/ rdrChunk' = LookupLen
         /\ rdrPc' = "waitStop" => stopRequested
         /\ rdrPc' = "idle" => rdrPc = "close"
         /\ decPc' = decPc \/ (decPc = "blocked" /\ decPc' = "complete")
<1>1. SessionInv /\ ~IoErrors /\ mounted /\ Reading
  BY DEF OrderInv, Faultless, Readable, Seated, Inserted
<1>2. rdrGen = activeGen /\ loaded # None /\ ~Rest /\ (ShouldStop(rdrGen) => stopRequested)
  BY <1>1, AtWorkFeeds DEF SessionInv, Current, ShouldStop
<1>3. rdrChunk \in 0 .. LookupLen
  BY DEF TypeOK, RdrTypeOK
<1>4. UNCHANGED <<stopRequested, activeGen, currentChunk>>
  BY DEF Reader, RdrUnchanged, genVars, playVars
<1>5. /\ UNCHANGED <<readerCmd, decoderCmd>>
      /\ decPc' = decPc \/ (decPc = "blocked" /\ decPc' = "complete")
      /\ rdrPc' = "idle" => rdrPc = "close"
  BY DEF Reader, RdrTake, RdrBegin, RdrLoop, RdrLoadWindow, RdrBounds, RdrFlush,
    RdrTakeBuffer, RdrRequest, RdrPollStop, RdrNotified, RdrSend, RdrDone, RdrEof, RdrClose,
    RdrQueue, RdrFail, RdrGoto, queueVars, rdrVars
<1> DEFINE Ends ==
             /\ rdrPc' \in {"done", "eof", "close", "idle"} => stopRequested \/ rdrChunk' = LookupLen
             /\ rdrPc' = "waitStop" => stopRequested
<1>6. ASSUME RdrBegin \/ RdrBounds \/ RdrTakeBuffer \/ RdrPollStop PROVE Ends
  BY <1>2, <1>6 DEF RdrBegin, RdrBounds, RdrTakeBuffer, RdrPollStop, RdrGoto, rdrVars
<1>7. ASSUME RdrLoop \/ RdrLoadWindow PROVE Ends
  BY <1>1, <1>2, <1>3, <1>7, PipelineAssumption DEF PipelineAssumption, RdrLoop, RdrLoadWindow, RdrGoto
<1>8. ASSUME RdrFlush \/ RdrSend PROVE Ends
  BY <1>2, <1>8 DEF RdrFlush, RdrSend, RdrQueue
<1>9. ASSUME RdrRequest PROVE Ends
  <2>1. rdrPc = "request" /\ rdrPc' \in {"done", "wait"}
        /\ (rdrPc' = "done" => ShouldStop(rdrGen) \/ readQueue # <<>>)
    BY <1>1, <1>9 DEF RdrRequest, RdrFail, RdrGoto
  <2>2. readQueue = <<>>
    <3>1. svcPc # "load"
      BY <1>1, <1>2 DEF SessionInv, HandedOver
    <3> QED
      BY <2>1, <3>1, NothingQueued
  <2> QED
    BY <1>2, <2>1, <2>2
<1>10. ASSUME RdrNotified PROVE Ends
  <2>1. \/ rdrPc = "waitStop" /\ rdrPc' = "done"
        \/ rdrPc = "wait" /\ rdrPc' = "send"
    BY <1>1, <1>10 DEF RdrNotified, RdrGoto, Reading
  <2> QED
    BY <2>1 DEF Whole
<1>11. ASSUME RdrDone \/ RdrEof \/ RdrClose PROVE Ends
  <2>1. rdrPc \in {"done", "eof", "close"} /\ rdrPc' \in {"eof", "close", "idle"} /\ rdrChunk' = rdrChunk
    BY <1>11 DEF RdrDone, RdrEof, RdrClose, RdrQueue, RdrGoto
  <2> QED
    BY <2>1 DEF Whole
<1>12. Ends
  <2> HIDE DEF Ends
  <2> QED
    BY <1>6, <1>7, <1>8, <1>9, <1>10, <1>11 DEF Reader, RdrTake
<1> QED
  BY <1>4, <1>5, <1>12

LEMMA WholeReader ==
  ASSUME Faultless, TypeOK, OrderInv, EndInv, WakeInv, Seated, Whole, Reader PROVE Whole'
<1>1. SessionInv /\ Begun
  BY DEF EndInv
<1>2. svcPc' \in {"startReset", "sendDecoder", "sendReader"} => svcPc' = svcPc
  BY ReaderWakes
<1>3. CASE rdrPc = "idle"
  <2>1. /\ readerCmd # <<>> /\ rdrPc' = "got"
        /\ UNCHANGED <<decPc, stopRequested, activeGen, currentChunk>>
    BY <1>3 DEF Reader, RdrTake, RdrBegin, RdrLoop, RdrLoadWindow, RdrBounds, RdrFlush, RdrTakeBuffer,
      RdrRequest, RdrPollStop, RdrNotified, RdrSend, RdrDone, RdrEof, RdrClose, RdrUnchanged,
      genVars, playVars
  <2> QED
    BY <1>2, <2>1 DEF Whole, Rest
<1>4. CASE rdrPc # "idle"
  <2>1. /\ UNCHANGED <<stopRequested, activeGen, currentChunk, readerCmd, decoderCmd>>
        /\ rdrPc' \in {"done", "eof", "close", "idle"} => stopRequested \/ rdrChunk' = LookupLen
        /\ rdrPc' = "waitStop" => stopRequested
        /\ decPc' = decPc \/ (decPc = "blocked" /\ decPc' = "complete")
    BY <1>4, ReaderEnds
  <2>2. ~Rest
    BY <1>4 DEF Rest
  <2> QED
    BY <1>2, <2>1, <2>2 DEF Whole
<1> QED
  BY <1>3, <1>4

(* The decoder takes the end of a track at its last chunk.                   *)
LEMMA EndTaken ==
  ASSUME TypeOK, OrderInv, EndInv, Whole, DecReceive, UNCHANGED <<rdrPc, readerCmd>>,
         Head(chunkQueue).kind = "eof"
  PROVE  stopRequested \/ currentChunk = LookupLen - 1
<1>1. Fed /\ currentChunk' = currentChunk /\ chunkQueue # <<>> /\ chunkQueue' = Tail(chunkQueue)
  BY ReceiveOrder DEF DecReceive
<1>2. PICK c \in {currentChunk, currentChunk + 1} : Chain(chunkQueue', c, rdrChunk)
  BY <1>1, ReceiveOrder
<1>3. chunkQueue' = <<>> /\ rdrPc \in {"close", "idle"}
  <2>1. EofLast /\ chunkQueue \in Seq(ChunkMsgType)
    BY DEF EndInv, Ended, TypeOK, QueueTypeOK
  <2>2. Over'
    BY <1>1, <2>1, TailEof
  <2> QED
    BY <2>2 DEF Over
<1>4. c = rdrChunk
  BY <1>2, <1>3, ChainNone
<1>5. stopRequested \/ rdrChunk = LookupLen
  BY <1>1, <1>3 DEF Whole
<1>6. currentChunk \in 0 .. LookupLen - 1 /\ LookupLen \in Nat
  BY PipelineAssumption DEF PipelineAssumption, TypeOK, PlayTypeOK, Chunks
<1> QED
  BY <1>2, <1>4, <1>5, <1>6

LEMMA WholeDecoder ==
  ASSUME Readable, TypeOK, OrderInv, EndInv, Whole, Decoder PROVE Whole'
<1>1. SessionInv /\ Begun /\ ~IoErrors /\ Prompt /\ ~Timeouts
  BY DEF EndInv, Readable, Orderly
<1>2. UNCHANGED <<rdrPc, rdrChunk, stopRequested, activeGen>>
  BY DEF Decoder, DecUnchanged, rdrVars, genVars
<1>3. /\ svcPc' \in {"startReset", "sendDecoder", "sendReader"} => svcPc' = svcPc
      /\ svcPc' = "sendReader" <=> svcPc = "sendReader"
  BY DecoderWakes
<1>4. /\ readerCmd' = readerCmd
      /\ (decPc = "idle" => decoderCmd # <<>>)
      /\ (decPc = "complete" => decPc' = "idle" /\ decoderCmd' = decoderCmd)
  BY DEF Decoder, DecTake, DecOpen, DecLoop, DecPoll, DecReceive, DecChunk, DecPush, DecWrite,
    DecFinish, DecAwait, DecTimeout, DecComplete, DecGoto, queueVars
<1>5. (Rest => Rest') /\ (Fed' => Fed)
  BY <1>2, <1>3, <1>4 DEF Rest, Fed
<1>6. decPc' \in {"finish", "blocked"} => stopRequested \/ currentChunk' = LookupLen - 1
  <2>1. CASE DecReceive
    <3>1. decPc' \in {"finish", "blocked"} => Head(chunkQueue).kind = "eof" /\ currentChunk' = currentChunk
      BY <2>1 DEF DecReceive, DecGoto
    <3> QED
      BY <1>2, <1>4, <2>1, <3>1, EndTaken
  <2>2. CASE DecFinish
    BY <2>2 DEF DecFinish, Whole
  <2>3. CASE DecLoop \/ DecPush
    <3>1. decPc' = "finish" => ShouldStop(decGen)
      BY <2>3 DEF DecLoop, DecPush, DecGoto
    <3>2. decGen = activeGen /\ decPc' # "blocked"
      BY <1>1, <2>3 DEF SessionInv, Current, DecLoop, DecPush, DecGoto
    <3> QED
      BY <3>1, <3>2 DEF ShouldStop
  <2>4. CASE ~(DecReceive \/ DecFinish \/ DecLoop \/ DecPush)
    <3>1. decPc' \notin {"finish", "blocked"}
      BY <1>1, <2>4 DEF Decoder, DecTake, DecOpen, DecPoll, DecChunk, DecWrite, DecAwait, DecTimeout,
        DecComplete, DecGoto, SessionInv, Bits
    <3> QED
      BY <3>1
  <2> QED
    BY <2>1, <2>2, <2>3, <2>4
<1> QED
  BY <1>2, <1>3, <1>5, <1>6 DEF Whole

LEMMA WholeNext ==
  ASSUME Faultless, TypeOK, OrderInv, EndInv, WakeInv, Seated, Whole, [Next]_vars PROVE Whole'
<1>1. CASE Output \/ EventLoop \/ Callers \/ Cart \/ UNCHANGED vars
  <2>1. UNCHANGED <<rdrPc, rdrChunk, decPc, currentChunk, activeGen, stopRequested, svcPc>>
    BY <1>1 DEF Output, EventLoop, Callers, EnvUnchanged, Cart, CartUnchanged, vars, playVars, genVars,
      rdrVars, decVars, svcVars
  <2>2. UNCHANGED <<readerCmd, decoderCmd>>
    BY <1>1 DEF Output, PcmPull, EventLoop, DeliverEvent, QueueCmd, Callers, RequestSwitch,
      RequestPause, RequestSeek, Request, Unmount, Mount, Cart, CartUnchanged, vars, queueVars
  <2>3. (Rest' <=> Rest) /\ (Fed' <=> Fed)
    BY <2>1, <2>2 DEF Rest, Fed
  <2> QED
    BY <2>1, <2>3, WholeMoves
<1> QED
  BY <1>1, WholeSvc, WholeReader, WholeDecoder DEF Next, Faultless


-----------------------------------------------------------------------------
(* Everything together is inductive.                                         *)

FaultInv == /\ OrderInv /\ EndInv /\ WakeInv /\ PlayInv /\ CompletionInv
            /\ Seated /\ Header /\ Boot /\ Finished /\ Whole

LEMMA FaultInit == Init => FaultInv
<1>1. Init => WakeInv
  BY DEF Init, WakeInv, NoLostWakeup, Outstanding
<1>2. Init => PlayInv
  BY DEF Init, PlayInv
<1>3. Init => CompletionInv
  BY DEF Init, CompletionInv, CompletionOnce, Token, Commanded, Decoding, Reported, Cmd
<1>4. Init => Header
  BY DEF Init, Header
<1> QED
  BY <1>1, <1>2, <1>3, <1>4, OrderInit, EndInit, SeatedInit, BootInit, FinishedInit, WholeInit
  DEF FaultInv

LEMMA FaultNext == ASSUME Faultless, TypeOK, FaultInv, [Next]_vars PROVE FaultInv'
<1>1. Readable /\ Orderly /\ MaxUnmounts = 0
  BY DEF Faultless, Readable
<1>2. OrderInv' /\ EndInv'
  BY <1>1, OrderNext, EndNext DEF FaultInv
<1>3. WakeInv' /\ PlayInv' /\ CompletionInv'
  BY WakeNext, PlayNext, CompletionNext DEF FaultInv
<1>4. Seated'
  BY <1>1, InsertedNext, ReadingNext DEF FaultInv, Seated
<1>5. Header' /\ Boot'
  BY HeaderNext, BootNext DEF FaultInv
<1>6. Finished' /\ Whole'
  BY <1>1, FinishedNext, WholeNext DEF FaultInv
<1> QED
  BY <1>2, <1>3, <1>4, <1>5, <1>6 DEF FaultInv

LEMMA FaultAlways == Faultless => (Spec => []FaultInv)
<1> SUFFICES ASSUME Faultless PROVE Spec => []FaultInv
  OBVIOUS
<1>1. TypeOK /\ FaultInv /\ [Next]_vars => FaultInv'
  BY FaultNext
<1> QED
  BY <1>1, FaultInit, TypeCorrect, PTL DEF Spec

(* The decoder takes the end of a track for its end only after the last      *)
(* chunk: between two sessions nothing is left that a later one could take.  *)
THEOREM WholeTracks == Faultless => (Spec => WholeTrack)
<1>1. ASSUME TypeOK, FaultInv, Whole', [Next]_vars,
             decPc = "receive", decPc' = "finish", ~ShouldStop(decGen)
      PROVE  currentChunk = LookupLen - 1
  <2>1. SessionInv /\ Whole
    BY <1>1 DEF FaultInv, OrderInv
  <2>2. DecReceive /\ UNCHANGED stopRequested
    <3>1. ~Svc
      BY <1>1 DEF Svc, SvcSwitch, SvcSeek, SvcPause, SvcComplete, SvcCartridge, SvcTake, SvcStop,
        SvcStopWait, SvcStopTimeout, SvcStopReset, SvcPaused, SvcRemoved, SvcInserted, SvcStart,
        SvcStartFails, SvcLoaded, SvcCommit, SvcRestore, SvcStartReset, SvcSendDecoder,
        SvcSendReader, Others, decVars
    <3>2. ~Reader
      BY <1>1 DEF Reader, RdrTake, RdrBegin, RdrLoop, RdrLoadWindow, RdrBounds, RdrFlush,
        RdrTakeBuffer, RdrRequest, RdrPollStop, RdrNotified, RdrSend, RdrDone, RdrEof, RdrClose
    <3>3. Decoder
      BY <1>1, <3>1, <3>2 DEF Next, Cart, CartUnchanged, Output, EventLoop, Callers, EnvUnchanged,
        vars, decVars
    <3> QED
      BY <1>1, <3>3 DEF Decoder, DecUnchanged, genVars, DecTake, DecOpen, DecLoop, DecPoll, DecChunk,
        DecPush, DecWrite, DecFinish, DecAwait, DecTimeout, DecComplete, DecGoto
  <2>3. currentChunk' = currentChunk
    BY <1>1, <2>2 DEF DecReceive
  <2>4. decGen = activeGen /\ activeGen # 0
    BY <1>1, <2>1 DEF SessionInv, Current, Whole, Rest
  <2>5. ~stopRequested
    BY <1>1, <2>4 DEF ShouldStop
  <2> QED
    BY <1>1, <2>2, <2>3, <2>5 DEF Whole
<1>2. FaultInv' => Whole'
  BY DEF FaultInv
<1>3. TypeOK /\ FaultInv /\ FaultInv' /\ [Next]_vars
        => [(decPc = "receive" /\ decPc' = "finish" /\ ~ShouldStop(decGen))
              => currentChunk = LookupLen - 1]_vars
  BY <1>1, <1>2
<1> QED
  BY <1>3, FaultAlways, TypeCorrect, PTL DEF Spec, WholeTrack

(* The steps that clear s_playing are not taken while it is set.             *)
LEMMA GoesOn == ASSUME TypeOK, FaultInv, [Next]_vars, playing PROVE playing'
<1>1. SessionInv /\ Inserted /\ Reading /\ PlayInv /\ WakeInv
  BY DEF FaultInv, OrderInv, Seated
<1>2. CASE SvcStart
  <2>1. Rest /\ svcPc = "start"
    BY <1>2 DEF SvcStart, FaultInv, Finished
  <2>2. PipelineIdle
    BY <1>1, <2>1 DEF SessionInv, Bits, Rest, PipelineIdle, TypeOK, QueueTypeOK
  <2>3. readQueue = <<>>
    BY <1>1, <2>1, NothingQueued DEF Rest
  <2> QED
    BY <1>1, <1>2, <2>2, <2>3 DEF SvcStart, Inserted, playVars
<1>3. CASE SvcLoaded
  BY <1>1, <1>3 DEF SvcLoaded, Inserted, Reading, FaultInv, Header, HeaderOf, playVars
<1>4. CASE SvcComplete
  BY <1>1, <1>4 DEF SvcComplete, SvcTake, PlayInv
<1>5. CASE SvcRemoved \/ SvcInserted
  BY <1>1, <1>5 DEF SvcRemoved, SvcInserted, Inserted, FaultInv, Boot
<1>6. CASE Svc /\ ~(SvcStart \/ SvcLoaded \/ SvcComplete \/ SvcRemoved \/ SvcInserted)
  BY <1>6 DEF Svc, SvcSwitch, SvcSeek, SvcPause, SvcCartridge, SvcStop, SvcStopWait, SvcStopTimeout,
    SvcStopReset, SvcPaused, SvcCommit, SvcRestore, SvcStartReset, SvcSendDecoder, SvcSendReader,
    playVars
<1>7. CASE \/ Output \/ EventLoop \/ Callers \/ Cart \/ Reader \/ Decoder \/ UNCHANGED vars
  BY <1>7 DEF Output, EventLoop, Callers, EnvUnchanged, Cart, CartUnchanged, Reader, RdrUnchanged,
    Decoder, DecUnchanged, vars, playVars
<1> QED
  BY <1>2, <1>3, <1>4, <1>5, <1>6, <1>7 DEF Next

(* No start is refused, no read of a header fails and no cartridge leaves:   *)
(* a player that plays goes on until the chip is reset.                      *)
THEOREM KeepsPlaying == Faultless => (Spec => NeverGivenUp)
<1>1. TypeOK /\ FaultInv /\ [Next]_vars => [playing => playing']_vars
  BY GoesOn
<1> QED
  BY <1>1, FaultAlways, TypeCorrect, PTL DEF Spec, NeverGivenUp


-----------------------------------------------------------------------------
(* The pipeline implements the sessions of module Playback: the service's    *)
(* assignments start one, a decoded chunk plays it on, the last of the two   *)
(* tasks to come to rest ends it.                                            *)

sessions == <<SessionRuns, stopRequested, activeGen, index, currentChunk>>

LEMMA Running ==
  SessionRuns <=> svcPc \in {"startReset", "sendDecoder", "sendReader"} \/ ~Rest
  BY DEF SessionRuns, Rest

LEMMA RunningNext ==
  SessionRuns' <=> svcPc' \in {"startReset", "sendDecoder", "sendReader"} \/ ~Rest'
  BY DEF SessionRuns, Rest

LEMMA SessionsInit == Init => Sessions!Init
<1> SUFFICES ASSUME Init PROVE Sessions!Init
  OBVIOUS
<1>1. ~SessionRuns /\ ~stopRequested /\ activeGen = 0 /\ index = 0 /\ currentChunk = 0
  BY DEF Init, SessionRuns
<1>2. 0 \in Tracks /\ 0 \in 0 .. LookupLen - 1
  BY PipelineAssumption DEF PipelineAssumption, Tracks
<1>3. SessionRuns = FALSE /\ stopRequested = FALSE
  BY <1>1 DEF Init, SessionRuns
<1> QED
  BY <1>1, <1>2, <1>3 DEF Sessions!Init, Sessions!Positions

LEMMA SessionsSvc ==
  ASSUME TypeOK, FaultInv, Svc PROVE Sessions!Next \/ UNCHANGED sessions
<1>1. SessionInv /\ Begun /\ Boot
  BY DEF FaultInv, OrderInv, EndInv
<1>2. UNCHANGED <<rdrPc, decPc>>
  BY DEF Svc, SvcSwitch, SvcSeek, SvcPause, SvcComplete, SvcCartridge, SvcTake, SvcStop,
    SvcStopWait, SvcStopTimeout, SvcStopReset, SvcPaused, SvcRemoved, SvcInserted, SvcStart,
    SvcStartFails, SvcLoaded, SvcCommit, SvcRestore, SvcStartReset, SvcSendDecoder,
    SvcSendReader, Others, rdrVars, decVars
<1>3. svcTrack \in Tracks /\ svcChunk \in 0 .. LookupLen - 1
  BY DEF TypeOK, SvcTypeOK, Chunks
<1>4. CASE \/ SvcSwitch \/ SvcSeek \/ SvcPause \/ SvcComplete \/ SvcCartridge
           \/ SvcStopWait \/ SvcStopTimeout \/ SvcPaused \/ SvcRemoved \/ SvcInserted
           \/ SvcStart \/ SvcLoaded
  <2>1. /\ UNCHANGED <<stopRequested, activeGen, currentChunk, readerCmd, decoderCmd>>
        /\ svcPc \notin {"startReset", "sendDecoder", "sendReader"}
        /\ svcPc' \notin {"startReset", "sendDecoder", "sendReader"}
    BY <1>4 DEF SvcSwitch, SvcSeek, SvcPause, SvcComplete, SvcCartridge, SvcTake, SvcStopWait,
      SvcStopTimeout, SvcPaused, SvcRemoved, SvcInserted, SvcStart,
      SvcStartFails, SvcLoaded, SvcIdle, Goto, genVars, queueVars, playVars, svcVars
  <2>2. index' = index
    BY <1>1, <1>4 DEF SvcSwitch, SvcSeek, SvcPause, SvcComplete, SvcCartridge, SvcStopWait,
      SvcStopTimeout, SvcPaused, SvcRemoved, SvcInserted, SvcStart, SvcStartFails, SvcLoaded, playVars, Boot
  <2>3. SessionRuns' = SessionRuns
    BY <1>2, <2>1 DEF SessionRuns
  <2> QED
    BY <2>1, <2>2, <2>3 DEF sessions
<1>5. CASE SvcStop
  <2>1. /\ UNCHANGED <<activeGen, currentChunk, index, readerCmd, decoderCmd>>
        /\ svcPc = "stop" /\ svcPc' \in {"stopReset", "stopWait"}
        /\ PipelineIdle => stopRequested' = stopRequested
        /\ ~PipelineIdle => stopRequested' = TRUE
    BY <1>5 DEF SvcStop, genVars, queueVars, playVars
  <2>2. SessionRuns' = SessionRuns
    BY <1>2, <2>1 DEF SessionRuns
  <2>3. CASE PipelineIdle
    BY <2>1, <2>2, <2>3 DEF sessions
  <2>4. CASE ~PipelineIdle
    <3>1. ~Rest
      BY <1>1, <2>4 DEF SessionInv, Bits, Rest, PipelineIdle, TypeOK, QueueTypeOK
    <3>2. SessionRuns
      BY <3>1, Running
    <3> QED
      BY <2>1, <2>2, <2>4, <3>2 DEF Sessions!Next, Sessions!Cancel
  <2> QED
    BY <2>3, <2>4
<1>6. CASE SvcStopReset \/ SvcStartReset
  <2>1. /\ svcPc \in {"stopReset", "startReset"} /\ ResetPipeline
        /\ UNCHANGED <<stopRequested, activeGen, index, currentChunk>>
        /\ svcPc' \in {"startReset", "sendDecoder", "sendReader"} <=> svcPc = "startReset"
    BY <1>6 DEF SvcStopReset, SvcStartReset, genVars, playVars
  <2>2. Rest
    BY <1>1, <2>1 DEF SessionInv, HandedOver
  <2>3. Rest'
    BY <1>2, <2>1, <2>2 DEF ResetPipeline, Rest
  <2>4. SessionRuns' <=> SessionRuns
    BY <2>1, <2>2, <2>3, Running, RunningNext
  <2>5. SessionRuns' = SessionRuns
    BY <2>4 DEF SessionRuns
  <2> QED
    BY <2>1, <2>5 DEF sessions
<1>7. CASE SvcCommit
  <2>1. /\ svcPc = "commit" /\ svcPc' = "startReset" /\ activeGen' = activeGen + 1
        /\ index' = svcTrack /\ currentChunk' = svcChunk /\ stopRequested' = FALSE
    BY <1>7 DEF SvcCommit
  <2>2. SessionRuns' = TRUE
    BY <2>1 DEF SessionRuns
  <2>3. ~SessionRuns
    <3>1. Rest
      BY <1>1, <2>1 DEF SessionInv, HandedOver
    <3> QED
      BY <2>1, <3>1, Running
  <2> QED
    BY <1>3, <2>1, <2>2, <2>3 DEF Sessions!Next, Sessions!Start, Sessions!Positions
<1>8. CASE SvcRestore
  <2>1. /\ svcPc = "commit" /\ svcPc' = "idle" /\ activeGen' = activeGen /\ ResetPipeline
        /\ index' = svcTrack /\ currentChunk' = svcChunk /\ stopRequested' = FALSE
    BY <1>8 DEF SvcRestore, SvcIdle, Goto
  <2>2. Rest
    BY <1>1, <2>1 DEF SessionInv, HandedOver
  <2>3. Rest'
    BY <1>2, <2>1, <2>2 DEF ResetPipeline, Rest
  <2>4. ~SessionRuns /\ (SessionRuns' <=> SessionRuns)
    BY <2>1, <2>2, <2>3, Running, RunningNext
  <2>5. SessionRuns' = SessionRuns
    BY <2>4 DEF SessionRuns
  <2> QED
    BY <1>3, <2>1, <2>4, <2>5 DEF Sessions!Next, Sessions!Restore, Sessions!Positions
<1>9. CASE SvcSendDecoder \/ SvcSendReader
  <2>1. /\ UNCHANGED <<stopRequested, activeGen, index, currentChunk>>
        /\ svcPc \in {"sendDecoder", "sendReader"}
        /\ svcPc' = "sendReader" \/ readerCmd' # <<>>
    BY <1>9 DEF SvcSendDecoder, SvcSendReader, genVars, playVars
  <2>2. SessionRuns' = SessionRuns
    BY <2>1 DEF SessionRuns
  <2> QED
    BY <2>1, <2>2 DEF sessions
<1> QED
  BY <1>4, <1>5, <1>6, <1>7, <1>8, <1>9 DEF Svc

(* A session that ends was cancelled or has played its last chunk.           *)
LEMMA SessionsEnd ==
  ASSUME UNCHANGED <<stopRequested, activeGen, index, currentChunk>>,
         SessionRuns' => SessionRuns,
         SessionRuns /\ ~SessionRuns' => stopRequested \/ currentChunk = LookupLen - 1
  PROVE  Sessions!Next \/ UNCHANGED sessions
<1>1. CASE SessionRuns /\ ~SessionRuns'
  <2>1. SessionRuns' = FALSE
    BY <1>1 DEF SessionRuns
  <2> QED
    BY <1>1, <2>1 DEF Sessions!Next, Sessions!End
<1>2. CASE ~(SessionRuns /\ ~SessionRuns')
  <2>1. SessionRuns' = SessionRuns
    BY <1>2 DEF SessionRuns
  <2> QED
    BY <2>1 DEF sessions
<1> QED
  BY <1>1, <1>2

LEMMA SessionsReader ==
  ASSUME Faultless, TypeOK, FaultInv, Reader PROVE Sessions!Next \/ UNCHANGED sessions
<1>1. UNCHANGED <<stopRequested, activeGen, index, currentChunk>>
  BY DEF Reader, RdrUnchanged, genVars, playVars
<1>2. SessionRuns
  BY DEF SessionRuns, Reader, RdrTake, RdrBegin, RdrLoop, RdrLoadWindow, RdrBounds,
    RdrFlush, RdrTakeBuffer, RdrRequest, RdrPollStop, RdrNotified, RdrSend, RdrDone, RdrEof, RdrClose
<1>3. ASSUME ~SessionRuns' PROVE stopRequested \/ currentChunk = LookupLen - 1
  <2>1. rdrPc' = "idle" /\ decPc' \in {"idle", "complete"} /\ decoderCmd' = <<>>
    BY <1>3 DEF SessionRuns
  <2>2. /\ rdrPc # "idle" /\ decoderCmd' = decoderCmd
        /\ decPc' = decPc \/ (decPc = "blocked" /\ decPc' = "complete")
    <3>1. rdrPc # "idle"
      BY <2>1 DEF Reader, RdrTake, RdrBegin, RdrLoop, RdrLoadWindow, RdrBounds, RdrFlush, RdrTakeBuffer,
        RdrRequest, RdrPollStop, RdrNotified, RdrSend, RdrDone, RdrEof, RdrClose
    <3> QED
      BY <3>1, ReaderEnds DEF FaultInv
  <2>3. CASE decPc = "blocked"
    BY <2>3 DEF FaultInv, Whole
  <2>4. CASE decPc # "blocked"
    <3>1. Unused
      BY <2>1, <2>2, <2>4 DEF Unused
    <3> QED
      BY <2>2, <3>1 DEF FaultInv, EndInv, Ended
  <2> QED
    BY <2>3, <2>4
<1> QED
  BY <1>1, <1>2, <1>3, SessionsEnd

LEMMA SessionsDecoder ==
  ASSUME Faultless, TypeOK, TypeOK', FaultInv, Decoder PROVE Sessions!Next \/ UNCHANGED sessions
<1>1. /\ UNCHANGED <<stopRequested, activeGen, index, rdrPc>>
      /\ svcPc' \in {"startReset", "sendDecoder", "sendReader"}
           <=> svcPc \in {"startReset", "sendDecoder", "sendReader"}
  BY DecoderWakes DEF Decoder, DecUnchanged, genVars, rdrVars
<1>2. CASE DecReceive
  <2>1. OrderInv
    BY DEF FaultInv
  <2>2. currentChunk' \in {currentChunk, currentChunk + 1}
    BY <1>2, <2>1, ReceiveOrder
  <2>3. decPc = "receive" /\ decPc' \notin {"idle", "complete"}
    BY <1>2 DEF DecReceive, DecGoto
  <2>4. SessionRuns /\ SessionRuns' = SessionRuns
    BY <2>3 DEF SessionRuns
  <2>5. CASE currentChunk' = currentChunk
    BY <1>1, <2>4, <2>5 DEF sessions
  <2>6. CASE currentChunk' = currentChunk + 1
    <3>1. currentChunk < LookupLen - 1
      BY <2>6, PipelineAssumption DEF PipelineAssumption, TypeOK, PlayTypeOK, Chunks
    <3> QED
      BY <1>1, <2>4, <2>6, <3>1 DEF Sessions!Next, Sessions!PlayOn
  <2> QED
    BY <2>2, <2>5, <2>6
<1>3. CASE ~DecReceive
  <2>1. /\ UNCHANGED <<currentChunk, readerCmd>>
        /\ decPc = "complete" => decPc' = "idle" /\ decoderCmd' = decoderCmd
        /\ decPc = "idle" => decoderCmd # <<>> /\ decPc' \notin {"idle", "complete"}
        /\ decPc \notin {"idle", "complete"} /\ decPc' \in {"idle", "complete"}
             => decPc \in {"finish", "blocked"}
    BY <1>3 DEF Decoder, DecTake, DecOpen, DecLoop, DecPoll, DecChunk, DecPush, DecWrite, DecFinish,
      DecAwait, DecTimeout, DecComplete, DecGoto, queueVars, FaultInv, OrderInv, SessionInv, Bits
  <2>2. SessionRuns' => SessionRuns
    BY <1>1, <2>1 DEF SessionRuns
  <2>3. SessionRuns /\ ~SessionRuns' => stopRequested \/ currentChunk = LookupLen - 1
    <3>1. SessionRuns /\ ~SessionRuns' => decPc \in {"finish", "blocked"}
      BY <1>1, <2>1 DEF SessionRuns
    <3> QED
      BY <3>1 DEF FaultInv, Whole
  <2> QED
    BY <1>1, <2>1, <2>2, <2>3, SessionsEnd
<1> QED
  BY <1>2, <1>3

LEMMA SessionsNext ==
  ASSUME Faultless, TypeOK, TypeOK', FaultInv, [Next]_vars PROVE Sessions!Next \/ UNCHANGED sessions
<1>1. CASE Output \/ EventLoop \/ Callers \/ Cart \/ UNCHANGED vars
  <2>1. UNCHANGED <<stopRequested, activeGen, index, currentChunk, rdrPc, decPc, svcPc>>
    BY <1>1 DEF Output, EventLoop, Callers, EnvUnchanged, Cart, CartUnchanged, vars, playVars, genVars,
      rdrVars, decVars, svcVars
  <2>2. UNCHANGED <<readerCmd, decoderCmd>>
    BY <1>1 DEF Output, PcmPull, EventLoop, DeliverEvent, QueueCmd, Callers, RequestSwitch,
      RequestPause, RequestSeek, Request, Unmount, Mount, Cart, CartUnchanged, vars, queueVars
  <2>3. SessionRuns' = SessionRuns
    BY <2>1, <2>2 DEF SessionRuns
  <2> QED
    BY <2>1, <2>3 DEF sessions
<1> QED
  BY <1>1, SessionsSvc, SessionsReader, SessionsDecoder DEF Next

(* Where nothing fails, player_service_start_track,                          *)
(* player_service_stop_playback and the two tasks play one session at a      *)
(* time, from where it was started to its last chunk or its stop.            *)
THEOREM SessionsImplemented == Faultless => (Spec => OneSession)
<1> SUFFICES ASSUME Faultless PROVE Spec => OneSession
  OBVIOUS
<1>1. Init => Sessions!Init
  BY SessionsInit
<1>2. TypeOK /\ TypeOK' /\ FaultInv /\ [Next]_vars => [Sessions!Next]_(Sessions!vars)
  BY SessionsNext DEF sessions, Sessions!vars
<1> QED
  BY <1>1, <1>2, FaultAlways, TypeCorrect, PTL DEF Spec, OneSession, Sessions!Spec

=============================================================================
