-------------------------- MODULE PlayerControlProofs --------------------------
(***************************************************************************)
(* Proofs about PlayerControl, for any number of tracks and seconds, any   *)
(* thresholds and any tasks that set the playback mode.                    *)
(*                                                                         *)
(* Types and the counting of plays hold however the tasks overlap.  What   *)
(* is said of the shuffle order holds when no other task runs while it is  *)
(* built (Undisturbed): then it is a permutation but for the entry being   *)
(* swapped (Ordered), the position in it is that of the track that plays   *)
(* (InPlace), and what was heard is a stretch of it that ends there        *)
(* (PassKept).                                                             *)
(***************************************************************************)
EXTENDS PlayerControl, WellFoundedInduction, TLAPS

BuildPcs == {"idle", "pos", "fill", "swap", "put", "fix"}

(* The flags, apart: they are proved by a prover of their own.              *)
Flags ==
  /\ hasPlaylist \in BOOLEAN /\ loaded \in BOOLEAN
  /\ playing \in BOOLEAN /\ paused \in BOOLEAN /\ emitted \in BOOLEAN
  /\ complete \in BOOLEAN /\ faulted \in BOOLEAN

OrderTyped == mode \in Modes /\ order \in [Tracks -> Tracks] /\ pos \in Tracks \cup {NoPos}

PlayTyped ==
  /\ index \in Tracks /\ slot \in {"inserted", "in", "gone"}
  /\ resumeChunk \in Chunks /\ currentChunk \in Chunks
  /\ pipe \in {"idle", "run", "stop", "drain"} /\ nextChunk \in 0 .. LookupLen

SvcTyped ==
  /\ svcPc \in {"idle", "scan", "stop"}
  /\ svcOp \in {"none", "begin", "next", "shuffle", "prev", "jump", "seek", "pause", "removed"}
  /\ svcTrack \in Tracks /\ svcChunk \in Chunks

HistTyped ==
  /\ via \in {"none", "begin", "next", "shuffle", "prev", "jump", "seek", "resume"}
  /\ heard \subseteq Tracks /\ counted \in Nat

BuildTyped == build \in [Builders -> BuildType]

Typed == OrderTyped /\ PlayTyped /\ SvcTyped /\ HistTyped /\ BuildTyped

-----------------------------------------------------------------------------
(* Operators of the model                                                   *)

LEMMA Ends ==
  /\ 0 \in Tracks /\ TrackCount - 1 \in Tracks /\ 0 \in Chunks /\ LookupLen - 1 \in Chunks
  /\ TrackCount \in Nat \ {0} /\ LookupLen \in Nat \ {0} /\ "svc" \in Builders
BY ControlAssumption DEF ControlAssumption, Tracks, Chunks, Builders

LEMMA Below ==
  ASSUME NEW i \in Tracks
  PROVE  /\ 0 .. i \subseteq Tracks /\ 1 .. TrackCount - 1 \subseteq Tracks
         /\ i # 0 => i - 1 \in Tracks
BY Ends DEF Tracks

LEMMA ClampIsChunk == \A c \in Nat : Clamp(c) \in Chunks
BY Ends DEF Clamp, Chunks

LEMMA FastTargetIsChunk ==
  Typed => FastTarget(TRUE) \in Chunks /\ FastTarget(FALSE) \in Chunks
<1> SUFFICES ASSUME Typed PROVE FastTarget(TRUE) \in Chunks /\ FastTarget(FALSE) \in Chunks
  OBVIOUS
<1>1. Here \in Chunks /\ Chunks \subseteq Nat /\ FastSeekSeconds \in Nat
  BY ControlAssumption DEF ControlAssumption, Here, Typed, PlayTyped, Chunks
<1>2. Clamp(Here) \in Chunks /\ Clamp(Here) \in Nat
  BY <1>1, ClampIsChunk
<1>3. Clamp(Here) + FastSeekSeconds \in Nat
  BY <1>1, <1>2
<1>4. FastTarget(TRUE) \in Chunks
  BY <1>3, ClampIsChunk DEF FastTarget
<1>5. FastTarget(FALSE) \in Chunks
  BY <1>1, <1>2, Ends DEF FastTarget, Chunks
<1> QED
  BY <1>4, <1>5

(* A set of tracks has a smallest one.                                      *)
LEMMA Smallest ==
  ASSUME NEW S, S \subseteq Tracks, S # {}
  PROVE  \E i \in S : \A k \in S : i <= k
<1>1. S \subseteq Nat
  BY Ends DEF Tracks
<1>2. \E i \in S : \A k \in S : <<k, i>> \notin OpToRel(<, Nat)
  BY <1>1, NatLessThanWellFounded, WFMin
<1>3. PICK i \in S : \A k \in S : <<k, i>> \notin OpToRel(<, Nat)
  BY <1>2
<1>4. ASSUME NEW k \in S PROVE i <= k
  <2>1. k \in Nat /\ i \in Nat
    BY <1>1
  <2>2. ~(k < i)
    BY <1>3, <2>1 DEF OpToRel
  <2> QED
    BY <2>1, <2>2
<1> QED
  BY <1>3, <1>4

LEMMA SyncPosFacts ==
  ASSUME NEW t \in Tracks, NEW p
  PROVE  \/ SyncPos(t, p) = p /\ (mode # "shuffle" \/ \A i \in Tracks : order[i] # t)
         \/ SyncPos(t, p) \in Tracks /\ order[SyncPos(t, p)] = t /\ mode = "shuffle"
<1> DEFINE found == {i \in Tracks : order[i] = t}
<1>1. CASE mode = "shuffle" /\ found # {}
  <2>1. \E i \in found : \A k \in found : i <= k
    BY <1>1, Smallest
  <2>2. SyncPos(t, p) = CHOOSE i \in found : \A k \in found : i <= k
    BY <1>1 DEF SyncPos
  <2>3. SyncPos(t, p) \in found
    BY <2>1, <2>2
  <2> QED
    BY <1>1, <2>3
<1>2. CASE ~(mode = "shuffle" /\ found # {})
  BY <1>2 DEF SyncPos
<1> QED
  BY <1>1, <1>2

LEMMA PosMoves ==
  Typed => /\ NextPos \in Tracks /\ PrevPos \in Tracks
           /\ PosAfterNext \in Tracks \cup {NoPos} /\ PosAfterPrev \in Tracks \cup {NoPos}
           /\ NextIndex(TRUE) \in Tracks /\ NextIndex(FALSE) \in Tracks /\ PrevIndex \in Tracks
<1> SUFFICES ASSUME Typed
    PROVE /\ NextPos \in Tracks /\ PrevPos \in Tracks
          /\ PosAfterNext \in Tracks \cup {NoPos} /\ PosAfterPrev \in Tracks \cup {NoPos}
          /\ NextIndex(TRUE) \in Tracks /\ NextIndex(FALSE) \in Tracks /\ PrevIndex \in Tracks
  OBVIOUS
<1>1. /\ pos \in Tracks \cup {NoPos} /\ index \in Tracks /\ order \in [Tracks -> Tracks]
      /\ TrackCount \in Nat \ {0}
  BY Ends DEF Typed, OrderTyped, PlayTyped
<1>2. NextPos \in Tracks /\ PrevPos \in Tracks
  BY <1>1, Ends DEF NextPos, PrevPos, Tracks, NoPos
<1>3. SequentialNext \in Tracks /\ (index > 0 => index - 1 \in Tracks)
  BY <1>1, Ends DEF SequentialNext, Tracks
<1>4. order[NextPos] \in Tracks /\ order[PrevPos] \in Tracks
  BY <1>1, <1>2
<1>5. PosAfterNext \in Tracks \cup {NoPos} /\ PosAfterPrev \in Tracks \cup {NoPos}
  BY <1>1, <1>2 DEF PosAfterNext, PosAfterPrev
<1>6. NextIndex(TRUE) \in Tracks /\ NextIndex(FALSE) \in Tracks
  BY <1>1, <1>3, <1>4 DEF NextIndex
<1>7. PrevIndex \in Tracks
  BY <1>1, <1>3, <1>4, Ends DEF PrevIndex
<1> QED
  BY <1>2, <1>5, <1>6, <1>7

-----------------------------------------------------------------------------
(* Flags                                                                    *)

LEMMA FlagsInit == Init => Flags
BY Zenon DEF Init, Flags

LEMMA StartFlags ==
  ASSUME Flags, NEW t, NEW c, NEW how, NEW p, Start(t, c, how, p)
  PROVE  Flags'
<1>1. CASE StartTrack(t, c, how, p)
  <2>1. EmittedAfter(t, c) \in BOOLEAN
    <3>1. CASE t = index /\ c > 0 /\ (playing \/ paused)
      BY <3>1, Zenon DEF EmittedAfter, Flags
    <3>2. CASE ~(t = index /\ c > 0 /\ (playing \/ paused))
      BY <3>2, Zenon DEF EmittedAfter
    <3> QED
      BY <3>1, <3>2
  <2> QED
    BY <1>1, <2>1, Zenon DEF Flags, Start, StartTrack
<1>2. CASE StartRefused(p) /\ UNCHANGED complete
  BY <1>2, Zenon DEF Flags, Start, StartRefused
<1> QED
  BY <1>1, <1>2 DEF Start

LEMMA FlagsStep == Flags /\ [Next]_vars => Flags'
<1> SUFFICES ASSUME Flags, [Next]_vars PROVE Flags'
  OBVIOUS
<1> USE DEF Flags
<1>1. CASE UNCHANGED vars
  BY <1>1, Zenon DEF vars, listVars, playVars, pipeVars
<1>2. ASSUME NEW t \in Builders, Build(t) PROVE Flags'
  <2>1. CASE BuildFill(t) \/ BuildSwap(t) \/ BuildPut(t) \/ BuildFix(t)
    BY <2>1, Zenon
       DEF BuildFill, BuildSwap, BuildPut, BuildFix, BuildUnchanged, listVars, playVars, pipeVars
  <2>2. CASE SetMode(t) \/ SetModePos(t)
    BY <2>2, Zenon DEF SetMode, SetModePos, listVars, playVars, pipeVars
  <2> QED
    BY <1>2, <2>1, <2>2 DEF Build
<1>3. CASE Advance
  <2>1. UNCHANGED <<hasPlaylist, loaded, playing, paused, complete, faulted>>
        /\ (emitted' = TRUE \/ emitted' = emitted)
    BY <1>3, Zenon DEF Advance, listVars
  <2> QED
    BY <2>1, Zenon
<1>4. CASE Finish
  BY <1>4, Zenon DEF Finish, listVars, playVars
<1>5. CASE Svc
  <2>1. CASE NextTrack \/ Previous \/ PlayIndex \/ Removed
    BY <2>1, Zenon DEF NextTrack, Previous, PlayIndex, Removed, Stop, listVars
  <2>2. CASE Seek
    BY <2>2, Zenon DEF Seek, Stop, listVars, pipeVars
  <2>3. CASE Pause
    BY <2>3, Zenon DEF Pause, Stop, listVars
  <2>4. CASE Resume
    BY <2>4, StartFlags DEF Resume
  <2>5. CASE TrackComplete
    <3>1. CASE StartTrack(NextIndex(FALSE), 0, ViaNext, PosAfterNext)
      <4>1. Start(NextIndex(FALSE), 0, ViaNext, PosAfterNext)
        BY <2>5, <3>1 DEF Start, TrackComplete
      <4> QED
        BY <4>1, StartFlags
    <3>2. CASE StartRefused(PosAfterNext) /\ complete' = FALSE
      BY <2>5, <3>2, Zenon DEF StartRefused, TrackComplete
    <3>3. CASE /\ playing' = FALSE /\ complete' = FALSE
               /\ UNCHANGED <<pos, index, loaded, paused, resumeChunk, currentChunk,
                              emitted, pipe, nextChunk, histVars>>
      BY <2>5, <3>3, Zenon DEF TrackComplete
    <3> QED
      BY <2>5, <3>1, <3>2, <3>3 DEF TrackComplete
  <2>6. CASE Inserted
    BY <2>6, Zenon DEF Inserted, playVars, pipeVars
  <2>7. CASE Begin
    <3>1. ASSUME NEW t, NEW c, RestorePaused(t, c) PROVE Flags'
      BY <3>1, Zenon DEF RestorePaused, pipeVars
    <3> QED
      BY <2>7, <3>1, StartFlags DEF Begin
  <2>8. CASE StoppedThenStart \/ StoppedPrevious
    BY <2>8, StartFlags DEF StoppedThenStart, StoppedPrevious
  <2>9. CASE StoppedPause
    BY <2>9, Zenon DEF StoppedPause, listVars
  <2>10. CASE StoppedRemoved
    <3>1. (\E t \in Builders : build[t].pc \in {"fill", "swap", "put"}) \in BOOLEAN
      BY Zenon
    <3> QED
      BY <2>10, <3>1, Zenon DEF StoppedRemoved
  <2> QED
    BY <1>5, <2>1, <2>2, <2>3, <2>4, <2>5, <2>6, <2>7, <2>8, <2>9, <2>10 DEF Svc
<1> QED
  BY <1>1, <1>2, <1>3, <1>4, <1>5 DEF Next

-----------------------------------------------------------------------------
(* Types                                                                    *)

LEMMA TypedInit == Init => Typed
<1> SUFFICES ASSUME Init PROVE Typed
  OBVIOUS
<1>1. OrderTyped /\ PlayTyped /\ SvcTyped /\ HistTyped
  BY Ends DEF Init, OrderTyped, PlayTyped, SvcTyped, HistTyped, Modes
<1>2. BuildTyped
  BY Ends DEF Init, BuildTyped, BuildType
<1> QED
  BY <1>1, <1>2 DEF Typed

(* The shape of a task that builds, and of the step that moves it.          *)
LEMMA BuildFacts ==
  ASSUME Typed, NEW t \in Builders
  PROVE  /\ build[t].pc \in BuildPcs /\ build[t].i \in Tracks
         /\ build[t].j \in Tracks /\ build[t].tmp \in Tracks
BY DEF Typed, BuildTyped, BuildType, BuildPcs

LEMMA GoBuildFacts ==
  ASSUME Typed, NEW t \in Builders, NEW pc \in BuildPcs, NEW i \in Tracks, NEW j \in Tracks,
         NEW tmp \in Tracks, GoBuild(t, pc, i, j, tmp)
  PROVE  /\ BuildTyped'
         /\ build'[t].pc = pc /\ build'[t].i = i /\ build'[t].j = j /\ build'[t].tmp = tmp
         /\ \A u \in Builders \ {t} : build'[u] = build[u]
<1>1. build \in [Builders -> BuildType]
  BY DEF Typed, BuildTyped
<1>2. [pc |-> pc, i |-> i, j |-> j, tmp |-> tmp] \in BuildType
  BY DEF BuildType, BuildPcs
<1> QED
  BY <1>1, <1>2 DEF GoBuild, BuildTyped

LEMMA SwapTyped ==
  ASSUME Typed, NEW i \in Tracks, NEW k \in Tracks
  PROVE  [order EXCEPT ![i] = k] \in [Tracks -> Tracks]
BY DEF Typed, OrderTyped

LEMMA TypedBuild == ASSUME Typed, NEW t \in Builders, Build(t) PROVE Typed'
<1>1. /\ build[t].i \in Tracks /\ build[t].j \in Tracks /\ build[t].tmp \in Tracks
      /\ 0 \in Tracks /\ TrackCount - 1 \in Tracks
      /\ order \in [Tracks -> Tracks]
      /\ mode \in Modes /\ pos \in Tracks \cup {NoPos}
  BY BuildFacts, Ends DEF Typed, OrderTyped
<1>2. /\ 0 .. build[t].i \subseteq Tracks
      /\ 1 .. TrackCount - 1 \subseteq Tracks
      /\ build[t].i # 0 => build[t].i - 1 \in Tracks
  <2>1. build[t].i \in Tracks
    BY <1>1
  <2> QED
    BY <2>1, Below
<1>3. {"idle", "pos", "fill", "swap", "put", "fix"} = BuildPcs
  BY DEF BuildPcs
<1>4. ASSUME UNCHANGED <<listVars, playVars, pipeVars, svcVars>> PROVE PlayTyped' /\ SvcTyped'
  BY <1>4 DEF Typed, PlayTyped, SvcTyped, listVars, playVars, pipeVars, svcVars
<1>5. ASSUME BuildUnchanged, order' \in [Tracks -> Tracks], BuildTyped' PROVE Typed'
  <2>1. PlayTyped' /\ SvcTyped'
    BY <1>4, <1>5 DEF BuildUnchanged
  <2>2. OrderTyped' /\ HistTyped'
    BY <1>1, <1>5 DEF BuildUnchanged, histVars, Typed, OrderTyped, HistTyped
  <2> QED
    BY <1>5, <2>1, <2>2 DEF Typed
<1>6. CASE BuildFill(t)
  <2>1. GoBuild(t, "swap", TrackCount - 1, 0, 0) /\ order' = [i \in Tracks |-> i] /\ BuildUnchanged
    BY <1>6 DEF BuildFill
  <2>2. BuildTyped'
    BY <1>1, <1>3, <2>1, GoBuildFacts
  <2> QED
    BY <1>5, <2>1, <2>2
<1>7. CASE BuildSwap(t)
  <2>1. BuildUnchanged
    BY <1>7 DEF BuildSwap
  <2>2. CASE build[t].i = 0
    <3>1. GoBuild(t, "fix", 0, 0, 0) /\ order' = order
      BY <1>7, <2>2 DEF BuildSwap
    <3>2. BuildTyped'
      BY <1>1, <1>3, <3>1, GoBuildFacts
    <3> QED
      BY <1>1, <1>5, <2>1, <3>1, <3>2
  <2>3. CASE build[t].i # 0
    <3>1. PICK j \in 0 .. build[t].i : /\ order' = [order EXCEPT ![build[t].i] = order[j]]
                                       /\ GoBuild(t, "put", build[t].i, j, order[build[t].i])
      BY <1>7, <2>3 DEF BuildSwap
    <3>2. j \in Tracks /\ order[j] \in Tracks /\ order[build[t].i] \in Tracks
      BY <1>1, <1>2
    <3>3. BuildTyped'
      BY <1>1, <1>3, <3>1, <3>2, GoBuildFacts
    <3>4. order' \in [Tracks -> Tracks]
      BY <1>1, <3>1, <3>2, SwapTyped
    <3> QED
      BY <1>5, <2>1, <3>3, <3>4
  <2> QED
    BY <2>2, <2>3
<1>8. CASE BuildPut(t)
  <2>1. /\ BuildUnchanged /\ order' = [order EXCEPT ![build[t].j] = build[t].tmp]
        /\ GoBuild(t, IF build[t].i = 0 THEN "idle" ELSE "swap",
                   IF build[t].i = 0 THEN 0 ELSE build[t].i - 1, 0, 0)
    BY <1>8 DEF BuildPut
  <2>2. /\ (IF build[t].i = 0 THEN "idle" ELSE "swap") \in BuildPcs
        /\ (IF build[t].i = 0 THEN 0 ELSE build[t].i - 1) \in Tracks
    BY <1>1, <1>2, <1>3
  <2>3. BuildTyped'
    BY <1>1, <2>1, <2>2, GoBuildFacts
  <2> QED
    BY <1>1, <1>5, <2>1, <2>3, SwapTyped
<1>9. CASE BuildFix(t)
  <2>1. BuildUnchanged
    BY <1>9 DEF BuildFix
  <2>2. CASE GoBuild(t, "idle", 0, 0, 0) /\ UNCHANGED order
    <3>1. BuildTyped'
      BY <1>1, <1>3, <2>2, GoBuildFacts
    <3> QED
      BY <1>1, <1>5, <2>1, <2>2, <3>1
  <2>3. ASSUME NEW j \in 1 .. TrackCount - 1, order' = [order EXCEPT ![0] = order[j]],
               GoBuild(t, "put", 0, j, order[0])
        PROVE  Typed'
    <3>1. j \in Tracks /\ order[j] \in Tracks /\ order[0] \in Tracks
      BY <1>1, <1>2
    <3>2. BuildTyped'
      BY <1>1, <1>3, <2>3, <3>1, GoBuildFacts
    <3> QED
      BY <1>1, <1>5, <2>1, <2>3, <3>1, <3>2, SwapTyped
  <2> QED
    BY <1>9, <2>2, <2>3 DEF BuildFix
<1>10. CASE SetMode(t)
  <2>1. PICK m \in Modes :
          mode' = m /\ IF m = "shuffle" THEN GoBuild(t, "pos", 0, 0, 0) ELSE UNCHANGED build
    BY <1>10 DEF SetMode
  <2>2. BuildTyped'
    <3>1. CASE GoBuild(t, "pos", 0, 0, 0)
      BY <1>1, <1>3, <3>1, GoBuildFacts
    <3>2. CASE UNCHANGED build
      BY <3>2 DEF Typed, BuildTyped
    <3> QED
      BY <2>1, <3>1, <3>2
  <2>3. PlayTyped' /\ SvcTyped'
    BY <1>4, <1>10 DEF SetMode
  <2>4. OrderTyped' /\ HistTyped'
    BY <1>1, <1>10, <2>1 DEF SetMode, histVars, Typed, OrderTyped, HistTyped
  <2> QED
    BY <2>2, <2>3, <2>4 DEF Typed
<1>11. CASE SetModePos(t)
  <2>1. /\ pos' = NoPos /\ heard' = {} /\ UNCHANGED <<mode, order, via, counted>>
        /\ GoBuild(t, IF hasPlaylist THEN "fill" ELSE "idle", 0, 0, 0)
    BY <1>11 DEF SetModePos
  <2>2. (IF hasPlaylist THEN "fill" ELSE "idle") \in BuildPcs
    BY <1>3
  <2>3. BuildTyped'
    BY <1>1, <2>1, <2>2, GoBuildFacts
  <2>4. PlayTyped' /\ SvcTyped'
    BY <1>4, <1>11 DEF SetModePos
  <2>5. OrderTyped' /\ HistTyped'
    BY <1>1, <2>1 DEF Typed, OrderTyped, HistTyped
  <2> QED
    BY <2>3, <2>4, <2>5 DEF Typed
<1> QED
  BY <1>6, <1>7, <1>8, <1>9, <1>10, <1>11 DEF Build

Hows == {"begin", "next", "shuffle", "prev", "jump", "seek", "resume"}

LEMMA RecordTyped ==
  ASSUME Typed, NEW t \in Tracks, NEW c, NEW how \in Hows, Record(t, c, how)
  PROVE  HistTyped'
<1>1. via' \in Hows
  BY DEF Record
<1>2. heard' \subseteq Tracks
  <2>1. heard \subseteq Tracks
    BY DEF Typed, HistTyped
  <2>2. heard' = {t} \/ heard' = heard \cup {t}
    BY DEF Record
  <2> QED
    BY <2>1, <2>2
<1>3. counted' \in Nat
  BY DEF Record, Typed, HistTyped
<1> QED
  BY <1>1, <1>2, <1>3 DEF HistTyped, Hows

LEMMA StartTrackTyped ==
  ASSUME Typed, NEW t \in Tracks, NEW c \in Chunks, NEW how \in Hows,
         NEW p \in Tracks \cup {NoPos}, StartTrack(t, c, how, p), UNCHANGED <<mode, order, slot>>
  PROVE  OrderTyped' /\ PlayTyped' /\ HistTyped'
<1>1. OrderTyped'
  <2>1. SyncPos(t, p) \in Tracks \cup {NoPos}
    BY SyncPosFacts
  <2> QED
    BY <2>1 DEF StartTrack, Typed, OrderTyped
<1>2. PlayTyped'
  BY Ends DEF StartTrack, Typed, PlayTyped, Chunks
<1>3. HistTyped'
  BY RecordTyped DEF StartTrack
<1> QED
  BY <1>1, <1>2, <1>3

LEMMA StartRefusedTyped ==
  ASSUME Typed, NEW p \in Tracks \cup {NoPos}, StartRefused(p), UNCHANGED <<mode, order, slot>>
  PROVE  OrderTyped' /\ PlayTyped' /\ HistTyped'
BY DEF StartRefused, Typed, OrderTyped, PlayTyped, HistTyped

LEMMA StartTyped ==
  ASSUME Typed, NEW t \in Tracks, NEW c \in Chunks, NEW how \in Hows,
         NEW p \in Tracks \cup {NoPos}, Start(t, c, how, p)
  PROVE  OrderTyped' /\ PlayTyped' /\ HistTyped' /\ BuildTyped'
<1>1. UNCHANGED <<mode, order, slot, build>>
  BY DEF Start
<1>2. OrderTyped' /\ PlayTyped' /\ HistTyped'
  BY <1>1, StartTrackTyped, StartRefusedTyped DEF Start
<1>3. BuildTyped'
  BY <1>1 DEF Typed, BuildTyped
<1> QED
  BY <1>2, <1>3

LEMMA IdleTyped == Idle => SvcTyped'
BY Ends DEF Idle, Goto, SvcTyped

StopOps == {"next", "shuffle", "prev", "jump", "seek", "pause", "removed"}

LEMMA StopTyped ==
  ASSUME Typed, NEW op \in StopOps, NEW t \in Tracks, NEW c \in Chunks, Stop(op, t, c),
         pos' \in Tracks \cup {NoPos}, resumeChunk' \in Chunks
  PROVE  Typed'
<1>1. SvcTyped'
  BY DEF Stop, Goto, SvcTyped, StopOps
<1>2. PlayTyped' /\ OrderTyped' /\ HistTyped'
  BY DEF Stop, listVars, histVars, Typed, OrderTyped, PlayTyped, HistTyped
<1>3. BuildTyped'
  BY DEF Stop, Typed, BuildTyped
<1> QED
  BY <1>1, <1>2, <1>3 DEF Typed

LEMMA TypedSvc == Typed /\ Svc => Typed'
<1> SUFFICES ASSUME Typed, Svc PROVE Typed'
  OBVIOUS
<1>1. /\ pos \in Tracks \cup {NoPos} /\ resumeChunk \in Chunks /\ currentChunk \in Chunks
      /\ currentChunk \in Nat /\ index \in Tracks /\ svcTrack \in Tracks /\ svcChunk \in Chunks
      /\ mode \in Modes /\ order \in [Tracks -> Tracks] /\ NoPos \in Tracks \cup {NoPos}
  BY DEF Typed, OrderTyped, PlayTyped, SvcTyped, Chunks
<1>2. ViaNext \in {"next", "shuffle"}
  BY DEF ViaNext
<1>3. CASE NextTrack
  BY <1>1, <1>2, <1>3, Ends, PosMoves, StopTyped DEF NextTrack, StopOps
<1>4. CASE Previous
  BY <1>1, <1>4, Ends, StopTyped DEF Previous, StopOps
<1>5. CASE PlayIndex
  BY <1>1, <1>5, Ends, StopTyped DEF PlayIndex, StopOps
<1>6. CASE Seek
  <2>1. PICK target \in Chunks \cup {FastTarget(TRUE), FastTarget(FALSE)} :
          /\ resumeChunk' = target
          /\ \/ /\ paused
                /\ UNCHANGED <<mode, order, listVars, playing, currentChunk,
                               emitted, pipeVars, svcVars, build, faulted, histVars>>
             \/ ~paused /\ Stop("seek", index, target)
    BY <1>6 DEF Seek
  <2>2. target \in Chunks /\ pos' = pos
    BY <1>6, <2>1, FastTargetIsChunk DEF Seek
  <2>3. CASE Stop("seek", index, target)
    BY <1>1, <2>1, <2>2, <2>3, StopTyped DEF StopOps
  <2>4. CASE UNCHANGED <<mode, order, listVars, playing, currentChunk,
                         emitted, pipeVars, svcVars, build, faulted, histVars>>
    <3>1. OrderTyped' /\ PlayTyped' /\ SvcTyped' /\ HistTyped'
      BY <1>1, <2>1, <2>2, <2>4
         DEF listVars, pipeVars, svcVars, histVars, Typed, OrderTyped, PlayTyped, SvcTyped, HistTyped
    <3>2. BuildTyped'
      BY <2>4 DEF Typed, BuildTyped
    <3> QED
      BY <3>1, <3>2 DEF Typed
  <2> QED
    BY <2>1, <2>3, <2>4
<1>7. CASE Pause
  <2>1. Clamp(currentChunk) \in Chunks
    BY <1>1, ClampIsChunk
  <2> QED
    BY <1>1, <1>7, <2>1, Ends, StopTyped DEF Pause, StopOps
<1>8. CASE Resume
  <2>1. OrderTyped' /\ PlayTyped' /\ HistTyped' /\ BuildTyped'
    BY <1>1, <1>8, StartTyped DEF Resume, Hows
  <2>2. SvcTyped'
    BY <1>8 DEF Resume, svcVars, Typed, SvcTyped
  <2> QED
    BY <2>1, <2>2 DEF Typed
<1>9. CASE TrackComplete
  <2>1. /\ UNCHANGED <<mode, order, slot>> /\ UNCHANGED build
        /\ UNCHANGED <<svcPc, svcOp, svcTrack, svcChunk>>
    BY <1>9 DEF TrackComplete, svcVars
  <2>2. BuildTyped' /\ SvcTyped'
    BY <2>1 DEF Typed, BuildTyped, SvcTyped
  <2>3. CASE StartTrack(NextIndex(FALSE), 0, ViaNext, PosAfterNext)
    <3>1. ViaNext \in Hows
      BY <1>2 DEF Hows
    <3>2. OrderTyped' /\ PlayTyped' /\ HistTyped'
      BY <2>1, <2>3, <3>1, Ends, PosMoves, StartTrackTyped
    <3> QED
      BY <2>2, <3>2 DEF Typed
  <2>4. CASE StartRefused(PosAfterNext)
    <3>1. OrderTyped' /\ PlayTyped' /\ HistTyped'
      BY <2>1, <2>4, PosMoves, StartRefusedTyped
    <3> QED
      BY <2>2, <3>1 DEF Typed
  <2>5. CASE UNCHANGED <<pos, index, loaded, paused, resumeChunk, currentChunk,
                         emitted, pipe, nextChunk, histVars>>
    <3>1. OrderTyped' /\ PlayTyped' /\ HistTyped'
      BY <2>1, <2>5 DEF histVars, Typed, OrderTyped, PlayTyped, HistTyped
    <3> QED
      BY <2>2, <3>1 DEF Typed
  <2> QED
    BY <1>9, <2>3, <2>4, <2>5 DEF TrackComplete
<1>10. CASE Removed
  BY <1>1, <1>10, Ends, StopTyped DEF Removed, StopOps
<1>11. CASE Inserted
  <2>1. /\ slot' = "in" /\ index' = 0 /\ pos' = 0 /\ order' = [i \in Tracks |-> 0]
        /\ Goto("scan", "begin", 0, 0) /\ GoBuild("svc", "fill", 0, 0, 0)
        /\ UNCHANGED <<mode, playVars, pipeVars, histVars>>
    BY <1>11 DEF Inserted
  <2>2. BuildTyped'
    BY <2>1, Ends, GoBuildFacts DEF BuildPcs
  <2>3. OrderTyped' /\ PlayTyped' /\ HistTyped' /\ SvcTyped'
    BY <2>1, Ends DEF Goto, playVars, pipeVars, histVars, Typed, OrderTyped, PlayTyped, HistTyped,
                      SvcTyped
  <2> QED
    BY <2>2, <2>3 DEF Typed
<1>12. CASE Begin
  <2>1. PICK t \in Tracks, c \in Chunks : Start(t, c, "begin", NoPos) \/ RestorePaused(t, c)
    BY <1>12 DEF Begin
  <2>2. SvcTyped'
    BY <1>12, IdleTyped DEF Begin
  <2>3. CASE Start(t, c, "begin", NoPos)
    <3>1. OrderTyped' /\ PlayTyped' /\ HistTyped' /\ BuildTyped'
      BY <1>1, <2>3, StartTyped DEF Hows
    <3> QED
      BY <2>2, <3>1 DEF Typed
  <2>4. CASE RestorePaused(t, c)
    <3>1. SyncPos(t, NoPos) \in Tracks \cup {NoPos}
      BY SyncPosFacts
    <3>2. OrderTyped' /\ PlayTyped'
      BY <1>1, <2>4, <3>1 DEF RestorePaused, pipeVars, Typed, OrderTyped, PlayTyped
    <3>3. HistTyped'
      BY <2>4, RecordTyped DEF RestorePaused, Hows
    <3>4. BuildTyped'
      BY <2>4 DEF RestorePaused, Typed, BuildTyped
    <3> QED
      BY <2>2, <3>2, <3>3, <3>4 DEF Typed
  <2> QED
    BY <2>1, <2>3, <2>4
<1>13. CASE StoppedThenStart
  <2>1. svcOp \in Hows /\ Start(svcTrack, svcChunk, svcOp, pos) /\ Idle
    BY <1>13 DEF StoppedThenStart, Hows
  <2> QED
    BY <1>1, <2>1, IdleTyped, StartTyped DEF Typed
<1>14. CASE StoppedPrevious
  <2>1. PICK t \in Tracks, p \in Tracks \cup {NoPos} : Start(t, 0, "prev", p)
    BY <1>1, <1>14, PosMoves DEF StoppedPrevious
  <2>2. Idle
    BY <1>14 DEF StoppedPrevious
  <2>3. OrderTyped' /\ PlayTyped' /\ HistTyped' /\ BuildTyped'
    BY <2>1, Ends, StartTyped DEF Hows
  <2> QED
    BY <2>2, <2>3, IdleTyped DEF Typed
<1>15. CASE StoppedPause
  <2>1. SvcTyped'
    BY <1>15, IdleTyped DEF StoppedPause
  <2>2. OrderTyped' /\ PlayTyped' /\ HistTyped'
    BY <1>15 DEF StoppedPause, orderVars, listVars, histVars, Typed, OrderTyped, PlayTyped, HistTyped
  <2>3. BuildTyped'
    BY <1>15 DEF StoppedPause, Typed, BuildTyped
  <2> QED
    BY <2>1, <2>2, <2>3 DEF Typed
<1>16. CASE StoppedRemoved
  <2>1. SvcTyped'
    BY <1>16, IdleTyped DEF StoppedRemoved
  <2>2. /\ order' = [i \in Tracks |-> 0] /\ pos' = 0 /\ slot' = "gone" /\ pipe' = "idle"
        /\ UNCHANGED <<mode, index, nextChunk, resumeChunk, currentChunk, build, histVars>>
    BY <1>16 DEF StoppedRemoved
  <2>3. OrderTyped' /\ PlayTyped' /\ HistTyped'
    BY <2>2, Ends DEF histVars, Typed, OrderTyped, PlayTyped, HistTyped
  <2>4. BuildTyped'
    BY <2>2 DEF Typed, BuildTyped
  <2> QED
    BY <2>1, <2>3, <2>4 DEF Typed
<1> QED
  BY <1>3, <1>4, <1>5, <1>6, <1>7, <1>8, <1>9, <1>10, <1>11, <1>12, <1>13, <1>14, <1>15, <1>16
     DEF Svc

LEMMA TypedStep == Typed /\ [Next]_vars => Typed'
<1> SUFFICES ASSUME Typed, [Next]_vars PROVE Typed'
  OBVIOUS
<1>1. CASE Advance
  <2>1. /\ currentChunk' \in Chunks /\ nextChunk' \in 0 .. LookupLen
        /\ counted' \in Nat /\ pipe' \in {"run", "drain"}
    BY <1>1, Ends DEF Advance, Typed, PlayTyped, HistTyped, Chunks
  <2>2. OrderTyped' /\ PlayTyped' /\ SvcTyped' /\ HistTyped'
    BY <1>1, <2>1 DEF Advance, orderVars, listVars, svcVars, Typed, OrderTyped, PlayTyped, SvcTyped,
                      HistTyped
  <2>3. BuildTyped'
    BY <1>1 DEF Advance, Typed, BuildTyped
  <2> QED
    BY <2>2, <2>3 DEF Typed
<1>2. CASE Finish
  <2>1. OrderTyped' /\ PlayTyped' /\ SvcTyped' /\ HistTyped'
    BY <1>2 DEF Finish, orderVars, listVars, playVars, svcVars, histVars, Typed, OrderTyped,
                PlayTyped, SvcTyped, HistTyped
  <2>2. BuildTyped'
    BY <1>2 DEF Finish, Typed, BuildTyped
  <2> QED
    BY <2>1, <2>2 DEF Typed
<1>3. CASE UNCHANGED vars
  <2>1. OrderTyped' /\ PlayTyped' /\ SvcTyped' /\ HistTyped'
    BY <1>3 DEF vars, orderVars, listVars, playVars, pipeVars, svcVars, histVars, Typed, OrderTyped,
                PlayTyped, SvcTyped, HistTyped
  <2>2. BuildTyped'
    BY <1>3 DEF vars, Typed, BuildTyped
  <2> QED
    BY <2>1, <2>2 DEF Typed
<1> QED
  BY <1>1, <1>2, <1>3, TypedSvc, TypedBuild DEF Next

-----------------------------------------------------------------------------
(* The playlist and the handler under way                                   *)

Listed ==
  /\ playing \/ svcPc # "idle" \/ slot = "in" => hasPlaylist
  /\ slot = "inserted" \/ svcPc = "scan" => ~playing /\ ~paused /\ pipe = "idle"
  /\ slot = "inserted" => svcPc = "idle" /\ ~hasPlaylist
  /\ svcPc = "stop" => svcOp \in StopOps
  /\ svcPc = "stop" /\ svcOp \in {"seek", "pause"} => playing
  /\ svcPc = "stop" /\ svcOp = "seek" => svcTrack = index
  /\ svcPc = "stop" /\ svcOp \in {"next", "shuffle", "prev", "jump"} => svcChunk = 0
  /\ paused => pipe = "idle"

LEMMA ListedInit == Init => Listed /\ CountedOnce
BY DEF Init, Listed, CountedOnce

LEMMA StartListed ==
  ASSUME Listed, hasPlaylist, NEW t, NEW c, NEW how, NEW p, Start(t, c, how, p),
         svcPc' = "idle"
  PROVE  Listed'
<1>1. CASE StartTrack(t, c, how, p)
  <2>1. playing' = TRUE /\ paused' = FALSE /\ UNCHANGED <<hasPlaylist, slot>>
    BY <1>1 DEF StartTrack, Start
  <2> QED
    BY <2>1 DEF Listed
<1>2. CASE StartRefused(p)
  <2>1. playing' = FALSE /\ pipe' = "idle" /\ UNCHANGED <<hasPlaylist, slot>>
    BY <1>2 DEF StartRefused, Start
  <2> QED
    BY <2>1 DEF Listed
<1> QED
  BY <1>1, <1>2 DEF Start

LEMMA StopListed ==
  ASSUME Listed, hasPlaylist, svcPc = "idle", NEW op \in StopOps, NEW t, NEW c, Stop(op, t, c),
         paused' => paused,
         op \in {"seek", "pause"} => playing, op = "seek" => t = index,
         op \in {"next", "shuffle", "prev", "jump"} => c = 0
  PROVE  Listed'
<1>1. /\ svcPc' = "stop" /\ svcOp' = op /\ svcTrack' = t /\ svcChunk' = c
      /\ pipe' = IF pipe = "run" THEN "stop" ELSE pipe
      /\ UNCHANGED <<hasPlaylist, slot, index, playing>>
  BY DEF Stop, Goto, listVars
<1> QED
  BY <1>1 DEF Listed

LEMMA ListedSvc == Typed /\ Listed /\ Svc => Listed'
<1> SUFFICES ASSUME Typed, Listed, Svc PROVE Listed'
  OBVIOUS
<1>1. ViaNext \in {"next", "shuffle"} /\ {"next", "shuffle", "prev", "jump", "seek", "pause", "removed"} = StopOps
  BY DEF ViaNext, StopOps
<1>2. CASE NextTrack \/ Previous \/ PlayIndex
  BY <1>1, <1>2, StopListed DEF NextTrack, Previous, PlayIndex, SvcMay
<1>3. CASE Seek
  <2>1. PICK target \in Chunks \cup {FastTarget(TRUE), FastTarget(FALSE)} :
          \/ UNCHANGED <<mode, order, listVars, playing, currentChunk,
                         emitted, pipeVars, svcVars, build, faulted, histVars>>
          \/ Stop("seek", index, target)
    BY <1>3 DEF Seek
  <2>2. playing /\ hasPlaylist /\ svcPc = "idle" /\ paused' = paused
    BY <1>3 DEF Seek, SvcMay, Listed
  <2>3. CASE Stop("seek", index, target)
    BY <1>1, <2>2, <2>3, StopListed
  <2>4. CASE UNCHANGED <<mode, order, listVars, playing, currentChunk,
                         emitted, pipeVars, svcVars, build, faulted, histVars>>
    BY <2>2, <2>4 DEF listVars, pipeVars, svcVars, Listed
  <2> QED
    BY <2>1, <2>3, <2>4
<1>4. CASE Pause
  BY <1>1, <1>4, StopListed DEF Pause, SvcMay, Listed
<1>5. CASE Resume
  <2>1. hasPlaylist /\ svcPc' = "idle" /\ Start(index, resumeChunk, "resume", pos)
    BY <1>5 DEF Resume, SvcMay, svcVars, Listed
  <2> QED
    BY <2>1, StartListed
<1>6. CASE TrackComplete
  <2>1. svcPc = "idle" /\ UNCHANGED <<hasPlaylist, slot, svcPc, svcOp, svcTrack, svcChunk>>
    BY <1>6 DEF TrackComplete, SvcMay, svcVars
  <2>2. CASE hasPlaylist /\ StartTrack(NextIndex(FALSE), 0, ViaNext, PosAfterNext)
    <3>1. playing' = TRUE /\ paused' = FALSE
      BY <2>2 DEF StartTrack
    <3> QED
      BY <2>1, <2>2, <3>1 DEF Listed
  <2>3. CASE hasPlaylist /\ StartRefused(PosAfterNext)
    <3>1. playing' = FALSE /\ pipe' = "idle"
      BY <2>3 DEF StartRefused
    <3> QED
      BY <2>1, <2>3, <3>1 DEF Listed
  <2>4. CASE ~hasPlaylist /\ playing' = FALSE /\ UNCHANGED <<paused, pipe>>
    BY <2>1, <2>4 DEF Listed
  <2> QED
    BY <1>6, <2>2, <2>3, <2>4 DEF TrackComplete
<1>7. CASE Removed
  BY <1>1, <1>7, StopListed DEF Removed, SvcMay, Listed
<1>8. CASE Inserted
  <2>1. /\ slot = "inserted" /\ slot' = "in" /\ hasPlaylist' = TRUE /\ svcPc' = "scan"
        /\ UNCHANGED <<playing, paused, pipe>>
    BY <1>8 DEF Inserted, Goto, playVars, pipeVars
  <2> QED
    BY <2>1 DEF Listed
<1>9. CASE Begin
  <2>1. PICK t \in Tracks, c \in Chunks : Start(t, c, "begin", NoPos) \/ RestorePaused(t, c)
    BY <1>9 DEF Begin
  <2>2. svcPc' = "idle" /\ hasPlaylist /\ svcPc = "scan"
    BY <1>9 DEF Begin, Idle, Goto, SvcMay, Listed
  <2>3. CASE Start(t, c, "begin", NoPos)
    BY <2>2, <2>3, StartListed
  <2>4. CASE RestorePaused(t, c)
    <3>1. playing' = TRUE /\ UNCHANGED <<hasPlaylist, slot, pipe>>
      BY <2>4 DEF RestorePaused, pipeVars
    <3> QED
      BY <2>2, <3>1 DEF Listed
  <2> QED
    BY <2>1, <2>3, <2>4
<1>10. CASE StoppedThenStart \/ StoppedPrevious
  <2>1. PICK t, c, how, p : Start(t, c, how, p)
    BY <1>10 DEF StoppedThenStart, StoppedPrevious
  <2>2. svcPc' = "idle" /\ hasPlaylist
    BY <1>10 DEF StoppedThenStart, StoppedPrevious, Stopped, SvcMay, Idle, Goto, Listed
  <2> QED
    BY <2>1, <2>2, StartListed
<1>11. CASE StoppedPause
  <2>1. svcPc' = "idle" /\ svcPc = "stop" /\ pipe' = "idle" /\ UNCHANGED <<hasPlaylist, slot, playing>>
    BY <1>11 DEF StoppedPause, Stopped, SvcMay, Idle, Goto, listVars
  <2> QED
    BY <2>1 DEF Listed
<1>12. CASE StoppedRemoved
  <2>1. svcPc' = "idle" /\ slot' = "gone" /\ playing' = FALSE /\ paused' = FALSE
    BY <1>12 DEF StoppedRemoved, Idle, Goto
  <2> QED
    BY <2>1 DEF Listed
<1> QED
  BY <1>2, <1>3, <1>4, <1>5, <1>6, <1>7, <1>8, <1>9, <1>10, <1>11, <1>12 DEF Svc

LEMMA ListedStep == Typed /\ Listed /\ [Next]_vars => Listed'
<1> SUFFICES ASSUME Typed, Listed, [Next]_vars PROVE Listed'
  OBVIOUS
<1>1. ASSUME UNCHANGED <<hasPlaylist, slot, index, playing, paused, svcPc, svcOp, svcTrack, svcChunk>>,
             pipe' = pipe \/ (~paused /\ pipe # "idle")
      PROVE  Listed'
  BY <1>1 DEF Listed
<1>2. ASSUME NEW t \in Builders, Build(t) PROVE Listed'
  <2>1. UNCHANGED <<listVars, playVars, pipeVars, svcVars>>
    BY <1>2 DEF Build, BuildFill, BuildSwap, BuildPut, BuildFix, BuildUnchanged, SetMode, SetModePos
  <2> QED
    BY <1>1, <2>1 DEF listVars, playVars, pipeVars, svcVars
<1>3. CASE Advance
  BY <1>1, <1>3 DEF Advance, listVars, svcVars, Listed
<1>4. CASE Finish
  BY <1>1, <1>4 DEF Finish, listVars, playVars, svcVars, Listed
<1>5. CASE UNCHANGED vars
  BY <1>1, <1>5 DEF vars, listVars, playVars, pipeVars, svcVars
<1> QED
  BY <1>2, <1>3, <1>4, <1>5, ListedSvc DEF Next

-----------------------------------------------------------------------------
(* Counting                                                                 *)

(* Chunks that have not passed yet are not counted.                         *)
LEMMA PlaceIsInt == Typed => /\ currentChunk \in Int /\ nextChunk \in Int /\ counted \in Nat
                             /\ \A c \in Chunks : c # c + 1
BY DEF Typed, PlayTyped, HistTyped, Chunks

(* A start either keeps both the play's mark and its count, or neither.     *)
LEMMA StartCounts ==
  ASSUME Typed, Flags, CountedOnce, NEW t, NEW c \in Chunks, NEW how, NEW p, StartTrack(t, c, how, p),
         \/ c = 0
         \/ how \in {"seek", "resume"} /\ t = index /\ playing
         \/ how = "begin" /\ ~playing /\ ~paused
  PROVE  CountedOnce'
<1>1. emitted' = EmittedAfter(t, c) /\ nextChunk' = c /\ currentChunk' = c
  BY DEF StartTrack
<1>2. counted' = IF t = index /\ c > 0 /\ how \in {"seek", "resume"} THEN counted ELSE 0
  BY DEF StartTrack, Record
<1>3. c # c + 1
  BY PlaceIsInt
<1>4. CASE c > 0 /\ how \in {"seek", "resume"} /\ t = index /\ playing
  BY <1>1, <1>2, <1>3, <1>4 DEF EmittedAfter, CountedOnce
<1>5. CASE c = 0
  <2>1. ~(c > 0)
    BY <1>5
  <2> QED
    BY <1>1, <1>2, <1>3, <2>1 DEF EmittedAfter, CountedOnce
<1>6. CASE how = "begin" /\ ~playing /\ ~paused
  BY <1>1, <1>2, <1>3, <1>6 DEF EmittedAfter, CountedOnce
<1>7. CASE c = 0 \/ c > 0
  BY <1>4, <1>5, <1>6, <1>7
<1>8. c = 0 \/ c > 0
  BY DEF Chunks
<1> QED
  BY <1>7, <1>8

LEMMA RefusedCounts ==
  ASSUME CountedOnce, NEW p, StartRefused(p)
  PROVE  CountedOnce'
<1>1. pipe' = "idle" /\ UNCHANGED <<emitted, counted>>
  BY DEF StartRefused
<1> QED
  BY <1>1 DEF CountedOnce

LEMMA StopCounts ==
  ASSUME CountedOnce, NEW op, NEW t, NEW c, Stop(op, t, c)
  PROVE  CountedOnce'
<1>1. pipe' # "run" /\ UNCHANGED <<emitted, counted>>
  BY DEF Stop, histVars
<1> QED
  BY <1>1 DEF CountedOnce

LEMMA CountedSvc == Typed /\ Flags /\ Listed /\ CountedOnce /\ Svc => CountedOnce'
<1> SUFFICES ASSUME Typed, Flags, Listed, CountedOnce, Svc PROVE CountedOnce'
  OBVIOUS
<1>1. CASE NextTrack \/ Previous \/ PlayIndex \/ Pause \/ Removed
  BY <1>1, StopCounts DEF NextTrack, Previous, PlayIndex, Pause, Removed
<1>2. CASE Seek
  <2>1. \/ \E target : Stop("seek", index, target)
        \/ UNCHANGED <<mode, order, listVars, playing, currentChunk,
                       emitted, pipeVars, svcVars, build, faulted, histVars>>
    BY <1>2 DEF Seek
  <2>2. CASE UNCHANGED <<mode, order, listVars, playing, currentChunk,
                         emitted, pipeVars, svcVars, build, faulted, histVars>>
    BY <2>2 DEF CountedOnce, PastRestart, listVars, pipeVars, histVars
  <2> QED
    BY <2>1, <2>2, StopCounts
<1>3. 0 \in Chunks /\ resumeChunk \in Chunks /\ svcChunk \in Chunks
  BY Ends DEF Typed, PlayTyped, SvcTyped
<1>4. CASE Resume
  <2>1. playing
    BY <1>4 DEF Resume
  <2>2. CASE StartTrack(index, resumeChunk, "resume", pos)
    BY <1>3, <2>1, <2>2, StartCounts
  <2> QED
    BY <1>4, <2>2, RefusedCounts DEF Resume, Start
<1>5. CASE TrackComplete
  <2>1. CASE UNCHANGED <<pos, index, loaded, paused, resumeChunk, currentChunk,
                         emitted, pipe, nextChunk, histVars>>
    BY <2>1 DEF CountedOnce, PastRestart, histVars
  <2>2. CASE StartTrack(NextIndex(FALSE), 0, ViaNext, PosAfterNext)
    BY <1>3, <2>2, StartCounts
  <2>3. CASE StartRefused(PosAfterNext)
    BY <2>3, RefusedCounts
  <2> QED
    BY <1>5, <2>1, <2>2, <2>3 DEF TrackComplete
<1>6. CASE Inserted
  <2>1. pipe' = "idle" /\ UNCHANGED <<emitted, counted>>
    BY <1>6 DEF Inserted, playVars, pipeVars, histVars, Listed
  <2> QED
    BY <2>1 DEF CountedOnce
<1>7. CASE Begin
  <2>1. PICK t \in Tracks, c \in Chunks : Start(t, c, "begin", NoPos) \/ RestorePaused(t, c)
    BY <1>7 DEF Begin
  <2>2. ~playing /\ ~paused /\ pipe = "idle"
    BY <1>7 DEF Begin, SvcMay, Listed
  <2>3. CASE StartTrack(t, c, "begin", NoPos)
    BY <2>2, <2>3, StartCounts
  <2>4. CASE RestorePaused(t, c)
    <3>1. emitted' = FALSE /\ pipe' = pipe /\ counted' = 0
      BY <2>4 DEF RestorePaused, Record, pipeVars
    <3> QED
      BY <2>2, <3>1 DEF CountedOnce
  <2> QED
    BY <2>1, <2>3, <2>4, RefusedCounts DEF Start
<1>8. CASE StoppedThenStart
  <2>1. CASE StartTrack(svcTrack, svcChunk, svcOp, pos)
    <3>1. svcChunk = 0 \/ (svcOp \in {"seek", "resume"} /\ svcTrack = index /\ playing)
      BY <1>8 DEF StoppedThenStart, Stopped, SvcMay, Listed
    <3> QED
      BY <1>3, <2>1, <3>1, StartCounts
  <2> QED
    BY <1>8, <2>1, RefusedCounts DEF StoppedThenStart, Start
<1>9. CASE StoppedPrevious
  <2>1. PICK t, p : Start(t, 0, "prev", p)
    BY <1>9 DEF StoppedPrevious
  <2> QED
    BY <1>3, <2>1, StartCounts, RefusedCounts DEF Start
<1>10. CASE StoppedPause \/ StoppedRemoved
  <2>1. pipe' = "idle" /\ UNCHANGED <<emitted, counted>>
    BY <1>10 DEF StoppedPause, StoppedRemoved, histVars
  <2> QED
    BY <2>1 DEF CountedOnce
<1> QED
  BY <1>1, <1>2, <1>4, <1>5, <1>6, <1>7, <1>8, <1>9, <1>10 DEF Svc

LEMMA CountedStep == Typed /\ Flags /\ Listed /\ CountedOnce /\ [Next]_vars => CountedOnce'
<1> SUFFICES ASSUME Typed, Flags, Listed, CountedOnce, [Next]_vars PROVE CountedOnce'
  OBVIOUS
<1>1. ASSUME UNCHANGED <<loaded, currentChunk, emitted, nextChunk, counted>>,
             pipe' = pipe \/ pipe' = "idle"
      PROVE  CountedOnce'
  BY <1>1 DEF CountedOnce, PastRestart
<1>2. ASSUME NEW t \in Builders, Build(t) PROVE CountedOnce'
  <2>1. UNCHANGED <<listVars, playVars, pipeVars, counted>>
    BY <1>2 DEF Build, BuildFill, BuildSwap, BuildPut, BuildFix, BuildUnchanged, SetMode, SetModePos,
                histVars
  <2> QED
    BY <1>1, <2>1 DEF listVars, playVars, pipeVars
<1>3. CASE Advance
  <2>1. /\ pipe # "idle" /\ currentChunk' = nextChunk /\ loaded' = loaded
        /\ IF PastRestart(IF paused THEN resumeChunk ELSE nextChunk) /\ ~emitted
           THEN emitted' = TRUE /\ counted' = counted + 1
           ELSE UNCHANGED <<emitted, counted>>
    BY <1>3 DEF Advance, listVars
  <2>2. ~paused
    BY <2>1 DEF Listed
  <2>3. PastRestart(currentChunk)' <=> PastRestart(nextChunk)
    BY <2>1 DEF PastRestart
  <2>4. CASE PastRestart(nextChunk) /\ ~emitted
    <3>1. emitted' = TRUE /\ counted' = 0 + 1
      BY <2>1, <2>2, <2>4 DEF CountedOnce
    <3> QED
      BY <3>1 DEF CountedOnce
  <2>5. CASE PastRestart(nextChunk) /\ emitted
    <3>1. emitted' = emitted /\ counted' = counted
      BY <2>1, <2>2, <2>5
    <3> QED
      BY <2>5, <3>1 DEF CountedOnce
  <2>6. CASE ~PastRestart(nextChunk)
    <3>1. emitted' = emitted /\ counted' = counted
      BY <2>1, <2>2, <2>6
    <3>2. ~PastRestart(currentChunk)'
      BY <2>3, <2>6
    <3> QED
      BY <3>1, <3>2 DEF CountedOnce
  <2> QED
    BY <2>4, <2>5, <2>6
<1>4. CASE Finish
  BY <1>1, <1>4 DEF Finish, listVars, playVars, histVars
<1>5. CASE UNCHANGED vars
  BY <1>1, <1>5 DEF vars, listVars, playVars, pipeVars, histVars
<1> QED
  BY <1>2, <1>3, <1>4, <1>5, CountedSvc DEF Next

-----------------------------------------------------------------------------
(* However the tasks overlap                                                *)

(* Every index, shuffle position and second stays inside its playlist, order *)
(* and track, also when set_playback_mode runs into a handler.              *)
THEOREM TypeCorrect == Spec => []TypeOK
<1>1. Init => Typed /\ Flags
  BY TypedInit, FlagsInit
<1>2. Typed /\ Flags /\ [Next]_vars => Typed' /\ Flags'
  BY TypedStep, FlagsStep
<1>3. Typed /\ Flags => TypeOK
  BY Zenon DEF Typed, Flags, OrderTyped, PlayTyped, SvcTyped, HistTyped, BuildTyped, TypeOK
<1> QED
  BY <1>1, <1>2, <1>3, PTL DEF Spec

(* A play is counted once, when it passes the restart threshold, and not    *)
(* again after a pause or a seek, also when another task sets the mode.     *)
THEOREM CountedRight == Spec => []CountedOnce
<1>1. Init => Typed /\ Flags /\ Listed /\ CountedOnce
  BY TypedInit, FlagsInit, ListedInit
<1>2. Typed /\ Flags /\ Listed /\ CountedOnce /\ [Next]_vars
        => Typed' /\ Flags' /\ Listed' /\ CountedOnce'
  BY TypedStep, FlagsStep, ListedStep, CountedStep
<1> QED
  BY <1>1, <1>2, PTL DEF Spec

-----------------------------------------------------------------------------
(* Permutations and stretches of an order                                   *)

Perm(o) ==
  /\ \A k \in Tracks : \E i \in Tracks : o[i] = k
  /\ \A i, k \in Tracks : o[i] = o[k] => i = k

(* The positions of a pass that began at s and has come to p.               *)
Arc(s, p) == IF s <= p THEN s .. p ELSE (s .. TrackCount - 1) \cup (0 .. p)

Before(p) == IF p = 0 THEN TrackCount - 1 ELSE p - 1

(* The tracks h are a pass of the order o that has come to p.               *)
Pass(o, h, p) == \E s \in Tracks : h = {o[i] : i \in Arc(s, p)}

LEMMA PermIdentity == Perm([i \in Tracks |-> i])
BY DEF Perm

LEMMA PermSwap ==
  ASSUME NEW o \in [Tracks -> Tracks], Perm(o), NEW i \in Tracks, NEW j \in Tracks,
         NEW q \in [Tracks -> Tracks], q[i] = o[j], q[j] = o[i],
         \A k \in Tracks \ {i, j} : q[k] = o[k]
  PROVE  Perm(q)
<1>1. ASSUME NEW k \in Tracks PROVE \E m \in Tracks : q[m] = k
  <2>1. PICK m \in Tracks : o[m] = k
    BY DEF Perm
  <2> QED
    BY <2>1
<1>2. ASSUME NEW a \in Tracks, NEW b \in Tracks, q[a] = q[b] PROVE a = b
  <2>1. \A x, y \in Tracks : o[x] = o[y] => x = y
    BY DEF Perm
  <2> QED
    BY <1>2, <2>1
<1> QED
  BY <1>1, <1>2 DEF Perm

LEMMA PermInjective ==
  ASSUME NEW o, Perm(o), NEW a \in Tracks, NEW b \in Tracks, o[a] = o[b] PROVE a = b
BY DEF Perm

(* In a permutation the position of a track is found, and is the only one.  *)
LEMMA Found ==
  ASSUME Perm(order), mode = "shuffle", NEW t \in Tracks, NEW p
  PROVE  SyncPos(t, p) \in Tracks /\ order[SyncPos(t, p)] = t
<1>1. \E i \in Tracks : order[i] = t
  BY DEF Perm
<1> QED
  BY <1>1, SyncPosFacts

LEMMA ArcFacts ==
  ASSUME NEW s \in Tracks, NEW p \in Tracks
  PROVE  Arc(s, p) \subseteq Tracks /\ p \in Arc(s, p) /\ Arc(p, p) = {p} /\ Before(p) \in Tracks
<1>1. s \in Int /\ p \in Int /\ 0 <= s /\ 0 <= p /\ s < TrackCount /\ p < TrackCount /\ TrackCount \in Int
  BY Ends DEF Tracks
<1>2. Arc(s, p) \subseteq Tracks /\ p \in Arc(s, p)
  BY <1>1 DEF Arc, Tracks
<1>3. Arc(p, p) = {p}
  BY <1>1 DEF Arc
<1>4. Before(p) \in Tracks
  BY <1>1 DEF Before, Tracks
<1> QED
  BY <1>2, <1>3, <1>4

(* One step on: a new position, or the whole order has been passed.         *)
LEMMA ArcGrows ==
  ASSUME NEW s \in Tracks, NEW q \in Tracks
  PROVE  /\ q \in Arc(s, Before(q)) => Arc(s, Before(q)) = Tracks
         /\ q \notin Arc(s, Before(q)) => Arc(s, q) = Arc(s, Before(q)) \cup {q}
<1>1. s \in Int /\ q \in Int /\ 0 <= s /\ 0 <= q /\ s < TrackCount /\ q < TrackCount /\ TrackCount \in Int
  BY Ends DEF Tracks
<1>2. CASE q = 0
  <2>1. Before(q) = TrackCount - 1
    BY <1>2 DEF Before
  <2>2. Arc(s, Before(q)) = s .. TrackCount - 1
    BY <1>1, <2>1 DEF Arc
  <2>3. CASE s = 0
    <3>1. Arc(s, Before(q)) = Tracks
      BY <2>2, <2>3 DEF Tracks
    <3> QED
      BY <3>1
  <2>4. CASE s # 0
    <3>1. Arc(s, q) = (s .. TrackCount - 1) \cup (0 .. 0)
      BY <1>1, <1>2, <2>4 DEF Arc
    <3>2. 0 .. 0 = {0} /\ 0 \notin s .. TrackCount - 1
      BY <1>1, <2>4
    <3> QED
      BY <1>2, <2>2, <3>1, <3>2
  <2> QED
    BY <2>3, <2>4
<1>3. CASE q # 0
  <2>1. Before(q) = q - 1
    BY <1>3 DEF Before
  <2>2. CASE s = q
    <3>1. Arc(s, Before(q)) = (q .. TrackCount - 1) \cup (0 .. q - 1)
      BY <1>1, <2>1, <2>2 DEF Arc
    <3>2. (q .. TrackCount - 1) \cup (0 .. q - 1) = 0 .. TrackCount - 1
      BY <1>1
    <3> QED
      BY <2>2, <3>1, <3>2, ArcFacts DEF Tracks
  <2>3. CASE s < q
    <3>1. Arc(s, Before(q)) = s .. q - 1 /\ Arc(s, q) = s .. q
      BY <1>1, <2>1, <2>3 DEF Arc
    <3>2. s .. q = (s .. q - 1) \cup {q} /\ q \notin s .. q - 1
      BY <1>1, <2>3
    <3> QED
      BY <3>1, <3>2
  <2>4. CASE s > q
    <3>1. /\ Arc(s, Before(q)) = (s .. TrackCount - 1) \cup (0 .. q - 1)
          /\ Arc(s, q) = (s .. TrackCount - 1) \cup (0 .. q)
      BY <1>1, <2>1, <2>4 DEF Arc
    <3>2. 0 .. q = (0 .. q - 1) \cup {q} /\ q \notin (s .. TrackCount - 1) \cup (0 .. q - 1)
      BY <1>1, <1>3, <2>4
    <3> QED
      BY <3>1, <3>2
  <2> QED
    BY <1>1, <2>2, <2>3, <2>4
<1> QED
  BY <1>2, <1>3

LEMMA PassBegins == ASSUME NEW o, NEW p \in Tracks PROVE Pass(o, {o[p]}, p)
<1>1. {o[p]} = {o[i] : i \in Arc(p, p)}
  BY ArcFacts
<1> QED
  BY <1>1 DEF Pass

LEMMA PassEnds == ASSUME NEW o, NEW h, NEW p \in Tracks, Pass(o, h, p) PROVE o[p] \in h
BY ArcFacts DEF Pass

(* The next track of the order is not one of the pass, unless it is over.   *)
LEMMA PassFresh ==
  ASSUME NEW o \in [Tracks -> Tracks], Perm(o), NEW h, NEW q \in Tracks, Pass(o, h, Before(q))
  PROVE  o[q] \notin h \/ h = Tracks
<1>1. PICK s \in Tracks : h = {o[i] : i \in Arc(s, Before(q))}
  BY DEF Pass
<1>2. Arc(s, Before(q)) \subseteq Tracks
  BY ArcFacts
<1>3. CASE q \in Arc(s, Before(q))
  <2>1. h = {o[i] : i \in Tracks}
    BY <1>1, <1>3, ArcGrows
  <2> QED
    BY <2>1 DEF Perm
<1>4. CASE q \notin Arc(s, Before(q))
  BY <1>1, <1>2, <1>4 DEF Perm
<1> QED
  BY <1>3, <1>4

LEMMA PassGrows ==
  ASSUME NEW o \in [Tracks -> Tracks], Perm(o), NEW h, NEW q \in Tracks, Pass(o, h, Before(q))
  PROVE  Pass(o, IF h = Tracks THEN {o[q]} ELSE h \cup {o[q]}, q)
<1>1. PICK s \in Tracks : h = {o[i] : i \in Arc(s, Before(q))}
  BY DEF Pass
<1>2. CASE h = Tracks
  BY <1>2, PassBegins
<1>3. CASE h # Tracks
  <2>1. q \notin Arc(s, Before(q))
    <3>1. ASSUME Arc(s, Before(q)) = Tracks PROVE FALSE
      <4>1. h = {o[i] : i \in Tracks}
        BY <1>1, <3>1
      <4> QED
        BY <1>3, <4>1 DEF Perm
    <3> QED
      BY <3>1, ArcGrows
  <2>2. Arc(s, q) = Arc(s, Before(q)) \cup {q}
    BY <2>1, ArcGrows
  <2>3. h \cup {o[q]} = {o[i] : i \in Arc(s, q)}
    BY <1>1, <2>2
  <2> QED
    BY <1>3, <2>3 DEF Pass
<1> QED
  BY <1>2, <1>3

LEMMA NextFollows ==
  Typed /\ pos # NoPos => Before(NextPos) = pos
<1> SUFFICES ASSUME Typed, pos # NoPos PROVE Before(NextPos) = pos
  OBVIOUS
<1>1. pos \in Tracks /\ TrackCount \in Int
  BY Ends DEF Typed, OrderTyped
<1> QED
  BY <1>1 DEF NextPos, Before, Tracks

-----------------------------------------------------------------------------
(* The shuffle order, undisturbed                                           *)

Pc(t) == build[t].pc
Quiet == \A t \in Builders : ~Building(t)

OneBuilder ==
  /\ \A t, u \in Builders : Building(t) /\ Building(u) => t = u
  /\ Building("svc") => svcPc = "scan" /\ Pc("svc") # "pos"

(* The order once the entry in hand is put down.                            *)
Closed(t) == [order EXCEPT ![build[t].j] = build[t].tmp]

(* What holds of the order while t builds it.                               *)
Progress(t) ==
  /\ Pc(t) = "pos" /\ hasPlaylist => Perm(order)
  /\ Pc(t) \in {"swap", "fix"} => Perm(order)
  /\ Pc(t) = "put" => Perm(Closed(t))
  /\ Pc(t) = "put" /\ build[t].i = 0 => order[0] # index /\ build[t].j # 0
  /\ t # "svc" /\ Pc(t) \in {"fill", "swap", "put", "fix"} => pos = NoPos /\ heard = {}

Ordered ==
  /\ hasPlaylist /\ Quiet => Perm(order)
  /\ \A t \in Builders : Progress(t)

(* No handler is under way, or one that leaves the track as it is.          *)
Steady == svcPc = "idle" \/ (svcPc = "stop" /\ svcOp \in {"pause", "seek"})

Placed == IF pos = NoPos THEN order[0] # index ELSE order[pos] = index

(* The position is that of the track that plays.                            *)
InPlace == playing /\ Shuffled /\ Quiet /\ Steady => Placed

NotTwice == svcPc = "stop" /\ svcOp = "shuffle" /\ playing => svcTrack # index

PassFits == svcPc = "stop" /\ svcOp = "shuffle" => svcTrack \notin heard \/ heard = Tracks

(* The pass heard so far ends at the position, or just before it while the  *)
(* next track of the order waits for the pipeline to stop.                  *)
PassKept ==
  Shuffled /\ Quiet /\ hasPlaylist /\ heard # {} =>
    /\ Steady => pos # NoPos /\ Pass(order, heard, pos)
    /\ svcPc = "stop" /\ svcOp = "shuffle" =>
         pos # NoPos /\ svcTrack = order[pos] /\ Pass(order, heard, Before(pos))

ShuffleInv == OneBuilder /\ Ordered /\ InPlace /\ NotTwice /\ PassFits /\ PassKept

LEMMA ShuffleInit == Init => ShuffleInv
<1> SUFFICES ASSUME Init PROVE ShuffleInv
  OBVIOUS
<1>1. \A t \in Builders : build[t].pc = "idle"
  BY DEF Init
<1>2. hasPlaylist = FALSE /\ playing = FALSE /\ svcPc = "idle"
  BY DEF Init
<1>3. OneBuilder
  BY <1>1, Ends DEF OneBuilder, Building
<1>4. Ordered
  BY <1>1, <1>2 DEF Ordered, Progress, Pc
<1>5. InPlace /\ NotTwice /\ PassFits /\ PassKept
  BY <1>2 DEF InPlace, NotTwice, PassFits, PassKept
<1> QED
  BY <1>3, <1>4, <1>5 DEF ShuffleInv

(* Nobody builds when player_svc acts, or ends its own build.               *)
LEMMA SvcQuiet ==
  ASSUME Undisturbed, OneBuilder, NEW pc, SvcMay(pc), pc = "scan" => ~Building("svc")
  PROVE  Quiet
<1>1. \A u \in Builders \ {"svc"} : ~Building(u)
  BY DEF SvcMay, Alone
<1>2. ~Building("svc")
  BY DEF SvcMay, OneBuilder
<1> QED
  BY <1>1, <1>2 DEF Quiet

LEMMA OthersIdle ==
  ASSUME Undisturbed, NEW t \in Builders, NEW pc, At(t, pc)
  PROVE  \A u \in Builders \ {t} : Pc(u) = "idle"
BY DEF At, Alone, Building, Pc

(* Steps that the order and the passes do not see.                          *)
LEMMA ShuffleUnseen ==
  ASSUME ShuffleInv, UNCHANGED <<mode, order, pos, hasPlaylist, index, playing,
                                 svcPc, svcOp, svcTrack, build, heard>>
  PROVE  ShuffleInv'
<1>1. /\ Quiet' = Quiet /\ Shuffled' = Shuffled /\ Steady' = Steady /\ Placed' = Placed
      /\ \A t : Building(t)' = Building(t) /\ Progress(t)' = Progress(t)
      /\ Pc("svc")' = Pc("svc")
  BY DEF Quiet, Shuffled, Steady, Placed, Building, Progress, Pc, Closed
<1>2. OneBuilder' /\ Ordered'
  BY <1>1 DEF ShuffleInv, OneBuilder, Ordered
<1>3. InPlace' /\ NotTwice' /\ PassFits' /\ PassKept'
  BY <1>1 DEF ShuffleInv, InPlace, NotTwice, PassFits, PassKept
<1> QED
  BY <1>2, <1>3 DEF ShuffleInv

(* A quiet step that leaves a permutation behind, or no playlist.           *)
LEMMA QuietOrdered ==
  ASSUME ShuffleInv, Quiet, UNCHANGED build, hasPlaylist' => Perm(order)'
  PROVE  OneBuilder' /\ Ordered' /\ Quiet'
<1>1. \A t \in Builders : build'[t].pc = "idle"
  BY DEF Quiet, Building
<1>2. OneBuilder' /\ Quiet'
  BY <1>1, Ends DEF OneBuilder, Building, Quiet
<1>3. Ordered'
  BY <1>1 DEF Ordered, Progress, Pc
<1> QED
  BY <1>2, <1>3

(* The track after the current one is another one.                          *)
LEMMA NextDiffers ==
  ASSUME Typed, Shuffled, Placed, Perm(order)
  PROVE  order[NextPos] # index
<1>1. /\ pos \in Tracks \cup {NoPos} /\ TrackCount > 1 /\ NextPos \in Tracks
      /\ order \in [Tracks -> Tracks]
  BY PosMoves DEF Typed, OrderTyped, Shuffled
<1>2. CASE pos = NoPos
  BY <1>1, <1>2 DEF Placed, NextPos
<1>3. CASE pos # NoPos
  <2>1. pos \in Tracks /\ order[pos] = index
    BY <1>1, <1>3 DEF Placed
  <2>2. NextPos # pos
    <3>1. pos \in Int /\ TrackCount \in Int
      BY <2>1, Ends DEF Tracks
    <3> QED
      BY <1>1, <1>3, <3>1 DEF NextPos
  <2> QED
    BY <1>1, <2>1, <2>2, PermInjective
<1> QED
  BY <1>2, <1>3

(* What the next position promises, in a steady state.                      *)
LEMMA NextShuffled ==
  ASSUME Typed, Listed, ShuffleInv, Quiet, Steady, hasPlaylist, Shuffled
  PROVE  /\ playing => order[NextPos] # index
         /\ order[NextPos] \notin heard \/ heard = Tracks
         /\ heard # {} => Pass(order, heard, Before(NextPos))
         /\ Perm(order) /\ NextPos \in Tracks /\ order \in [Tracks -> Tracks]
<1>1. Perm(order) /\ NextPos \in Tracks /\ order \in [Tracks -> Tracks]
  BY PosMoves DEF ShuffleInv, Ordered, Typed, OrderTyped
<1>2. playing => order[NextPos] # index
  BY <1>1, NextDiffers DEF ShuffleInv, InPlace
<1>3. heard # {} => Pass(order, heard, Before(NextPos))
  <2>1. ASSUME heard # {} PROVE pos # NoPos /\ Pass(order, heard, pos)
    BY <2>1 DEF ShuffleInv, PassKept
  <2> QED
    BY <2>1, NextFollows
<1>4. order[NextPos] \notin heard \/ heard = Tracks
  BY <1>1, <1>3, PassFresh
<1> QED
  BY <1>1, <1>2, <1>3, <1>4

(* A handler that stops the pipeline.                                       *)
LEMMA StopShuffle ==
  ASSUME Typed, Listed, ShuffleInv, Quiet, hasPlaylist, svcPc = "idle",
         NEW op \in StopOps, NEW t, NEW c, Stop(op, t, c),
         op \in {"pause", "seek"} => pos' = pos,
         op = "shuffle" => Shuffled /\ t = order[NextPos] /\ pos' = NextPos
  PROVE  ShuffleInv'
<1>1. /\ svcPc' = "stop" /\ svcOp' = op /\ svcTrack' = t
      /\ UNCHANGED <<mode, order, hasPlaylist, index, playing, build, heard>>
  BY DEF Stop, Goto, listVars, histVars
<1>2. OneBuilder' /\ Ordered' /\ Quiet'
  <2>1. Perm(order)' <=> Perm(order)
    BY <1>1
  <2>2. hasPlaylist' => Perm(order)'
    BY <2>1 DEF ShuffleInv, Ordered
  <2> QED
    BY <1>1, <2>2, QuietOrdered
<1>3. Shuffled' <=> Shuffled
  BY <1>1 DEF Shuffled
<1>4. CASE op \in {"pause", "seek"}
  <2>1. Steady /\ pos' = pos /\ op # "shuffle"
    BY <1>4 DEF Steady
  <2>2. Placed' <=> Placed
    BY <1>1, <2>1 DEF Placed
  <2>3. InPlace'
    BY <1>1, <1>3, <2>1, <2>2 DEF ShuffleInv, InPlace
  <2>4. PassKept'
    BY <1>1, <1>3, <2>1 DEF ShuffleInv, PassKept
  <2>5. NotTwice' /\ PassFits'
    BY <1>1, <2>1 DEF NotTwice, PassFits
  <2> QED
    BY <1>2, <2>3, <2>4, <2>5 DEF ShuffleInv
<1>5. CASE op = "shuffle"
  <2>1. ~Steady' /\ Shuffled /\ t = order[NextPos] /\ pos' = NextPos /\ Steady
    BY <1>1, <1>5 DEF Steady
  <2>2. /\ playing => order[NextPos] # index
        /\ order[NextPos] \notin heard \/ heard = Tracks
        /\ heard # {} => Pass(order, heard, Before(NextPos))
        /\ NextPos \in Tracks
    BY <2>1, NextShuffled
  <2>3. NextPos # NoPos
    BY <2>2, Ends DEF NoPos, Tracks
  <2>4. InPlace'
    BY <2>1 DEF InPlace
  <2>5. NotTwice' /\ PassFits'
    BY <1>1, <2>1, <2>2 DEF NotTwice, PassFits
  <2>6. PassKept'
    BY <1>1, <2>1, <2>2, <2>3 DEF PassKept
  <2> QED
    BY <1>2, <2>4, <2>5, <2>6 DEF ShuffleInv
<1>6. CASE op \notin {"pause", "seek", "shuffle"}
  <2>1. ~Steady' /\ svcOp' # "shuffle"
    BY <1>1, <1>6 DEF Steady
  <2> QED
    BY <1>2, <2>1 DEF ShuffleInv, InPlace, NotTwice, PassFits, PassKept
<1> QED
  BY <1>4, <1>5, <1>6

(* A track that starts: its position is the one the pass has come to.       *)
LEMMA BegunShuffle ==
  ASSUME Typed, ShuffleInv, Quiet, hasPlaylist, NEW t \in Tracks, NEW p,
         index' = t, pos' = SyncPos(t, p), svcPc' = "idle",
         UNCHANGED <<mode, order, hasPlaylist, build>>,
         Shuffled => \E q \in Tracks : order[q] = t /\ Pass(order, heard', q)
  PROVE  ShuffleInv'
<1>1. Perm(order) /\ order \in [Tracks -> Tracks]
  BY DEF ShuffleInv, Ordered, Typed, OrderTyped
<1>2. OneBuilder' /\ Ordered' /\ Quiet'
  <2>1. Perm(order)' <=> Perm(order)
    OBVIOUS
  <2> QED
    BY <1>1, <2>1, QuietOrdered
<1>3. NotTwice' /\ PassFits'
  BY DEF NotTwice, PassFits
<1>4. CASE Shuffled
  <2>1. PICK q \in Tracks : order[q] = t /\ Pass(order, heard', q)
    BY <1>4
  <2>2. pos' \in Tracks /\ order[pos'] = t
    BY <1>1, <1>4, Found DEF Shuffled
  <2>3. pos' = q
    BY <1>1, <2>1, <2>2, PermInjective
  <2>4. pos' # NoPos
    BY <2>2, Ends DEF NoPos, Tracks
  <2>5. Placed'
    BY <2>2, <2>4 DEF Placed
  <2>6. Pass(order, heard, pos)'
    BY <2>1, <2>3
  <2>7. InPlace'
    BY <2>5 DEF InPlace
  <2>8. PassKept'
    BY <2>4, <2>6 DEF PassKept
  <2> QED
    BY <1>2, <1>3, <2>7, <2>8 DEF ShuffleInv
<1>5. CASE ~Shuffled
  <2>1. ~Shuffled'
    BY <1>5 DEF Shuffled
  <2> QED
    BY <1>2, <1>3, <2>1 DEF ShuffleInv, InPlace, PassKept
<1> QED
  BY <1>4, <1>5

(* A start that is refused: nothing plays.                                  *)
LEMMA RefusedShuffle ==
  ASSUME ShuffleInv, Quiet, NEW p, StartRefused(p), svcPc' = "idle",
         UNCHANGED <<mode, order, hasPlaylist, build>>
  PROVE  ShuffleInv'
<1>1. playing' = FALSE /\ heard' = {}
  BY DEF StartRefused
<1>2. (Perm(order)' <=> Perm(order)) /\ hasPlaylist' = hasPlaylist
  OBVIOUS
<1>3. OneBuilder' /\ Ordered'
  BY <1>2, QuietOrdered DEF ShuffleInv, Ordered
<1> QED
  BY <1>1, <1>3 DEF ShuffleInv, InPlace, NotTwice, PassFits, PassKept

(* A start, given the position the pass comes to if it succeeds.            *)
LEMMA StartShuffle ==
  ASSUME Typed, ShuffleInv, Quiet, hasPlaylist, NEW t \in Tracks, NEW c, NEW how, NEW p,
         Start(t, c, how, p), svcPc' = "idle",
         Shuffled /\ how = "shuffle" /\ heard # {} =>
           \E q \in Tracks : order[q] = t /\ Pass(order, heard, Before(q)),
         Shuffled /\ how \in {"seek", "resume"} /\ heard # {} =>
           \E q \in Tracks : order[q] = t /\ Pass(order, heard, q)
  PROVE  ShuffleInv'
<1>1. UNCHANGED <<mode, order, hasPlaylist, build>>
  BY DEF Start
<1>2. Perm(order) /\ order \in [Tracks -> Tracks]
  BY DEF ShuffleInv, Ordered, Typed, OrderTyped
<1>3. CASE StartRefused(p)
  BY <1>1, <1>3, RefusedShuffle
<1>4. CASE StartTrack(t, c, how, p)
  <2>1. index' = t /\ pos' = SyncPos(t, p) /\ Record(t, c, how)
    BY <1>4 DEF StartTrack
  <2>2. /\ how = "shuffle" => heard' = IF heard = Tracks THEN {t} ELSE heard \cup {t}
        /\ how \in {"seek", "resume"} => heard' = heard \cup {t}
        /\ how \notin {"shuffle", "seek", "resume"} => heard' = {t}
    BY <2>1 DEF Record
  <2>3. ASSUME Shuffled PROVE \E q \in Tracks : order[q] = t /\ Pass(order, heard', q)
    <3>1. CASE heard' = {t}
      <4>1. PICK q \in Tracks : order[q] = t
        BY <1>2 DEF Perm
      <4> QED
        BY <3>1, <4>1, PassBegins
    <3>2. CASE how = "shuffle" /\ heard # {}
      <4>1. PICK q \in Tracks : order[q] = t /\ Pass(order, heard, Before(q))
        BY <2>3, <3>2
      <4>2. Pass(order, IF heard = Tracks THEN {order[q]} ELSE heard \cup {order[q]}, q)
        BY <1>2, <4>1, PassGrows
      <4> QED
        BY <2>2, <3>2, <4>1, <4>2
    <3>3. CASE how \in {"seek", "resume"} /\ heard # {}
      <4>1. PICK q \in Tracks : order[q] = t /\ Pass(order, heard, q)
        BY <2>3, <3>3
      <4>2. heard' = heard
        BY <2>2, <3>3, <4>1, PassEnds
      <4> QED
        BY <4>1, <4>2
    <3>4. heard = {} => heard' = {t}
      BY <2>2
    <3> QED
      BY <2>2, <3>1, <3>2, <3>3, <3>4
  <2> QED
    BY <1>1, <2>1, <2>3, BegunShuffle
<1> QED
  BY <1>3, <1>4 DEF Start

(* In a steady state the track that plays is the one the pass has come to.  *)
LEMMA PassHere ==
  ASSUME Typed, ShuffleInv, Quiet, Steady, playing, hasPlaylist, Shuffled, heard # {}
  PROVE  \E q \in Tracks : order[q] = index /\ Pass(order, heard, q)
<1>1. pos # NoPos /\ Pass(order, heard, pos) /\ Placed
  BY DEF ShuffleInv, PassKept, InPlace
<1>2. pos \in Tracks /\ order[pos] = index
  BY <1>1 DEF Placed, Typed, OrderTyped
<1> QED
  BY <1>1, <1>2

LEMMA ShuffleSvc ==
  ASSUME Undisturbed, Typed, Listed, ShuffleInv, Svc PROVE ShuffleInv'
<1> USE DEF SvcMay
<1>1. /\ OneBuilder /\ pos \in Tracks \cup {NoPos} /\ index \in Tracks /\ svcTrack \in Tracks
      /\ ViaNext \in {"next", "shuffle"} /\ (ViaNext = "shuffle" <=> Shuffled)
      /\ {"next", "shuffle", "prev", "jump", "seek", "pause", "removed"} = StopOps
  BY DEF ShuffleInv, Typed, OrderTyped, PlayTyped, SvcTyped, ViaNext, StopOps
<1>2. NextIndex(TRUE) \in Tracks /\ NextIndex(FALSE) \in Tracks /\ PrevIndex \in Tracks
  BY PosMoves
<1>3. Shuffled => /\ NextIndex(TRUE) = order[NextPos] /\ NextIndex(FALSE) = order[NextPos]
                  /\ PosAfterNext = NextPos
  BY DEF NextIndex, PosAfterNext, Shuffled
<1>4. \A pc : SvcMay(pc) /\ pc # "scan" => Quiet
  BY <1>1, SvcQuiet
<1>5. CASE NextTrack
  <2>1. Quiet /\ hasPlaylist /\ svcPc = "idle" /\ pos' = PosAfterNext
    BY <1>4, <1>5 DEF NextTrack
  <2>2. \E t : t = NextIndex(TRUE) /\ Stop(ViaNext, t, 0)
    BY <1>5, Zenon DEF NextTrack
  <2> QED
    BY <1>1, <1>3, <2>1, <2>2, StopShuffle
<1>6. CASE Previous \/ PlayIndex
  <2>1. Quiet /\ hasPlaylist /\ svcPc = "idle"
    BY <1>4, <1>6 DEF Previous, PlayIndex
  <2>2. \E t : Stop("prev", t, 0) \/ Stop("jump", t, 0)
    BY <1>6 DEF Previous, PlayIndex
  <2> QED
    BY <1>1, <2>1, <2>2, StopShuffle
<1>7. CASE Seek
  <2>1. Quiet /\ hasPlaylist /\ svcPc = "idle" /\ pos' = pos
    BY <1>4, <1>7 DEF Seek, Listed
  <2>2. PICK target \in Chunks \cup {FastTarget(TRUE), FastTarget(FALSE)} :
          \/ UNCHANGED <<mode, order, listVars, playing, currentChunk,
                         emitted, pipeVars, svcVars, build, faulted, histVars>>
          \/ Stop("seek", index, target)
    BY <1>7 DEF Seek
  <2>3. CASE Stop("seek", index, target)
    BY <1>1, <2>1, <2>3, StopShuffle
  <2>4. CASE UNCHANGED <<mode, order, listVars, playing, currentChunk,
                         emitted, pipeVars, svcVars, build, faulted, histVars>>
    BY <2>1, <2>4, ShuffleUnseen DEF listVars, svcVars, histVars
  <2> QED
    BY <2>2, <2>3, <2>4
<1>8. CASE Pause
  <2>1. Quiet /\ hasPlaylist /\ svcPc = "idle" /\ pos' = pos /\ Stop("pause", 0, 0)
    BY <1>4, <1>8 DEF Pause, Listed
  <2> QED
    BY <1>1, <2>1, StopShuffle
<1>9. CASE Removed
  <2>1. Quiet /\ hasPlaylist /\ svcPc = "idle" /\ Stop("removed", 0, 0)
    BY <1>4, <1>9 DEF Removed, Listed
  <2> QED
    BY <1>1, <2>1, StopShuffle
<1>10. CASE Resume
  <2>1. Quiet /\ hasPlaylist /\ Steady /\ playing /\ svcPc' = "idle"
        /\ Start(index, resumeChunk, "resume", pos)
    BY <1>4, <1>10 DEF Resume, Listed, Steady, svcVars
  <2>2. Shuffled /\ heard # {} => \E q \in Tracks : order[q] = index /\ Pass(order, heard, q)
    BY <2>1, PassHere
  <2> QED
    BY <1>1, <2>1, <2>2, StartShuffle
<1>11. CASE TrackComplete
  <2>1. /\ Quiet /\ Steady /\ svcPc' = "idle"
        /\ UNCHANGED <<mode, order, hasPlaylist, slot, build, faulted>>
    BY <1>4, <1>11 DEF TrackComplete, Steady, svcVars
  <2>2. CASE hasPlaylist /\ StartTrack(NextIndex(FALSE), 0, ViaNext, PosAfterNext)
    <3>1. Start(NextIndex(FALSE), 0, ViaNext, PosAfterNext)
      BY <2>1, <2>2 DEF Start
    <3>2. Shuffled /\ heard # {} =>
            \E q \in Tracks : order[q] = NextIndex(FALSE) /\ Pass(order, heard, Before(q))
      <4>1. Shuffled => /\ heard # {} => Pass(order, heard, Before(NextPos))
                        /\ NextPos \in Tracks
        BY <2>1, <2>2, NextShuffled
      <4> QED
        BY <1>3, <4>1
    <3> QED
      BY <1>1, <1>2, <2>1, <2>2, <3>1, <3>2, StartShuffle
  <2>3. CASE hasPlaylist /\ StartRefused(PosAfterNext)
    BY <2>1, <2>3, RefusedShuffle
  <2>4. CASE ~hasPlaylist /\ playing' = FALSE
    <3>1. hasPlaylist' = hasPlaylist
      BY <2>1
    <3> QED
      BY <2>1, <2>4, <3>1, QuietOrdered DEF ShuffleInv, InPlace, NotTwice, PassFits, PassKept
  <2> QED
    BY <1>11, <2>2, <2>3, <2>4 DEF TrackComplete
<1>12. CASE Inserted
  <2>1. /\ Quiet /\ svcPc' = "scan" /\ ~playing
        /\ GoBuild("svc", "fill", 0, 0, 0) /\ playing' = playing
    BY <1>4, <1>12 DEF Inserted, Listed, Goto, playVars
  <2>2. /\ build'["svc"].pc = "fill"
        /\ \A u \in Builders \ {"svc"} : build'[u] = build[u]
    BY <2>1, Ends, GoBuildFacts DEF BuildPcs
  <2>3. /\ Pc("svc")' = "fill" /\ "svc" \in Builders
        /\ \A u \in Builders \ {"svc"} : Pc(u)' = "idle"
    BY <2>1, <2>2, Ends DEF Pc, Quiet, Building
  <2>4. OneBuilder'
    BY <2>1, <2>3 DEF OneBuilder, Building, Pc
  <2>5. Ordered'
    BY <2>3 DEF Ordered, Progress, Quiet, Building, Pc
  <2>6. ~Quiet'
    BY <2>3 DEF Quiet, Building, Pc
  <2> QED
    BY <2>1, <2>4, <2>5, <2>6 DEF ShuffleInv, InPlace, NotTwice, PassFits, PassKept
<1>13. CASE Begin
  <2>1. Quiet /\ hasPlaylist /\ svcPc' = "idle"
    BY <1>1, <1>13, SvcQuiet DEF Begin, Idle, Goto, Listed
  <2>2. PICK t \in Tracks, c \in Chunks : Start(t, c, "begin", NoPos) \/ RestorePaused(t, c)
    BY <1>13 DEF Begin
  <2>3. CASE Start(t, c, "begin", NoPos)
    BY <2>1, <2>3, StartShuffle
  <2>4. CASE RestorePaused(t, c)
    <3>1. /\ index' = t /\ pos' = SyncPos(t, NoPos) /\ heard' = {t}
          /\ UNCHANGED <<mode, order, hasPlaylist, build>>
      BY <2>4 DEF RestorePaused, Record
    <3>2. Perm(order)
      BY <2>1 DEF ShuffleInv, Ordered
    <3>3. PICK q \in Tracks : order[q] = t
      BY <3>2 DEF Perm
    <3>4. Pass(order, heard', q)
      BY <3>1, <3>3, PassBegins
    <3> QED
      BY <2>1, <3>1, <3>3, <3>4, BegunShuffle
  <2> QED
    BY <2>2, <2>3, <2>4
<1>14. CASE StoppedThenStart
  <2>1. /\ Quiet /\ hasPlaylist /\ svcPc = "stop" /\ svcPc' = "idle"
        /\ Start(svcTrack, svcChunk, svcOp, pos)
    BY <1>4, <1>14 DEF StoppedThenStart, Stopped, Idle, Goto, Listed
  <2>2. Shuffled /\ svcOp = "shuffle" /\ heard # {} =>
          \E q \in Tracks : order[q] = svcTrack /\ Pass(order, heard, Before(q))
    BY <1>1, <2>1 DEF ShuffleInv, PassKept
  <2>3. Shuffled /\ svcOp \in {"seek", "resume"} /\ heard # {} =>
          \E q \in Tracks : order[q] = svcTrack /\ Pass(order, heard, q)
    <3>1. svcOp \in {"seek", "resume"} => svcTrack = index /\ playing /\ Steady
      BY <2>1, <1>14 DEF StoppedThenStart, Listed, Steady
    <3> QED
      BY <2>1, <3>1, PassHere
  <2> QED
    BY <1>1, <2>1, <2>2, <2>3, StartShuffle
<1>15. CASE StoppedPrevious
  <2>1. Quiet /\ hasPlaylist /\ svcPc' = "idle"
    BY <1>4, <1>15 DEF StoppedPrevious, Stopped, Idle, Goto, Listed
  <2>2. \E t \in Tracks : \E p : Start(t, 0, "prev", p)
    BY <1>1, <1>2, <1>15 DEF StoppedPrevious
  <2> QED
    BY <2>1, <2>2, StartShuffle
<1>16. CASE StoppedPause
  <2>1. /\ svcPc = "stop" /\ svcOp = "pause" /\ svcPc' = "idle" /\ Quiet
        /\ UNCHANGED <<mode, order, pos, hasPlaylist, index, playing, build, heard>>
    BY <1>4, <1>16 DEF StoppedPause, Stopped, Idle, Goto, orderVars, listVars, histVars
  <2>2. Steady /\ Steady' /\ (Shuffled' <=> Shuffled) /\ (Placed' <=> Placed) /\ (Perm(order)' <=> Perm(order))
    BY <2>1 DEF Steady, Shuffled, Placed
  <2>3. OneBuilder' /\ Ordered'
    BY <2>1, <2>2, QuietOrdered DEF ShuffleInv, Ordered
  <2>4. InPlace'
    BY <2>1, <2>2 DEF ShuffleInv, InPlace
  <2>5. PassKept'
    BY <2>1, <2>2 DEF ShuffleInv, PassKept
  <2> QED
    BY <2>1, <2>3, <2>4, <2>5 DEF ShuffleInv, NotTwice, PassFits
<1>17. CASE StoppedRemoved
  <2>1. Quiet /\ hasPlaylist' = FALSE /\ playing' = FALSE /\ svcPc' = "idle" /\ UNCHANGED build
    BY <1>4, <1>17 DEF StoppedRemoved, Stopped, Idle, Goto
  <2> QED
    BY <2>1, QuietOrdered DEF ShuffleInv, InPlace, NotTwice, PassFits, PassKept
<1> QED
  BY <1>5, <1>6, <1>7, <1>8, <1>9, <1>10, <1>11, <1>12, <1>13, <1>14, <1>15, <1>16, <1>17 DEF Svc

(* A step of the one task that builds, from the progress it makes and what  *)
(* it leaves behind at the end.                                             *)
LEMMA BuiltShuffle ==
  ASSUME Listed, ShuffleInv, NEW t \in Builders,
         \A u \in Builders \ {t} : build'[u].pc = "idle",
         UNCHANGED <<hasPlaylist, index, playing, svcPc, svcOp, svcTrack>>,
         t = "svc" => Building("svc") /\ build'[t].pc # "pos",
         heard' = heard \/ heard' = {},
         Progress(t)',
         build'[t].pc = "idle" /\ hasPlaylist => Perm(order'),
         build'[t].pc = "idle" /\ hasPlaylist /\ t # "svc" /\ Shuffled' =>
           heard' = {} /\ pos' = NoPos /\ order'[0] # index
  PROVE  ShuffleInv'
<1>1. t = "svc" => svcPc' = "scan"
  BY DEF ShuffleInv, OneBuilder
<1>2. OneBuilder'
  BY <1>1, Ends DEF OneBuilder, Building, Pc
<1>3. Quiet' => build'[t].pc = "idle"
  BY DEF Quiet, Building
<1>4. Ordered'
  <2>1. ASSUME NEW u \in Builders \ {t} PROVE Progress(u)'
    BY DEF Progress, Pc
  <2>2. hasPlaylist' /\ Quiet' => Perm(order)'
    BY <1>3
  <2> QED
    BY <2>1, <2>2 DEF Ordered
<1>5. NotTwice' /\ PassFits'
  BY DEF ShuffleInv, NotTwice, PassFits
<1>6. ASSUME Quiet', hasPlaylist, Shuffled', svcPc # "scan"
      PROVE  heard' = {} /\ pos' = NoPos /\ order'[0] # index
  BY <1>1, <1>3, <1>6
<1>7. PassKept'
  BY <1>1, <1>6 DEF PassKept, Steady
<1>8. InPlace'
  <2>1. playing' /\ Shuffled' /\ Quiet' /\ Steady' => pos' = NoPos /\ order'[0] # index
    BY <1>1, <1>6 DEF Steady, Listed
  <2> QED
    BY <2>1 DEF InPlace, Placed
<1> QED
  BY <1>2, <1>4, <1>5, <1>7, <1>8 DEF ShuffleInv

(* Two entries change places: the first write, and what the second will     *)
(* close.                                                                   *)
LEMMA SwapClosed ==
  ASSUME NEW o \in [Tracks -> Tracks], Perm(o), NEW i \in Tracks, NEW j \in Tracks,
         NEW q, q = [[o EXCEPT ![i] = o[j]] EXCEPT ![j] = o[i]]
  PROVE  Perm(q)
<1>1. o[i] \in Tracks /\ o[j] \in Tracks
  OBVIOUS
<1>2. q \in [Tracks -> Tracks]
  BY <1>1
<1>3. q[i] = o[j] /\ q[j] = o[i] /\ \A k \in Tracks \ {i, j} : q[k] = o[k]
  OBVIOUS
<1>4. ASSUME NEW r \in [Tracks -> Tracks], r[i] = o[j], r[j] = o[i],
             \A k \in Tracks \ {i, j} : r[k] = o[k]
      PROVE  Perm(r)
  BY <1>4, PermSwap
<1> QED
  BY <1>2, <1>3, <1>4, Zenon

(* What a building task does to the tasks: it moves on, the others stay idle. *)
LEMMA OnlyBuilder ==
  ASSUME Typed, NEW t \in Builders, \A u \in Builders \ {t} : build[u].pc = "idle",
         NEW pc \in BuildPcs, NEW i \in Tracks, NEW j \in Tracks, NEW tmp \in Tracks,
         GoBuild(t, pc, i, j, tmp)
  PROVE  /\ build'[t].pc = pc /\ build'[t].i = i /\ build'[t].j = j /\ build'[t].tmp = tmp
         /\ \A u \in Builders \ {t} : build'[u].pc = "idle"
<1>1. /\ build'[t].pc = pc /\ build'[t].i = i /\ build'[t].j = j /\ build'[t].tmp = tmp
      /\ \A u \in Builders \ {t} : build'[u] = build[u]
  BY GoBuildFacts
<1> QED
  BY <1>1

LEMMA ShuffleBuild ==
  ASSUME Undisturbed, Typed, Listed, ShuffleInv, NEW t \in Builders, Build(t) PROVE ShuffleInv'
<1>1. /\ build[t].i \in Tracks /\ build[t].j \in Tracks /\ build[t].tmp \in Tracks
      /\ 0 \in Tracks /\ TrackCount - 1 \in Tracks /\ order \in [Tracks -> Tracks]
      /\ {"idle", "pos", "fill", "swap", "put", "fix"} = BuildPcs
  BY BuildFacts, Ends DEF Typed, OrderTyped, BuildPcs
<1>2. /\ 0 .. build[t].i \subseteq Tracks /\ 1 .. TrackCount - 1 \subseteq Tracks
      /\ build[t].i # 0 => build[t].i - 1 \in Tracks
  <2>1. build[t].i \in Tracks
    BY <1>1
  <2> QED
    BY <2>1, Below
<1>3. Progress(t) /\ (hasPlaylist /\ Quiet => Perm(order))
  BY DEF ShuffleInv, Ordered
<1>4. \A u \in Builders \ {t} : build[u].pc = "idle"
  BY OthersIdle DEF Build, BuildFill, BuildSwap, BuildPut, BuildFix, SetMode, SetModePos, Pc
<1>5. UNCHANGED <<hasPlaylist, index, playing, svcPc, svcOp, svcTrack>>
  BY DEF Build, BuildFill, BuildSwap, BuildPut, BuildFix, BuildUnchanged, SetMode, SetModePos,
         listVars, playVars, svcVars
<1>6. CASE BuildFill(t)
  <2>1. /\ GoBuild(t, "swap", TrackCount - 1, 0, 0) /\ order' = [i \in Tracks |-> i]
        /\ Pc(t) = "fill" /\ pos' = pos /\ heard' = heard
    BY <1>6 DEF BuildFill, BuildUnchanged, histVars, At, Pc
  <2>2. build'[t].pc = "swap" /\ \A u \in Builders \ {t} : build'[u].pc = "idle"
    BY <1>1, <1>4, <2>1, OnlyBuilder
  <2>3. Perm(order')
    BY <2>1, PermIdentity
  <2>4. Progress(t)'
    BY <1>3, <2>1, <2>2, <2>3 DEF Progress, Pc
  <2>5. t = "svc" => Building("svc")
    BY <2>1 DEF Building, Pc
  <2> QED
    BY <1>5, <2>1, <2>2, <2>4, <2>5, BuiltShuffle
<1>7. CASE BuildSwap(t)
  <2>1. Pc(t) = "swap" /\ Perm(order) /\ pos' = pos /\ heard' = heard
    BY <1>3, <1>7 DEF BuildSwap, BuildUnchanged, histVars, At, Pc, Progress
  <2>2. t = "svc" => Building("svc")
    BY <2>1 DEF Building, Pc
  <2>3. CASE build[t].i = 0
    <3>1. GoBuild(t, "fix", 0, 0, 0) /\ order' = order
      BY <1>7, <2>3 DEF BuildSwap
    <3>2. build'[t].pc = "fix" /\ \A u \in Builders \ {t} : build'[u].pc = "idle"
      BY <1>1, <1>4, <3>1, OnlyBuilder
    <3>3. Progress(t)'
      BY <1>3, <2>1, <3>1, <3>2 DEF Progress, Pc
    <3> QED
      BY <1>5, <2>1, <2>2, <3>2, <3>3, BuiltShuffle
  <2>4. CASE build[t].i # 0
    <3>1. PICK j \in 0 .. build[t].i : /\ order' = [order EXCEPT ![build[t].i] = order[j]]
                                       /\ GoBuild(t, "put", build[t].i, j, order[build[t].i])
      BY <1>7, <2>4 DEF BuildSwap
    <3>2. j \in Tracks /\ build[t].i \in Tracks /\ order[build[t].i] \in Tracks
          /\ "put" \in BuildPcs
      BY <1>1, <1>2
    <3>3. /\ build'[t].pc = "put" /\ build'[t].i = build[t].i /\ build'[t].j = j
          /\ build'[t].tmp = order[build[t].i]
          /\ \A u \in Builders \ {t} : build'[u].pc = "idle"
      <4>1. GoBuild(t, "put", build[t].i, j, order[build[t].i])
        BY <3>1
      <4> QED
        BY <1>4, <3>2, <4>1, OnlyBuilder
    <3>4. Perm(Closed(t)')
      <4>1. Closed(t)' = [[order EXCEPT ![build[t].i] = order[j]] EXCEPT ![j] = order[build[t].i]]
        BY <3>1, <3>3 DEF Closed
      <4> QED
        BY <1>1, <2>1, <3>2, <4>1, SwapClosed
    <3>5. Progress(t)'
      BY <1>3, <2>1, <2>4, <3>3, <3>4 DEF Progress, Pc
    <3> QED
      BY <1>5, <2>1, <2>2, <3>3, <3>5, BuiltShuffle
  <2> QED
    BY <2>3, <2>4
<1>8. CASE BuildPut(t)
  <2>1. /\ Pc(t) = "put" /\ order' = Closed(t) /\ pos' = pos /\ heard' = heard
        /\ GoBuild(t, IF build[t].i = 0 THEN "idle" ELSE "swap",
                   IF build[t].i = 0 THEN 0 ELSE build[t].i - 1, 0, 0)
    BY <1>8 DEF BuildPut, BuildUnchanged, histVars, At, Pc, Closed
  <2>2. /\ (IF build[t].i = 0 THEN "idle" ELSE "swap") \in BuildPcs
        /\ (IF build[t].i = 0 THEN 0 ELSE build[t].i - 1) \in Tracks
    BY <1>1, <1>2
  <2>3. /\ build'[t].pc = IF build[t].i = 0 THEN "idle" ELSE "swap"
        /\ \A u \in Builders \ {t} : build'[u].pc = "idle"
    BY <1>1, <1>4, <2>1, <2>2, OnlyBuilder
  <2>4. Perm(order')
    BY <1>3, <2>1 DEF Progress
  <2>5. t = "svc" => Building("svc")
    BY <2>1 DEF Building, Pc
  <2>6. t # "svc" => pos' = NoPos /\ heard' = {}
    BY <1>3, <2>1 DEF Progress
  <2>7. Progress(t)'
    BY <2>3, <2>4, <2>6 DEF Progress, Pc
  <2>8. build'[t].pc = "idle" => order'[0] # index
    <3>1. build'[t].pc = "idle" => build[t].i = 0
      BY <2>3
    <3>2. build[t].i = 0 => order[0] # index /\ build[t].j # 0
      BY <1>3, <2>1 DEF Progress
    <3>3. build[t].j # 0 => order'[0] = order[0]
      BY <1>1, <2>1 DEF Closed
    <3> QED
      BY <3>1, <3>2, <3>3
  <2> QED
    BY <1>5, <2>1, <2>3, <2>4, <2>5, <2>6, <2>7, <2>8, BuiltShuffle
<1>9. CASE BuildFix(t)
  <2>1. Pc(t) = "fix" /\ Perm(order) /\ pos' = pos /\ heard' = heard
    BY <1>3, <1>9 DEF BuildFix, BuildUnchanged, histVars, At, Pc, Progress
  <2>2. t = "svc" => Building("svc")
    BY <2>1 DEF Building, Pc
  <2>3. t # "svc" => pos' = NoPos /\ heard' = {}
    BY <1>3, <2>1 DEF Progress
  <2>4. CASE ~(hasPlaylist /\ TrackCount > 1 /\ order[0] = index)
    <3>1. GoBuild(t, "idle", 0, 0, 0) /\ order' = order
      BY <1>9, <2>4 DEF BuildFix
    <3>2. build'[t].pc = "idle" /\ \A u \in Builders \ {t} : build'[u].pc = "idle"
      BY <1>1, <1>4, <3>1, OnlyBuilder
    <3>3. Progress(t)'
      BY <3>2 DEF Progress, Pc
    <3>4. Shuffled' => TrackCount > 1
      BY DEF Shuffled
    <3> QED
      BY <1>5, <2>1, <2>2, <2>3, <2>4, <3>1, <3>2, <3>3, <3>4, BuiltShuffle
  <2>5. CASE hasPlaylist /\ TrackCount > 1 /\ order[0] = index
    <3>1. PICK j \in 1 .. TrackCount - 1 : /\ order' = [order EXCEPT ![0] = order[j]]
                                           /\ GoBuild(t, "put", 0, j, order[0])
      BY <1>9, <2>5 DEF BuildFix
    <3>2. j \in Tracks /\ order[0] \in Tracks /\ j # 0 /\ 0 \in Tracks /\ "put" \in BuildPcs
      BY <1>1, <1>2
    <3>3. /\ build'[t].pc = "put" /\ build'[t].i = 0 /\ build'[t].j = j
          /\ build'[t].tmp = order[0]
          /\ \A u \in Builders \ {t} : build'[u].pc = "idle"
      <4>1. GoBuild(t, "put", 0, j, order[0])
        BY <3>1
      <4> QED
        BY <1>4, <3>2, <4>1, OnlyBuilder
    <3>4. Perm(Closed(t)')
      <4>1. Closed(t)' = [[order EXCEPT ![0] = order[j]] EXCEPT ![j] = order[0]]
        BY <3>1, <3>3 DEF Closed
      <4> QED
        BY <1>1, <2>1, <3>2, <4>1, SwapClosed
    <3>5. order'[0] # index'
      <4>1. order'[0] = order[j] /\ index' = index
        BY <1>1, <1>5, <3>1
      <4>2. order[j] # order[0]
        BY <1>1, <2>1, <3>2, PermInjective
      <4> QED
        BY <2>5, <4>1, <4>2
    <3>6. Progress(t)'
      BY <2>3, <3>2, <3>3, <3>4, <3>5 DEF Progress, Pc
    <3> QED
      BY <1>5, <2>1, <2>2, <3>3, <3>6, BuiltShuffle
  <2> QED
    BY <2>4, <2>5
<1>10. CASE SetMode(t)
  <2>1. Pc(t) = "idle" /\ t # "svc" /\ pos' = pos /\ heard' = heard /\ order' = order
    BY <1>10 DEF SetMode, histVars, At, Pc
  <2>2. hasPlaylist => Perm(order')
    <3>1. Quiet
      BY <1>4, <2>1 DEF Quiet, Building, Pc
    <3> QED
      BY <1>3, <2>1, <3>1
  <2>3. /\ build'[t].pc \in {"idle", "pos"}
        /\ build'[t].pc = "idle" => ~Shuffled'
        /\ \A u \in Builders \ {t} : build'[u].pc = "idle"
    <3>1. PICK m \in Modes :
            mode' = m /\ IF m = "shuffle" THEN GoBuild(t, "pos", 0, 0, 0) ELSE UNCHANGED build
      BY <1>10 DEF SetMode
    <3>2. CASE m = "shuffle"
      <4>1. GoBuild(t, "pos", 0, 0, 0)
        BY <3>1, <3>2
      <4> QED
        BY <1>1, <1>4, <4>1, OnlyBuilder
    <3>3. CASE m # "shuffle"
      BY <1>4, <2>1, <3>1, <3>3 DEF Shuffled, Pc
    <3> QED
      BY <3>2, <3>3
  <2>4. Progress(t)'
    BY <1>5, <2>2, <2>3 DEF Progress, Pc
  <2> QED
    BY <1>5, <2>1, <2>2, <2>3, <2>4, BuiltShuffle
<1>11. CASE SetModePos(t)
  <2>1. /\ Pc(t) = "pos" /\ pos' = NoPos /\ heard' = {} /\ order' = order
        /\ GoBuild(t, IF hasPlaylist THEN "fill" ELSE "idle", 0, 0, 0)
    BY <1>11 DEF SetModePos, At, Pc
  <2>2. t # "svc"
    BY <2>1, Ends DEF ShuffleInv, OneBuilder, Building, Pc
  <2>3. (IF hasPlaylist THEN "fill" ELSE "idle") \in BuildPcs
    BY <1>1
  <2>4. /\ build'[t].pc = IF hasPlaylist THEN "fill" ELSE "idle"
        /\ \A u \in Builders \ {t} : build'[u].pc = "idle"
    BY <1>1, <1>4, <2>1, <2>3, OnlyBuilder
  <2>5. Progress(t)'
    BY <2>1, <2>4 DEF Progress, Pc
  <2> QED
    BY <1>5, <2>1, <2>2, <2>4, <2>5, BuiltShuffle
<1> QED
  BY <1>6, <1>7, <1>8, <1>9, <1>10, <1>11 DEF Build

LEMMA ShuffleStep ==
  ASSUME Undisturbed, Typed, Listed, ShuffleInv, [Next]_vars PROVE ShuffleInv'
<1>1. CASE Advance
  BY <1>1, ShuffleUnseen DEF Advance, orderVars, listVars, svcVars
<1>2. CASE Finish
  BY <1>2, ShuffleUnseen DEF Finish, orderVars, listVars, playVars, svcVars, histVars
<1>3. CASE UNCHANGED vars
  BY <1>3, ShuffleUnseen DEF vars, orderVars, listVars, playVars, svcVars, histVars
<1> QED
  BY <1>1, <1>2, <1>3, ShuffleSvc, ShuffleBuild DEF Next

-----------------------------------------------------------------------------
(* What holds when no other task runs while the order is built              *)

ControlInv == Typed /\ Listed /\ ShuffleInv

LEMMA ControlInit == Init => ControlInv
BY TypedInit, ListedInit, ShuffleInit DEF ControlInv

LEMMA ControlStep == ASSUME Undisturbed, ControlInv, [Next]_vars PROVE ControlInv'
BY TypedStep, ListedStep, ShuffleStep DEF ControlInv

(* player_service_build_shuffle_order leaves every playlist index in the    *)
(* order exactly once.                                                      *)
THEOREM Permuted == Undisturbed => (Spec => []OrderIsPermutation)
<1> SUFFICES ASSUME Undisturbed PROVE Spec => []OrderIsPermutation
  OBVIOUS
<1>1. ControlInv /\ [Next]_vars => ControlInv'
  BY ControlStep
<1>2. ControlInv => OrderIsPermutation
  <2> SUFFICES ASSUME ControlInv, hasPlaylist, \A t \in Builders : ~Building(t)
      PROVE  \A k \in Tracks : \E i \in Tracks : order[i] = k
    BY DEF OrderIsPermutation
  <2>1. Perm(order)
    BY DEF ControlInv, ShuffleInv, Ordered, Quiet
  <2> QED
    BY <2>1 DEF Perm
<1> QED
  BY <1>1, <1>2, ControlInit, PTL DEF Spec

(* A start the shuffle order chose: from a finished track, or after a stop. *)
LEMMA ShuffleStarts ==
  ASSUME Undisturbed, ControlInv, Next, Starts, via' = "shuffle"
  PROVE  \/ /\ Quiet /\ Steady /\ Shuffled /\ hasPlaylist
            /\ index' = order[NextPos]
         \/ svcPc = "stop" /\ svcOp = "shuffle" /\ index' = svcTrack
<1> USE DEF ControlInv
<1>1. ~(NextTrack \/ Previous \/ PlayIndex \/ Seek \/ Pause \/ Removed)
  BY DEF NextTrack, Previous, PlayIndex, Seek, Pause, Removed, Stop, Starts, pipeVars
<1>2. ~(Inserted \/ StoppedPause \/ StoppedRemoved \/ Finish \/ Advance)
  BY DEF Inserted, StoppedPause, StoppedRemoved, Finish, Advance, Starts, pipeVars
<1>3. ASSUME NEW t \in Builders PROVE ~Build(t)
  BY DEF Build, BuildFill, BuildSwap, BuildPut, BuildFix, SetMode, SetModePos, BuildUnchanged,
         Starts, pipeVars
<1>4. ASSUME NEW t, NEW c, NEW how, NEW p, Start(t, c, how, p) PROVE how = "shuffle" /\ index' = t
  BY <1>4 DEF Start, StartTrack, StartRefused, Starts, Record
<1>5. ~Begin
  <2>1. ASSUME NEW t, NEW c, RestorePaused(t, c) PROVE FALSE
    BY <2>1 DEF RestorePaused, pipeVars, Starts
  <2> QED
    BY <1>4, <2>1 DEF Begin
<1>6. ~(Resume \/ StoppedPrevious)
  BY <1>4 DEF Resume, StoppedPrevious
<1>7. CASE StoppedThenStart
  BY <1>4, <1>7 DEF StoppedThenStart, Stopped, SvcMay
<1>8. CASE TrackComplete
  <2>1. Quiet /\ Steady
    BY <1>8, SvcQuiet DEF TrackComplete, SvcMay, Steady, ShuffleInv
  <2>2. hasPlaylist /\ StartTrack(NextIndex(FALSE), 0, ViaNext, PosAfterNext)
    BY <1>8 DEF TrackComplete, StartRefused, Starts
  <2>3. ViaNext = "shuffle" /\ index' = NextIndex(FALSE)
    BY <2>2 DEF StartTrack, Record
  <2>4. Shuffled
    BY <2>3 DEF ViaNext
  <2>5. NextIndex(FALSE) = order[NextPos]
    BY <2>4 DEF NextIndex, Shuffled
  <2> QED
    BY <2>1, <2>2, <2>3, <2>4, <2>5
<1> QED
  BY <1>1, <1>2, <1>3, <1>5, <1>6, <1>7, <1>8 DEF Next, Svc

(* Shuffle never repeats the track that plays, however the player came to   *)
(* it: resumed, jumped to, stepped back to, or playing when shuffle was set. *)
THEOREM NeverRepeats == Undisturbed => (Spec => NoImmediateRepeat)
<1> SUFFICES ASSUME Undisturbed PROVE Spec => NoImmediateRepeat
  OBVIOUS
<1>1. ControlInv /\ [Next]_vars => ControlInv'
  BY ControlStep
<1>2. ControlInv /\ [Next]_vars =>
        [Starts /\ via' = "shuffle" /\ playing => index' # index]_vars
  <2> SUFFICES ASSUME ControlInv, Next, Starts, via' = "shuffle", playing PROVE index' # index
    OBVIOUS
  <2>1. CASE Quiet /\ Steady /\ Shuffled /\ hasPlaylist /\ index' = order[NextPos]
    BY <2>1, NextShuffled DEF ControlInv
  <2>2. CASE svcPc = "stop" /\ svcOp = "shuffle" /\ index' = svcTrack
    BY <2>2 DEF ControlInv, ShuffleInv, NotTwice
  <2> QED
    BY <2>1, <2>2, ShuffleStarts
<1> QED
  BY <1>1, <1>2, ControlInit, PTL DEF Spec, NoImmediateRepeat

(* A pass of the shuffle order plays every track before it plays one again, *)
(* counted from the last jump, across the end of the order, and through     *)
(* pauses, seeks and mode changes while the pipeline stops.                 *)
THEOREM VisitsAll == Undisturbed => (Spec => ShuffleVisitsAll)
<1> SUFFICES ASSUME Undisturbed PROVE Spec => ShuffleVisitsAll
  OBVIOUS
<1>1. ControlInv /\ [Next]_vars => ControlInv'
  BY ControlStep
<1>2. ControlInv /\ [Next]_vars =>
        [Starts /\ via' = "shuffle" => index' \notin heard \/ heard = Tracks]_vars
  <2> SUFFICES ASSUME ControlInv, Next, Starts, via' = "shuffle"
      PROVE  index' \notin heard \/ heard = Tracks
    OBVIOUS
  <2>1. CASE Quiet /\ Steady /\ Shuffled /\ hasPlaylist /\ index' = order[NextPos]
    BY <2>1, NextShuffled DEF ControlInv
  <2>2. CASE svcPc = "stop" /\ svcOp = "shuffle" /\ index' = svcTrack
    BY <2>2 DEF ControlInv, ShuffleInv, PassFits
  <2> QED
    BY <2>1, <2>2, ShuffleStarts
<1> QED
  BY <1>1, <1>2, ControlInit, PTL DEF Spec, ShuffleVisitsAll

================================================================================
