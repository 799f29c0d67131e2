--------------------------- MODULE ResumeStateProofs ---------------------------
(***************************************************************************)
(* Proofs about ResumeState, for any cartridges, tracks, seconds, depth of *)
(* the command queue and number of late persist commands.                  *)
(*                                                                         *)
(* The parts of the inductive invariant follow the life of a boot: nothing *)
(* is known while the device is dark; INSERTED comes first and once;       *)
(* while there is a playlist its cartridge stays in the slot or its        *)
(* removal is on the way (Resident); the saved positions belong to it      *)
(* (Native, RtcCurrent); and until the insertion has been handled both RTC *)
(* memory and the place to begin at match what was playing when the chip   *)
(* was reset (Remembered).                                                 *)
(***************************************************************************)
EXTENDS ResumeState, SequenceTheorems, TLAPS

Commands == {"inserted", "removed", "persist"}

Holds(q, c) == \E i \in DOMAIN q : q[i] = c

(* The flags, apart: they are proved by a prover of their own.              *)
Flags ==
  /\ on \in BOOLEAN /\ mounted \in BOOLEAN
  /\ removing \in BOOLEAN /\ missed \in BOOLEAN /\ nvsKept \in BOOLEAN
  /\ hasPlaylist \in BOOLEAN /\ playing \in BOOLEAN /\ paused \in BOOLEAN

SavedTyped ==
  /\ rtc \in Positions \cup {None} /\ nvs \in Positions \cup {None}
  /\ live \in Positions \cup {None} /\ durable \in Positions \cup {None}

PlaceTyped == /\ cart \in Cartridges
              /\ index \in Tracks /\ resumeChunk \in Seconds /\ currentChunk \in Seconds

SvcTyped ==
  /\ svcPc \in {"idle", "load", "erase", "begin", "write"}
  /\ svcPc \in {"erase", "begin"} => target \in Positions
  /\ svcPc \notin {"erase", "begin"} => target = None

QueueTyped == queue \in Seq(Commands) /\ Len(queue) <= QueueDepth

RebootTyped == /\ shutdown \in {"none", "callback", "others", "pending"}
               /\ stale \in 0 .. MaxStale

Typed == SavedTyped /\ PlaceTyped /\ SvcTyped /\ QueueTyped /\ RebootTyped

Inserting == svcPc \in {"load", "erase", "begin"}

(* Without power nothing runs and nothing waits.                            *)
Dark == ~on => /\ ~mounted /\ ~removing /\ ~missed /\ ~hasPlaylist /\ ~playing
               /\ svcPc = "idle" /\ queue = <<>> /\ durable = None

(* INSERTED is the first command of a boot; no persist command is done      *)
(* before the insertion is handled.                                         *)
InsertedOnce ==
  /\ \A i \in DOMAIN queue : queue[i] = "inserted" => i = 1
  /\ Holds(queue, "inserted") => svcPc = "idle" /\ ~hasPlaylist /\ durable = None
  /\ Inserting => durable = None

(* The cartridge of the playlist is in the slot, or its removal is coming.  *)
Resident ==
  /\ hasPlaylist => mounted \/ RemovalPending
  /\ playing \/ svcPc # "idle" => hasPlaylist
  /\ Inserting => ~playing

(* What is saved belongs to the cartridge of the playlist.                  *)
Native ==
  /\ hasPlaylist /\ svcPc \notin {"load", "erase"} =>
       /\ (nvs # None /\ ~nvsKept => nvs.cart = cart)
       /\ (rtc # None => rtc.cart = cart \/ RemovalPending)
  /\ svcPc = "erase" => rtc = None
  /\ svcPc = "write" => rtc # None /\ rtc.cart = cart
  /\ rtc # None /\ nvs # None /\ ~nvsKept => rtc.cart = nvs.cart

Matches(p, q) == /\ p # None /\ p.cart = q.cart /\ p.track = q.track
                 /\ p.paused = q.paused
                 /\ IF p.paused THEN p.sec = q.sec ELSE p.sec <= q.sec

(* What played when the chip was reset can still be found.                  *)
Remembered ==
  /\ RemovalPending => live = None
  /\ Inserting /\ live # None => mounted /\ live.cart = cart
  /\ live # None /\ (~hasPlaylist \/ Inserting) => Matches(rtc, live)
  /\ live # None /\ svcPc = "begin" => Matches(target, live)

Inv == /\ Typed /\ Dark /\ InsertedOnce /\ Resident /\ Native /\ RtcCurrent
       /\ Remembered /\ SavedBeforeRestart

-----------------------------------------------------------------------------
(* Operators of the model                                                   *)

LEMMA Origin == 0 \in Tracks /\ 0 \in Seconds /\ QueueDepth \in Nat \ {0} /\ None \notin Positions
BY ResumeAssumption DEF ResumeAssumption, Tracks, Seconds

LEMMA PosFacts ==
  ASSUME NEW c \in Cartridges, NEW t \in Tracks, NEW s \in Seconds, NEW p \in BOOLEAN
  PROVE  /\ Pos(c, t, s, p) \in Positions /\ Pos(c, t, s, p) # None
         /\ Pos(c, t, s, p).cart = c /\ Pos(c, t, s, p).track = t
         /\ Pos(c, t, s, p).sec = s /\ Pos(c, t, s, p).paused = p
BY ResumeAssumption DEF ResumeAssumption, Pos, Positions

LEMMA TailFacts ==
  ASSUME NEW q \in Seq(Commands), q # <<>>
  PROVE  /\ Tail(q) \in Seq(Commands) /\ Len(Tail(q)) = Len(q) - 1 /\ Len(q) \in Nat
         /\ DOMAIN q = 1 .. Len(q) /\ DOMAIN Tail(q) = 1 .. Len(q) - 1
         /\ Head(q) = q[1] /\ Len(q) >= 1
         /\ \A i \in DOMAIN Tail(q) : Tail(q)[i] = q[i + 1]
BY HeadTailProperties, LenProperties, EmptySeq

LEMMA TailHolds ==
  ASSUME NEW q \in Seq(Commands), q # <<>>, NEW c \in Commands
  PROVE  /\ Holds(Tail(q), c) => Holds(q, c)
         /\ Head(q) # c /\ Holds(q, c) => Holds(Tail(q), c)
         /\ Head(q) = c => Holds(q, c)
<1>1. ASSUME NEW i \in DOMAIN Tail(q), Tail(q)[i] = c PROVE Holds(q, c)
  <2>1. i + 1 \in DOMAIN q /\ q[i + 1] = c
    BY <1>1, TailFacts
  <2> QED
    BY <2>1 DEF Holds
<1>2. ASSUME Head(q) # c, NEW i \in DOMAIN q, q[i] = c PROVE Holds(Tail(q), c)
  <2>1. i - 1 \in DOMAIN Tail(q) /\ (i - 1) + 1 = i
    BY <1>2, TailFacts
  <2>2. Tail(q)[i - 1] = c
    BY <1>2, <2>1, TailFacts
  <2> QED
    BY <2>1, <2>2 DEF Holds
<1>3. 1 \in DOMAIN q /\ Head(q) = q[1]
  BY TailFacts
<1> QED
  BY <1>1, <1>2, <1>3 DEF Holds

(* Once its first command is gone, a queue that held INSERTED at most there *)
(* holds it no more.                                                        *)
LEMMA TailInserted ==
  ASSUME NEW q \in Seq(Commands), q # <<>>,
         \A i \in DOMAIN q : q[i] = "inserted" => i = 1
  PROVE  ~Holds(Tail(q), "inserted")
<1> SUFFICES ASSUME NEW i \in DOMAIN Tail(q), Tail(q)[i] = "inserted" PROVE FALSE
  BY DEF Holds
<1>1. i + 1 \in DOMAIN q /\ q[i + 1] = "inserted" /\ i + 1 # 1
  BY TailFacts
<1> QED
  BY <1>1

LEMMA AppendFacts ==
  ASSUME NEW q \in Seq(Commands), NEW e \in Commands
  PROVE  /\ Append(q, e) \in Seq(Commands) /\ Len(Append(q, e)) = Len(q) + 1 /\ Len(q) \in Nat
         /\ DOMAIN q = 1 .. Len(q) /\ DOMAIN Append(q, e) = 1 .. Len(q) + 1
         /\ \A i \in DOMAIN q : Append(q, e)[i] = q[i]
         /\ Append(q, e)[Len(q) + 1] = e
BY AppendProperties, LenProperties

LEMMA AppendHolds ==
  ASSUME NEW q \in Seq(Commands), NEW e \in Commands, NEW c \in Commands
  PROVE  Holds(Append(q, e), c) <=> Holds(q, c) \/ e = c
<1>1. ASSUME NEW i \in DOMAIN Append(q, e), Append(q, e)[i] = c PROVE Holds(q, c) \/ e = c
  <2>1. CASE i = Len(q) + 1
    BY <1>1, <2>1, AppendFacts
  <2>2. CASE i # Len(q) + 1
    <3>1. i \in DOMAIN q /\ q[i] = c
      BY <1>1, <2>2, AppendFacts
    <3> QED
      BY <3>1 DEF Holds
  <2> QED
    BY <2>1, <2>2
<1>2. ASSUME NEW i \in DOMAIN q, q[i] = c PROVE Holds(Append(q, e), c)
  <2>1. i \in DOMAIN Append(q, e) /\ Append(q, e)[i] = c
    BY <1>2, AppendFacts
  <2> QED
    BY <2>1 DEF Holds
<1>3. Len(q) + 1 \in DOMAIN Append(q, e) /\ Append(q, e)[Len(q) + 1] = e
  BY AppendFacts
<1> QED
  BY <1>1, <1>2, <1>3 DEF Holds

LEMMA AppendInserted ==
  ASSUME NEW q \in Seq(Commands), NEW e \in Commands, e # "inserted",
         \A i \in DOMAIN q : q[i] = "inserted" => i = 1
  PROVE  \A i \in DOMAIN Append(q, e) : Append(q, e)[i] = "inserted" => i = 1
<1> SUFFICES ASSUME NEW i \in DOMAIN Append(q, e), Append(q, e)[i] = "inserted" PROVE i = 1
  OBVIOUS
<1>1. i # Len(q) + 1
  BY AppendFacts
<1>2. i \in DOMAIN q /\ q[i] = "inserted"
  BY <1>1, AppendFacts
<1> QED
  BY <1>2

-----------------------------------------------------------------------------
(* Flags                                                                    *)

LEMMA FlagsInit == Init => Flags
BY Zenon DEF Init, Flags

LEMMA FlagsStep == Flags /\ [Next]_vars => Flags'
<1> SUFFICES ASSUME Flags, [Next]_vars PROVE Flags'
  OBVIOUS
<1> USE DEF Flags
<1>1. CASE UNCHANGED vars
  BY <1>1, Zenon DEF vars, deviceVars, savedVars, playVars
<1>2. CASE Play
  <2>1. CASE Switch
    BY <2>1, Zenon DEF Switch, StartTrack, StartFails, SwitchRefused, PlayUnchanged, deviceVars
  <2>2. CASE Resume
    BY <2>2, Zenon DEF Resume, StartTrack, StartFails, PlayUnchanged, deviceVars
  <2>3. CASE Pause
    BY <2>3, Zenon DEF Pause, PlayUnchanged, deviceVars
  <2>4. CASE Seek
    BY <2>4, Zenon DEF Seek, StartTrack, PlayUnchanged, deviceVars
  <2>5. CASE Advance
    BY <2>5, Zenon DEF Advance, PlayUnchanged, deviceVars
  <2> QED
    BY <1>2, <2>1, <2>2, <2>3, <2>4, <2>5 DEF Play
<1>3. CASE Insert
  <2>1. CASE Removed
    BY <2>1, Zenon DEF Removed, deviceVars, savedVars
  <2>2. CASE Inserted
    BY <2>2, Zenon DEF Inserted, deviceVars, savedVars
  <2>3. CASE LoadRtc \/ LoadForeignRtc
    BY <2>3, Zenon DEF LoadRtc, LoadForeignRtc, LoadGoto, deviceVars, playVars
  <2>4. CASE LoadNvs
    BY <2>4, Zenon DEF LoadNvs, LoadGoto, deviceVars, playVars
  <2>5. CASE LoadUnmounted
    <3>1. (nvs # None) \in BOOLEAN
      BY Zenon
    <3> QED
      BY <2>5, <3>1, Zenon DEF LoadUnmounted, LoadGoto, deviceVars, playVars
  <2>6. CASE Erase
    BY <2>6, Zenon DEF Erase, deviceVars, playVars
  <2>7. CASE Begin
    BY <2>7, Zenon DEF Begin, StartTrack, StartFails, deviceVars
  <2> QED
    BY <1>3, <2>1, <2>2, <2>3, <2>4, <2>5, <2>6, <2>7 DEF Insert
<1>4. CASE Reboot
  <2>1. CASE PersistNothing \/ PersistCache
    BY <2>1, Zenon DEF PersistNothing, PersistCache, deviceVars, savedVars, playVars
  <2>2. CASE PersistWrite
    BY <2>2, Zenon DEF PersistWrite, PersistUnchanged, deviceVars, playVars
  <2>3. CASE RequestReboot \/ CallbackTimeout \/ RunOthers
    BY <2>3, Zenon DEF RequestReboot, CallbackTimeout, RunOthers, RebootUnchanged,
                       deviceVars, savedVars, playVars
  <2> QED
    BY <1>4, <2>1, <2>2, <2>3 DEF Reboot
<1>5. CASE Device
  <2>1. CASE Restart \/ Crash \/ PowerLoss
    BY <2>1, Zenon DEF Restart, Crash, PowerLoss, Off
  <2>2. CASE Boot
    BY <2>2, Zenon DEF Boot, savedVars, playVars
  <2>3. CASE Unmount \/ Mount \/ DeliverRemoved
    BY <2>3, Zenon DEF Unmount, Mount, DeliverRemoved, savedVars, playVars
  <2> QED
    BY <1>5, <2>1, <2>2, <2>3 DEF Device
<1> QED
  BY <1>1, <1>2, <1>3, <1>4, <1>5 DEF Next

-----------------------------------------------------------------------------
(* What the commands that play do                                           *)

(* RTC memory names what plays.                                             *)
Tracked == /\ rtc # None
           /\ rtc.cart = cart /\ rtc.track = index /\ rtc.paused = paused
           /\ IF paused THEN rtc.sec = resumeChunk ELSE rtc.sec <= currentChunk

LEMMA StartTrackFacts ==
  ASSUME Typed, hasPlaylist, NEW t \in Tracks, NEW s \in Seconds, StartTrack(t, s),
         cart' = cart
  PROVE  /\ mounted /\ playing' /\ ~paused'
         /\ index' \in Tracks /\ resumeChunk' \in Seconds /\ currentChunk' \in Seconds
         /\ index' = t /\ resumeChunk' = s
         /\ rtc' \in Positions /\ rtc'.cart = cart /\ Tracked'
<1>1. mounted /\ playing' = TRUE /\ paused' = FALSE /\ index' = t /\ resumeChunk' = s /\ currentChunk' = s
  BY DEF StartTrack
<1>2. rtc' = Pos(cart, t, s, FALSE)
  BY DEF StartTrack, Cache
<1>3. cart \in Cartridges /\ s <= s
  BY DEF Typed, PlaceTyped, Seconds
<1>4. /\ rtc' \in Positions /\ rtc'.cart = cart /\ rtc'.track = t
      /\ rtc'.sec = s /\ rtc'.paused = FALSE
  BY <1>2, <1>3 DEF Pos, Positions
<1>5. Tracked'
  BY <1>1, <1>3, <1>4, Origin DEF Tracked
<1> QED
  BY <1>1, <1>4, <1>5

(* The effect of every command that plays.                                  *)
PlayEffect ==
  /\ on /\ UNCHANGED <<deviceVars, nvs, nvsKept, hasPlaylist, svcVars, rebootVars, live>>
  /\ index' \in Tracks /\ resumeChunk' \in Seconds /\ currentChunk' \in Seconds
  /\ \/ rtc' = rtc
     \/ mounted /\ hasPlaylist /\ svcPc = "idle" /\ rtc' \in Positions /\ rtc'.cart = cart
  /\ playing' => hasPlaylist /\ (playing \/ svcPc = "idle")
  /\ playing' /\ mounted /\ (playing => Tracked) => Tracked'

LEMMA PlayEffects == Typed /\ Flags /\ Resident /\ Play => PlayEffect
<1> SUFFICES ASSUME Typed, Flags, Resident, Play PROVE PlayEffect
  OBVIOUS
<1>1. ASSUME NEW t \in Tracks, NEW s \in Seconds, StartTrack(t, s), hasPlaylist,
             SvcAt("idle"), PlayUnchanged
      PROVE  PlayEffect
  <2>1. cart' = cart
    BY <1>1 DEF PlayUnchanged, deviceVars
  <2> QED
    BY <1>1, <2>1, StartTrackFacts DEF PlayEffect, PlayUnchanged, SvcAt
<1>2. ASSUME NEW t \in Tracks, NEW s \in Seconds, StartFails(t, s),
             SvcAt("idle"), PlayUnchanged
      PROVE  PlayEffect
  BY <1>2 DEF PlayEffect, StartFails, PlayUnchanged, SvcAt, Typed, PlaceTyped
<1>3. 0 \in Seconds /\ index \in Tracks /\ resumeChunk \in Seconds /\ currentChunk \in Seconds
  BY Origin DEF Typed, PlaceTyped
<1>4. CASE Switch
  <2>1. CASE SwitchRefused
    BY <1>3, <1>4, <2>1 DEF PlayEffect, Switch, SwitchRefused, PlayUnchanged, SvcAt
  <2> QED
    BY <1>1, <1>2, <1>3, <1>4, <2>1 DEF Switch
<1>5. CASE Resume
  BY <1>1, <1>2, <1>3, <1>5 DEF Resume
<1>6. ASSUME NEW s \in Seconds, playing, SvcAt("idle"), Cache(index, s, TRUE), paused',
             index' = index, resumeChunk' = s, currentChunk' \in Seconds, PlayUnchanged
      PROVE  PlayEffect
  <2>1. hasPlaylist
    BY <1>6 DEF Resident
  <2>2. CASE mounted
    <3>1. rtc' = Pos(cart, index, s, TRUE) /\ cart' = cart
      BY <1>6, <2>1, <2>2 DEF Cache, PlayUnchanged, deviceVars
    <3>2. cart \in Cartridges
      BY DEF Typed, PlaceTyped
    <3>3. /\ rtc' \in Positions /\ rtc'.cart = cart /\ rtc'.track = index
          /\ rtc'.sec = s /\ rtc'.paused = TRUE
      BY <1>3, <3>1, <3>2 DEF Pos, Positions
    <3>4. paused' = TRUE
      BY <1>6
    <3>5. Tracked'
      BY <1>6, <3>1, <3>3, <3>4, Origin DEF Tracked
    <3> QED
      BY <1>3, <1>6, <2>1, <2>2, <3>3, <3>5 DEF PlayEffect, PlayUnchanged, SvcAt
  <2>3. CASE ~mounted
    <3>1. rtc' = rtc
      BY <1>6, <2>3 DEF Cache
    <3> QED
      BY <1>3, <1>6, <2>1, <2>3, <3>1 DEF PlayEffect, PlayUnchanged, SvcAt
  <2> QED
    BY <2>2, <2>3
<1>7. CASE Pause
  BY <1>3, <1>6, <1>7 DEF Pause
<1>8. CASE Seek
  <2> PICK s \in Seconds :
           \/ ~paused /\ hasPlaylist /\ StartTrack(index, s)
           \/ /\ ~paused /\ playing' = FALSE
              /\ resumeChunk' = s /\ currentChunk' \in {currentChunk, s}
              /\ UNCHANGED <<paused, index, rtc>>
           \/ /\ paused /\ resumeChunk' = s /\ Cache(index, s, TRUE)
              /\ UNCHANGED <<playing, paused, index, currentChunk>>
    BY <1>8 DEF Seek
  <2>1. SvcAt("idle") /\ playing /\ PlayUnchanged
    BY <1>8 DEF Seek
  <2>2. CASE hasPlaylist /\ StartTrack(index, s)
    BY <1>1, <1>3, <2>1, <2>2
  <2>3. CASE /\ playing' = FALSE
             /\ resumeChunk' = s /\ currentChunk' \in {currentChunk, s}
             /\ UNCHANGED <<paused, index, rtc>>
    BY <1>3, <2>1, <2>3 DEF PlayEffect, PlayUnchanged, SvcAt
  <2>4. CASE /\ paused /\ resumeChunk' = s /\ Cache(index, s, TRUE)
             /\ UNCHANGED <<playing, paused, index, currentChunk>>
    <3>1. currentChunk' \in Seconds /\ index' = index /\ paused'
      BY <1>3, <2>4
    <3> QED
      BY <1>6, <2>1, <2>4, <3>1
  <2> QED
    BY <2>2, <2>3, <2>4
<1>9. CASE Advance
  <2>1. /\ on /\ playing /\ ~paused /\ hasPlaylist /\ PlayUnchanged
        /\ UNCHANGED <<rtc, playing, paused, index, resumeChunk>>
    BY <1>9 DEF Advance, Resident
  <2>2. currentChunk' \in Seconds /\ currentChunk <= currentChunk' /\ currentChunk \in Int /\ currentChunk' \in Int
    BY <1>3, <1>9, ResumeAssumption DEF Advance, ResumeAssumption, Seconds
  <2>3. rtc # None => rtc.sec \in Int
    BY DEF Typed, SavedTyped, Positions, Seconds
  <2>4. cart' = cart
    BY <2>1 DEF PlayUnchanged, deviceVars
  <2>5. Tracked => Tracked'
    BY <2>1, <2>2, <2>3, <2>4 DEF Tracked
  <2> QED
    BY <1>3, <2>1, <2>2, <2>5 DEF PlayEffect, PlayUnchanged
<1> QED
  BY <1>4, <1>5, <1>7, <1>8, <1>9 DEF Play

-----------------------------------------------------------------------------
(* The invariant: initially, and when the player plays                      *)

LEMMA InvInit == Init => Inv
<1> SUFFICES ASSUME Init PROVE Inv
  OBVIOUS
<1> USE Origin DEF Init
<1>1. queue \in Seq(Commands) /\ Len(queue) = 0 /\ DOMAIN queue = {}
  BY EmptySeq
<1>2. Typed
  BY <1>1, ResumeAssumption
     DEF ResumeAssumption, Typed, SavedTyped, PlaceTyped, SvcTyped, QueueTyped, RebootTyped
<1>3. Dark /\ InsertedOnce /\ Resident /\ RtcCurrent /\ SavedBeforeRestart
  BY <1>1 DEF Dark, InsertedOnce, Holds, Resident, RtcCurrent, SavedBeforeRestart, Inserting
<1>4. Native /\ Remembered
  BY DEF Native, Remembered, Inserting
<1> QED
  BY <1>2, <1>3, <1>4 DEF Inv

LEMMA PendingSame ==
  ASSUME UNCHANGED <<queue, removing, missed>>
  PROVE  RemovalPending' <=> RemovalPending
BY DEF RemovalPending

LEMMA InvPlay == Inv /\ Flags /\ Play => Inv'
<1> SUFFICES ASSUME Inv, Flags, Play PROVE Inv'
  OBVIOUS
<1>1. PlayEffect
  BY PlayEffects DEF Inv
<1>2. /\ on /\ on' = on /\ cart' = cart /\ mounted' = mounted /\ removing' = removing
      /\ missed' = missed /\ nvs' = nvs /\ nvsKept' = nvsKept /\ hasPlaylist' = hasPlaylist
      /\ svcPc' = svcPc /\ target' = target /\ queue' = queue
      /\ shutdown' = shutdown /\ stale' = stale /\ durable' = durable /\ live' = live
  BY <1>1 DEF PlayEffect, deviceVars, svcVars, rebootVars
<1>3. RemovalPending' <=> RemovalPending
  BY <1>2, PendingSame
<1>4. Typed'
  <2>1. SavedTyped' /\ PlaceTyped'
    BY <1>1, <1>2 DEF PlayEffect, Inv, Typed, SavedTyped, PlaceTyped
  <2>2. SvcTyped' /\ QueueTyped' /\ RebootTyped'
    BY <1>2 DEF Inv, Typed, SvcTyped, QueueTyped, RebootTyped
  <2> QED
    BY <2>1, <2>2 DEF Typed
<1>5. Dark' /\ InsertedOnce' /\ SavedBeforeRestart'
  BY <1>2 DEF Inv, Dark, InsertedOnce, Holds, SavedBeforeRestart, Inserting
<1>6. Resident'
  BY <1>1, <1>2, <1>3 DEF PlayEffect, Inv, Resident, Inserting
<1>7. Native'
  BY <1>1, <1>2, <1>3, Origin DEF PlayEffect, Inv, Native
<1>8. RtcCurrent'
  <2> SUFFICES ASSUME playing', mounted, ~RemovalPending, svcPc \in {"idle", "write"}
               PROVE  Tracked'
    BY <1>2, <1>3 DEF RtcCurrent, Tracked
  <2>1. playing => Tracked
    BY DEF Inv, RtcCurrent, Tracked
  <2> QED
    BY <1>1, <2>1 DEF PlayEffect
<1>9. Remembered'
  BY <1>1, <1>2, <1>3 DEF PlayEffect, Inv, Remembered, Inserting
<1> QED
  BY <1>4, <1>5, <1>6, <1>7, <1>8, <1>9 DEF Inv

-----------------------------------------------------------------------------
(* The invariant: removal and insertion                                     *)

LEMMA InvRemoved == Inv /\ Flags /\ Removed => Inv'
<1> SUFFICES ASSUME Inv, Flags, Removed PROVE Inv'
  OBVIOUS
<1>1. /\ on /\ on' = on /\ cart' = cart /\ mounted' = mounted /\ removing' = removing
      /\ missed' = missed /\ UNCHANGED <<rtc, nvs, nvsKept, index, resumeChunk, currentChunk>>
      /\ hasPlaylist' = FALSE /\ playing' = FALSE /\ paused' = FALSE
      /\ svcPc = "idle" /\ svcPc' = svcPc /\ target' = target
      /\ queue # <<>> /\ Head(queue) = "removed" /\ queue' = Tail(queue)
      /\ shutdown' = shutdown /\ stale' = stale /\ durable' = durable /\ live' = live
  BY DEF Removed, Take, SvcAt, deviceVars, savedVars, rebootVars
<1>2. queue \in Seq(Commands) /\ Len(queue) <= QueueDepth
  BY DEF Inv, Typed, QueueTyped
<1>3. /\ queue' \in Seq(Commands) /\ Len(queue') = Len(queue) - 1 /\ Len(queue) \in Nat
      /\ Len(queue') <= QueueDepth
  BY <1>1, <1>2, TailFacts, Origin
<1>4. ~Holds(queue', "inserted")
  BY <1>1, <1>2, TailInserted DEF Inv, InsertedOnce
<1>5. RemovalPending
  BY <1>1, <1>2, TailFacts DEF RemovalPending
<1>6. live = None
  BY <1>5 DEF Inv, Remembered
<1>7. Typed'
  <2>1. SavedTyped' /\ PlaceTyped'
    BY <1>1 DEF Inv, Typed, SavedTyped, PlaceTyped
  <2>2. SvcTyped' /\ QueueTyped' /\ RebootTyped'
    BY <1>1, <1>3 DEF Inv, Typed, SvcTyped, QueueTyped, RebootTyped
  <2> QED
    BY <2>1, <2>2 DEF Typed
<1>8. Dark' /\ SavedBeforeRestart'
  BY <1>1 DEF Inv, Dark, SavedBeforeRestart
<1>9. InsertedOnce'
  BY <1>1, <1>4 DEF Inv, InsertedOnce, Inserting, Holds
<1>10. Resident' /\ RtcCurrent'
  BY <1>1 DEF Inv, Resident, RtcCurrent, Inserting
<1>11. Native'
  BY <1>1 DEF Inv, Native
<1>12. Remembered'
  BY <1>1, <1>6 DEF Remembered
<1> QED
  BY <1>7, <1>8, <1>9, <1>10, <1>11, <1>12 DEF Inv

LEMMA InvInserted == Inv /\ Flags /\ Inserted => Inv'
<1> SUFFICES ASSUME Inv, Flags, Inserted PROVE Inv'
  OBVIOUS
<1>1. /\ on /\ on' = on /\ cart' = cart /\ mounted' = mounted /\ removing' = removing
      /\ missed' = missed /\ UNCHANGED <<rtc, nvs, nvsKept, resumeChunk, currentChunk>>
      /\ playing' = FALSE /\ paused' = FALSE /\ svcPc = "idle" /\ target' = target
      /\ queue # <<>> /\ Head(queue) = "inserted" /\ queue' = Tail(queue)
      /\ shutdown' = shutdown /\ stale' = stale /\ durable' = durable
  BY DEF Inserted, Take, SvcAt, deviceVars, savedVars, rebootVars
<1>2. \/ /\ mounted /\ hasPlaylist' = TRUE /\ index' = 0 /\ svcPc' = "load"
         /\ live' = IF live # None /\ live.cart # cart THEN None ELSE live
      \/ ~mounted /\ UNCHANGED <<hasPlaylist, index, svcPc, live>>
  BY DEF Inserted
<1>3. queue \in Seq(Commands) /\ Len(queue) <= QueueDepth
  BY DEF Inv, Typed, QueueTyped
<1>4. /\ queue' \in Seq(Commands) /\ Len(queue') = Len(queue) - 1 /\ Len(queue) \in Nat
      /\ Len(queue') <= QueueDepth
  BY <1>1, <1>3, TailFacts, Origin
<1>5. ~Holds(queue', "inserted")
  BY <1>1, <1>3, TailInserted DEF Inv, InsertedOnce
<1>6. ~hasPlaylist /\ durable = None
  <2>1. Holds(queue, "inserted")
    BY <1>1, <1>3, TailHolds DEF Commands
  <2> QED
    BY <2>1 DEF Inv, InsertedOnce
<1>7. RemovalPending' <=> RemovalPending
  <2>1. Holds(queue', "removed") <=> Holds(queue, "removed")
    BY <1>1, <1>3, TailHolds DEF Commands
  <2> QED
    BY <1>1, <2>1 DEF RemovalPending, Holds
<1>8. Typed'
  <2>1. SavedTyped' /\ PlaceTyped'
    BY <1>1, <1>2, Origin DEF Inv, Typed, SavedTyped, PlaceTyped
  <2>2. SvcTyped' /\ QueueTyped' /\ RebootTyped'
    BY <1>1, <1>2, <1>4 DEF Inv, Typed, SvcTyped, QueueTyped, RebootTyped
  <2> QED
    BY <2>1, <2>2 DEF Typed
<1>9. Dark' /\ SavedBeforeRestart'
  BY <1>1 DEF Inv, Dark, SavedBeforeRestart
<1>10. InsertedOnce'
  BY <1>1, <1>5, <1>6 DEF InsertedOnce, Holds
<1>11. Resident'
  BY <1>1, <1>2, <1>6, <1>7 DEF Inv, Resident
<1>12. RtcCurrent'
  BY <1>1 DEF RtcCurrent
<1>13. Native'
  BY <1>1, <1>2, <1>6 DEF Inv, Native
<1>14. Remembered'
  <2>1. CASE live' = None
    BY <2>1 DEF Remembered
  <2>2. CASE live' # None
    <3>1. live' = live /\ Matches(rtc, live)
      BY <1>2, <1>6, <2>2 DEF Inv, Remembered
    <3>2. ~RemovalPending
      BY <2>2, <3>1 DEF Inv, Remembered
    <3>3. CASE mounted
      BY <1>1, <1>2, <1>7, <2>2, <3>1, <3>2, <3>3 DEF Remembered, Inserting
    <3>4. CASE ~mounted
      BY <1>1, <1>2, <1>7, <2>2, <3>1, <3>2, <3>4 DEF Remembered, Inserting
    <3> QED
      BY <3>3, <3>4
  <2> QED
    BY <2>1, <2>2
<1> QED
  BY <1>8, <1>9, <1>10, <1>11, <1>12, <1>13, <1>14 DEF Inv

(* What the steps that read the saved status have in common.                *)
Loads(p, pc) ==
  /\ SvcAt("load") /\ svcPc' = pc /\ target' = p
  /\ UNCHANGED <<deviceVars, nvs, playVars, queue, rebootVars, live>>

LEMMA InvLoads ==
  ASSUME Inv, Flags, NEW p \in Positions, NEW pc \in {"erase", "begin"}, Loads(p, pc),
         rtc' \in Positions \cup {None}, Native', Remembered'
  PROVE  Inv'
<1>1. /\ on /\ on' = on /\ cart' = cart /\ mounted' = mounted /\ removing' = removing
      /\ missed' = missed /\ UNCHANGED <<nvs, index, resumeChunk, currentChunk>>
      /\ UNCHANGED <<playing, paused, hasPlaylist>>
      /\ svcPc = "load" /\ svcPc' = pc /\ target' = p /\ queue' = queue
      /\ shutdown' = shutdown /\ stale' = stale /\ durable' = durable /\ live' = live
  BY DEF Loads, SvcAt, deviceVars, playVars, rebootVars
<1>2. RemovalPending' <=> RemovalPending
  BY <1>1, PendingSame
<1>3. Typed'
  <2>1. SavedTyped' /\ PlaceTyped'
    BY <1>1 DEF Inv, Typed, SavedTyped, PlaceTyped
  <2>2. SvcTyped' /\ QueueTyped' /\ RebootTyped'
    BY <1>1 DEF Inv, Typed, SvcTyped, QueueTyped, RebootTyped
  <2> QED
    BY <2>1, <2>2 DEF Typed
<1>4. Dark' /\ SavedBeforeRestart'
  BY <1>1 DEF Inv, Dark, SavedBeforeRestart
<1>5. InsertedOnce'
  BY <1>1 DEF Inv, InsertedOnce, Holds, Inserting
<1>6. Resident' /\ RtcCurrent'
  BY <1>1, <1>2 DEF Inv, Resident, RtcCurrent, Inserting
<1> QED
  BY <1>3, <1>4, <1>5, <1>6 DEF Inv

LEMMA FreshFacts ==
  ASSUME Inv
  PROVE  Fresh \in Positions
BY Origin DEF Fresh, Pos, Positions, Inv, Typed, PlaceTyped

LEMMA InvLoad == Inv /\ Flags /\ (LoadRtc \/ LoadForeignRtc \/ LoadNvs \/ LoadUnmounted) => Inv'
<1> SUFFICES ASSUME Inv, Flags, LoadRtc \/ LoadForeignRtc \/ LoadNvs \/ LoadUnmounted PROVE Inv'
  OBVIOUS
<1>1. /\ hasPlaylist /\ (mounted \/ RemovalPending) /\ SvcAt("load") /\ svcPc = "load"
      /\ UNCHANGED <<queue, removing, missed, live, hasPlaylist, mounted, cart, nvs>>
  BY DEF LoadRtc, LoadForeignRtc, LoadNvs, LoadUnmounted, LoadGoto, SvcAt, Inv, Resident,
         deviceVars, playVars
<1>2. /\ rtc \in Positions \cup {None} /\ nvs \in Positions \cup {None} /\ Fresh \in Positions
      /\ rtc # None => rtc \in Positions
      /\ nvs # None => nvs \in Positions
  BY FreshFacts DEF Inv, Typed, SavedTyped
<1>3. RemovalPending' <=> RemovalPending
  BY <1>1, PendingSame
<1>4. /\ RemovalPending => live = None
      /\ live # None => mounted /\ live.cart = cart /\ Matches(rtc, live)
  BY <1>1 DEF Inv, Remembered, Inserting
<1>5. rtc # None /\ nvs # None /\ ~nvsKept => rtc.cart = nvs.cart
  BY DEF Inv, Native
<1>6. CASE LoadRtc
  <2>1. /\ Loads(rtc, "begin") /\ rtc # None /\ rtc.cart = cart /\ rtc' = rtc
        /\ target' = rtc /\ svcPc' = "begin" /\ nvsKept' = nvsKept
    BY <1>6 DEF LoadRtc, LoadGoto, Loads
  <2>2. Native'
    BY <1>1, <1>5, <2>1 DEF Native
  <2>3. Remembered'
    BY <1>1, <1>3, <1>4, <2>1 DEF Remembered, Matches
  <2> QED
    BY <1>2, <2>1, <2>2, <2>3, InvLoads
<1>7. CASE LoadForeignRtc
  <2>1. /\ Loads(Fresh, "erase") /\ rtc.cart # cart /\ rtc' = None /\ svcPc' = "erase"
    BY <1>7 DEF LoadForeignRtc, LoadGoto, Loads
  <2>2. Native'
    BY <2>1 DEF Native
  <2>3. live = None
    BY <1>4, <2>1 DEF Matches
  <2>4. Remembered'
    BY <1>1, <2>3 DEF Remembered
  <2> QED
    BY <1>2, <2>1, <2>2, <2>4, InvLoads
<1>8. CASE LoadNvs
  <2>1. rtc = None /\ live = None
    BY <1>4, <1>8 DEF LoadNvs, Matches
  <2>2. Remembered'
    BY <1>1, <2>1 DEF Remembered
  <2>3. CASE nvs = None /\ LoadGoto("begin", Fresh) /\ UNCHANGED <<rtc, nvsKept>>
    <3>1. Loads(Fresh, "begin") /\ rtc' = rtc /\ svcPc' = "begin"
      BY <1>1, <2>3 DEF LoadGoto, Loads
    <3>2. Native'
      BY <1>1, <2>1, <2>3, <3>1 DEF Native
    <3> QED
      BY <1>2, <2>2, <3>1, <3>2, InvLoads
  <2>4. CASE nvs # None /\ LoadGoto("erase", Fresh) /\ UNCHANGED <<rtc, nvsKept>>
    <3>1. Loads(Fresh, "erase") /\ rtc' = rtc /\ svcPc' = "erase"
      BY <1>1, <2>4 DEF LoadGoto, Loads
    <3>2. Native'
      BY <1>1, <2>1, <2>4, <3>1 DEF Native
    <3> QED
      BY <1>2, <2>2, <3>1, <3>2, InvLoads
  <2>5. CASE /\ nvs # None /\ nvs.cart = cart /\ LoadGoto("begin", nvs) /\ rtc' = nvs
             /\ UNCHANGED nvsKept
    <3>1. Loads(nvs, "begin") /\ svcPc' = "begin"
      BY <1>1, <2>5 DEF LoadGoto, Loads
    <3>2. Native'
      BY <1>1, <2>5, <3>1 DEF Native
    <3> QED
      BY <1>2, <2>2, <2>5, <3>1, <3>2, InvLoads
  <2>6. CASE nvs # None /\ LoadGoto("begin", Fresh) /\ nvsKept' = TRUE /\ UNCHANGED rtc
    <3>1. Loads(Fresh, "begin") /\ rtc' = rtc /\ svcPc' = "begin"
      BY <1>1, <2>6 DEF LoadGoto, Loads
    <3>2. Native'
      BY <1>1, <2>1, <2>6, <3>1 DEF Native
    <3> QED
      BY <1>2, <2>2, <3>1, <3>2, InvLoads
  <2> QED
    BY <1>8, <2>3, <2>4, <2>5, <2>6 DEF LoadNvs
<1>9. CASE LoadUnmounted
  <2>1. /\ Loads(Fresh, "begin") /\ rtc' = rtc /\ svcPc' = "begin" /\ ~mounted
        /\ nvsKept' = (nvs # None)
    BY <1>9 DEF LoadUnmounted, LoadGoto, Loads
  <2>2. live = None /\ RemovalPending
    BY <1>1, <1>4, <2>1
  <2>3. Native'
    BY <1>1, <1>3, <2>1, <2>2 DEF Native
  <2>4. Remembered'
    BY <1>1, <2>2 DEF Remembered
  <2> QED
    BY <1>2, <2>1, <2>3, <2>4, InvLoads
<1> QED
  BY <1>6, <1>7, <1>8, <1>9

LEMMA InvErase == Inv /\ Flags /\ Erase => Inv'
<1> SUFFICES ASSUME Inv, Flags, Erase PROVE Inv'
  OBVIOUS
<1>1. /\ on /\ on' = on /\ cart' = cart /\ mounted' = mounted /\ removing' = removing
      /\ missed' = missed /\ UNCHANGED <<rtc, index, resumeChunk, currentChunk>>
      /\ UNCHANGED <<playing, paused, hasPlaylist>>
      /\ svcPc = "erase" /\ svcPc' = "begin" /\ target' = target /\ queue' = queue
      /\ shutdown' = shutdown /\ stale' = stale /\ durable' = durable /\ live' = live
      /\ nvs' = None \/ (nvs' = nvs /\ nvsKept')
  BY DEF Erase, SvcAt, deviceVars, playVars, rebootVars
<1>2. RemovalPending' <=> RemovalPending
  BY <1>1, PendingSame
<1>3. rtc = None /\ live = None /\ durable = None /\ hasPlaylist
  BY <1>1 DEF Inv, Native, Remembered, InsertedOnce, Inserting, Matches, Resident
<1>4. Typed'
  <2>1. SavedTyped' /\ PlaceTyped'
    BY <1>1 DEF Inv, Typed, SavedTyped, PlaceTyped
  <2>2. SvcTyped' /\ QueueTyped' /\ RebootTyped'
    BY <1>1 DEF Inv, Typed, SvcTyped, QueueTyped, RebootTyped
  <2> QED
    BY <2>1, <2>2 DEF Typed
<1>5. Dark' /\ SavedBeforeRestart'
  BY <1>1, <1>3 DEF Dark, SavedBeforeRestart
<1>6. InsertedOnce'
  BY <1>1 DEF Inv, InsertedOnce, Holds, Inserting
<1>7. Resident' /\ RtcCurrent'
  BY <1>1, <1>2 DEF Inv, Resident, RtcCurrent, Inserting
<1>8. Native'
  BY <1>1, <1>3 DEF Native
<1>9. Remembered'
  BY <1>1, <1>3 DEF Remembered
<1> QED
  BY <1>4, <1>5, <1>6, <1>7, <1>8, <1>9 DEF Inv

(* What plays after the insertion is what the step was to begin with.       *)
Begun == /\ mounted /\ rtc' \in Positions /\ rtc'.cart = cart /\ Tracked'
         /\ index' = target.track /\ resumeChunk' = target.sec
         /\ (paused' <=> target.paused) /\ live' = None

LEMMA BeginEffects ==
  ASSUME Inv, Flags, Begin
  PROVE  /\ index' \in Tracks /\ resumeChunk' \in Seconds /\ currentChunk' \in Seconds
         /\ \/ Begun
            \/ playing' = FALSE /\ rtc' = rtc /\ live' = live
<1>1. svcPc = "begin" /\ hasPlaylist /\ cart' = cart
  BY DEF Inv, Resident, Begin, SvcAt, deviceVars
<1>2. /\ target \in Positions /\ target.track \in Tracks /\ target.sec \in Seconds
      /\ target.paused \in BOOLEAN
  BY <1>1 DEF Inv, Typed, SvcTyped, Positions
<1>3. CASE ~target.paused /\ StartTrack(target.track, target.sec) /\ live' = None
  <2>1. Typed
    BY DEF Inv
  <2> QED
    BY <1>1, <1>2, <1>3, <2>1, StartTrackFacts DEF Begun
<1>4. CASE /\ target.paused /\ mounted
           /\ playing' = TRUE /\ paused' = TRUE
           /\ index' = target.track
           /\ resumeChunk' = target.sec /\ currentChunk' = target.sec
           /\ Cache(target.track, target.sec, TRUE)
           /\ live' = None
  <2>1. rtc' = Pos(cart, target.track, target.sec, TRUE) /\ cart \in Cartridges
    BY <1>1, <1>4 DEF Cache, Inv, Typed, PlaceTyped
  <2>2. /\ rtc' \in Positions /\ rtc'.cart = cart /\ rtc'.track = target.track
        /\ rtc'.sec = target.sec /\ rtc'.paused = TRUE
    BY <1>2, <2>1 DEF Pos, Positions
  <2>3. Tracked'
    BY <1>1, <1>4, <2>2, Origin DEF Tracked
  <2> QED
    BY <1>2, <1>4, <2>2, <2>3 DEF Begun
<1>5. CASE StartFails(target.track, target.sec) /\ UNCHANGED live
  BY <1>2, <1>5 DEF StartFails, Inv, Typed, PlaceTyped
<1> QED
  BY <1>3, <1>4, <1>5 DEF Begin

LEMMA InvBegin == Inv /\ Flags /\ Begin => Inv'
<1> SUFFICES ASSUME Inv, Flags, Begin PROVE Inv'
  OBVIOUS
<1>1. /\ on /\ on' = on /\ cart' = cart /\ mounted' = mounted /\ removing' = removing
      /\ missed' = missed /\ UNCHANGED <<nvs, nvsKept, hasPlaylist>>
      /\ svcPc = "begin" /\ svcPc' = "idle" /\ target' = None /\ queue' = queue
      /\ shutdown' = shutdown /\ stale' = stale /\ durable' = durable
  BY DEF Begin, SvcAt, deviceVars, rebootVars
<1>2. /\ index' \in Tracks /\ resumeChunk' \in Seconds /\ currentChunk' \in Seconds
      /\ \/ Begun
         \/ playing' = FALSE /\ rtc' = rtc /\ live' = live
  BY BeginEffects
<1>3. RemovalPending' <=> RemovalPending
  BY <1>1, PendingSame
<1>4. hasPlaylist /\ durable = None
  BY <1>1 DEF Inv, Resident, InsertedOnce, Inserting
<1>5. Typed'
  <2>1. SavedTyped' /\ PlaceTyped'
    BY <1>1, <1>2 DEF Begun, Inv, Typed, SavedTyped, PlaceTyped
  <2>2. SvcTyped' /\ QueueTyped' /\ RebootTyped'
    BY <1>1 DEF Inv, Typed, SvcTyped, QueueTyped, RebootTyped
  <2> QED
    BY <2>1, <2>2 DEF Typed
<1>6. Dark' /\ SavedBeforeRestart'
  BY <1>1, <1>4 DEF Dark, SavedBeforeRestart
<1>7. InsertedOnce'
  BY <1>1 DEF Inv, InsertedOnce, Holds, Inserting
<1>8. Resident' /\ RtcCurrent'
  BY <1>1, <1>2, <1>3, <1>4 DEF Begun, Tracked, Inv, Resident, RtcCurrent, Inserting
<1>9. Native'
  BY <1>1, <1>2, <1>3, <1>4 DEF Begun, Inv, Native
<1>10. Remembered'
  <2>1. hasPlaylist' /\ svcPc' = "idle"
    BY <1>1, <1>4
  <2>2. RemovalPending => live' = None
    BY <1>2 DEF Begun, Inv, Remembered
  <2> QED
    BY <1>3, <2>1, <2>2 DEF Remembered, Inserting
<1> QED
  BY <1>5, <1>6, <1>7, <1>8, <1>9, <1>10 DEF Inv

-----------------------------------------------------------------------------
(* The invariant: shutdown                                                  *)

(* What the caller's release leaves of the position found.                  *)
LEMMA SignalDone ==
  ASSUME Typed, NEW p \in Positions \cup {None}, Signal(TRUE, p)
  PROVE  /\ RebootTyped' /\ durable' \in Positions \cup {None}
         /\ shutdown' \in {"others", "pending"} => durable' = p
         /\ durable' \in {p, durable}
BY ResumeAssumption
   DEF ResumeAssumption, Typed, RebootTyped, SavedTyped, Signal, Release

LEMMA SignalFailed ==
  ASSUME Typed, NEW p, Signal(FALSE, p)
  PROVE  /\ RebootTyped' /\ durable' \in Positions \cup {None}
         /\ shutdown' \in {"others", "pending"}
              => durable' = durable /\ shutdown \in {"others", "pending"}
         /\ durable' \in {None, durable}
BY ResumeAssumption
   DEF ResumeAssumption, Typed, RebootTyped, SavedTyped, Signal, Release

LEMMA InvPersistNothing == Inv /\ Flags /\ PersistNothing => Inv'
<1> SUFFICES ASSUME Inv, Flags, PersistNothing PROVE Inv'
  OBVIOUS
<1>1. /\ on /\ on' = on /\ cart' = cart /\ mounted' = mounted /\ removing' = removing
      /\ missed' = missed /\ UNCHANGED <<rtc, nvs, nvsKept, index, resumeChunk, currentChunk>>
      /\ UNCHANGED <<playing, paused, hasPlaylist>>
      /\ svcPc = "idle" /\ svcPc' = svcPc /\ target' = target
      /\ queue # <<>> /\ Head(queue) = "persist" /\ queue' = Tail(queue)
      /\ live' = live /\ Signal(TRUE, None)
  BY DEF PersistNothing, Take, SvcAt, deviceVars, savedVars, playVars
<1>2. queue \in Seq(Commands) /\ Len(queue) <= QueueDepth
  BY DEF Inv, Typed, QueueTyped
<1>3. /\ queue' \in Seq(Commands) /\ Len(queue') = Len(queue) - 1 /\ Len(queue) \in Nat
      /\ Len(queue') <= QueueDepth
  BY <1>1, <1>2, TailFacts, Origin
<1>4. ~Holds(queue', "inserted")
  BY <1>1, <1>2, TailInserted DEF Inv, InsertedOnce
<1>5. RemovalPending' <=> RemovalPending
  <2>1. Holds(queue', "removed") <=> Holds(queue, "removed")
    BY <1>1, <1>2, TailHolds DEF Commands
  <2> QED
    BY <1>1, <2>1 DEF RemovalPending, Holds
<1>6. /\ RebootTyped' /\ durable' \in Positions \cup {None}
      /\ shutdown' \in {"others", "pending"} => durable' = None
  BY <1>1, SignalDone DEF Inv
<1>7. Typed'
  <2>1. SavedTyped' /\ PlaceTyped'
    BY <1>1, <1>6 DEF Inv, Typed, SavedTyped, PlaceTyped
  <2>2. SvcTyped' /\ QueueTyped'
    BY <1>1, <1>3 DEF Inv, Typed, SvcTyped, QueueTyped
  <2> QED
    BY <1>6, <2>1, <2>2 DEF Typed
<1>8. Dark' /\ SavedBeforeRestart'
  BY <1>1, <1>6 DEF Dark, SavedBeforeRestart
<1>9. InsertedOnce'
  BY <1>1, <1>4 DEF InsertedOnce, Inserting, Holds
<1>10. Resident' /\ RtcCurrent' /\ Native'
  BY <1>1, <1>5 DEF Inv, Resident, RtcCurrent, Native, Inserting
<1>11. Remembered'
  BY <1>1, <1>5 DEF Inv, Remembered, Inserting
<1> QED
  BY <1>7, <1>8, <1>9, <1>10, <1>11 DEF Inv

LEMMA InvPersistCache == Inv /\ Flags /\ PersistCache => Inv'
<1> SUFFICES ASSUME Inv, Flags, PersistCache PROVE Inv'
  OBVIOUS
<1>1. /\ on /\ on' = on /\ cart' = cart /\ mounted' = mounted /\ removing' = removing
      /\ missed' = missed /\ UNCHANGED <<nvs, nvsKept, index, resumeChunk, currentChunk>>
      /\ UNCHANGED <<playing, paused, hasPlaylist>>
      /\ mounted /\ hasPlaylist /\ rtc' = Here
      /\ svcPc = "idle" /\ svcPc' = "write" /\ target' = target
      /\ queue # <<>> /\ Head(queue) = "persist" /\ queue' = Tail(queue)
      /\ shutdown' = shutdown /\ stale' = stale /\ durable' = durable /\ live' = live
  BY DEF PersistCache, CanBuild, Take, SvcAt, deviceVars, playVars, rebootVars
<1>2. queue \in Seq(Commands) /\ Len(queue) <= QueueDepth
  BY DEF Inv, Typed, QueueTyped
<1>3. /\ queue' \in Seq(Commands) /\ Len(queue') = Len(queue) - 1 /\ Len(queue) \in Nat
      /\ Len(queue') <= QueueDepth
  BY <1>1, <1>2, TailFacts, Origin
<1>4. ~Holds(queue', "inserted")
  BY <1>1, <1>2, TailInserted DEF Inv, InsertedOnce
<1>5. RemovalPending' <=> RemovalPending
  <2>1. Holds(queue', "removed") <=> Holds(queue, "removed")
    BY <1>1, <1>2, TailHolds DEF Commands
  <2> QED
    BY <1>1, <2>1 DEF RemovalPending, Holds
<1>6. rtc' \in Positions /\ rtc' # None /\ rtc'.cart = cart /\ Tracked'
  <2>1. /\ cart \in Cartridges /\ index \in Tracks /\ Second \in Seconds /\ paused \in BOOLEAN
        /\ currentChunk <= currentChunk
        /\ (paused => Second = resumeChunk) /\ (~paused => Second = currentChunk)
    BY DEF Inv, Typed, PlaceTyped, Flags, Second, Seconds
  <2>2. /\ Here \in Positions /\ Here # None /\ Here.cart = cart /\ Here.track = index
        /\ Here.sec = Second /\ Here.paused = paused
    BY <2>1, PosFacts DEF Here
  <2> QED
    BY <1>1, <2>1, <2>2 DEF Tracked
<1>7. Typed'
  <2>1. SavedTyped' /\ PlaceTyped'
    BY <1>1, <1>6 DEF Inv, Typed, SavedTyped, PlaceTyped
  <2>2. SvcTyped' /\ QueueTyped' /\ RebootTyped'
    BY <1>1, <1>3 DEF Inv, Typed, SvcTyped, QueueTyped, RebootTyped
  <2> QED
    BY <2>1, <2>2 DEF Typed
<1>8. Dark' /\ SavedBeforeRestart'
  BY <1>1 DEF Inv, Dark, SavedBeforeRestart
<1>9. InsertedOnce'
  BY <1>1, <1>4 DEF InsertedOnce, Inserting, Holds
<1>10. Resident' /\ RtcCurrent'
  BY <1>1, <1>5, <1>6 DEF Inv, Resident, RtcCurrent, Tracked, Inserting
<1>11. Native'
  BY <1>1, <1>6 DEF Inv, Native
<1>12. Remembered'
  BY <1>1, <1>5 DEF Inv, Remembered, Inserting
<1> QED
  BY <1>7, <1>8, <1>9, <1>10, <1>11, <1>12 DEF Inv

LEMMA InvPersistWrite == Inv /\ Flags /\ PersistWrite => Inv'
<1> SUFFICES ASSUME Inv, Flags, PersistWrite PROVE Inv'
  OBVIOUS
<1>1. /\ on /\ on' = on /\ cart' = cart /\ mounted' = mounted /\ removing' = removing
      /\ missed' = missed /\ UNCHANGED <<rtc, index, resumeChunk, currentChunk>>
      /\ UNCHANGED <<playing, paused, hasPlaylist>>
      /\ svcPc = "write" /\ svcPc' = "idle" /\ target' = target /\ queue' = queue
      /\ live' = live
      /\ \/ nvs' = rtc /\ nvsKept' = FALSE /\ Signal(TRUE, rtc)
         \/ UNCHANGED <<nvs, nvsKept>> /\ Signal(FALSE, rtc)
  BY DEF PersistWrite, PersistUnchanged, SvcAt, deviceVars, playVars
<1>2. /\ rtc # None /\ rtc.cart = cart /\ hasPlaylist /\ rtc \in Positions \cup {None}
      /\ ~Holds(queue, "inserted") /\ Typed
  BY <1>1 DEF Inv, Native, Resident, InsertedOnce, Typed, SavedTyped
<1>3. RemovalPending' <=> RemovalPending
  BY <1>1, PendingSame
<1>4. /\ RebootTyped' /\ durable' \in Positions \cup {None}
      /\ SavedBeforeRestart'
  <2>1. CASE nvs' = rtc /\ Signal(TRUE, rtc)
    BY <1>2, <2>1, SignalDone DEF SavedBeforeRestart
  <2>2. CASE nvs' = nvs /\ Signal(FALSE, rtc)
    BY <1>2, <2>2, SignalFailed DEF Inv, SavedBeforeRestart
  <2> QED
    BY <1>1, <2>1, <2>2
<1>5. Typed'
  <2>1. SavedTyped' /\ PlaceTyped'
    BY <1>1, <1>4 DEF Inv, Typed, SavedTyped, PlaceTyped
  <2>2. SvcTyped' /\ QueueTyped'
    BY <1>1 DEF Inv, Typed, SvcTyped, QueueTyped
  <2> QED
    BY <1>4, <2>1, <2>2 DEF Typed
<1>6. Dark'
  BY <1>1 DEF Dark
<1>7. InsertedOnce'
  BY <1>1, <1>2 DEF Inv, InsertedOnce, Inserting, Holds
<1>8. Resident' /\ RtcCurrent'
  BY <1>1, <1>3 DEF Inv, Resident, RtcCurrent, Inserting
<1>9. Native'
  <2>1. CASE nvs' = rtc
    BY <1>1, <1>2, <2>1 DEF Native
  <2>2. CASE nvs' = nvs /\ nvsKept' = nvsKept
    BY <1>1, <1>2, <2>2 DEF Inv, Native
  <2> QED
    BY <1>1, <2>1, <2>2
<1>10. Remembered'
  BY <1>1, <1>2, <1>3 DEF Inv, Remembered, Inserting
<1> QED
  BY <1>4, <1>5, <1>6, <1>7, <1>8, <1>9, <1>10 DEF Inv

LEMMA InvRequestReboot == Inv /\ Flags /\ RequestReboot => Inv'
<1> SUFFICES ASSUME Inv, Flags, RequestReboot PROVE Inv'
  OBVIOUS
<1>1. /\ on /\ on' = on /\ cart' = cart /\ mounted' = mounted /\ removing' = removing
      /\ missed' = missed /\ UNCHANGED <<rtc, nvs, nvsKept, index, resumeChunk, currentChunk>>
      /\ UNCHANGED <<playing, paused, hasPlaylist, svcPc, target, stale, durable, live>>
      /\ shutdown' = "callback" /\ Len(queue) < QueueDepth
      /\ queue' = Append(queue, "persist")
  BY DEF RequestReboot, deviceVars, savedVars, playVars
<1>2. queue \in Seq(Commands) /\ "persist" \in Commands
  BY DEF Inv, Typed, QueueTyped, Commands
<1>3. queue' \in Seq(Commands) /\ Len(queue') <= QueueDepth
  BY <1>1, <1>2, AppendFacts, Origin
<1>4. /\ Holds(queue', "removed") <=> Holds(queue, "removed")
      /\ Holds(queue', "inserted") <=> Holds(queue, "inserted")
  BY <1>1, <1>2, AppendHolds DEF Commands
<1>5. RemovalPending' <=> RemovalPending
  BY <1>1, <1>4 DEF RemovalPending, Holds
<1>6. \A i \in DOMAIN queue' : queue'[i] = "inserted" => i = 1
  BY <1>1, <1>2, AppendInserted DEF Inv, InsertedOnce
<1>7. Typed'
  <2>1. SavedTyped' /\ PlaceTyped'
    BY <1>1 DEF Inv, Typed, SavedTyped, PlaceTyped
  <2>2. SvcTyped' /\ QueueTyped' /\ RebootTyped'
    BY <1>1, <1>3 DEF Inv, Typed, SvcTyped, QueueTyped, RebootTyped
  <2> QED
    BY <2>1, <2>2 DEF Typed
<1>8. Dark' /\ SavedBeforeRestart'
  BY <1>1 DEF Dark, SavedBeforeRestart
<1>9. InsertedOnce'
  <2>1. Holds(queue, "inserted")' <=> Holds(queue, "inserted")
    BY <1>4 DEF Holds
  <2> QED
    BY <1>1, <1>6, <2>1 DEF Inv, InsertedOnce, Inserting
<1>10. Resident' /\ RtcCurrent' /\ Native'
  BY <1>1, <1>5 DEF Inv, Resident, RtcCurrent, Native, Inserting
<1>11. Remembered'
  BY <1>1, <1>5 DEF Inv, Remembered, Inserting
<1> QED
  BY <1>7, <1>8, <1>9, <1>10, <1>11 DEF Inv

LEMMA InvShutdown == Inv /\ Flags /\ (CallbackTimeout \/ RunOthers) => Inv'
<1> SUFFICES ASSUME Inv, Flags, CallbackTimeout \/ RunOthers PROVE Inv'
  OBVIOUS
<1>1. /\ on /\ on' = on /\ cart' = cart /\ mounted' = mounted /\ removing' = removing
      /\ missed' = missed /\ UNCHANGED <<rtc, nvs, nvsKept, index, resumeChunk, currentChunk>>
      /\ UNCHANGED <<playing, paused, hasPlaylist, svcPc, target, queue, live>>
  BY DEF CallbackTimeout, RunOthers, RebootUnchanged, deviceVars, savedVars, playVars, svcVars
<1>2. RemovalPending' <=> RemovalPending
  BY <1>1, PendingSame
<1>3. /\ RebootTyped' /\ durable' \in {None, durable}
      /\ SavedBeforeRestart'
  <2>1. CASE CallbackTimeout
    BY <2>1, ResumeAssumption
       DEF ResumeAssumption, CallbackTimeout, Inv, Typed, RebootTyped, SavedBeforeRestart
  <2>2. CASE RunOthers
    BY <1>1, <2>2 DEF RunOthers, Inv, Typed, RebootTyped, SavedBeforeRestart
  <2> QED
    BY <2>1, <2>2
<1>4. Typed'
  <2>1. SavedTyped' /\ PlaceTyped'
    BY <1>1, <1>3 DEF Inv, Typed, SavedTyped, PlaceTyped
  <2>2. SvcTyped' /\ QueueTyped'
    BY <1>1 DEF Inv, Typed, SvcTyped, QueueTyped
  <2> QED
    BY <1>3, <2>1, <2>2 DEF Typed
<1>5. Dark'
  BY <1>1 DEF Dark
<1>6. InsertedOnce'
  BY <1>1, <1>3 DEF Inv, InsertedOnce, Holds, Inserting
<1>7. Resident' /\ RtcCurrent' /\ Native'
  BY <1>1, <1>2 DEF Inv, Resident, RtcCurrent, Native, Inserting
<1>8. Remembered'
  BY <1>1, <1>2 DEF Inv, Remembered, Inserting
<1> QED
  BY <1>3, <1>4, <1>5, <1>6, <1>7, <1>8 DEF Inv

-----------------------------------------------------------------------------
(* The invariant: resets, power losses and the cartridge                    *)

(* What a reset expects to come back to is what RTC memory holds.           *)
LEMMA ExpectedFacts ==
  ASSUME Inv, Flags, on
  PROVE  /\ Expected \in Positions \cup {None}
         /\ Expected # None => Matches(rtc, Expected)
<1>1. CASE ~hasPlaylist \/ svcPc \in {"load", "erase", "begin"}
  <2>1. ~playing
    BY <1>1 DEF Inv, Resident, Inserting
  <2>2. Expected = live
    BY <1>1, <2>1 DEF Expected
  <2> QED
    BY <1>1, <2>2 DEF Inv, Remembered, Inserting, Typed, SavedTyped
<1>2. CASE hasPlaylist /\ svcPc \notin {"load", "erase", "begin"} /\ playing /\ mounted /\ ~RemovalPending
  <2>1. Expected = Here
    BY <1>2 DEF Expected
  <2>2. Tracked
    BY <1>2 DEF Inv, Typed, SvcTyped, RtcCurrent, Tracked
  <2>3. /\ cart \in Cartridges /\ index \in Tracks /\ Second \in Seconds /\ paused \in BOOLEAN
        /\ (paused => Second = resumeChunk) /\ (~paused => Second = currentChunk)
    BY DEF Inv, Typed, PlaceTyped, Flags, Second
  <2>4. /\ Here \in Positions /\ Here # None /\ Here.cart = cart /\ Here.track = index
        /\ Here.sec = Second /\ Here.paused = paused
    BY <2>3, PosFacts DEF Here
  <2> QED
    BY <2>1, <2>2, <2>3, <2>4 DEF Tracked, Matches
<1>3. CASE /\ hasPlaylist /\ svcPc \notin {"load", "erase", "begin"}
           /\ ~(playing /\ mounted /\ ~RemovalPending)
  BY <1>3 DEF Expected
<1> QED
  BY <1>1, <1>2, <1>3

LEMMA InvOff ==
  ASSUME Inv, Flags, Off, live' \in Positions \cup {None}, rtc' \in {rtc, None},
         live' # None => rtc' = rtc /\ Matches(rtc, live')
  PROVE  Inv'
<1>1. /\ on' = FALSE /\ mounted' = FALSE /\ removing' = FALSE /\ missed' = FALSE
      /\ hasPlaylist' = FALSE /\ playing' = FALSE /\ paused' = FALSE
      /\ index' = 0 /\ resumeChunk' = 0 /\ currentChunk' = 0
      /\ svcPc' = "idle" /\ target' = None /\ queue' = <<>>
      /\ shutdown' = "none" /\ stale' = 0 /\ durable' = None
      /\ cart' = cart /\ nvs' = nvs /\ nvsKept' = nvsKept
  BY DEF Off
<1>2. queue' \in Seq(Commands) /\ Len(queue') = 0 /\ DOMAIN queue' = {}
  BY <1>1, EmptySeq
<1>3. ~RemovalPending'
  BY <1>1, <1>2 DEF RemovalPending
<1>4. Typed'
  <2>1. SavedTyped' /\ PlaceTyped'
    BY <1>1, Origin DEF Inv, Typed, SavedTyped, PlaceTyped
  <2>2. SvcTyped' /\ QueueTyped' /\ RebootTyped'
    BY <1>1, <1>2, ResumeAssumption
       DEF ResumeAssumption, Inv, Typed, SvcTyped, QueueTyped, RebootTyped
  <2> QED
    BY <2>1, <2>2 DEF Typed
<1>5. Dark' /\ InsertedOnce'
  BY <1>1, <1>2 DEF Dark, InsertedOnce, Holds, Inserting
<1>6. Resident' /\ RtcCurrent' /\ SavedBeforeRestart'
  BY <1>1 DEF Resident, RtcCurrent, SavedBeforeRestart, Inserting
<1>7. Native'
  BY <1>1 DEF Inv, Native
<1>8. Remembered'
  BY <1>1, <1>3 DEF Remembered, Inserting
<1> QED
  BY <1>4, <1>5, <1>6, <1>7, <1>8 DEF Inv

LEMMA InvReset == Inv /\ Flags /\ (Restart \/ Crash \/ PowerLoss) => Inv'
<1> SUFFICES ASSUME Inv, Flags, Restart \/ Crash \/ PowerLoss PROVE Inv'
  OBVIOUS
<1>1. CASE Restart \/ Crash
  <2>1. on /\ Off /\ live' = Expected /\ rtc' = rtc
    BY <1>1 DEF Restart, Crash
  <2>2. live' \in Positions \cup {None} /\ (live' # None => Matches(rtc, live'))
    BY <2>1, ExpectedFacts
  <2> QED
    BY <2>1, <2>2, InvOff
<1>2. CASE PowerLoss
  BY <1>2, InvOff DEF PowerLoss
<1> QED
  BY <1>1, <1>2

LEMMA InvBoot == Inv /\ Flags /\ Boot => Inv'
<1> SUFFICES ASSUME Inv, Flags, Boot PROVE Inv'
  OBVIOUS
<1>1. /\ ~mounted /\ ~removing /\ ~missed /\ ~hasPlaylist /\ ~playing
      /\ svcPc = "idle" /\ durable = None
  BY DEF Boot, Inv, Dark
<1>2. /\ on' = TRUE /\ cart' \in Cartridges
      /\ removing' = removing /\ missed' = missed
      /\ UNCHANGED <<rtc, nvs, nvsKept, index, resumeChunk, currentChunk>>
      /\ UNCHANGED <<playing, paused, hasPlaylist, svcPc, target, shutdown, stale, durable, live>>
      /\ queue' \in {<<"inserted">>, <<>>}
  BY DEF Boot, savedVars, playVars, rebootVars
<1>3. /\ queue' \in Seq(Commands) /\ Len(queue') <= 1
      /\ \A i \in DOMAIN queue' : i = 1 /\ queue'[i] = "inserted"
  <2>1. CASE queue' = <<>>
    BY <2>1, EmptySeq
  <2>2. CASE queue' = <<"inserted">>
    BY <2>2 DEF Commands
  <2> QED
    BY <1>2, <2>1, <2>2
<1>4. ~RemovalPending'
  BY <1>1, <1>2, <1>3 DEF RemovalPending
<1>5. Typed'
  <2>1. SavedTyped' /\ PlaceTyped'
    BY <1>2 DEF Inv, Typed, SavedTyped, PlaceTyped
  <2>2. SvcTyped' /\ QueueTyped' /\ RebootTyped'
    BY <1>2, <1>3, Origin DEF Inv, Typed, SvcTyped, QueueTyped, RebootTyped
  <2> QED
    BY <2>1, <2>2 DEF Typed
<1>6. Dark' /\ SavedBeforeRestart'
  BY <1>1, <1>2 DEF Dark, SavedBeforeRestart
<1>7. InsertedOnce'
  BY <1>1, <1>2, <1>3 DEF InsertedOnce, Inserting
<1>8. Resident' /\ RtcCurrent' /\ Native'
  BY <1>1, <1>2 DEF Inv, Resident, RtcCurrent, Native, Inserting
<1>9. Remembered'
  BY <1>1, <1>2, <1>4 DEF Inv, Remembered, Inserting
<1> QED
  BY <1>5, <1>6, <1>7, <1>8, <1>9 DEF Inv

LEMMA InvUnmount == Inv /\ Flags /\ Unmount => Inv'
<1> SUFFICES ASSUME Inv, Flags, Unmount PROVE Inv'
  OBVIOUS
<1>1. /\ on /\ on' = on /\ cart' = cart /\ mounted' = FALSE /\ removing' = TRUE
      /\ missed' = missed /\ UNCHANGED <<rtc, nvs, nvsKept, index, resumeChunk, currentChunk>>
      /\ UNCHANGED <<playing, paused, hasPlaylist, svcPc, target, queue, shutdown, stale, durable>>
      /\ live' = None
  BY DEF Unmount, savedVars, playVars, svcVars, rebootVars
<1>2. RemovalPending'
  BY <1>1 DEF RemovalPending
<1>3. Typed'
  <2>1. SavedTyped' /\ PlaceTyped'
    BY <1>1 DEF Inv, Typed, SavedTyped, PlaceTyped
  <2>2. SvcTyped' /\ QueueTyped' /\ RebootTyped'
    BY <1>1 DEF Inv, Typed, SvcTyped, QueueTyped, RebootTyped
  <2> QED
    BY <2>1, <2>2 DEF Typed
<1>4. Dark' /\ SavedBeforeRestart' /\ InsertedOnce'
  BY <1>1 DEF Inv, Dark, SavedBeforeRestart, InsertedOnce, Holds, Inserting
<1>5. Resident' /\ RtcCurrent' /\ Native' /\ Remembered'
  BY <1>1, <1>2 DEF Inv, Resident, RtcCurrent, Native, Remembered, Inserting
<1> QED
  BY <1>3, <1>4, <1>5 DEF Inv

LEMMA InvMount == Inv /\ Flags /\ Mount => Inv'
<1> SUFFICES ASSUME Inv, Flags, Mount PROVE Inv'
  OBVIOUS
<1>1. /\ on /\ on' = on /\ ~mounted /\ mounted' = TRUE /\ removing' = removing
      /\ missed' = missed /\ UNCHANGED <<rtc, nvs, nvsKept, index, resumeChunk, currentChunk>>
      /\ UNCHANGED <<playing, paused, hasPlaylist, svcPc, target, queue, shutdown, stale, durable, live>>
      /\ (RemovalPending => cart' = cart) /\ cart' \in Cartridges
  BY DEF Mount, savedVars, playVars, svcVars, rebootVars, Inv, Typed, PlaceTyped
<1>2. RemovalPending' <=> RemovalPending
  BY <1>1, PendingSame
<1>3. hasPlaylist \/ playing \/ svcPc # "idle" => RemovalPending /\ cart' = cart
  BY <1>1 DEF Inv, Resident
<1>4. Typed'
  <2>1. SavedTyped' /\ PlaceTyped'
    BY <1>1 DEF Inv, Typed, SavedTyped, PlaceTyped
  <2>2. SvcTyped' /\ QueueTyped' /\ RebootTyped'
    BY <1>1 DEF Inv, Typed, SvcTyped, QueueTyped, RebootTyped
  <2> QED
    BY <2>1, <2>2 DEF Typed
<1>5. Dark' /\ SavedBeforeRestart' /\ InsertedOnce'
  BY <1>1 DEF Inv, Dark, SavedBeforeRestart, InsertedOnce, Holds, Inserting
<1>6. Resident' /\ RtcCurrent'
  BY <1>1, <1>2, <1>3 DEF Inv, Resident, RtcCurrent, Inserting
<1>7. Native'
  BY <1>1, <1>2, <1>3 DEF Inv, Native
<1>8. Remembered'
  BY <1>1, <1>2, <1>3 DEF Inv, Remembered, Inserting
<1> QED
  BY <1>4, <1>5, <1>6, <1>7, <1>8 DEF Inv

LEMMA InvDeliver == Inv /\ Flags /\ DeliverRemoved => Inv'
<1> SUFFICES ASSUME Inv, Flags, DeliverRemoved PROVE Inv'
  OBVIOUS
<1>1. /\ on /\ on' = on /\ cart' = cart /\ mounted' = mounted
      /\ UNCHANGED <<rtc, nvs, nvsKept, index, resumeChunk, currentChunk>>
      /\ UNCHANGED <<playing, paused, hasPlaylist, svcPc, target, shutdown, stale, durable, live>>
      /\ removing
      /\ \/ Len(queue) < QueueDepth /\ queue' = Append(queue, "removed")
         \/ missed' /\ queue' = queue
  BY DEF DeliverRemoved, savedVars, playVars, rebootVars
<1>2. queue \in Seq(Commands) /\ Len(queue) <= QueueDepth /\ "removed" \in Commands
  BY DEF Inv, Typed, QueueTyped, Commands
<1>3. QueueTyped'
  BY <1>1, <1>2, AppendFacts, Origin DEF QueueTyped
<1>4. RemovalPending /\ RemovalPending'
  <2>1. queue' = Append(queue, "removed") => Holds(queue', "removed")
    BY <1>2, AppendHolds
  <2> QED
    BY <1>1, <2>1 DEF RemovalPending, Holds
<1>5. /\ \A i \in DOMAIN queue' : queue'[i] = "inserted" => i = 1
      /\ Holds(queue', "inserted") => Holds(queue, "inserted")
  <2>1. \A i \in DOMAIN queue : queue[i] = "inserted" => i = 1
    BY DEF Inv, InsertedOnce
  <2>2. CASE queue' = Append(queue, "removed")
    BY <1>2, <2>1, <2>2, AppendInserted, AppendHolds DEF Commands
  <2>3. CASE queue' = queue
    BY <2>1, <2>3
  <2> QED
    BY <1>1, <2>2, <2>3
<1>6. Typed'
  <2>1. SavedTyped' /\ PlaceTyped'
    BY <1>1 DEF Inv, Typed, SavedTyped, PlaceTyped
  <2>2. SvcTyped' /\ RebootTyped'
    BY <1>1 DEF Inv, Typed, SvcTyped, RebootTyped
  <2> QED
    BY <1>3, <2>1, <2>2 DEF Typed
<1>7. Dark' /\ SavedBeforeRestart'
  BY <1>1 DEF Inv, Dark, SavedBeforeRestart
<1>8. InsertedOnce'
  <2>1. Holds(queue, "inserted")' => Holds(queue, "inserted")
    BY <1>5 DEF Holds
  <2> QED
    BY <1>1, <1>5, <2>1 DEF Inv, InsertedOnce, Inserting
<1>9. Resident' /\ RtcCurrent' /\ Native' /\ Remembered'
  BY <1>1, <1>4 DEF Inv, Resident, RtcCurrent, Native, Remembered, Inserting
<1> QED
  BY <1>6, <1>7, <1>8, <1>9 DEF Inv

LEMMA InvStutter == Inv /\ UNCHANGED vars => Inv'
<1> SUFFICES ASSUME Inv, UNCHANGED vars PROVE Inv'
  OBVIOUS
<1> USE DEF vars, deviceVars, savedVars, playVars, svcVars, rebootVars
<1>1. Typed' /\ Dark' /\ SavedBeforeRestart'
  BY DEF Inv, Typed, SavedTyped, PlaceTyped, SvcTyped, QueueTyped, RebootTyped, Dark,
         SavedBeforeRestart
<1>2. RemovalPending' <=> RemovalPending
  BY PendingSame
<1>3. InsertedOnce' /\ Resident' /\ RtcCurrent' /\ Native' /\ Remembered'
  BY <1>2 DEF Inv, InsertedOnce, Holds, Resident, RtcCurrent, Native, Remembered, Inserting
<1> QED
  BY <1>1, <1>3 DEF Inv

LEMMA InvNext == Inv /\ Flags /\ [Next]_vars => Inv'
<1> SUFFICES ASSUME Inv, Flags, [Next]_vars PROVE Inv'
  OBVIOUS
<1>1. CASE Play
  BY <1>1, InvPlay
<1>2. CASE Insert
  BY <1>2, InvRemoved, InvInserted, InvLoad, InvErase, InvBegin DEF Insert
<1>3. CASE Reboot
  BY <1>3, InvPersistNothing, InvPersistCache, InvPersistWrite, InvRequestReboot, InvShutdown
     DEF Reboot
<1>4. CASE Device
  BY <1>4, InvReset, InvBoot, InvUnmount, InvMount, InvDeliver DEF Device
<1>5. CASE UNCHANGED vars
  BY <1>5, InvStutter
<1> QED
  BY <1>1, <1>2, <1>3, <1>4, <1>5 DEF Next

LEMMA InvIsInvariant == Spec => [](Inv /\ Flags)
<1>1. Init => Inv /\ Flags
  BY InvInit, FlagsInit
<1>2. Inv /\ Flags /\ [Next]_vars => (Inv /\ Flags)'
  BY InvNext, FlagsStep
<1> QED
  BY <1>1, <1>2, PTL DEF Spec

-----------------------------------------------------------------------------
(* What follows                                                             *)

LEMMA NativeIsForeignErased == Inv => ForeignErased
<1> SUFFICES ASSUME Inv, hasPlaylist, ~RemovalPending, svcPc \in {"idle", "write"}
             PROVE  /\ rtc # None => rtc.cart = cart
                    /\ nvs # None /\ ~nvsKept => nvs.cart = cart
  BY DEF ForeignErased
<1> QED
  BY DEF Inv, Native

(* The second a restart comes back to, where only the insertion starts a    *)
(* track: no other step leaves the state in which a position is begun with. *)
LEMMA ResumeStep ==
  Inv /\ Flags /\ [Next]_vars /\ svcPc = "begin" /\ playing' /\ live # None
    => /\ index' = live.track /\ paused' = live.paused
       /\ IF paused' THEN resumeChunk' = live.sec ELSE resumeChunk' <= live.sec
<1> SUFFICES ASSUME Inv, Flags, [Next]_vars, svcPc = "begin", playing', live # None
             PROVE  /\ index' = live.track /\ paused' = live.paused
                    /\ IF paused' THEN resumeChunk' = live.sec ELSE resumeChunk' <= live.sec
  OBVIOUS
<1>1. ~playing
  BY DEF Inv, Resident, Inserting
<1>2. Matches(target, live) /\ paused' \in BOOLEAN
  <2>1. Flags'
    BY FlagsStep
  <2>2. paused' \in BOOLEAN
    BY <2>1, Zenon DEF Flags
  <2> QED
    BY <2>2 DEF Inv, Remembered
<1>3. CASE Begin
  <2>1. playing' # FALSE
    OBVIOUS
  <2>2. Begun
    BY <1>3, <2>1, BeginEffects
  <2>3. target.paused \in BOOLEAN /\ live.paused \in BOOLEAN
    BY DEF Inv, Typed, SvcTyped, SavedTyped, Positions
  <2> QED
    BY <1>2, <2>2, <2>3 DEF Begun, Matches
<1>4. CASE Play
  <2>1. PlayEffect
    BY <1>4, PlayEffects DEF Inv
  <2> QED
    BY <1>1, <2>1 DEF PlayEffect
<1>5. CASE Insert /\ ~Begin
  <2>1. ~(Removed \/ Inserted \/ LoadRtc \/ LoadForeignRtc \/ LoadNvs \/ LoadUnmounted)
    BY DEF Removed, Inserted, Take, LoadRtc, LoadForeignRtc, LoadNvs, LoadUnmounted, SvcAt
  <2>2. ~Erase
    BY DEF Erase, SvcAt
  <2> QED
    BY <1>5, <2>1, <2>2 DEF Insert
<1>6. CASE Reboot
  <2>1. playing' = playing
    BY <1>6 DEF Reboot, PersistNothing, PersistCache, PersistWrite, PersistUnchanged, RequestReboot,
                CallbackTimeout, RunOthers, RebootUnchanged, playVars
  <2> QED
    BY <1>1, <2>1
<1>7. CASE Device
  <2>1. playing' = playing \/ playing' = FALSE
    BY <1>7 DEF Device, Restart, Crash, PowerLoss, Off, Boot, Unmount, Mount, DeliverRemoved, playVars
  <2> QED
    BY <1>1, <2>1
<1>8. CASE UNCHANGED vars
  BY <1>1, <1>8 DEF vars, playVars
<1> QED
  BY <1>3, <1>4, <1>5, <1>6, <1>7, <1>8 DEF Next

(* Positions, the command queue and the steps of a shutdown stay in range   *)
(* through any boots, crashes and swaps: an insertion always begins at a    *)
(* track and second the cartridge has                                       *)
(* (player_service_handle_cartridge_inserted).                              *)
THEOREM TypeCorrect == Spec => []TypeOK
<1>1. Inv /\ Flags => TypeOK
  <2> SUFFICES ASSUME Inv, Flags PROVE TypeOK
    OBVIOUS
  <2>1. /\ on \in BOOLEAN /\ mounted \in BOOLEAN
        /\ removing \in BOOLEAN /\ missed \in BOOLEAN /\ nvsKept \in BOOLEAN
        /\ hasPlaylist \in BOOLEAN /\ playing \in BOOLEAN /\ paused \in BOOLEAN
    BY Zenon DEF Flags
  <2>2. /\ cart \in Cartridges
        /\ {rtc, nvs, live, durable} \subseteq Positions \cup {None}
        /\ index \in Tracks /\ resumeChunk \in Seconds /\ currentChunk \in Seconds
        /\ svcPc \in {"idle", "load", "erase", "begin", "write"}
        /\ target \in IF svcPc \in {"erase", "begin"} THEN Positions ELSE {None}
        /\ queue \in Seq({"inserted", "removed", "persist"}) /\ Len(queue) <= QueueDepth
        /\ shutdown \in {"none", "callback", "others", "pending"}
        /\ stale \in 0 .. MaxStale
    BY DEF Inv, Typed, SavedTyped, PlaceTyped, SvcTyped, QueueTyped, RebootTyped, Commands
  <2> QED
    BY <2>1, <2>2, Zenon DEF TypeOK
<1> QED
  BY <1>1, InvIsInvariant, PTL

(* Once an insertion is handled, nothing saved belongs to another           *)
(* cartridge, unless flash could not be read or erased                      *)
(* (player_service_load_saved_playback_status): not after swaps while the   *)
(* removal is still on its way, and not after a reset between the two       *)
(* erasures.                                                                *)
THEOREM ForeignIsErased == Spec => []ForeignErased
BY InvIsInvariant, NativeIsForeignErased, PTL

(* While something plays, RTC memory names its track, its second and        *)
(* whether it is paused (player_service_cache_current_playback_status is    *)
(* never one start, pause or seek late).                                    *)
THEOREM RtcIsCurrent == Spec => []RtcCurrent
<1>1. Inv => RtcCurrent
  BY DEF Inv
<1> QED
  BY <1>1, InvIsInvariant, PTL

(* The chip restarts only with the position on flash that the last persist  *)
(* command was reported to have saved, whatever commands of callers that    *)
(* had given up run late (player_service_shutdown_callback).                *)
THEOREM SavedFirst == Spec => []SavedBeforeRestart
<1>1. Inv => SavedBeforeRestart
  BY DEF Inv
<1> QED
  BY <1>1, InvIsInvariant, PTL

(* After a reboot, panic or watchdog reset the same cartridge goes on with  *)
(* the track that played, paused exactly if it was paused, at the same      *)
(* second when paused and no later than it otherwise.                       *)
THEOREM ResumesThere == Spec => ResumesAfterReset
<1>1. Inv /\ Flags /\ [Next]_vars
        => [(svcPc = "begin" /\ playing' /\ live # None)
              => /\ index' = live.track /\ paused' = live.paused
                 /\ IF paused' THEN resumeChunk' = live.sec ELSE resumeChunk' <= live.sec]_vars
  BY ResumeStep
<1> QED
  BY <1>1, InvIsInvariant, PTL DEF Spec, ResumesAfterReset

================================================================================
