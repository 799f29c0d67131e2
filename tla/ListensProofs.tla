----------------------------- MODULE ListensProofs -----------------------------
(***************************************************************************)
(* The safety of Listens for any number of listens, albums and callers and *)
(* any lengths of the queues: its types, the order of the scrobbles and    *)
(* that the one that waits is seen.                                        *)
(***************************************************************************)
EXTENDS Listens, SequenceTheorems, TLAPS

-----------------------------------------------------------------------------
(* Queues *)

(* Taking the first element leaves the others in their order.                *)
LEMMA TailFacts ==
  ASSUME NEW S, NEW s \in Seq(S), s # <<>>
  PROVE  /\ Len(s) \in Nat \ {0} /\ Head(s) = s[1] /\ s[1] \in S
         /\ Tail(s) \in Seq(S) /\ Len(Tail(s)) = Len(s) - 1
         /\ DOMAIN Tail(s) = 1 .. Len(s) - 1
         /\ \A i \in DOMAIN Tail(s) : Tail(s)[i] = s[i + 1]
BY HeadTailProperties, EmptySeq, LenProperties, ElementOfSeq

(* What is added comes last.                                                 *)
LEMMA AppendFacts ==
  ASSUME NEW S, NEW s \in Seq(S), NEW x \in S
  PROVE  /\ Len(s) \in Nat
         /\ Append(s, x) \in Seq(S) /\ Len(Append(s, x)) = Len(s) + 1
         /\ DOMAIN Append(s, x) = 1 .. Len(s) + 1
         /\ \A i \in DOMAIN s : Append(s, x)[i] = s[i]
         /\ Append(s, x)[Len(s) + 1] = x
BY AppendProperties, LenProperties

(* What is put back (lastfm_service_requeue_scrobble) comes first.           *)
LEMMA BeforeFacts ==
  ASSUME NEW S, NEW s \in Seq(S), NEW x \in S
  PROVE  /\ Len(s) \in Nat
         /\ Before(s, x) \in Seq(S) /\ Len(Before(s, x)) = Len(s) + 1
         /\ DOMAIN Before(s, x) = 1 .. Len(s) + 1
         /\ Before(s, x)[1] = x
         /\ \A i \in DOMAIN s : Before(s, x)[i + 1] = s[i]
BY LenProperties DEF Before

-----------------------------------------------------------------------------
(* The queue of scrobbles *)

SInv == ScrobblesTypeOK /\ Awake

(* A send to a member of the set (prvNotifyQueueSetContainer) adds an entry, *)
(* or the chip resets.                                                       *)
LEMMA NotifyFacts ==
  ASSUME ScrobblesTypeOK, NotifyScrobble
  PROVE  /\ scrobbleReady' \in Nat /\ scrobbleReady' + cmdReady <= SetLength
         /\ panicked' \/ scrobbleReady' = scrobbleReady + 1
<1> USE ScrobblesAssumption DEF ScrobblesAssumption, ScrobblesTypeOK, NotifyScrobble
<1>1. CASE SetFull
  <2>1. panicked' /\ scrobbleReady' = scrobbleReady
    BY <1>1
  <2> QED
    BY <2>1 DEF SetLength
<1>2. CASE ~SetFull
  <2>1. scrobbleReady' = scrobbleReady + 1
    BY <1>2
  <2> QED
    BY <1>2, <2>1 DEF SetFull, SetLength
<1> QED
  BY <1>1, <1>2

(* lastfm_service_send_scrobble.                                             *)
LEMMA SendScrobbleStep ==
  ASSUME SInv, NEW l \in Listens, SendScrobble(l)
  PROVE  SInv'
<1> DEFINE kept == IF QueueFull THEN Tail(scrobbles) ELSE scrobbles
<1> USE ScrobblesAssumption DEF ScrobblesAssumption, SInv
<1>1. CASE ~enabled
  BY <1>1 DEF SendScrobble, ScrobblesTypeOK, Awake, setVars, envVars, taskVars
<1>2. CASE enabled
  <2>1. /\ kept \in Seq(Listens) /\ Len(kept) \in Nat
        /\ Len(kept) < QueueLength /\ Len(kept) <= Len(scrobbles)
    BY TailFacts, LenProperties, EmptySeq DEF ScrobblesTypeOK, QueueFull
  <2>2. /\ scrobbles' = Append(kept, l) /\ NotifyScrobble
        /\ UNCHANGED <<cmds, cmdReady, task, inHand, acked>> /\ UNCHANGED missed
    BY <1>2 DEF SendScrobble, setVars, envVars, taskVars
  <2> HIDE DEF kept
  <2>3. scrobbles' \in Seq(Listens) /\ Len(scrobbles') = Len(kept) + 1
    BY <2>1, <2>2, AppendFacts
  <2>4. /\ scrobbleReady' \in Nat /\ scrobbleReady' + cmdReady <= SetLength
        /\ panicked' \/ scrobbleReady' = scrobbleReady + 1
    BY <2>2, NotifyFacts
  <2>5. ScrobblesTypeOK'
    <3>1. scrobbles' \in Seq(Listens) /\ Len(scrobbles') <= QueueLength
      BY <2>1, <2>3
    <3>2. scrobbleReady' \in Nat /\ cmdReady' \in Nat /\ scrobbleReady' + cmdReady' <= SetLength
      BY <2>2, <2>4 DEF ScrobblesTypeOK
    <3> QED
      BY <2>2, <3>1, <3>2 DEF ScrobblesTypeOK
  <2>6. \/ panicked' \/ missed'
        \/ Len(scrobbles') <= scrobbleReady' + (IF task' = "selected" THEN 1 ELSE 0)
    <3>1. CASE panicked'
      BY <3>1
    <3>2. CASE scrobbleReady' = scrobbleReady + 1
      <4>1. missed \/ Len(scrobbles) <= scrobbleReady + (IF task = "selected" THEN 1 ELSE 0)
        BY DEF Awake, SendScrobble
      <4> QED
        BY <4>1, <3>2, <2>1, <2>2, <2>3, LenProperties DEF ScrobblesTypeOK
    <3> QED
      BY <3>1, <3>2, <2>4
  <2> QED
    BY <2>5, <2>6 DEF Awake
<1> QED
  BY <1>1, <1>2

(* A step that leaves the queue, its entries and the task alone.             *)
LEMMA QueueUntouched ==
  ASSUME SInv, UNCHANGED <<scrobbles, scrobbleReady, cmds, cmdReady, taskVars, acked>>,
         UNCHANGED missed, UNCHANGED panicked
  PROVE  SInv'
BY DEF SInv, ScrobblesTypeOK, Awake, taskVars

(* lastfm_service_enqueue_command.                                           *)
LEMMA SendCommandStep == ASSUME SInv, SendCommand PROVE SInv'
<1> USE ScrobblesAssumption DEF ScrobblesAssumption, SInv
<1>1. /\ cmds \in 0 .. CmdLength /\ cmds' = cmds + 1 /\ cmds < CmdLength
      /\ NotifyCmd /\ UNCHANGED <<scrobbles, scrobbleReady, task, inHand, acked>>
      /\ UNCHANGED missed
  BY DEF SendCommand, ScrobblesTypeOK, taskVars
<1>2. /\ cmdReady' \in Nat /\ scrobbleReady + cmdReady' <= SetLength
      /\ panicked => panicked'
  <2>1. CASE SetFull
    <3>1. panicked' /\ cmdReady' = cmdReady
      BY <1>1, <2>1 DEF NotifyCmd
    <3> QED
      BY <3>1 DEF ScrobblesTypeOK
  <2>2. CASE ~SetFull
    <3>1. cmdReady' = cmdReady + 1 /\ UNCHANGED panicked
      BY <1>1, <2>2 DEF NotifyCmd
    <3> QED
      BY <2>2, <3>1 DEF ScrobblesTypeOK, SetFull, SetLength
  <2> QED
    BY <2>1, <2>2
<1>3. cmds' \in 0 .. CmdLength
  BY <1>1
<1>4. ScrobblesTypeOK'
  BY <1>1, <1>2, <1>3 DEF ScrobblesTypeOK
<1> QED
  BY <1>1, <1>2, <1>4 DEF Awake

(* Taking an entry of the queue set, and the scrobble of one: between the    *)
(* two the entry counts as the task's.                                       *)
LEMMA SelectStep ==
  ASSUME SInv, OfflineCommand \/ GoOnline \/ SelectCommand \/ SelectScrobble
  PROVE  SInv'
<1> USE ScrobblesAssumption DEF ScrobblesAssumption, SInv, setVars, envVars, taskVars, queueVars,
      Running, ScrobblesTypeOK, Awake, SetLength
<1>1. CASE OfflineCommand
  BY <1>1 DEF OfflineCommand
<1>2. CASE GoOnline
  BY <1>2 DEF GoOnline
<1>3. CASE SelectCommand
  BY <1>3 DEF SelectCommand
<1>4. CASE SelectScrobble
  BY <1>4, LenProperties DEF SelectScrobble
<1> QED
  BY <1>1, <1>2, <1>3, <1>4

LEMMA LeaveStep == ASSUME SInv, LeaveScrobble PROVE SInv'
<1> USE DEF SInv, envVars, queueVars, Running
<1>1. ScrobblesTypeOK'
  BY DEF LeaveScrobble, ScrobblesTypeOK
<1>2. CASE scrobbles = <<>>
  <2>1. /\ UNCHANGED <<scrobbles, scrobbleReady>> /\ Len(scrobbles) = 0
        /\ scrobbleReady \in Nat /\ task' = "loop"
    BY <1>2, EmptySeq DEF LeaveScrobble, ScrobblesTypeOK
  <2> QED
    BY <1>1, <2>1 DEF Awake
<1>3. CASE scrobbles # <<>>
  BY <1>1, <1>3 DEF LeaveScrobble, Awake
<1> QED
  BY <1>2, <1>3

LEMMA ReceiveStep == ASSUME SInv, Receive PROVE SInv'
<1> USE DEF SInv
<1>1. /\ task = "selected" /\ UNCHANGED <<scrobbleReady, cmds, cmdReady, acked>>
      /\ UNCHANGED panicked
      /\ scrobbleReady \in Nat /\ scrobbles \in Seq(Listens)
  BY DEF Receive, Running, setVars, ScrobblesTypeOK
<1>2. missed \/ panicked \/ Len(scrobbles) <= scrobbleReady + 1
  BY <1>1 DEF Awake
<1>3. CASE scrobbles = <<>>
  <2>1. task' = "loop" /\ UNCHANGED <<scrobbles, inHand>> /\ Len(scrobbles) = 0
    BY <1>3, EmptySeq DEF Receive
  <2> QED
    BY <1>1, <2>1 DEF ScrobblesTypeOK, Awake
<1>4. CASE scrobbles # <<>>
  <2>1. task' = "process" /\ inHand' = Head(scrobbles) /\ scrobbles' = Tail(scrobbles)
    BY <1>4 DEF Receive
  <2>2. /\ inHand' \in Listens /\ scrobbles' \in Seq(Listens)
        /\ Len(scrobbles) \in Nat \ {0} /\ Len(scrobbles') = Len(scrobbles) - 1
    BY <1>1, <1>4, <2>1, TailFacts
  <2>3. ScrobblesTypeOK'
    BY <1>1, <2>1, <2>2, ScrobblesAssumption DEF ScrobblesTypeOK, ScrobblesAssumption
  <2>4. CASE missed /\ Len(scrobbles) > 1
    <3>1. missed'
      BY <2>4 DEF Receive
    <3> QED
      BY <2>3, <3>1 DEF Awake
  <2>5. CASE ~(missed /\ Len(scrobbles) > 1)
    <3>1. panicked \/ Len(scrobbles') <= scrobbleReady
      BY <1>1, <1>2, <2>2, <2>5
    <3> QED
      BY <1>1, <2>1, <2>3, <3>1 DEF Awake
  <2> QED
    BY <2>4, <2>5
<1> QED
  BY <1>3, <1>4

LEMMA ProcessStep ==
  ASSUME SInv, Consume \/ (\E resolved \in BOOLEAN : Process(resolved)) \/ Sent \/ SendFails
               \/ RequeueTimesOut
  PROVE  SInv'
<1> USE ScrobblesAssumption DEF ScrobblesAssumption, SInv, queueVars, envVars, Running, Awake,
      ScrobblesTypeOK
<1>1. CASE Consume
  BY <1>1 DEF Consume
<1>2. ASSUME NEW resolved \in BOOLEAN, Process(resolved) PROVE SInv'
  BY <1>2 DEF Process
<1>3. CASE Sent
  BY <1>3 DEF Sent
<1>4. CASE SendFails
  BY <1>4 DEF SendFails
<1>5. CASE RequeueTimesOut
  BY <1>5 DEF RequeueTimesOut
<1> QED
  BY <1>1, <1>2, <1>3, <1>4, <1>5

LEMMA RequeueStep == ASSUME SInv, Requeue PROVE SInv'
<1> DEFINE kept == IF QueueFull THEN Tail(scrobbles) ELSE scrobbles
<1> USE ScrobblesAssumption DEF ScrobblesAssumption, SInv
<1>1. /\ kept \in Seq(Listens) /\ Len(kept) \in Nat
      /\ Len(kept) < QueueLength /\ Len(kept) <= Len(scrobbles)
  BY TailFacts, LenProperties, EmptySeq DEF ScrobblesTypeOK, QueueFull
<1>2. /\ scrobbles' = Before(kept, inHand) /\ NotifyScrobble
      /\ task = "requeue" /\ task' = "loop" /\ inHand' = None
      /\ UNCHANGED <<cmds, cmdReady, acked>> /\ UNCHANGED missed
  BY DEF Requeue, Running, setVars
<1> HIDE DEF kept
<1>3. inHand \in Listens
  BY <1>2 DEF ScrobblesTypeOK
<1>4. scrobbles' \in Seq(Listens) /\ Len(scrobbles') = Len(kept) + 1
  BY <1>1, <1>2, <1>3, BeforeFacts
<1>5. /\ scrobbleReady' \in Nat /\ scrobbleReady' + cmdReady <= SetLength
      /\ panicked' \/ scrobbleReady' = scrobbleReady + 1
  BY <1>2, NotifyFacts
<1>6. ScrobblesTypeOK'
  <2>1. scrobbles' \in Seq(Listens) /\ Len(scrobbles') <= QueueLength
    BY <1>1, <1>4
  <2>2. scrobbleReady' \in Nat /\ cmdReady' \in Nat /\ scrobbleReady' + cmdReady' <= SetLength
    BY <1>2, <1>5 DEF ScrobblesTypeOK
  <2> QED
    BY <1>2, <2>1, <2>2 DEF ScrobblesTypeOK
<1>7. panicked' \/ missed' \/ Len(scrobbles') <= scrobbleReady'
  <2>1. CASE panicked'
    BY <2>1
  <2>2. CASE scrobbleReady' = scrobbleReady + 1
    <3>1. missed \/ Len(scrobbles) <= scrobbleReady
      BY <1>2 DEF Awake, Requeue, Running, ScrobblesTypeOK
    <3> QED
      BY <3>1, <2>2, <1>1, <1>2, <1>4, LenProperties DEF ScrobblesTypeOK
  <2> QED
    BY <2>1, <2>2, <1>5
<1> QED
  BY <1>2, <1>5, <1>6, <1>7 DEF Awake

LEMMA ResetStep == ASSUME ScrobblesReset, acked \subseteq Listens PROVE SInv'
BY ScrobblesAssumption, EmptySeq
   DEF ScrobblesAssumption, ScrobblesReset, SInv, ScrobblesTypeOK, Awake, SetLength

-----------------------------------------------------------------------------
(* The play history *)

(* What the cache may hold, and a file that could be read with it.           *)
InList(s, a) == \E i \in DOMAIN s : s[i] = a

Histories ==
  {c \in [albums : AlbumLists, plays : [Albums -> 0 .. MaxPlays]] :
     \A a \in Albums : c.plays[a] > 0 => InList(c.albums, a)}

CacheOK ==
  /\ albums \in AlbumLists
  /\ plays \in [Albums -> 0 .. MaxPlays]
  /\ \A a \in Albums : plays[a] > 0 => Kept(a)

InboxOK == inbox \in Seq(Events) /\ Len(inbox) <= InboxLength

ControlOK ==
  /\ main \in {"top", "pass", "commit", "finish"} /\ left \in 0 .. EventsPerPass
  /\ waiting \subseteq Callers /\ unsaved \subseteq waiting

MountedOK == mounted \in Albums \cup {NoAlbum}

FileOK == file \in Histories \union {Unreadable}

HInv == MountedOK /\ InboxOK /\ CacheOK /\ ControlOK /\ FileOK

LEMMA AlbumListsAreSequences ==
  ASSUME NEW s
  PROVE  s \in AlbumLists <=> /\ s \in Seq(Albums) /\ Len(s) <= MaxAlbums
                              /\ \A i, j \in DOMAIN s : s[i] = s[j] => i = j
<1> USE PlayHistoryAssumption DEF PlayHistoryAssumption
<1>1. ASSUME s \in Seq(Albums), Len(s) <= MaxAlbums
      PROVE  s \in UNION {[1 .. n -> Albums] : n \in 0 .. MaxAlbums}
  <2>1. Len(s) \in 0 .. MaxAlbums /\ s \in [1 .. Len(s) -> Albums]
    BY <1>1, LenProperties
  <2> QED
    BY <2>1
<1>2. ASSUME NEW n \in 0 .. MaxAlbums, s \in [1 .. n -> Albums]
      PROVE  s \in Seq(Albums) /\ Len(s) <= MaxAlbums
  <2>1. s \in Seq(Albums)
    BY <1>2, SeqDef
  <2>2. Len(s) = n
    BY <1>2, <2>1, LenProperties
  <2> QED
    BY <2>1, <2>2
<1> QED
  BY <1>1, <1>2 DEF AlbumLists

LEMMA EmptyIsHistory == Empty \in Histories
<1>1. <<>> \in Seq(Albums) /\ Len(<<>>) = 0 /\ DOMAIN <<>> = {}
  OBVIOUS
<1>2. <<>> \in AlbumLists
  <2> DEFINE s == <<>>
  <2>1. /\ s \in Seq(Albums) /\ Len(s) <= MaxAlbums
        /\ \A i, j \in DOMAIN s : s[i] = s[j] => i = j
    BY <1>1, PlayHistoryAssumption DEF PlayHistoryAssumption
  <2> HIDE DEF s
  <2>2. s \in AlbumLists
    BY <2>1, AlbumListsAreSequences
  <2> QED
    BY <2>2 DEF s
<1> QED
  BY <1>2, PlayHistoryAssumption DEF PlayHistoryAssumption, Empty, Contents, Histories

LEMMA CacheIsHistory == ASSUME CacheOK PROVE Cache \in Histories
BY DEF CacheOK, Cache, Contents, Histories, Kept, InList

(* play_history_sync_current_cartridge_locked.                               *)
LEMMA SyncedIsHistory ==
  ASSUME NEW c \in Histories, NEW a \in Albums
  PROVE  Synced(c, a) \in Histories /\ InList(Synced(c, a).albums, a)
<1> USE PlayHistoryAssumption DEF PlayHistoryAssumption
<1>1. CASE InList(c.albums, a)
  BY <1>1 DEF Synced, InList
<1>2. CASE ~InList(c.albums, a)
  <2> DEFINE p == Pruned(c)
             n == Append(p.albums, a)
  <2>1. /\ c.albums \in Seq(Albums) /\ Len(c.albums) <= MaxAlbums /\ Len(c.albums) \in Nat
        /\ DOMAIN c.albums = 1 .. Len(c.albums)
        /\ \A i, j \in DOMAIN c.albums : c.albums[i] = c.albums[j] => i = j
    BY AlbumListsAreSequences, LenProperties DEF Histories
  <2>2. /\ p.albums \in Seq(Albums) /\ Len(p.albums) < MaxAlbums
        /\ \A i, j \in DOMAIN p.albums : p.albums[i] = p.albums[j] => i = j
        /\ ~InList(p.albums, a)
        /\ p.plays \in [Albums -> 0 .. MaxPlays]
        /\ \A b \in Albums : p.plays[b] > 0 => InList(p.albums, b)
        /\ p = [albums |-> p.albums, plays |-> p.plays]
    <3>1. CASE Len(c.albums) < MaxAlbums
      <4>1. p = c
        BY <3>1 DEF Pruned
      <4> QED
        BY <1>2, <2>1, <3>1, <4>1 DEF Histories
    <3>2. CASE ~(Len(c.albums) < MaxAlbums)
      <4>1. c.albums # <<>>
        BY <2>1, <3>2, EmptySeq
      <4>2. /\ p.albums = Tail(c.albums) /\ p.plays = [c.plays EXCEPT ![Head(c.albums)] = 0]
            /\ p = [albums |-> p.albums, plays |-> p.plays]
        BY <3>2 DEF Pruned, Contents
      <4>3. /\ p.albums \in Seq(Albums) /\ Len(p.albums) = Len(c.albums) - 1
            /\ DOMAIN p.albums = 1 .. Len(c.albums) - 1
            /\ \A i \in DOMAIN p.albums : p.albums[i] = c.albums[i + 1]
            /\ Head(c.albums) = c.albums[1] /\ c.albums[1] \in Albums
        BY <2>1, <4>1, <4>2, TailFacts
      <4>4. \A i \in DOMAIN p.albums : i \in Nat /\ i + 1 \in DOMAIN c.albums
        BY <2>1, <4>3
      <4>5. \A i, j \in DOMAIN p.albums : p.albums[i] = p.albums[j] => i = j
        <5>1. TAKE i, j \in DOMAIN p.albums
        <5>2. HAVE p.albums[i] = p.albums[j]
        <5>3. i + 1 = j + 1
          BY <2>1, <4>3, <4>4, <5>2
        <5> QED
          BY <4>4, <5>3
      <4>6. ~InList(p.albums, a)
        BY <1>2, <4>3, <4>4 DEF InList
      <4>7. p.plays \in [Albums -> 0 .. MaxPlays]
        BY <4>2, <4>3 DEF Histories
      <4>8. ASSUME NEW b \in Albums, p.plays[b] > 0 PROVE InList(p.albums, b)
        <5>1. b # c.albums[1] /\ c.plays[b] > 0
          BY <4>2, <4>3, <4>8 DEF Histories
        <5>2. PICK i \in DOMAIN c.albums : c.albums[i] = b
          BY <5>1 DEF Histories, InList
        <5>3. i - 1 \in DOMAIN p.albums /\ p.albums[i - 1] = b
          BY <2>1, <4>3, <5>1, <5>2
        <5> QED
          BY <5>3 DEF InList
      <4> QED
        BY <2>1, <3>2, <4>2, <4>3, <4>5, <4>6, <4>7, <4>8
    <3> QED
      BY <3>1, <3>2
  <2> HIDE DEF p
  <2>3. Synced(c, a) = [albums |-> n, plays |-> p.plays]
    BY <1>2, <2>2 DEF Synced, InList, p
  <2>4. /\ n \in Seq(Albums) /\ Len(n) = Len(p.albums) + 1
        /\ Len(p.albums) \in Nat /\ DOMAIN p.albums = 1 .. Len(p.albums)
        /\ DOMAIN n = 1 .. Len(p.albums) + 1
        /\ \A i \in DOMAIN p.albums : n[i] = p.albums[i]
        /\ n[Len(p.albums) + 1] = a
    BY <2>2, AppendFacts, LenProperties
  <2> HIDE DEF n
  <2>5. \A i, j \in DOMAIN n : n[i] = n[j] => i = j
    <3>1. TAKE i, j \in DOMAIN n
    <3>2. HAVE n[i] = n[j]
    <3>3. \A k \in DOMAIN n : k \in DOMAIN p.albums \/ k = Len(p.albums) + 1
      BY <2>4
    <3>4. \A k \in DOMAIN p.albums : n[k] # a
      BY <2>2, <2>4 DEF InList
    <3> QED
      BY <2>2, <2>4, <3>2, <3>3, <3>4
  <2>6. n \in AlbumLists
    <3>1. Len(n) <= MaxAlbums
      BY <2>2, <2>4
    <3> QED
      BY <2>4, <2>5, <3>1, AlbumListsAreSequences
  <2>7. InList(n, a)
    BY <2>4 DEF InList
  <2>8. ASSUME NEW b \in Albums, p.plays[b] > 0 PROVE InList(n, b)
    <3>1. PICK i \in DOMAIN p.albums : p.albums[i] = b
      BY <2>2, <2>8 DEF InList
    <3>2. i \in DOMAIN n /\ n[i] = b
      BY <2>4, <3>1
    <3> QED
      BY <3>2 DEF InList
  <2> QED
    BY <2>2, <2>3, <2>6, <2>7, <2>8 DEF Histories
<1> QED
  BY <1>1, <1>2

LEMMA CacheIs ==
  ASSUME NEW c \in Histories, albums' = c.albums, plays' = c.plays
  PROVE  CacheOK'
BY DEF Histories, CacheOK, Kept, InList

(* play_history_queue_event.                                                 *)
LEMMA QueueStep == ASSUME InboxOK, NEW e \in Events, Queue(e) PROVE InboxOK'
<1>1. CASE inbox' = inbox
  BY <1>1 DEF InboxOK
<1>2. CASE inbox' = Append(inbox, e) /\ Len(inbox) # InboxLength
  BY <1>2, AppendFacts, LenProperties, PlayHistoryAssumption
     DEF InboxOK, PlayHistoryAssumption
<1> QED
  BY <1>1, <1>2 DEF Queue

LEMMA InboxSteps ==
  ASSUME HInv, \/ \E l \in Listens : BecameCountable(l)
               \/ Unmount \/ \E a \in Albums : Mount(a)
               \/ \E type \in {"clear", "rebuild"} : Request(type)
  PROVE  HInv'
<1> USE DEF HInv, QueueUnchanged, cacheVars, mainVars, commitVars, historyFileVars
<1>1. ASSUME NEW l \in Listens, BecameCountable(l) PROVE HInv'
  <2>1. Play(mounted, l) \in Events
    BY <1>1 DEF BecameCountable, MountedOK, Events
  <2>2. InboxOK'
    BY <1>1, <2>1, QueueStep DEF BecameCountable
  <2> QED
    BY <1>1, <2>2 DEF BecameCountable, MountedOK, CacheOK, Kept, ControlOK, FileOK
<1>2. CASE Unmount
  BY <1>2 DEF Unmount, MountedOK, InboxOK, CacheOK, Kept, ControlOK, FileOK
<1>3. ASSUME NEW a \in Albums, Mount(a) PROVE HInv'
  <2>1. Event("sync") \in Events
    BY DEF Events
  <2>2. InboxOK'
    BY <1>3, <2>1, QueueStep DEF Mount
  <2> QED
    BY <1>3, <2>2 DEF Mount, MountedOK, CacheOK, Kept, ControlOK, FileOK
<1>4. ASSUME NEW type \in {"clear", "rebuild"}, Request(type) PROVE HInv'
  <2>1. Event(type) \in Events
    BY DEF Events
  <2>2. InboxOK'
    BY <1>4, <2>1, QueueStep DEF Request
  <2> QED
    BY <1>4, <2>2 DEF Request, MountedOK, CacheOK, Kept, ControlOK, FileOK
<1> QED
  BY <1>1, <1>2, <1>3, <1>4

(* The main loop's passes and all of a commit but the writing.               *)
LEMMA ControlSteps ==
  ASSUME HInv, \/ BeginPass \/ EndPass \/ BeginCommit \/ CommitClean \/ FinishCommit
               \/ \E p \in Callers : AskCommit(p) \/ CommitReturns(p)
  PROVE  HInv'
<1> USE DEF HInv, cacheVars, mainVars, commitVars, historyFileVars, MountedOK, InboxOK, CacheOK,
      Kept, ControlOK, FileOK
<1>1. CASE BeginPass
  BY <1>1, PlayHistoryAssumption DEF PlayHistoryAssumption, BeginPass
<1>2. CASE EndPass
  BY <1>2, PlayHistoryAssumption DEF PlayHistoryAssumption, EndPass
<1>3. CASE BeginCommit
  BY <1>3 DEF BeginCommit
<1>4. CASE CommitClean
  BY <1>4 DEF CommitClean
<1>5. CASE FinishCommit
  BY <1>5 DEF FinishCommit
<1>6. ASSUME NEW p \in Callers, AskCommit(p) PROVE HInv'
  BY <1>6 DEF AskCommit
<1>7. ASSUME NEW p \in Callers, CommitReturns(p) PROVE HInv'
  BY <1>7 DEF CommitReturns
<1> QED
  BY <1>1, <1>2, <1>3, <1>4, <1>5, <1>6, <1>7

(* play_history_flush_locked: the file, however the writing ends, is what a  *)
(* cache could have held, or not readable.                                   *)
LEMMA WriteSteps == ASSUME HInv, CommitWrites \/ CommitFails PROVE HInv'
<1>1. /\ UNCHANGED <<mounted, inbox, albums, plays, left, waiting>> /\ main' = "finish"
      /\ unsaved' \subseteq unsaved
  BY DEF CommitWrites, CommitFails, historyFileVars, cacheVars
<1>2. MountedOK' /\ InboxOK' /\ CacheOK' /\ ControlOK'
  BY <1>1 DEF HInv, MountedOK, InboxOK, CacheOK, Kept, ControlOK
<1>3. Cache \in Histories
  BY CacheIsHistory DEF HInv
<1>4. ASSUME NEW D \in SUBSET Albums, file # Unreadable, file.albums = albums
      PROVE  Contents(albums, [a \in Albums |-> IF a \in D THEN plays[a] ELSE file.plays[a]])
               \in Histories
  <2>1. file \in Histories
    BY <1>4 DEF HInv, FileOK
  <2>2. [a \in Albums |-> IF a \in D THEN plays[a] ELSE file.plays[a]] \in [Albums -> 0 .. MaxPlays]
    BY <1>3, <2>1 DEF Histories, Cache, Contents
  <2>3. \A a \in Albums : (IF a \in D THEN plays[a] ELSE file.plays[a]) > 0 => InList(albums, a)
    BY <1>3, <1>4, <2>1 DEF Histories, Cache, Contents
  <2> QED
    BY <1>3, <2>2, <2>3 DEF Histories, Cache, Contents
<1>5. file' \in {file, Unreadable, Cache} \union PartlyRewritten
  BY DEF CommitWrites, CommitFails
<1>6. FileOK'
  BY <1>3, <1>4, <1>5 DEF HInv, FileOK, PartlyRewritten
<1> QED
  BY <1>2, <1>6 DEF HInv

(* Taking an event: the cache changes as the event says.                     *)
LEMMA TakeStep ==
  ASSUME HInv, NEW e, Take(e), CacheOK'
  PROVE  HInv' /\ e \in Events /\ inbox' \in Seq(Events)
<1>1. /\ inbox # <<>> /\ e = Head(inbox) /\ inbox' = Tail(inbox) /\ left > 0 /\ left' = left - 1
      /\ UNCHANGED <<mounted, file, main, waiting, unsaved>>
  BY DEF Take, commitVars, historyFileVars
<1>2. inbox \in Seq(Events) /\ Len(inbox) <= InboxLength
  BY DEF HInv, InboxOK
<1>3. e \in Events /\ inbox' \in Seq(Events) /\ Len(inbox') <= InboxLength
  BY <1>1, <1>2, TailFacts, PlayHistoryAssumption DEF PlayHistoryAssumption
<1>4. MountedOK' /\ ControlOK' /\ FileOK'
  BY <1>1, PlayHistoryAssumption DEF HInv, PlayHistoryAssumption, MountedOK, ControlOK, FileOK
<1> QED
  BY <1>3, <1>4 DEF HInv, InboxOK

LEMMA ApplySteps ==
  ASSUME HInv, NEW e,
         ApplySync(e) \/ ApplyClear(e) \/ ApplyRebuild(e) \/ PlayNotFound(e) \/ ApplyPlay(e)
  PROVE  HInv'
<1>0. Take(e) /\ CacheOK /\ (mounted # NoAlbum => mounted \in Albums)
  BY DEF ApplySync, ApplyClear, ApplyRebuild, PlayNotFound, ApplyPlay, HInv, MountedOK
<1>1. Cache \in Histories
  BY <1>0, CacheIsHistory
<1>2. CASE UNCHANGED cacheVars
  <2>1. CacheOK'
    BY <1>2 DEF HInv, CacheOK, Kept, cacheVars
  <2> QED
    BY <1>0, <2>1, TakeStep
<1>3. ASSUME NEW c \in Histories, SetCache(c) PROVE HInv'
  <2>1. CacheOK'
    BY <1>3, CacheIs DEF SetCache
  <2> QED
    BY <1>0, <2>1, TakeStep
<1>4. CASE ApplySync(e)
  BY <1>0, <1>1, <1>2, <1>3, <1>4, SyncedIsHistory DEF ApplySync
<1>5. CASE ApplyClear(e)
  BY <1>3, <1>5, EmptyIsHistory DEF ApplyClear
<1>6. CASE ApplyRebuild(e)
  BY <1>0, <1>3, <1>6, EmptyIsHistory, SyncedIsHistory DEF ApplyRebuild
<1>7. CASE PlayNotFound(e)
  BY <1>2, <1>7 DEF PlayNotFound
<1>8. CASE ApplyPlay(e)
  <2> DEFINE c == Synced(Cache, e.album)
             d == [c EXCEPT !.plays[e.album] = CountUp(@)]
  <2>1. e \in Events /\ e.type = "play"
    <3>1. inbox \in Seq(Events) /\ inbox # <<>> /\ e = Head(inbox)
      BY <1>0 DEF HInv, InboxOK, Take
    <3> QED
      BY <3>1, <1>8, TailFacts DEF ApplyPlay
  <2>2. e.album \in Albums
    BY <2>1 DEF Events, Event, Play
  <2>3. c \in Histories /\ InList(c.albums, e.album)
    BY <1>1, <2>2, SyncedIsHistory
  <2>4. SetCache(d)
    BY <1>8 DEF ApplyPlay
  <2> HIDE DEF c
  <2>5. d = [albums |-> c.albums, plays |-> [c.plays EXCEPT ![e.album] = CountUp(c.plays[e.album])]]
    BY <2>3 DEF Histories
  <2>6. CountUp(c.plays[e.album]) \in 0 .. MaxPlays
    BY <2>2, <2>3, PlayHistoryAssumption DEF PlayHistoryAssumption, Histories, CountUp
  <2>7. d \in Histories
    BY <2>2, <2>3, <2>5, <2>6 DEF Histories
  <2> QED
    BY <1>3, <2>4, <2>7
<1> QED
  BY <1>4, <1>5, <1>6, <1>7, <1>8

(* play_history_service_init.                                                *)
LEMMA StartStep ==
  ASSUME HInv, NEW a \in Albums \union {NoAlbum}, Restart(a) \/ RestartUnread(a)
  PROVE  HInv'
<1>1. PICK c \in Histories : StartWith(a, c)
  BY EmptyIsHistory DEF Restart, RestartUnread, Loaded, HInv, FileOK
<1>2. CacheOK'
  BY <1>1, CacheIs DEF StartWith
<1>3. InboxOK'
  <2>1. CASE inbox' = <<>>
    BY <2>1, EmptySeq, PlayHistoryAssumption DEF PlayHistoryAssumption, InboxOK
  <2>2. CASE inbox' = <<Event("sync")>>
    BY <2>2, PlayHistoryAssumption DEF PlayHistoryAssumption, InboxOK, Events
  <2> QED
    BY <1>1, <2>1, <2>2 DEF StartWith
<1>4. MountedOK' /\ ControlOK' /\ FileOK'
  BY <1>1, PlayHistoryAssumption
     DEF HInv, PlayHistoryAssumption, StartWith, MountedOK, ControlOK, FileOK
<1> QED
  BY <1>2, <1>3, <1>4 DEF HInv

-----------------------------------------------------------------------------
(* The order of the listens *)

(* What the server took is older than the scrobble in hand, which is older   *)
(* than those that wait, in their order, and these are older than the        *)
(* listens whose plays are still in the inbox, in theirs.                    *)
Later ==
  {l \in Listens : /\ l <= played
                   /\ \A k \in acked : k < l
                   /\ inHand # None => inHand < l}

NewListens == {l \in Later : \A i \in DOMAIN scrobbles : scrobbles[i] < l}

QueueOrder ==
  /\ acked \subseteq 1 .. played
  /\ inHand # None => inHand <= played /\ \A k \in acked : k < inHand
  /\ \A i \in DOMAIN scrobbles : scrobbles[i] \in Later
  /\ \A i, j \in DOMAIN scrobbles : i < j => scrobbles[i] < scrobbles[j]

InboxOrder ==
  /\ \A i \in DOMAIN inbox : inbox[i].type = "play" => inbox[i].listen \in NewListens
  /\ \A i, j \in DOMAIN inbox :
       i < j /\ inbox[i].type = "play" /\ inbox[j].type = "play"
         => inbox[i].listen < inbox[j].listen

(* The scrobbles left when the front of a full queue is dropped.             *)
LEMMA DropFacts ==
  ASSUME ScrobblesTypeOK, QueueOrder
  PROVE  LET kept == IF QueueFull THEN Tail(scrobbles) ELSE scrobbles
         IN  /\ kept \in Seq(Listens) /\ Len(kept) \in Nat /\ DOMAIN kept = 1 .. Len(kept)
             /\ \A i \in DOMAIN kept : \E j \in DOMAIN scrobbles : kept[i] = scrobbles[j]
             /\ \A i \in DOMAIN kept : kept[i] \in Later
             /\ \A i, j \in DOMAIN kept : i < j => kept[i] < kept[j]
<1> DEFINE kept == IF QueueFull THEN Tail(scrobbles) ELSE scrobbles
<1>0. /\ scrobbles \in Seq(Listens) /\ Len(scrobbles) \in Nat
      /\ DOMAIN scrobbles = 1 .. Len(scrobbles)
      /\ \A i \in DOMAIN scrobbles : scrobbles[i] \in Later
      /\ \A i, j \in DOMAIN scrobbles : i < j => scrobbles[i] < scrobbles[j]
  BY LenProperties DEF ScrobblesTypeOK, QueueOrder
<1>1. CASE QueueFull
  <2>1. scrobbles # <<>>
    BY <1>1, EmptySeq, ScrobblesAssumption DEF ScrobblesAssumption, QueueFull
  <2>2. /\ kept \in Seq(Listens) /\ Len(kept) = Len(scrobbles) - 1 /\ Len(scrobbles) \in Nat \ {0}
        /\ DOMAIN kept = 1 .. Len(scrobbles) - 1
        /\ \A i \in DOMAIN kept : kept[i] = scrobbles[i + 1]
    BY <1>0, <1>1, <2>1, TailFacts
  <2> HIDE DEF kept
  <2>3. \A i \in DOMAIN kept : i \in Nat /\ i + 1 \in DOMAIN scrobbles
    BY <1>0, <2>2
  <2>4. \A i, j \in DOMAIN kept : i < j => kept[i] < kept[j]
    BY <1>0, <2>2, <2>3
  <2>5. /\ \A i \in DOMAIN kept : \E j \in DOMAIN scrobbles : kept[i] = scrobbles[j]
        /\ \A i \in DOMAIN kept : kept[i] \in Later
    BY <1>0, <2>2, <2>3
  <2> QED
    BY <2>2, <2>4, <2>5 DEF kept
<1>2. CASE ~QueueFull
  BY <1>0, <1>2
<1> QED
  BY <1>1, <1>2

(* lastfm_service_send_scrobble with a listen newer than all.                *)
LEMMA SendOrder ==
  ASSUME ScrobblesTypeOK, QueueOrder, played \in Nat, UNCHANGED played,
         NEW l \in NewListens, SendScrobble(l)
  PROVE  QueueOrder' /\ \A m \in NewListens : l < m => m \in NewListens'
<1> DEFINE kept == IF QueueFull THEN Tail(scrobbles) ELSE scrobbles
<1>0. UNCHANGED <<played, acked, inHand>> /\ Later' = Later
  BY DEF SendScrobble, taskVars, Later
<1>1. CASE ~enabled
  BY <1>0, <1>1 DEF SendScrobble, QueueOrder, NewListens
<1>2. CASE enabled
  <2>1. scrobbles' = Append(kept, l) /\ l \in Listens /\ l \in Later
    BY <1>2 DEF SendScrobble, NewListens, Later
  <2>2. /\ kept \in Seq(Listens) /\ Len(kept) \in Nat /\ DOMAIN kept = 1 .. Len(kept)
        /\ \A i \in DOMAIN kept : \E j \in DOMAIN scrobbles : kept[i] = scrobbles[j]
        /\ \A i \in DOMAIN kept : kept[i] \in Later
        /\ \A i, j \in DOMAIN kept : i < j => kept[i] < kept[j]
    BY DropFacts
  <2> HIDE DEF kept
  <2>3. /\ DOMAIN scrobbles' = 1 .. Len(kept) + 1
        /\ \A i \in DOMAIN kept : scrobbles'[i] = kept[i]
        /\ scrobbles'[Len(kept) + 1] = l
    BY <2>1, <2>2, AppendFacts
  <2>4. \A i \in DOMAIN kept : kept[i] < l
    BY <2>2 DEF NewListens
  <2>5. \A i \in DOMAIN scrobbles' : i \in DOMAIN kept \/ i = Len(kept) + 1
    BY <2>2, <2>3
  <2>6. QueueOrder'
    <3>1. \A i \in DOMAIN scrobbles' : scrobbles'[i] \in Later'
      BY <1>0, <2>1, <2>2, <2>3, <2>5
    <3>2. \A i, j \in DOMAIN scrobbles' : i < j => scrobbles'[i] < scrobbles'[j]
      BY <2>2, <2>3, <2>4, <2>5
    <3> QED
      BY <1>0, <3>1, <3>2 DEF QueueOrder
  <2>7. ASSUME NEW m \in NewListens, l < m PROVE m \in NewListens'
    <3>1. \A i \in DOMAIN scrobbles' : scrobbles'[i] < m
      BY <2>2, <2>3, <2>5, <2>7 DEF NewListens
    <3> QED
      BY <1>0, <3>1 DEF NewListens
  <2> QED
    BY <2>6, <2>7
<1> QED
  BY <1>1, <1>2

(* A step that leaves the scrobbles and the one in hand.                     *)
LEMMA OrderUntouched ==
  ASSUME QueueOrder, UNCHANGED <<scrobbles, inHand, acked, played>>
  PROVE  QueueOrder' /\ NewListens' = NewListens
BY DEF QueueOrder, NewListens, Later

LEMMA ReceiveOrder ==
  ASSUME ScrobblesTypeOK, QueueOrder, played \in Nat, UNCHANGED played, Receive
  PROVE  QueueOrder' /\ NewListens \subseteq NewListens'
<1>0. UNCHANGED <<played, acked>>
  BY DEF Receive
<1>1. CASE scrobbles = <<>>
  BY <1>0, <1>1, OrderUntouched DEF Receive
<1>2. CASE scrobbles # <<>>
  <2>1. inHand = None /\ inHand' = Head(scrobbles) /\ scrobbles' = Tail(scrobbles)
    BY <1>2 DEF Receive, Running, ScrobblesTypeOK
  <2>2. /\ inHand' \in Listens /\ inHand' = scrobbles[1] /\ Len(scrobbles) \in Nat \ {0}
        /\ DOMAIN scrobbles = 1 .. Len(scrobbles)
        /\ DOMAIN scrobbles' = 1 .. Len(scrobbles) - 1
        /\ \A i \in DOMAIN scrobbles' : scrobbles'[i] = scrobbles[i + 1]
    BY <1>2, <2>1, TailFacts, LenProperties DEF ScrobblesTypeOK
  <2>3. /\ 1 \in DOMAIN scrobbles
        /\ \A i \in DOMAIN scrobbles' : i \in Nat /\ i + 1 \in DOMAIN scrobbles /\ 1 < i + 1
    BY <2>2
  <2>4. inHand' <= played' /\ \A k \in acked' : k < inHand'
    BY <1>0, <2>2, <2>3 DEF QueueOrder, Later
  <2>5. \A m \in Later : inHand' < m => m \in Later'
    BY <1>0 DEF Later
  <2>6. \A i \in DOMAIN scrobbles' : scrobbles'[i] \in Later'
    BY <2>2, <2>3, <2>5 DEF QueueOrder
  <2>7. \A i, j \in DOMAIN scrobbles' : i < j => scrobbles'[i] < scrobbles'[j]
    BY <2>2, <2>3 DEF QueueOrder
  <2>8. QueueOrder'
    BY <1>0, <2>4, <2>6, <2>7 DEF QueueOrder
  <2>9. NewListens \subseteq NewListens'
    BY <2>2, <2>3, <2>5 DEF NewListens
  <2> QED
    BY <2>8, <2>9
<1> QED
  BY <1>1, <1>2

(* The scrobble in hand is sent, given up or lost.                           *)
LEMMA PutDownOrder ==
  ASSUME ScrobblesTypeOK, QueueOrder, played \in Nat, UNCHANGED <<played, scrobbles>>,
         inHand' = None, inHand # None, acked' \in {acked, acked \union {inHand}}
  PROVE  QueueOrder' /\ NewListens \subseteq NewListens'
<1>1. inHand \in 1 .. played
  BY DEF QueueOrder, ScrobblesTypeOK, Listens
<1>2. acked' \subseteq 1 .. played'
  BY <1>1 DEF QueueOrder
<1>3. Later \subseteq Later'
  BY DEF Later
<1>4. QueueOrder'
  BY <1>2, <1>3 DEF QueueOrder
<1> QED
  BY <1>3, <1>4 DEF NewListens

LEMMA RequeueOrder ==
  ASSUME ScrobblesTypeOK, QueueOrder, played \in Nat, UNCHANGED played, Requeue
  PROVE  QueueOrder' /\ NewListens \subseteq NewListens'
<1> DEFINE kept == IF QueueFull THEN Tail(scrobbles) ELSE scrobbles
<1>0. /\ UNCHANGED <<played, acked>> /\ inHand' = None
      /\ scrobbles' = Before(kept, inHand)
  BY DEF Requeue
<1>1. inHand \in Listens /\ inHand # None
  BY DEF Requeue, Running, ScrobblesTypeOK
<1>2. /\ kept \in Seq(Listens) /\ Len(kept) \in Nat /\ DOMAIN kept = 1 .. Len(kept)
      /\ \A i \in DOMAIN kept : \E j \in DOMAIN scrobbles : kept[i] = scrobbles[j]
      /\ \A i \in DOMAIN kept : kept[i] \in Later
      /\ \A i, j \in DOMAIN kept : i < j => kept[i] < kept[j]
  BY DropFacts
<1> HIDE DEF kept
<1>3. /\ DOMAIN scrobbles' = 1 .. Len(kept) + 1
      /\ scrobbles'[1] = inHand
      /\ \A i \in DOMAIN kept : scrobbles'[i + 1] = kept[i]
  <2>1. /\ Len(Before(kept, inHand)) = Len(kept) + 1
        /\ DOMAIN Before(kept, inHand) = 1 .. Len(kept) + 1
        /\ Before(kept, inHand)[1] = inHand
        /\ \A i \in DOMAIN kept : Before(kept, inHand)[i + 1] = kept[i]
    BY <1>1, <1>2, BeforeFacts
  <2> QED
    BY <1>0, <2>1
<1>4. \A i \in DOMAIN scrobbles' :
        i = 1 \/ (i - 1 \in DOMAIN kept /\ scrobbles'[i] = kept[i - 1])
  <2>1. TAKE i \in DOMAIN scrobbles'
  <2>2. i = 1 \/ (i - 1 \in DOMAIN kept /\ (i - 1) + 1 = i)
    BY <1>2, <1>3
  <2> QED
    BY <1>3, <2>2
<1>5. Later \subseteq Later' /\ inHand \in Later'
  BY <1>0, <1>1 DEF QueueOrder, Later
<1>6. \A m \in Later : m \in Nat /\ inHand < m
  BY <1>1, ScrobblesAssumption DEF ScrobblesAssumption, Later, Listens
<1>7. QueueOrder'
  <2>1. \A i \in DOMAIN scrobbles' : scrobbles'[i] \in Later'
    BY <1>2, <1>3, <1>4, <1>5
  <2>2. \A i, j \in DOMAIN scrobbles' : i < j => scrobbles'[i] < scrobbles'[j]
    <3>1. TAKE i, j \in DOMAIN scrobbles'
    <3>2. HAVE i < j
    <3>3. j # 1 /\ i \in Nat /\ j \in Nat
      BY <1>2, <1>3, <3>2
    <3> QED
      BY <1>2, <1>3, <1>4, <1>6, <3>2, <3>3
  <2>3. acked' \subseteq 1 .. played'
    BY <1>0 DEF QueueOrder
  <2> QED
    BY <1>0, <2>1, <2>2, <2>3 DEF QueueOrder
<1>8. ASSUME NEW m \in NewListens PROVE m \in NewListens'
  <2>1. \A i \in DOMAIN scrobbles' : scrobbles'[i] < m
    BY <1>2, <1>3, <1>4, <1>6, <1>8 DEF NewListens
  <2> QED
    BY <1>5, <1>8, <2>1 DEF NewListens
<1> QED
  BY <1>7, <1>8

(* The inbox: its listens are known, and stay in order while they stay new.  *)
LEMMA EventFacts ==
  ASSUME NEW e \in Events, e.type = "play"
  PROVE  e.album \in Albums /\ e.listen \in Listens
BY DEF Events, Event, Play

LEMMA InboxKept ==
  ASSUME InboxOrder, UNCHANGED inbox, NewListens \subseteq NewListens'
  PROVE  InboxOrder'
BY DEF InboxOrder

(* An event that comes is no play, or that of a listen newer than all.       *)
LEMMA InboxGrows ==
  ASSUME InboxOK, InboxOrder, NEW e \in Events, Queue(e), NewListens \subseteq NewListens',
         e.type = "play" =>
           /\ e.listen \in NewListens'
           /\ \A i \in DOMAIN inbox : inbox[i].type = "play" => inbox[i].listen < e.listen
  PROVE  InboxOrder'
<1>1. CASE inbox' = inbox
  BY <1>1, InboxKept
<1>2. CASE inbox' = Append(inbox, e)
  <2>1. DOMAIN inbox = 1 .. Len(inbox) /\ Len(inbox) \in Nat
    BY LenProperties DEF InboxOK
  <2>2. /\ DOMAIN inbox' = 1 .. Len(inbox) + 1
        /\ \A i \in DOMAIN inbox : inbox'[i] = inbox[i]
        /\ inbox'[Len(inbox) + 1] = e
    BY <1>2, AppendFacts DEF InboxOK
  <2>3. \A i \in DOMAIN inbox' : i \in DOMAIN inbox \/ i = Len(inbox) + 1
    BY <2>1, <2>2
  <2>4. \A i \in DOMAIN inbox' : inbox'[i].type = "play" => inbox'[i].listen \in NewListens'
    BY <2>1, <2>2, <2>3 DEF InboxOrder
  <2>5. \A i, j \in DOMAIN inbox' :
          i < j /\ inbox'[i].type = "play" /\ inbox'[j].type = "play"
            => inbox'[i].listen < inbox'[j].listen
    BY <2>1, <2>2, <2>3 DEF InboxOrder
  <2> QED
    BY <2>4, <2>5 DEF InboxOrder
<1> QED
  BY <1>1, <1>2 DEF Queue

(* The oldest event is taken: the listens left are newer than its.           *)
LEMMA InboxTaken ==
  ASSUME InboxOK, InboxOrder, inbox # <<>>, inbox' = Tail(inbox),
         \A m \in NewListens :
           (Head(inbox).type = "play" => Head(inbox).listen < m) => m \in NewListens'
  PROVE  InboxOrder'
<1>1. /\ Len(inbox) \in Nat \ {0} /\ Head(inbox) = inbox[1]
      /\ DOMAIN inbox = 1 .. Len(inbox)
      /\ DOMAIN inbox' = 1 .. Len(inbox) - 1
      /\ \A i \in DOMAIN inbox' : inbox'[i] = inbox[i + 1]
  BY TailFacts, LenProperties DEF InboxOK
<1>2. /\ 1 \in DOMAIN inbox
      /\ \A i \in DOMAIN inbox' : i \in Nat /\ i + 1 \in DOMAIN inbox /\ 1 < i + 1
  BY <1>1
<1>3. \A i \in DOMAIN inbox' : inbox'[i].type = "play" => inbox'[i].listen \in NewListens'
  <2>1. TAKE i \in DOMAIN inbox'
  <2>2. HAVE inbox'[i].type = "play"
  <2>3. /\ inbox'[i].listen \in NewListens
        /\ inbox[1].type = "play" => inbox[1].listen < inbox'[i].listen
    BY <1>1, <1>2, <2>2 DEF InboxOrder
  <2> QED
    BY <1>1, <2>3
<1>4. \A i, j \in DOMAIN inbox' :
        i < j /\ inbox'[i].type = "play" /\ inbox'[j].type = "play"
          => inbox'[i].listen < inbox'[j].listen
  BY <1>1, <1>2 DEF InboxOrder
<1> QED
  BY <1>3, <1>4 DEF InboxOrder

-----------------------------------------------------------------------------
(* The invariant *)

Inv ==
  /\ HInv
  /\ SInv
  /\ played \in 0 .. MaxListens
  /\ QueueOrder
  /\ InboxOrder

LEMMA HistoryUnchanged ==
  ASSUME HInv, InboxOrder, UNCHANGED playHistoryVars, NewListens \subseteq NewListens'
  PROVE  HInv' /\ InboxOrder'
<1>1. UNCHANGED <<mounted, inbox, albums, plays, file, main, left, waiting, unsaved>>
  BY DEF playHistoryVars, cacheVars, mainVars, commitVars, historyFileVars
<1> QED
  BY <1>1, InboxKept
     DEF HInv, MountedOK, InboxOK, CacheOK, Kept, ControlOK, FileOK

LEMMA ScrobblesUnchanged ==
  ASSUME SInv, QueueOrder, UNCHANGED <<scrobbleVars, played>>
  PROVE  SInv' /\ QueueOrder' /\ NewListens' = NewListens
<1>1. /\ UNCHANGED <<scrobbles, scrobbleReady, cmds, cmdReady, taskVars, acked, inHand, played>>
      /\ UNCHANGED missed /\ UNCHANGED panicked
  BY DEF scrobbleVars, queueVars, taskVars
<1> QED
  BY <1>1, QueueUntouched, OrderUntouched

(* A listen, a cartridge, a request: the listens come in the order in which  *)
(* the player reports them.                                                  *)
LEMMA PlayerPlaysInv == ASSUME Inv, PlayerPlays PROVE Inv'
<1>1. /\ played \in 0 .. MaxListens /\ played' = played + 1 /\ played' \in Listens
      /\ BecameCountable(played') /\ UNCHANGED scrobbleVars
  BY ScrobblesAssumption DEF ScrobblesAssumption, Inv, PlayerPlays, Listens
<1>2. UNCHANGED <<scrobbles, inHand, acked>>
  BY <1>1 DEF scrobbleVars, queueVars, taskVars
<1>3. HInv'
  <2>1. BecameCountable(played + 1) /\ played + 1 \in Listens
    BY <1>1
  <2> QED
    BY <2>1, InboxSteps DEF Inv
<1>4. SInv'
  BY <1>1, QueueUntouched DEF Inv, scrobbleVars, queueVars, taskVars
<1>5. Later \subseteq Later' /\ played' \in Later' /\ \A l \in Later : l \in Nat /\ l < played'
  <2>1. inHand # None => inHand \in Nat /\ inHand <= played
    BY DEF Inv, SInv, ScrobblesTypeOK, QueueOrder, Listens
  <2>2. \A k \in acked : k \in Nat /\ k <= played
    BY DEF Inv, QueueOrder
  <2> QED
    BY <1>1, <1>2, <2>1, <2>2 DEF Later, Listens
<1>6. QueueOrder'
  <2>1. acked' \subseteq 1 .. played' /\ (inHand' # None => inHand' <= played')
    BY <1>1, <1>2 DEF Inv, SInv, ScrobblesTypeOK, QueueOrder, Listens
  <2> QED
    BY <1>2, <1>5, <2>1 DEF Inv, QueueOrder
<1>7. NewListens \subseteq NewListens' /\ played' \in NewListens'
  BY <1>2, <1>5 DEF Inv, QueueOrder, NewListens
<1>8. InboxOrder'
  <2> DEFINE e == Play(mounted, played + 1)
  <2>1. e \in Events /\ e.type = "play" /\ e.listen = played' /\ Queue(e)
    BY <1>1 DEF Inv, HInv, MountedOK, BecameCountable, Events, Play
  <2>2. \A i \in DOMAIN inbox : inbox[i].type = "play" => inbox[i].listen < played'
    BY <1>5 DEF Inv, InboxOrder, NewListens
  <2> HIDE DEF e
  <2> QED
    BY <1>7, <2>1, <2>2, InboxGrows DEF Inv, HInv
<1>9. played' \in 0 .. MaxListens
  BY <1>1 DEF Listens
<1> QED
  BY <1>3, <1>4, <1>6, <1>8, <1>9 DEF Inv

LEMMA CartridgeInv ==
  ASSUME Inv, HistoryOnly,
         Unmount \/ (\E a \in Albums : Mount(a)) \/ \E type \in {"clear", "rebuild"} : Request(type)
  PROVE  Inv'
<1>1. UNCHANGED <<scrobbleVars, played>>
  BY DEF HistoryOnly, listenVars
<1>2. SInv' /\ QueueOrder' /\ NewListens' = NewListens /\ played' \in 0 .. MaxListens
  BY <1>1, ScrobblesUnchanged DEF Inv
<1>3. CASE Unmount
  <2>1. HInv' /\ UNCHANGED inbox
    BY <1>3, InboxSteps DEF Unmount, Inv
  <2> QED
    BY <1>2, <2>1, InboxKept DEF Inv
<1>4. CASE (\E a \in Albums : Mount(a)) \/ \E type \in {"clear", "rebuild"} : Request(type)
  <2>1. PICK e \in Events : Queue(e) /\ e.type # "play"
    BY <1>4 DEF Mount, Request, Events, Event
  <2>2. InboxOrder'
    BY <1>2, <2>1, InboxGrows DEF Inv, HInv
  <2> QED
    BY <1>2, <2>2, <1>4, InboxSteps DEF Inv
<1> QED
  BY <1>3, <1>4

LEMMA CommitInv ==
  ASSUME Inv, HistoryOnly, \/ BeginPass \/ EndPass \/ CommitStep
                           \/ \E p \in Callers : AskCommit(p) \/ CommitReturns(p)
  PROVE  Inv'
<1>1. UNCHANGED <<scrobbleVars, played>>
  BY DEF HistoryOnly, listenVars
<1>2. SInv' /\ QueueOrder' /\ NewListens' = NewListens /\ played' \in 0 .. MaxListens
  BY <1>1, ScrobblesUnchanged DEF Inv
<1>3. HInv'
  BY ControlSteps, WriteSteps DEF Inv, CommitStep
<1>4. UNCHANGED inbox
  BY DEF BeginPass, EndPass, CommitStep, BeginCommit, CommitClean, CommitWrites, CommitFails,
         FinishCommit, AskCommit, CommitReturns
<1> QED
  BY <1>2, <1>3, <1>4, InboxKept DEF Inv

(* The main loop applies an event and, for a play it counts, queues the      *)
(* scrobble: the oldest of the listens in the inbox, newer than all queued.  *)
LEMMA ApplyInv == ASSUME Inv, inbox # <<>>, Apply(Head(inbox)) PROVE Inv'
<1> DEFINE e == Head(inbox)
<1>1. e \in Events /\ e = inbox[1] /\ 1 \in DOMAIN inbox
  BY TailFacts, LenProperties DEF Inv, HInv, InboxOK
<1> HIDE DEF e
<1>2. /\ ApplySync(e) \/ ApplyClear(e) \/ ApplyRebuild(e) \/ PlayNotFound(e) \/ ApplyPlay(e)
      /\ UNCHANGED played
  BY DEF Apply, CountListen, HistoryOnly, listenVars, e
<1>3. HInv'
  BY <1>2, ApplySteps DEF Inv
<1>4. inbox' = Tail(inbox)
  BY <1>2 DEF ApplySync, ApplyClear, ApplyRebuild, PlayNotFound, ApplyPlay, Take
<1>5. CASE UNCHANGED scrobbleVars
  <2>1. SInv' /\ QueueOrder' /\ NewListens' = NewListens
    BY <1>2, <1>5, ScrobblesUnchanged DEF Inv
  <2>2. InboxOrder'
    BY <1>4, <2>1, InboxTaken DEF Inv, HInv
  <2> QED
    BY <1>2, <1>3, <2>1, <2>2 DEF Inv
<1>6. CASE ApplyPlay(e) /\ SendScrobble(e.listen)
  <2>1. e.type = "play" /\ e.listen \in NewListens /\ e.listen \in Listens
    BY <1>1, <1>6, EventFacts DEF Inv, InboxOrder, ApplyPlay
  <2>2. SInv'
    BY <1>6, <2>1, SendScrobbleStep DEF Inv
  <2>3. QueueOrder' /\ \A m \in NewListens : e.listen < m => m \in NewListens'
    BY <1>2, <1>6, <2>1, SendOrder, ScrobblesAssumption DEF ScrobblesAssumption, Inv, SInv
  <2>4. InboxOrder'
    BY <1>4, <2>1, <2>3, InboxTaken DEF Inv, HInv, e
  <2> QED
    BY <1>2, <1>3, <2>2, <2>3, <2>4 DEF Inv
<1>7. UNCHANGED scrobbleVars \/ (ApplyPlay(e) /\ SendScrobble(e.listen))
  BY DEF Apply, CountListen, HistoryOnly, SendTimesOut, scrobbleVars, queueVars, e
<1> QED
  BY <1>5, <1>6, <1>7

(* The Last.fm task and what happens around it.                              *)
LEMMA ScrobbleInv ==
  ASSUME Inv, ScrobbleOnly, SInv', QueueOrder', NewListens \subseteq NewListens'
  PROVE  Inv'
BY HistoryUnchanged DEF Inv, ScrobbleOnly, listenVars

LEMMA LastFmInv == ASSUME Inv, LastFmTask \/ MutexBusy PROVE Inv'
<1>0. /\ ScrobbleOnly /\ UNCHANGED played /\ played \in Nat
      /\ SInv /\ ScrobblesTypeOK /\ QueueOrder
  BY ScrobblesAssumption
     DEF ScrobblesAssumption, LastFmTask, MutexBusy, ScrobbleOnly, listenVars, Inv, SInv
<1>1. CASE OfflineCommand \/ GoOnline \/ SelectCommand \/ SelectScrobble
  <2>1. UNCHANGED <<scrobbles, inHand, acked, played>>
    BY <1>0, <1>1 DEF OfflineCommand, GoOnline, SelectCommand, SelectScrobble, queueVars, taskVars
  <2> QED
    BY <1>0, <1>1, <2>1, SelectStep, OrderUntouched, ScrobbleInv
<1>2. CASE LeaveScrobble
  <2>1. UNCHANGED <<scrobbles, inHand, acked, played>>
    BY <1>0, <1>2 DEF LeaveScrobble, queueVars
  <2> QED
    BY <1>0, <1>2, <2>1, LeaveStep, OrderUntouched, ScrobbleInv
<1>3. CASE Receive
  BY <1>0, <1>3, ReceiveStep, ReceiveOrder, ScrobbleInv
<1>4. CASE Consume \/ Sent \/ RequeueTimesOut
  <2>1. /\ UNCHANGED <<played, scrobbles>> /\ inHand' = None /\ inHand # None
        /\ acked' \in {acked, acked \union {inHand}}
    BY <1>0, <1>4 DEF Consume, Sent, RequeueTimesOut, Running, queueVars, ScrobblesTypeOK
  <2> QED
    BY <1>0, <1>4, <2>1, ProcessStep, PutDownOrder, ScrobbleInv
<1>5. CASE (\E resolved \in BOOLEAN : Process(resolved)) \/ SendFails
  <2>1. UNCHANGED <<scrobbles, inHand, acked, played>>
    BY <1>0, <1>5 DEF Process, SendFails, queueVars
  <2> QED
    BY <1>0, <1>5, <2>1, ProcessStep, OrderUntouched, ScrobbleInv
<1>6. CASE Requeue
  BY <1>0, <1>6, RequeueStep, RequeueOrder, ScrobbleInv
<1>7. ProcessScrobble => \E resolved \in BOOLEAN : Process(resolved)
  <2>1. Resolves(inHand) \in BOOLEAN
    BY DEF Resolves, Kept
  <2> QED
    BY <2>1 DEF ProcessScrobble
<1> QED
  BY <1>1, <1>2, <1>3, <1>4, <1>5, <1>6, <1>7
     DEF LastFmTask, MutexBusy, LostConnection, ReceiveTimesOut

LEMMA AroundInv ==
  ASSUME Inv, Connection \/ CommandSent \/ UserSwitches
  PROVE  Inv'
<1>1. /\ ScrobbleOnly /\ UNCHANGED <<scrobbles, inHand, acked, played>>
  BY DEF Connection, CommandSent, UserSwitches, ScrobbleOnly, listenVars, ConnectionChanges,
         AbilityChanges, SendCommand, SetEnabled, queueVars, taskVars
<1>2. SInv'
  <2>1. CASE CommandSent
    BY <2>1, SendCommandStep DEF CommandSent, Inv
  <2>2. CASE Connection \/ UserSwitches
    BY <2>2, QueueUntouched
       DEF Connection, UserSwitches, ConnectionChanges, AbilityChanges, SetEnabled, queueVars, taskVars, Inv
  <2> QED
    BY <2>1, <2>2
<1> QED
  BY <1>1, <1>2, OrderUntouched, ScrobbleInv DEF Inv

LEMMA ResetInv == ASSUME Inv, Reset PROVE Inv'
<1>1. PICK a \in Albums \union {NoAlbum} : Restart(a) \/ RestartUnread(a)
  BY DEF Reset
<1>2. ScrobblesReset /\ UNCHANGED <<played, acked>> /\ scrobbles' = <<>> /\ inHand' = None
  BY DEF Reset, ScrobblesReset, listenVars
<1>3. HInv'
  BY <1>1, StartStep DEF Inv
<1>4. SInv'
  BY <1>2, ResetStep DEF Inv, SInv, ScrobblesTypeOK
<1>5. QueueOrder'
  BY <1>2 DEF Inv, QueueOrder
<1>6. InboxOrder'
  <2>1. inbox' = <<>> \/ inbox' = <<Event("sync")>>
    BY <1>1 DEF Restart, RestartUnread, StartWith
  <2>2. \A i \in DOMAIN inbox' : inbox'[i].type # "play"
    BY <2>1 DEF Event
  <2> QED
    BY <2>2 DEF InboxOrder
<1> QED
  BY <1>2, <1>3, <1>4, <1>5, <1>6 DEF Inv

LEMMA InvInit == Init => Inv
<1> SUFFICES ASSUME Init PROVE Inv
  OBVIOUS
<1>1. /\ mounted = NoAlbum /\ inbox = <<>> /\ albums = Empty.albums /\ plays = Empty.plays
      /\ file = Unreadable /\ main = "top" /\ left = 0 /\ waiting = {} /\ unsaved = {}
  BY DEF Init, PlayHistoryInit, Empty, Contents
<1>2. CacheOK
  BY <1>1, EmptyIsHistory DEF CacheOK, Kept, InList, Histories
<1>3. HInv
  <2>1. InboxOK
    BY <1>1, EmptySeq, PlayHistoryAssumption DEF PlayHistoryAssumption, InboxOK
  <2> QED
    BY <1>1, <1>2, <2>1, PlayHistoryAssumption
       DEF PlayHistoryAssumption, HInv, MountedOK, ControlOK, FileOK
<1>4. /\ scrobbles = <<>> /\ scrobbleReady = 0 /\ cmds = 0 /\ cmdReady = 0
      /\ task = "loop" /\ inHand = None /\ acked = {} /\ played = 0
  BY DEF Init, ScrobblesInit
<1>5. SInv
  BY <1>4, EmptySeq, ScrobblesAssumption
     DEF ScrobblesAssumption, SInv, ScrobblesTypeOK, Awake, SetLength
<1>6. QueueOrder /\ InboxOrder
  BY <1>1, <1>4 DEF QueueOrder, InboxOrder
<1> QED
  BY <1>3, <1>4, <1>5, <1>6, ScrobblesAssumption DEF ScrobblesAssumption, Inv

LEMMA InvNext == Inv /\ [Next]_vars => Inv'
<1> SUFFICES ASSUME Inv, [Next]_vars PROVE Inv'
  OBVIOUS
<1>1. CASE PlayerPlays
  BY <1>1, PlayerPlaysInv
<1>2. CASE CartridgeChanges \/ HistoryRequest
  BY <1>2, CartridgeInv, ListensAssumption
     DEF ListensAssumption, CartridgeChanges, HistoryRequest
<1>3. CASE MainLoop
  BY <1>3, CommitInv, ApplyInv DEF MainLoop
<1>4. CASE \E p \in Callers : Commit(p) \/ Return(p)
  BY <1>4, CommitInv DEF Commit, Return
<1>5. CASE LastFmTask \/ MutexBusy
  BY <1>5, LastFmInv
<1>6. CASE Connection \/ CommandSent \/ UserSwitches
  BY <1>6, AroundInv
<1>7. CASE Reset
  BY <1>7, ResetInv
<1>8. CASE UNCHANGED vars
  <2>1. UNCHANGED playHistoryVars /\ UNCHANGED <<scrobbleVars, played>>
    BY <1>8 DEF vars, listenVars
  <2> QED
    BY <2>1, HistoryUnchanged, ScrobblesUnchanged DEF Inv
<1> QED
  BY <1>1, <1>2, <1>3, <1>4, <1>5, <1>6, <1>7, <1>8 DEF Next

(* The flags are true or false.                                              *)
HistoryFlags ==
  /\ dirty \in BOOLEAN /\ requested \in BOOLEAN /\ inProgress \in BOOLEAN
  /\ commitOk \in BOOLEAN /\ unread \in BOOLEAN

ScrobbleFlags ==
  online \in BOOLEAN /\ able \in BOOLEAN /\ enabled \in BOOLEAN /\ panicked \in BOOLEAN /\ missed \in BOOLEAN

LEMMA FlagsInit == Init => HistoryFlags /\ ScrobbleFlags
BY Zenon, ScrobblesAssumption
   DEF ScrobblesAssumption, Init, PlayHistoryInit, ScrobblesInit, HistoryFlags, ScrobbleFlags

LEMMA HistoryFlagsStep == ASSUME HistoryFlags, Next PROVE HistoryFlags'
<1> USE DEF HistoryFlags, QueueUnchanged, cacheVars, mainVars, commitVars, historyFileVars
<1>1. ASSUME QueueUnchanged PROVE HistoryFlags'
  BY <1>1, Zenon
<1>2. ASSUME UNCHANGED playHistoryVars PROVE HistoryFlags'
  BY <1>2, Zenon DEF playHistoryVars
<1>3. ASSUME NEW e, Take(e), dirty' \in {dirty, TRUE} PROVE HistoryFlags'
  <2>1. /\ requested' = requested /\ inProgress' = inProgress /\ commitOk' = commitOk
        /\ unread' = unread
    BY <1>3 DEF Take
  <2> QED
    BY <1>3, <2>1, Zenon
<1>4. ASSUME NEW e,
             \/ ApplySync(e) \/ ApplyClear(e) \/ ApplyRebuild(e) \/ PlayNotFound(e) \/ ApplyPlay(e)
      PROVE  HistoryFlags'
  <2>1. Take(e) /\ dirty' \in {dirty, TRUE}
    BY <1>4 DEF ApplySync, ApplyClear, ApplyRebuild, PlayNotFound, ApplyPlay, SetCache
  <2> QED
    BY <1>3, <2>1
<1>5. CASE BeginPass \/ EndPass
  BY <1>5, Zenon DEF BeginPass, EndPass
<1>6. CASE CommitStep
  <2>1. CASE BeginCommit
    BY <2>1, Zenon DEF BeginCommit
  <2>2. CASE CommitClean
    BY <2>2, Zenon DEF CommitClean
  <2>3. CASE CommitWrites
    BY <2>3, Zenon DEF CommitWrites
  <2>4. CASE CommitFails
    BY <2>4, Zenon DEF CommitFails
  <2>5. CASE FinishCommit
    BY <2>5, Zenon DEF FinishCommit
  <2> QED
    BY <1>6, <2>1, <2>2, <2>3, <2>4, <2>5 DEF CommitStep
<1>7. ASSUME NEW p, AskCommit(p) PROVE HistoryFlags'
  BY <1>7, Zenon DEF AskCommit
<1>8. ASSUME NEW p, CommitReturns(p) PROVE HistoryFlags'
  BY <1>8, Zenon DEF CommitReturns
<1>9. ASSUME NEW a, Restart(a) \/ RestartUnread(a) PROVE HistoryFlags'
  BY <1>9, Zenon DEF Restart, RestartUnread, StartWith
<1>10. CASE PlayerPlays \/ CartridgeChanges \/ HistoryRequest
  BY <1>1, <1>10
     DEF PlayerPlays, CartridgeChanges, HistoryRequest, BecameCountable, Mount, Unmount, Request
<1>11. CASE MainLoop
  BY <1>4, <1>5, <1>6, <1>11 DEF MainLoop, Apply, CountListen
<1>12. CASE \E p \in Callers : Commit(p) \/ Return(p)
  BY <1>7, <1>8, <1>12 DEF Commit, Return
<1>13. CASE LastFmTask \/ MutexBusy \/ Connection \/ CommandSent \/ UserSwitches
  BY <1>2, <1>13 DEF LastFmTask, MutexBusy, Connection, CommandSent, UserSwitches, ScrobbleOnly
<1>14. CASE Reset
  BY <1>9, <1>14 DEF Reset
<1> QED
  BY <1>10, <1>11, <1>12, <1>13, <1>14 DEF Next

LEMMA ScrobbleFlagsStep == ASSUME ScrobbleFlags, Next PROVE ScrobbleFlags'
<1> USE DEF ScrobbleFlags, queueVars, envVars
<1>1. ASSUME UNCHANGED scrobbleVars PROVE ScrobbleFlags'
  BY <1>1, Zenon DEF scrobbleVars
<1>2. ASSUME UNCHANGED envVars, panicked' \in {panicked, TRUE},
             missed' \in {missed, FALSE, scrobbles # <<>>}
      PROVE  ScrobbleFlags'
  BY <1>2, Zenon
<1>3. ASSUME NEW l, SendScrobble(l) \/ SendTimesOut PROVE ScrobbleFlags'
  BY <1>2, <1>3 DEF SendScrobble, SendTimesOut, NotifyScrobble
<1>4. CASE LastFmTask \/ MutexBusy \/ CommandSent
  <2>1. /\ UNCHANGED envVars /\ panicked' \in {panicked, TRUE}
        /\ missed' \in {missed, FALSE, scrobbles # <<>>}
    BY <1>4
       DEF LastFmTask, MutexBusy, CommandSent, OfflineCommand, GoOnline, SelectCommand,
           SelectScrobble, LostConnection, LeaveScrobble, ReceiveTimesOut, Receive, Consume,
           ProcessScrobble, Process, Sent, SendFails, Requeue, RequeueTimesOut, SendCommand,
           NotifyScrobble, NotifyCmd
  <2> QED
    BY <1>2, <2>1
<1>5. CASE Connection
  BY <1>5, Zenon DEF Connection, ConnectionChanges, AbilityChanges
<1>6. CASE UserSwitches
  BY <1>6, Zenon DEF UserSwitches, SetEnabled
<1>7. CASE Reset
  BY <1>7, Zenon DEF Reset, ScrobblesReset
<1>8. CASE PlayerPlays \/ CartridgeChanges \/ HistoryRequest
  BY <1>1, <1>8 DEF PlayerPlays, CartridgeChanges, HistoryRequest, HistoryOnly
<1>9. CASE MainLoop
  BY <1>1, <1>3, <1>9 DEF MainLoop, Apply, CountListen, HistoryOnly
<1>10. CASE \E p \in Callers : Commit(p) \/ Return(p)
  BY <1>1, <1>10 DEF Commit, Return, HistoryOnly
<1> QED
  BY <1>4, <1>5, <1>6, <1>7, <1>8, <1>9, <1>10 DEF Next

LEMMA FlagsNext ==
  HistoryFlags /\ ScrobbleFlags /\ [Next]_vars => HistoryFlags' /\ ScrobbleFlags'
<1> SUFFICES ASSUME HistoryFlags, ScrobbleFlags, [Next]_vars
             PROVE  HistoryFlags' /\ ScrobbleFlags'
  OBVIOUS
<1>1. CASE Next
  BY <1>1, HistoryFlagsStep, ScrobbleFlagsStep
<1>2. CASE UNCHANGED vars
  BY <1>2, Zenon
     DEF vars, playHistoryVars, cacheVars, commitVars, historyFileVars, scrobbleVars, queueVars,
         envVars, HistoryFlags, ScrobbleFlags
<1> QED
  BY <1>1, <1>2

-----------------------------------------------------------------------------
(* The commits *)

(* A caller whose changes are not on flash keeps the cache dirty, and no     *)
(* commit has succeeded since it asked.                                      *)
Unsaved == unsaved # {} => dirty /\ ~commitOk

CommitInvariant == CleanMatches /\ Unsaved

LEMMA CommitInit == Init => CommitInvariant
BY DEF Init, PlayHistoryInit, CommitInvariant, CleanMatches, Unsaved, Cache, Empty, Contents, Loaded

LEMMA CacheIsReadable == ASSUME CacheOK PROVE Loaded(Cache) = Cache
<1>1. albums \in Seq(Albums)
  BY AlbumListsAreSequences DEF CacheOK
<1>2. plays \in [Albums -> Nat]
  BY PlayHistoryAssumption DEF PlayHistoryAssumption, CacheOK
<1>3. Cache \in [albums : Seq(Albums), plays : [Albums -> Nat]]
  BY <1>1, <1>2 DEF Cache, Contents
<1> QED
  BY <1>3, UnreadableAssumption DEF UnreadableAssumption, Loaded

(* A step that leaves the cache or makes it dirty, and the file and the      *)
(* commit alone.                                                             *)
LEMMA CommitUntouched ==
  ASSUME CommitInvariant, UNCHANGED <<file, base, unread, unsaved, commitOk>>,
         dirty' \/ UNCHANGED <<albums, plays, dirty>>
  PROVE  CommitInvariant'
BY DEF CommitInvariant, CleanMatches, Unsaved, Cache

LEMMA ApplyCommit ==
  ASSUME CommitInvariant, NEW e,
         ApplySync(e) \/ ApplyClear(e) \/ ApplyRebuild(e) \/ PlayNotFound(e) \/ ApplyPlay(e)
  PROVE  CommitInvariant'
<1>1. UNCHANGED <<file, base, unread, unsaved, commitOk>>
  BY DEF ApplySync, ApplyClear, ApplyRebuild, PlayNotFound, ApplyPlay, Take, commitVars,
         historyFileVars
<1>2. dirty' \/ UNCHANGED <<albums, plays, dirty>>
  BY DEF ApplySync, ApplyClear, ApplyRebuild, PlayNotFound, ApplyPlay, SetCache, cacheVars
<1> QED
  BY <1>1, <1>2, CommitUntouched

LEMMA CommitCommit ==
  ASSUME CommitInvariant, CacheOK,
         CommitStep \/ \E p \in Callers : AskCommit(p) \/ CommitReturns(p)
  PROVE  CommitInvariant'
<1> USE DEF CommitInvariant, CleanMatches, Unsaved, Cache, cacheVars, commitVars, mainVars,
      historyFileVars
<1>1. CASE BeginCommit \/ FinishCommit
  BY <1>1 DEF BeginCommit, FinishCommit
<1>2. CASE CommitClean
  BY <1>2 DEF CommitClean
<1>3. CASE CommitWrites
  <2>1. /\ file' = Cache /\ base' = Cache /\ unsaved' = {} /\ UNCHANGED <<albums, plays>>
    BY <1>3 DEF CommitWrites
  <2>2. Cache' = Cache
    BY <2>1
  <2>3. Loaded(file)' = Cache
    BY <2>1, CacheIsReadable DEF Loaded
  <2> QED
    BY <2>1, <2>2, <2>3
<1>4. CASE CommitFails
  BY <1>4 DEF CommitFails
<1>5. ASSUME NEW p \in Callers, AskCommit(p) PROVE CommitInvariant'
  BY <1>5 DEF AskCommit
<1>6. ASSUME NEW p \in Callers, CommitReturns(p) PROVE CommitInvariant'
  BY <1>6 DEF CommitReturns
<1> QED
  BY <1>1, <1>2, <1>3, <1>4, <1>5, <1>6 DEF CommitStep

LEMMA StartCommit ==
  ASSUME FileOK, NEW a, Restart(a) \/ RestartUnread(a)
  PROVE  CommitInvariant'
<1>1. PICK c \in Histories : StartWith(a, c) /\ (unread' \/ c = Loaded(file))
  BY EmptyIsHistory DEF Restart, RestartUnread, Loaded, FileOK
<1>2. c = Contents(c.albums, c.plays)
  BY DEF Histories, Contents
<1>3. Cache' = c /\ base' = c /\ unsaved' = {} /\ UNCHANGED file
  BY <1>1, <1>2 DEF StartWith, Cache, Contents
<1> QED
  BY <1>1, <1>3 DEF CommitInvariant, CleanMatches, Unsaved, Loaded

LEMMA CommitNext == ASSUME HInv, CommitInvariant, [Next]_vars PROVE CommitInvariant'
<1>0. CacheOK /\ FileOK
  BY DEF HInv
<1>1. ASSUME UNCHANGED playHistoryVars \/ QueueUnchanged \/ BeginPass \/ EndPass
      PROVE  CommitInvariant'
  <2>1. /\ UNCHANGED <<file, base, unread, unsaved, commitOk>>
        /\ UNCHANGED <<albums, plays, dirty>>
    BY <1>1 DEF playHistoryVars, QueueUnchanged, BeginPass, EndPass, cacheVars, commitVars, mainVars,
         historyFileVars
  <2> QED
    BY <2>1, CommitUntouched
<1>2. CASE PlayerPlays \/ CartridgeChanges \/ HistoryRequest
  BY <1>1, <1>2
     DEF PlayerPlays, CartridgeChanges, HistoryRequest, BecameCountable, Mount, Unmount, Request
<1>3. CASE MainLoop
  BY <1>0, <1>1, <1>3, ApplyCommit, CommitCommit DEF MainLoop, Apply, CountListen
<1>4. CASE \E p \in Callers : Commit(p) \/ Return(p)
  BY <1>0, <1>4, CommitCommit DEF Commit, Return
<1>5. CASE LastFmTask \/ MutexBusy \/ Connection \/ CommandSent \/ UserSwitches
  BY <1>1, <1>5 DEF LastFmTask, MutexBusy, Connection, CommandSent, UserSwitches, ScrobbleOnly
<1>6. CASE Reset
  BY <1>0, <1>6, StartCommit DEF Reset
<1>7. CASE UNCHANGED vars
  BY <1>1, <1>7 DEF vars
<1> QED
  BY <1>2, <1>3, <1>4, <1>5, <1>6, <1>7 DEF Next

(* A caller goes, but for a restart, which tells it nothing, when it is told *)
(* the result.                                                               *)
LEMMA ToldIsSaved ==
  ASSUME Unsaved, [Next]_vars, NEW p \in waiting \ waiting', commitOk'
  PROVE  p \notin unsaved
<1>1. CASE UNCHANGED playHistoryVars \/ QueueUnchanged \/ BeginPass \/ EndPass \/ CommitStep
  BY <1>1
     DEF playHistoryVars, QueueUnchanged, BeginPass, EndPass, CommitStep, BeginCommit, CommitClean,
         CommitWrites, CommitFails, FinishCommit, commitVars
<1>2. ASSUME NEW e,
             \/ ApplySync(e) \/ ApplyClear(e) \/ ApplyRebuild(e) \/ PlayNotFound(e) \/ ApplyPlay(e)
      PROVE  FALSE
  BY <1>2 DEF ApplySync, ApplyClear, ApplyRebuild, PlayNotFound, ApplyPlay, Take, commitVars
<1>3. ASSUME NEW q \in Callers, AskCommit(q) \/ CommitReturns(q)
      PROVE  p \notin unsaved
  BY <1>3 DEF AskCommit, CommitReturns, Unsaved
<1>4. ASSUME NEW a, Restart(a) \/ RestartUnread(a)
      PROVE  FALSE
  BY <1>4 DEF Restart, RestartUnread, StartWith
<1>5. CASE PlayerPlays \/ CartridgeChanges \/ HistoryRequest
  BY <1>1, <1>5
     DEF PlayerPlays, CartridgeChanges, HistoryRequest, BecameCountable, Mount, Unmount, Request
<1>6. CASE MainLoop
  BY <1>1, <1>2, <1>6 DEF MainLoop, Apply, CountListen
<1>7. CASE \E q \in Callers : Commit(q) \/ Return(q)
  BY <1>3, <1>7 DEF Commit, Return
<1>8. CASE LastFmTask \/ MutexBusy \/ Connection \/ CommandSent \/ UserSwitches
  BY <1>1, <1>8 DEF LastFmTask, MutexBusy, Connection, CommandSent, UserSwitches, ScrobbleOnly
<1>9. CASE Reset
  BY <1>4, <1>9 DEF Reset
<1>10. CASE UNCHANGED vars
  BY <1>1, <1>10 DEF vars
<1> QED
  BY <1>5, <1>6, <1>7, <1>8, <1>9, <1>10 DEF Next

-----------------------------------------------------------------------------
(* What follows *)

LEMMA InvIsInvariant == Spec => [](Inv /\ HistoryFlags /\ ScrobbleFlags)
<1>1. Init => Inv /\ HistoryFlags /\ ScrobbleFlags
  BY InvInit, FlagsInit
<1>2. (Inv /\ HistoryFlags /\ ScrobbleFlags) /\ [Next]_vars
        => (Inv /\ HistoryFlags /\ ScrobbleFlags)'
  BY InvNext, FlagsNext
<1> QED
  BY <1>1, <1>2, PTL DEF Spec

LEMMA OrderFollows == Inv => InOrder
<1> SUFFICES ASSUME Inv PROVE InOrder
  OBVIOUS
<1>1. /\ scrobbles \in Seq(Listens) /\ Len(scrobbles) \in Nat
      /\ DOMAIN scrobbles = 1 .. Len(scrobbles)
      /\ \A i \in DOMAIN scrobbles : scrobbles[i] \in Later
      /\ \A i, j \in DOMAIN scrobbles : i < j => scrobbles[i] < scrobbles[j]
  BY LenProperties DEF Inv, SInv, ScrobblesTypeOK, QueueOrder
<1>2. acked \cap Waiting = {}
  <2>1. \A l \in Later : l \in Nat /\ l \notin acked
    BY ScrobblesAssumption DEF ScrobblesAssumption, Later, Listens
  <2>2. inHand # None => inHand \in Nat /\ inHand \notin acked
    BY ScrobblesAssumption
       DEF ScrobblesAssumption, Inv, SInv, ScrobblesTypeOK, QueueOrder, Listens
  <2> QED
    BY <1>1, <2>1, <2>2 DEF Waiting
<1>3. CASE inHand = None
  <2>1. Line = scrobbles
    BY <1>1, <1>3 DEF Line
  <2> QED
    BY <1>1, <1>2, <2>1 DEF InOrder
<1>4. CASE inHand # None
  <2>1. /\ Line = Before(scrobbles, inHand) /\ inHand \in Listens
        /\ \A i \in DOMAIN scrobbles : inHand < scrobbles[i]
    BY <1>1, <1>4 DEF Line, Before, Inv, SInv, ScrobblesTypeOK, Later
  <2>2. /\ DOMAIN Line = 1 .. Len(scrobbles) + 1 /\ Line[1] = inHand
        /\ \A i \in DOMAIN scrobbles : Line[i + 1] = scrobbles[i]
    <3>1. scrobbles \in Seq(Listens) /\ inHand \in Listens
      BY <1>1, <2>1
    <3>2. /\ Len(Before(scrobbles, inHand)) = Len(scrobbles) + 1
          /\ DOMAIN Before(scrobbles, inHand) = 1 .. Len(scrobbles) + 1
          /\ Before(scrobbles, inHand)[1] = inHand
          /\ \A i \in DOMAIN scrobbles : Before(scrobbles, inHand)[i + 1] = scrobbles[i]
      BY <3>1, BeforeFacts
    <3> QED
      BY <2>1, <3>2
  <2>3. ASSUME NEW i \in DOMAIN Line, NEW j \in DOMAIN Line, i < j PROVE Line[i] < Line[j]
    <3>1. j - 1 \in DOMAIN scrobbles /\ Line[j] = scrobbles[j - 1]
      <4>1. j - 1 \in DOMAIN scrobbles /\ (j - 1) + 1 = j
        BY <1>1, <2>2, <2>3
      <4> QED
        BY <2>2, <4>1
    <3>2. CASE i = 1
      BY <2>1, <2>2, <3>1, <3>2
    <3>3. CASE i # 1
      <4>1. i - 1 \in DOMAIN scrobbles /\ (i - 1) + 1 = i /\ i - 1 < j - 1
        BY <1>1, <2>2, <2>3, <3>3
      <4>2. Line[i] = scrobbles[i - 1]
        BY <2>2, <4>1
      <4> QED
        BY <1>1, <3>1, <4>1, <4>2
    <3> QED
      BY <3>2, <3>3
  <2> QED
    BY <1>2, <2>3 DEF InOrder
<1> QED
  BY <1>3, <1>4

(* The state always has its shape: the inbox, the queues and the queue set   *)
(* stay within their lengths, and no album is in the history twice, however  *)
(* plays, clears, rebuilds and restarts alternate.                           *)
THEOREM TypeCorrect == Spec => []TypeOK
<1>1. Inv /\ HistoryFlags /\ ScrobbleFlags => TypeOK
  <2>1. HistoryFlags /\ ScrobbleFlags => Flags
    BY Zenon DEF HistoryFlags, ScrobbleFlags, Flags
  <2>2. Inv => HistoryTypeOK /\ ScrobblesTypeOK /\ played \in 0 .. MaxListens
    BY DEF Inv, HInv, SInv, MountedOK, InboxOK, CacheOK, ControlOK, HistoryTypeOK
  <2> QED
    BY <2>1, <2>2, Zenon DEF TypeOK
<1> QED
  BY <1>1, InvIsInvariant, PTL

(* Scrobbles leave in the order of their listens, and none that the server   *)
(* is known to have taken is still queued: dropping from a full queue        *)
(* (lastfm_service_send_scrobble), putting back in front                     *)
(* (lastfm_service_requeue_scrobble), lost events and restarts included.     *)
THEOREM Ordered == Spec => []InOrder
BY InvIsInvariant, OrderFollows, PTL

(* No scrobble waits without an entry in the queue set that will wake the    *)
(* task (lastfm_service_task), but one the task itself took an entry of.     *)
THEOREM Wakes == Spec => []Awake
<1>1. Inv => Awake
  BY DEF Inv, SInv
<1> QED
  BY <1>1, InvIsInvariant, PTL

LEMMA CommitHolds == Spec => [](Inv /\ CommitInvariant)
<1>1. Init => Inv /\ CommitInvariant
  BY InvInit, CommitInit
<1>2. Inv /\ CommitInvariant /\ [Next]_vars => (Inv /\ CommitInvariant)'
  BY InvNext, CommitNext DEF Inv
<1> QED
  BY <1>1, <1>2, PTL DEF Spec

(* A cache that the next commit will not write (s_dirty is clear) is what a  *)
(* start would load, whatever commits failed and however they left the file. *)
THEOREM CleanIsOnFlash == Spec => []CleanMatches
<1>1. CommitInvariant => CleanMatches
  BY DEF CommitInvariant
<1> QED
  BY <1>1, CommitHolds, PTL

(* play_history_service_commit answers success only when the changes made    *)
(* before it was called are on flash, also when several tasks commit at once *)
(* and one reads the answer of another's commit.                             *)
THEOREM CommitsSave == Spec => CommitSaves
<1>1. CommitInvariant /\ [Next]_vars
        => [\A p \in waiting \ waiting' : commitOk' => p \notin unsaved]_vars
  BY ToldIsSaved DEF CommitInvariant
<1> QED
  BY <1>1, CommitHolds, PTL DEF Spec, CommitSaves

================================================================================
