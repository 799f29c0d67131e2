------------------------------ MODULE PlayHistory ------------------------------
(***************************************************************************)
(* The play history of main/play_history_service.c.                        *)
(*                                                                         *)
(* Event handlers and the console put events into a bounded inbox; the     *)
(* main loop takes them out, a few at each pass, and applies them to the   *)
(* cache.  A task that wants the cache on flash (the reboot, the console)  *)
(* asks the main loop for a commit and polls until it is done; the main    *)
(* loop rewrites the history file in place.                                *)
(*                                                                         *)
(* An album stands for its cartridge and all of its tracks, which enter    *)
(* and leave the cache together.                                           *)
(***************************************************************************)
EXTENDS Integers, Sequences, FiniteSets

CONSTANTS
  Albums, NoAlbum,   \* cartridges, and none
  Unreadable,        \* a history file that is absent or not a history
  MaxAlbums,         \* PLAY_HISTORY_MAX_ALBUMS
  InboxLength,       \* PLAY_HISTORY_EVENT_QUEUE_DEPTH
  EventsPerPass,     \* PLAY_HISTORY_EVENTS_PER_PASS
  Callers,           \* tasks that commit
  MaxPlays           \* bound: plays of an album told apart

ASSUME PlayHistoryAssumption ==
  /\ NoAlbum \notin Albums
  /\ MaxAlbums \in Nat \ {0}
  /\ InboxLength \in Nat \ {0}
  /\ EventsPerPass \in Nat \ {0}
  /\ MaxPlays \in Nat

ASSUME UnreadableAssumption ==
  Unreadable \notin [albums : Seq(Albums), plays : [Albums -> Nat]]

VARIABLES
  mounted,      \* the album whose metadata is mounted, or NoAlbum
  inbox,        \* events that wait
  albums,       \* the cache: albums in the order they were first seen
  plays,        \* the cache: how often each was played
  dirty,        \* s_dirty
  file,         \* the history file: its contents, or Unreadable
  main, left,   \* the main loop, and the events left to this pass
  requested, inProgress, commitOk, \* the commit, and whether the last succeeded
  waiting,      \* callers that wait for a commit
  base, unread, \* history: the cache as last read or written, and whether the
                \* file was not read at the start and not written since
  unsaved       \* history: waiting callers whose cache is not on flash yet

historyFileVars == <<base, unread, unsaved>>
cacheVars   == <<albums, plays, dirty>>
commitVars  == <<requested, inProgress, commitOk, waiting>>
mainVars    == <<main, left>>
playHistoryVars == <<mounted, inbox, cacheVars, file, mainVars, commitVars, historyFileVars>>

Contents(a, p) == [albums |-> a, plays |-> p]
Empty          == Contents(<<>>, [a \in Albums |-> 0])
Cache          == Contents(albums, plays)

(* What a start finds: a file it cannot read starts an empty history.        *)
Loaded(f) == IF f = Unreadable THEN Empty ELSE f

Kept(a) == \E i \in DOMAIN albums : albums[i] = a

-----------------------------------------------------------------------------
(* The inbox *)

Play(a, l)      == [type |-> "play", album |-> a, listen |-> l]
Compactable(e)  == e.type # "play"
Event(type)     == [type |-> type, album |-> NoAlbum, listen |-> 0]

(* play_history_queue_event: a request that waits already is not queued      *)
(* twice, and an event that finds the inbox full is lost.                    *)
Queue(e) ==
  inbox' = IF \/ Len(inbox) = InboxLength
              \/ Compactable(e) /\ \E i \in DOMAIN inbox : inbox[i] = e
           THEN inbox ELSE Append(inbox, e)

QueueUnchanged == UNCHANGED <<cacheVars, file, mainVars, commitVars, historyFileVars>>

(* A cartridge is mounted, and INSERTED or MOUNTED comes; or it is removed.  *)
Mount(a) ==
  /\ mounted = NoAlbum
  /\ mounted' = a
  /\ Queue(Event("sync"))
  /\ QueueUnchanged

Unmount ==
  /\ mounted # NoAlbum
  /\ mounted' = NoAlbum
  /\ UNCHANGED inbox
  /\ QueueUnchanged

(* TRACK_BECAME_COUNTABLE.                                                   *)
BecameCountable(l) ==
  /\ mounted # NoAlbum
  /\ Queue(Play(mounted, l))
  /\ UNCHANGED mounted
  /\ QueueUnchanged

(* play_history_service_request_clear and _rebuild.                          *)
Request(type) ==
  /\ Queue(Event(type))
  /\ UNCHANGED mounted
  /\ QueueUnchanged

-----------------------------------------------------------------------------
(* The main loop *)

BeginCommit ==
  /\ main = "top" /\ requested /\ ~inProgress
  /\ requested' = FALSE /\ inProgress' = TRUE
  /\ main' = "commit"
  /\ UNCHANGED <<mounted, inbox, cacheVars, file, left, commitOk, waiting, historyFileVars>>

(* A pass over an empty inbox changes nothing and is left out.               *)
BeginPass ==
  /\ main = "top" /\ ~requested /\ ~inProgress /\ inbox # <<>>
  /\ main' = "pass" /\ left' = EventsPerPass
  /\ UNCHANGED <<mounted, inbox, cacheVars, file, commitVars, historyFileVars>>

EndPass ==
  /\ main = "pass" /\ (left = 0 \/ inbox = <<>>)
  /\ main' = "top" /\ left' = 0
  /\ UNCHANGED <<mounted, inbox, cacheVars, file, commitVars, historyFileVars>>

Take(e) ==
  /\ main = "pass" /\ left > 0 /\ inbox # <<>>
  /\ e = Head(inbox)
  /\ inbox' = Tail(inbox) /\ left' = left - 1
  /\ UNCHANGED <<mounted, file, main, commitVars, historyFileVars>>

(* play_history_sync_current_cartridge_locked of the contents c: a new album *)
(* takes the place of the one seen first, whose plays are forgotten.         *)
Pruned(c) == IF Len(c.albums) < MaxAlbums THEN c
             ELSE Contents(Tail(c.albums), [c.plays EXCEPT ![Head(c.albums)] = 0])

Synced(c, a) ==
  IF \E i \in DOMAIN c.albums : c.albums[i] = a THEN c
  ELSE [Pruned(c) EXCEPT !.albums = Append(@, a)]

(* Mutant: a change does not set s_dirty.                                    *)
SetCacheClean(c) == albums' = c.albums /\ plays' = c.plays /\ UNCHANGED dirty

SetCache(c) == albums' = c.albums /\ plays' = c.plays /\ dirty' = TRUE

ApplySync(e) ==
  /\ Take(e) /\ e.type = "sync"
  /\ IF mounted = NoAlbum THEN UNCHANGED cacheVars ELSE SetCache(Synced(Cache, mounted))

ApplyClear(e) ==
  /\ Take(e) /\ e.type = "clear"
  /\ SetCache(Empty)

ApplyRebuild(e) ==
  /\ Take(e) /\ e.type = "rebuild"
  /\ SetCache(IF mounted = NoAlbum THEN Empty ELSE Synced(Empty, mounted))

(* play_history_apply_countable_play_locked: an album that is not kept is    *)
(* added if it is still mounted.                                             *)
CountUp(n) == IF n < MaxPlays THEN n + 1 ELSE n

CanCount(a) == Kept(a) \/ mounted = a

ApplyPlay(e) ==
  /\ Take(e) /\ e.type = "play" /\ CanCount(e.album)
  /\ LET c == Synced(Cache, e.album)
     IN SetCache([c EXCEPT !.plays[e.album] = CountUp(@)])

PlayNotFound(e) ==
  /\ Take(e) /\ e.type = "play" /\ ~CanCount(e.album)
  /\ UNCHANGED cacheVars

(* play_history_flush_locked.  Nothing is done for a clean cache.  A failure *)
(* leaves the file as it was, cut or torn, of the right size with some of    *)
(* the counts rewritten, or complete though closing it failed.               *)
CommitClean ==
  /\ main = "commit" /\ ~dirty
  /\ commitOk' = TRUE
  /\ main' = "finish"
  /\ UNCHANGED <<mounted, inbox, cacheVars, file, left, requested, inProgress, waiting,
                 historyFileVars>>

CommitWrites ==
  /\ main = "commit" /\ dirty
  /\ file' = Cache
  /\ dirty' = FALSE
  /\ base' = Cache /\ unread' = FALSE /\ unsaved' = {}
  /\ commitOk' = TRUE
  /\ main' = "finish"
  /\ UNCHANGED <<mounted, inbox, albums, plays, left, requested, inProgress, waiting>>

PartlyRewritten ==
  IF file # Unreadable /\ file.albums = albums
  THEN {Contents(albums, [a \in Albums |-> IF a \in D THEN plays[a] ELSE file.plays[a]]) :
          D \in SUBSET Albums}
  ELSE {}

(* Mutant: s_dirty is cleared before the file is written.                    *)
CommitFailsClean ==
  /\ main = "commit" /\ dirty
  /\ file' \in {file, Unreadable, Cache} \cup PartlyRewritten
  /\ dirty' = FALSE /\ commitOk' = FALSE
  /\ main' = "finish"
  /\ UNCHANGED <<mounted, inbox, albums, plays, left, requested, inProgress, waiting,
                 historyFileVars>>

CommitFails ==
  /\ main = "commit" /\ dirty
  /\ file' \in {file, Unreadable, Cache} \cup PartlyRewritten
  /\ commitOk' = FALSE
  /\ main' = "finish"
  /\ UNCHANGED <<mounted, inbox, cacheVars, left, requested, inProgress, waiting,
                 historyFileVars>>

FinishCommit ==
  /\ main = "finish"
  /\ inProgress' = FALSE
  /\ main' = "top"
  /\ UNCHANGED <<mounted, inbox, cacheVars, file, left, requested, commitOk, waiting,
                 historyFileVars>>

-----------------------------------------------------------------------------
(* play_history_service_commit *)

AskCommit(p) ==
  /\ p \notin waiting /\ ~requested /\ ~inProgress
  /\ requested' = TRUE /\ commitOk' = FALSE
  /\ waiting' = waiting \cup {p}
  /\ unsaved' = IF Cache = base THEN unsaved ELSE unsaved \cup {p}
  /\ UNCHANGED <<mounted, inbox, cacheVars, file, mainVars, inProgress, base, unread>>

(* The caller polls; by now it may see the result of a later commit.         *)
CommitReturns(p) ==
  /\ p \in waiting /\ ~requested /\ ~inProgress
  /\ waiting' = waiting \ {p}
  /\ unsaved' = unsaved \ {p}
  /\ UNCHANGED <<mounted, inbox, cacheVars, file, mainVars, requested, inProgress, commitOk,
                 base, unread>>

-----------------------------------------------------------------------------
(* A start: play_history_service_init with the cartridge a, or none, found   *)
(* at boot.  The file is read, or cannot be opened or read.                  *)
StartWith(a, c) ==
  /\ mounted' = a
  /\ inbox' = IF a = NoAlbum THEN <<>> ELSE <<Event("sync")>>
  /\ albums' = c.albums /\ plays' = c.plays /\ dirty' = FALSE
  /\ main' = "top" /\ left' = 0
  /\ requested' = FALSE /\ inProgress' = FALSE /\ commitOk' = FALSE
  /\ waiting' = {}
  /\ base' = c /\ unsaved' = {}
  /\ UNCHANGED file

Restart(a)       == StartWith(a, Loaded(file)) /\ unread' = FALSE
RestartUnread(a) == file # Unreadable /\ StartWith(a, Empty) /\ unread' = TRUE

PlayHistoryInit ==
  /\ mounted = NoAlbum
  /\ inbox = <<>>
  /\ albums = <<>> /\ plays = Empty.plays /\ dirty = FALSE
  /\ file = Unreadable
  /\ main = "top" /\ left = 0
  /\ requested = FALSE /\ inProgress = FALSE /\ commitOk = FALSE
  /\ waiting = {}
  /\ base = Empty /\ unread = FALSE /\ unsaved = {}

=============================================================================
