-------------------------------- MODULE Listens --------------------------------
(***************************************************************************)
(* From a listen to Last.fm: the play history and the queue of scrobbles.  *)
(*                                                                         *)
(* The main loop counts a listen in the play history and, having let go of *)
(* the history's lock, calls lastfm_service_on_listen_count_incremented,   *)
(* which queues a scrobble.  The Last.fm task looks the album up in the    *)
(* history when it is about to send, so a history cleared meanwhile keeps  *)
(* a scrobble from ever being sent, and so do names that are empty.  Both parts lose what they hold in RAM *)
(* in a restart; the history starts from its file.                         *)
(***************************************************************************)
EXTENDS PlayHistory, Scrobbles

CONSTANTS
  Untitled,   \* listens of a track that has no name or no artist in the metadata
  Requests    \* bound: what the console asks the history for

ASSUME ListensAssumption ==
  /\ Untitled \subseteq Listens
  /\ Requests \subseteq {"clear", "rebuild"}

VARIABLES
  played,     \* number of listens the player has reported
  albumOf     \* the album of each

listenVars == <<played, albumOf>>
vars == <<playHistoryVars, scrobbleVars, listenVars>>

Init ==
  /\ PlayHistoryInit
  /\ ScrobblesInit
  /\ played = 0
  /\ albumOf = [l \in Listens |-> NoAlbum]

HistoryOnly  == UNCHANGED <<scrobbleVars, listenVars>>
ScrobbleOnly == UNCHANGED <<playHistoryVars, listenVars>>

-----------------------------------------------------------------------------
(* Events and requests *)

PlayerPlays ==
  /\ ~panicked /\ played < MaxListens
  /\ played' = played + 1
  /\ albumOf' = [albumOf EXCEPT ![played + 1] = mounted]
  /\ BecameCountable(played + 1)
  /\ UNCHANGED scrobbleVars

CartridgeChanges ==
  ~panicked /\ HistoryOnly /\ (Unmount \/ \E a \in Albums : Mount(a))

HistoryRequest ==
  ~panicked /\ HistoryOnly /\ \E type \in Requests : Request(type)

-----------------------------------------------------------------------------
(* The main loop *)

(* The listen counted is handed to lastfm_service_on_listen_count_incremented. *)
CountListen(e) ==
  /\ ApplyPlay(e)
  /\ SendScrobble(e.listen) \/ SendTimesOut
  /\ UNCHANGED listenVars

Apply(e) ==
  \/ HistoryOnly /\ (ApplySync(e) \/ ApplyClear(e) \/ ApplyRebuild(e) \/ PlayNotFound(e))
  \/ CountListen(e)

CommitStep ==
  BeginCommit \/ CommitClean \/ CommitWrites \/ CommitFails \/ FinishCommit

MainLoop ==
  /\ ~panicked
  /\ \/ HistoryOnly /\ (BeginPass \/ EndPass \/ CommitStep)
     \/ inbox # <<>> /\ Apply(Head(inbox))

Commit(p) == ~panicked /\ HistoryOnly /\ AskCommit(p)

Return(p) == ~panicked /\ HistoryOnly /\ CommitReturns(p)

-----------------------------------------------------------------------------
(* The Last.fm task *)

(* Mutant: the names are looked for in the cartridge that is mounted.        *)
ResolvesMounted(l) == albumOf[l] = mounted /\ l \notin Untitled

(* lastfm_service_resolve_track_metadata: the track is in the history, and   *)
(* has a name and an artist.                                                 *)
Resolves(l) == Kept(albumOf[l]) /\ l \notin Untitled

ProcessScrobble == task = "process" /\ Process(Resolves(inHand))

LastFmTask ==
  /\ ScrobbleOnly
  /\ \/ OfflineCommand \/ GoOnline
     \/ SelectCommand \/ SelectScrobble
     \/ LostConnection \/ Receive
     \/ Consume \/ ProcessScrobble
     \/ Sent \/ SendFails
     \/ Requeue

MutexBusy == ScrobbleOnly /\ (ReceiveTimesOut \/ RequeueTimesOut)

(* Without scrobbling, what the task does is of no interest.                 *)
Connection == ScrobbleOnly /\ Scrobbling /\ (ConnectionChanges \/ AbilityChanges)

CommandSent == ScrobbleOnly /\ Scrobbling /\ SendCommand

UserSwitches == ScrobbleOnly /\ SetEnabled

(* A restart: a failed assertion, a reset or a loss of power.                *)
Reset ==
  /\ ScrobblesReset
  /\ \E a \in Albums \cup {NoAlbum} : Restart(a) \/ RestartUnread(a)
  /\ UNCHANGED listenVars

Next ==
  \/ PlayerPlays \/ CartridgeChanges \/ HistoryRequest
  \/ MainLoop
  \/ \E p \in Callers : Commit(p) \/ Return(p)
  \/ LastFmTask \/ MutexBusy
  \/ Connection \/ CommandSent \/ UserSwitches
  \/ Reset

Spec == Init /\ [][Next]_vars

(* The Last.fm task runs.  The set hands out its entries in order, so a      *)
(* scrobble's entry is not passed over for ever, and a server asked again    *)
(* and again answers.                                                        *)
Fairness ==
  /\ WF_vars(LastFmTask)
  /\ SF_vars(ScrobbleOnly /\ SelectScrobble)
  /\ SF_vars(ScrobbleOnly /\ Sent)

FairSpec == Spec /\ Fairness

-----------------------------------------------------------------------------
(* Properties *)

Events ==
  {Event(t) : t \in {"sync", "clear", "rebuild"}} \cup {Play(a, l) : a \in Albums, l \in Listens}

AlbumLists == {s \in UNION {[1 .. n -> Albums] : n \in 0 .. MaxAlbums} :
                 \A i, j \in DOMAIN s : s[i] = s[j] => i = j}

Flags ==
  /\ dirty \in BOOLEAN /\ requested \in BOOLEAN /\ inProgress \in BOOLEAN
  /\ commitOk \in BOOLEAN /\ unread \in BOOLEAN
  /\ online \in BOOLEAN /\ able \in BOOLEAN /\ enabled \in BOOLEAN
  /\ panicked \in BOOLEAN /\ missed \in BOOLEAN

HistoryTypeOK ==
  /\ mounted \in Albums \cup {NoAlbum}
  /\ inbox \in Seq(Events) /\ Len(inbox) <= InboxLength
  /\ albums \in AlbumLists
  /\ plays \in [Albums -> 0 .. MaxPlays]
  /\ \A a \in Albums : plays[a] > 0 => Kept(a)
  /\ main \in {"top", "pass", "commit", "finish"} /\ left \in 0 .. EventsPerPass
  /\ waiting \subseteq Callers /\ unsaved \subseteq waiting

ScrobblesTypeOK ==
  /\ scrobbles \in Seq(Listens) /\ Len(scrobbles) <= QueueLength
  /\ cmds \in 0 .. CmdLength
  /\ scrobbleReady \in Nat /\ cmdReady \in Nat /\ scrobbleReady + cmdReady <= SetLength
  /\ task \in {"loop", "select", "selected", "process", "send", "requeue"}
  /\ inHand \in Listens \cup {None} /\ (inHand = None <=> task \in {"loop", "select", "selected"})
  /\ acked \subseteq Listens

(* The state's shape: an album enters the history once, an album that is not *)
(* kept has no plays, both queues stay within their lengths, and the queue   *)
(* set within its own.                                                       *)
TypeOK == Flags /\ HistoryTypeOK /\ ScrobblesTypeOK /\ played \in 0 .. MaxListens

(* A caller that is told its commit succeeded has on flash every change the  *)
(* cache held when it asked, also when the answer it reads is that of a      *)
(* commit someone else asked for meanwhile                                   *)
(* (play_history_service_commit, play_history_finish_commit).                *)
CommitSaves ==
  [][\A p \in waiting \ waiting' : commitOk' => p \notin unsaved]_vars

(* A cache without changes, which the next commit will not write, is what a  *)
(* restart would load, whatever commits failed before and how they left the  *)
(* file.  The exception is a file that could not be read at the start.       *)
CleanMatches == ~dirty => Cache = base /\ (unread \/ base = Loaded(file))

(* Listens are sent in the order they were made, and none again that the     *)
(* server is known to have taken: sending again what failed, dropping from a *)
(* full queue and clearing the history never put one before an older one.    *)
Line == (IF inHand = None THEN <<>> ELSE <<inHand>>) \o scrobbles

InOrder ==
  /\ \A i, j \in DOMAIN Line : i < j => Line[i] < Line[j]
  /\ acked \cap Waiting = {}

(* Every scrobble that waits has an entry in the queue set that will wake    *)
(* the task for it, unless the task took an entry and left its scrobble,     *)
(* which it does when the connection breaks between the two or the queue's   *)
(* mutex is busy: then one waits until the next listen.                      *)
Awake ==
  missed \/ panicked \/ Len(scrobbles) <= scrobbleReady + (IF task = "selected" THEN 1 ELSE 0)

(* The queue empties, its scrobbles sent or lost in one of the ways listens  *)
(* are lost, as long as nothing of this happens: the connection breaks, the  *)
(* device is signed out or its clock is not set, scrobbling is switched off, *)
(* the task leaves a scrobble without entry, the set overflows, or a         *)
(* scrobble waits whose album is no longer in the history or whose track has *)
(* no name or artist, which blocks it and all behind it.  No listen is added *)
(* for ever: their number is bounded.                                        *)
Disturbed ==
  \/ ~online \/ ~able \/ ~enabled \/ missed \/ panicked
  \/ \E k \in Waiting : ~Kept(albumOf[k]) \/ k \in Untitled

Delivered == Waiting # {} ~> Waiting = {} \/ Disturbed

=============================================================================
