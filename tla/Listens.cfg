SPECIFICATION FairSpec
CONSTANTS
  Albums = {a1}
  NoAlbum = NoAlbum
  Unreadable = Unreadable
  MaxAlbums = 1
  InboxLength = 1
  EventsPerPass = 1
  Callers = {}
  MaxPlays = 0
  Untitled = {2}
  Requests = {"clear"}
  QueueLength = 2
  CmdLength = 1
  MaxListens = 3
  Scrobbling = TRUE
  None = None
INVARIANTS TypeOK InOrder Awake
PROPERTY Delivered
