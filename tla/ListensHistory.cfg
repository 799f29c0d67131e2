SPECIFICATION Spec
CONSTANTS
  Albums = {a1, a2}
  NoAlbum = NoAlbum
  Unreadable = Unreadable
  MaxAlbums = 1
  InboxLength = 2
  EventsPerPass = 1
  Callers = {p1, p2}
  MaxPlays = 1
  Untitled = {}
  Requests = {"clear", "rebuild"}
  QueueLength = 1
  CmdLength = 1
  MaxListens = 1
  Scrobbling = FALSE
  None = None
INVARIANT CleanMatches
PROPERTY CommitSaves
