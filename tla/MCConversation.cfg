CONSTANTS
  p = p  q = q
  Passes = {p, q}  Sizes = {1}
  BYTE_CAP = 3  RECORD_CAP = 2  OVERLAP = 2  WINDOW = 2
  MaxLines = 3  MaxTime = 0  MaxCursor = 2  MaxEmit = 0  MaxReplace = 0  MaxDelete = 1
  Wraps = FALSE
  NoCursor = NoCursor  NoMark = NoMark  NoId = NoId  NoEvent = NoEvent  Event0 = Event0
  Users = {u, v}  Events = {e1}  Skills = {s, t}  Names = {n}  Keys = {k}
  Unranked = Unranked  NoSnapshot = NoSnapshot  NoKey = NoKey  NoName = NoName
  NoGroup = NoGroup  NoVersion = NoVersion
  MaxVersion = 2  MaxGeneration = 3
  NoUuid = NoUuid  NoCall = NoCall  NoResponse = NoResponse  NoBranch = NoBranch
  NoAgent = NoAgent
  MaxEvents = 4
  Kinds = {"prompt", "reply", "invocation", "result", "notice", "compaction"}
  Responses = {NoResponse, r1}
SPECIFICATION ConversationSpec
SYMMETRY Symmetries
INVARIANTS EvidenceFaithful ConversationWhole
PROPERTIES CorrectionIsWhole
CHECK_DEADLOCK FALSE
