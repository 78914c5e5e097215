SPECIFICATION Spec
CONSTANTS
  Minute = 2
  Hour = 4
  Day = 12
  MIN_TTL_SECS = 2
  max_ttl_secs = 60
  DEFAULT_TTL_SECS = 24
  MaxInt = 127
  MAX_CONTENT_BYTES = 6
  TTL_STOPS <- Ladder
  Forms <- MCForms
  Edits <- MCEdits
  Requests <- MCRequests
  Bodies <- MCBodies
  Written <- MCWritten
  Options <- MCOptions
  MaxTokens = 1
  MaxLinks = 2
  MaxAtoms = 3
  Letters = {a, b}
  MaxLetters = 3
  MaxList = 3
  MaxTier = 2
  Raws = 16
  SNIPPET_LINES = 2
  DISPLAY_MAX_CHARS = 4
  Stored <- MCStored
  LIMITED_WORDS = 4
  NameWords <- MCNameWords
  Handlers = {g, h}
  RECENT_DAYS = 2
  MaxDay = 3
  Traffic <- MCTraffic
  MaxEvents = 2
  SecondsLeft <- MCSeconds
  Alphabet <- MCAlphabet
  AVAIL = 12
  MAX = 4
  Over = {24, 30}
CHECK_DEADLOCK FALSE
INVARIANTS
  LinkIsAsAsked
  RefusedForCause
  PlainBodyIsExact
  DrawIsExact
  IssuedInItsTierOnly
  MarksCarryTheText
  RemoveLeavesNothing
  EditOnlyRemoves
  LabelsAgree
  ReadingIsReal
  NothingHides
  OneTimeIsBlind
  TimesAreTrue
  TalliesAddUp
  CardIsLegible
