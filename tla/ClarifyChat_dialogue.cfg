SPECIFICATION Spec
CONSTANTS
  Messages = {a, b}
  Elsewhere = {b}
  Text <- MCText
  NoMessage = none
  Kind = "clarify"
  MaxGets = 1
  MaxFrames = 3
  MaxTrouble = 1
INVARIANTS TypeOK    TranscriptAgrees
CHECK_DEADLOCK FALSE
