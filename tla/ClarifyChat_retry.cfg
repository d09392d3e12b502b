SPECIFICATION Spec
CONSTANTS
  Messages = {a, b}
  Elsewhere = {b}
  Text <- MCText
  NoMessage = none
  Kind = "review"
  MaxGets = 1
  MaxFrames = 3
  MaxTrouble = 1
INVARIANT NoRowTwice
CHECK_DEADLOCK FALSE
