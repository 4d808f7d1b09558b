SPECIFICATION Spec
CONSTANTS
  Value <- Texts
  Plain <- PlainTexts
  Lines <- SomeLines
  Vectors <- SomeVectors
  Messages <- SomeMessages
  Rows <- SomeRows
  Methods <- AllMethods
INVARIANTS RecordIsStored
CHECK_DEADLOCK FALSE
