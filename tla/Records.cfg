SPECIFICATION Spec
CONSTANTS
  Value <- Texts
  Plain <- PlainTexts
  Lines <- SomeLines
  Vectors <- SomeVectors
  Messages <- SomeMessages
  Rows <- SomeRows
  Methods <- AllMethods
INVARIANTS TypeOK OnlySelectWritesData SelectIsTheRow
PROPERTIES DeletesOnlyAskedFor MessagesChangeNothing
CHECK_DEADLOCK FALSE
