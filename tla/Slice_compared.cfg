SPECIFICATION Spec
CONSTANTS
  e1 = e1  e2 = e2
  Queues = {p, q}
  Items = {i1, i2}
  Bounds = {2, 3}
  NoItem = NoItem
  Lists = {p, q}
  Elements = {e1, e2}
  Literals <- LiteralsExample
  Sizes = {0, 1, 3}
  Lanes = {0, 4}
  MaxLength = 3
  MaxTotal = 4
  ListLax = {}
  NoElement = NoElement
  NoData = NoData
  NoContents = NoContents
  Refused = Refused
  Strings = {p, q}
  Chars = {e1, e2}
  Texts <- TextsExample
  MaxSso = 2
  Align = 4
  MaxText = 4
  StringLax = {}
  Nul = Nul
  NoText = NoText
  Threads = {t, u, v}
  Addresses = {m, n}
  Refs = {r, s}
  Nothing = Nothing
  Holders = {p, q}
  Things = {m, n, w}
  NoThing = NoThing
  HolderLax = {}
  Numbers = {"7"}
  Documents <- DocumentsExample
  Letters = {e1, e2}
  Terminator = Terminator
  Memories <- SlicesExample
  Patterns <- SlicesExample
  Vector = 4
  Threshold = 1
  Base = 4
  IntMax <- IntMaxExample
  UintMax <- UintMaxExample
  NarrowMax = 10
  NarrowUintMax = 12
  Numerals <- NumeralsExample
  Zero = "0"
  Structs <- StructsExample
  MaxShort = 4
  TrueText <- TrueTextExample
  FalseText <- FalseTextExample
  Word = 4
  MaxPrecision = 3
  Compositions <- CompositionsExample
  ByteTexts <- ByteTextsExample
  Lockers = {t, u, v}
  NoThread = NoThread
  NoLoad = NoLoad
  MaxGuards = 2
  MaxData = 2
INVARIANT ComparedAsRead
CHECK_DEADLOCK FALSE
