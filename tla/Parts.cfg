\* The parts that are run by themselves, one at a time.
CONSTANTS
  sketch = sketch
  work = work
  None = None
  Names = {sketch, work}
  Default = sketch
  Uses <- EditOrLate
  MaxUndo = 2
  wk = wk
  gui = gui
  n1 = n1
  n2 = n2
  f1 = f1
  f2 = f2
  k1 = k1
  k2 = k2
  Threads = {wk, gui}
  Gui = gui
  Keys = {k1, k2}
  Writers <- WhoWrites
  Shapes = {n1, n2}
  Files = {f1, f2}
  Absent = Absent
  MaxWritten = 2
  MaxDbImports = 1
  MaxCrashes = 1
  MaxSaves = 2
  MaxTurns = 2
  MaxCalls = 2
  Starts <- Texts
  SexpItems <- Items
  MaxItems = 4
  Messages <- Sent
  Canvas <- Drawn
  MaxExports = 2
  Numbers <- OneToThree
  Places = {1, 2, 3}
  Labels = {"a", "b", "c"}
  Labellings <- ThreeOrTwo
  MaxImports = 2
  Goals = {2}
SPECIFICATION PartsSpec
INVARIANTS CanvasesAreSound ResultsReachTheirNode
INVARIANTS SoleWriterReadsItsWrites KeptBySaving NodesFindTheirProgram
INVARIANTS ConversationIsSound ReadersAgree DifferenceIsFaithful MessagesArriveWhole
INVARIANTS ImportGivesBackNodes OrdersAreRight
PROPERTY StartGivesEachItsOwn
CHECK_DEADLOCK FALSE
