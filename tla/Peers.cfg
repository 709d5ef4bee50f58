\* Three canvases and a peer that publishes under a name of its own; three processes
\* that know each other, and one behind them that restarts; and two machines that
\* export, call and answer.
CONSTANTS
  c1 = c1
  c2 = c2
  c3 = c3
  controls = controls
  wave = wave
  freq = freq
  gain = gain
  peer = peer
  theirs = theirs
  Here = Here
  None = None
  Canvas = {c1, c2, c3}
  Modules = {controls, wave}
  Names = {freq, gain}
  Exports <- ExportsOf
  Widgets <- WidgetsOf
  Imports <- WaveImports
  Local <- Twice
  Peers = {peer}
  Remote = {theirs}
  Edited <- LastWave
  Ops = {"compute", "switch", "widgets"}
  MaxStamp = 2
  a = a
  b = b
  tail = tail
  f = f
  x = x
  y = y
  NoMessage = NoMessage
  Procs = {a, b, f, tail}
  Links <- Kite
  Channels = {x, y}
  Publishers <- FromA
  MaxSeq = 3
  Restarting = {tail}
  MaxRestarts = 1
  sv = sv
  cl = cl
  ex = ex
  rd = rd
  ca = ca
  s1 = s1
  s2 = s2
  Machines = {sv, cl}
  Nodes = {ex, rd, ca}
  Home <- HomeOf
  Sheets = {s1, s2}
  Sheet <- SheetOf
  Does <- DoesWhat
  Failing = {ex, rd}
  RequestIds = {2, 5}
  Precision = 2
  MaxValues = 3
  MaxRequests = 2
  MaxExports = 2
  MaxEdits = 2
  Rebooting = {sv}
SPECIFICATION PeersSpec
INVARIANTS LibrariesAreRight PublishedIsReceived
INVARIANTS AnswersAreFresh QuietMeansReceived
PROPERTY LocatorsAreStable
CHECK_DEADLOCK FALSE
