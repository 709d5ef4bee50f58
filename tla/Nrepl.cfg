\* An agent and an editor; both may give up, and the owner may be slow.
CONSTANTS
  agent = agent
  editor = editor
  main = main
  other = other
  None = None
  Clients = {agent, editor}
  Uses <- Scenarios
  Canvas = {main, other}
  Main = main
SPECIFICATION FairSpec
INVARIANT AnswersInTurn
PROPERTIES RunOnceInOrder SuccessIsTheOwners EveryRequestAnswered
CHECK_DEADLOCK FALSE
