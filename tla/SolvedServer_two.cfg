\* Two clients of a server that stops and starts, with or without a file at first.
SPECIFICATION FairSpec
CONSTANTS
  Client = {c1, c2}
  MaxField = 2
  InitSizes <- NoneOrOne
  None = None
  Srv = Srv
INVARIANTS TypeInv ConfirmedMarked AnswersFresh ReplyMatchesCall
PROPERTIES CallEnds ImplementsSet
