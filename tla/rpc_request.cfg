SPECIFICATION Spec
CONSTANTS
  Controllers = {c1, c2}
  Handlers = {h1, h2}
  NoHandler = NoHandler
  Base <- MCBase
  Topics <- MCTopics
  MaxId = 3
INVARIANT RequestHandled
