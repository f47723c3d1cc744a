SPECIFICATION QueueFairSpec
CONSTANTS
  Handlers = {h1, h2, h3, h4}
  NoHandler = NoHandler
INVARIANTS
  NeverCallsNil
PROPERTIES
  RoundEnds
  ImplementsHandlers
