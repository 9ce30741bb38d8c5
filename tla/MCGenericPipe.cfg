SPECIFICATION Spec
CONSTANTS
  Commands <- MCCommands
  Replies <- MCReplies
  WriteBufSize = 2
  ReadBufSize = 3
  PipeSize = 4
  MaxCommands = 3
CHECK_DEADLOCK FALSE
INVARIANT InStep
PROPERTY CallReturns
