CONSTANTS
  NO_EVENT = NO_EVENT
  Event = {e1, e2, e3}
  Lengths <- MCLengths
SPECIFICATION QueueSpec
INVARIANT QueueIsSound
PROPERTY ImplementsDeque
\* An overflowing post ends in the error handler, which never returns.
CHECK_DEADLOCK FALSE
