CONSTANTS
  Timeouts <- MCTimeouts
  TickMsecs = 500
  MaxNow = 4
  MaxHandle = 4
SPECIFICATION Spec
INVARIANTS TypeOK Sorted HandlesUnique TimesAgree
PROPERTIES ImplementsTimerSet
