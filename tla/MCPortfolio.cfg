SPECIFICATION Spec
CONSTANTS
  s1 = s1
  s2 = s2
  s3 = s3
  Solvers <- MCSolvers
  CanReport <- MCCanReport
  CanThrow <- MCCanThrow
  Hangs <- MCHangs
  Main = Main
  Nobody = Nobody
  NoAnswer = NoAnswer
  Null = Null
  Torn = Torn
INVARIANTS
  NoMissedWakeup
PROPERTIES
  EventuallyAnswers
  Implements
\* every thread ends: the system really stops
CHECK_DEADLOCK FALSE
