SPECIFICATION Spec
CONSTANTS
  Tasks = {a, b}
  Timers = {t1, t2}
  timerList = timerList
  MaxJiffies = 3
  MaxNesting = 2
  MaxRefires = 1
INVARIANT NeverTwice
SYMMETRY Symmetry
