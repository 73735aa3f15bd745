SPECIFICATION Spec
CONSTANTS
  Period = 16
  TimeoutTicker = 5
INVARIANT NeverEarly
INVARIANT AtMostOneTickLate
