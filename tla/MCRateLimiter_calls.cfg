\* Two callers, two rules, one pipeline cut off and perhaps sent again.
SPECIFICATION Spec
CONSTANTS
  rpm = rpm
  rpd = rpd
  Callers = {c1, c2}
  Rules = {rpm, rpd}
  Period <- TwoPeriods
  Amounts = {1}
  MaxJitter = 1
  MaxRetries = 1
  MaxFaults = 1
  MaxCalls = 3
  MaxTime = 2
SYMMETRY CallerSymmetry
INVARIANTS
  CurrentKeysExpire
  RulesAgree
PROPERTIES
  ImplementsWindowCounter
CHECK_DEADLOCK FALSE
