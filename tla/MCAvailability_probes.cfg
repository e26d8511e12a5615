SPECIFICATION ProbesSpec
CONSTANTS
  Callers = {c1, c2, c3}
  PER_REGISTRY_CONCURRENCY = 1
  MaxChecks = 3
  MaxTicks = 1
INVARIANTS NeverOverLimit VerdictIsTrue BootstrapIsSpared
PROPERTIES FirstComeFirstServed EveryCheckAnswers
CHECK_DEADLOCK FALSE
