\* A token rule and a two-type quota: two requests at a time, two usage reports in
\* a response, two windows of tpm, under the fairness of the handlers' goroutines.
SPECIFICATION FairSpec
CONSTANTS
  rpm = rpm
  tpm = tpm
  Streams = {s1, s2}
  RequestRules = {}
  TokenRules = {tpm}
  Period <- TokenPeriod
  Limit <- TokenLimit
  HasQuota = TRUE
  QuotaTypes = {"prompt", "total"}
  QuotaLimit <- PromptAndTotal
  Reports <- SomeReports
  MaxUsage = 1
  MaxReports = 2
  MaxApply = 2
  MaxTime = 1
INVARIANTS
  TokenOvershootBounded
  QuotaOvershootBounded
  DeliveredIsCharged
PROPERTIES
  HandlersFinish
