\* Request rules only: three requests at a time, two windows of rpm.
SPECIFICATION Spec
CONSTANTS
  rpm = rpm
  tpm = tpm
  Streams = {s1, s2, s3}
  RequestRules = {rpm}
  TokenRules = {}
  Period <- RequestPeriod
  Limit <- RequestLimit
  HasQuota = FALSE
  QuotaTypes = {}
  QuotaLimit <- NoLimit
  Reports <- OneReport
  MaxUsage = 1
  MaxReports = 1
  MaxApply = 2
  MaxTime = 3
SYMMETRY StreamSymmetry
INVARIANTS
  RequestOvershootBounded
  ForwardedIsCounted
