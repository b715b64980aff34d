CONSTANTS
  CPU = {c0, c1}
  BigTable <- MCBig
  LittleTable <- MCLittle
  NONE = NONE
  MayFail = TRUE
SPECIFICATION CpufreqSpec
INVARIANTS CpufreqInv RateSettles
PROPERTIES CallsComplete
