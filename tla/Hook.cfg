CONSTANTS
  Thread = {t1, t2, t3}
  MayFail = TRUE
SPECIFICATION FairSpec
INVARIANTS OneInstaller ArmedFires
PROPERTIES CallReturns
