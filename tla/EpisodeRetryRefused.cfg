SPECIFICATION Spec
CONSTANTS
  Episodes = {e1, e2}
  MaxRecords = 1
  GraphErrors = {g1}
  Parents = parents
  NoError = noError
  NoEpisode = noEpisode
  NoClosure = noClosure
  TxMayFail = FALSE
INVARIANTS
  StartupNeverRefused
