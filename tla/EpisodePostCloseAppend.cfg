SPECIFICATION Spec
CONSTANTS
  Episodes = {e1}
  MaxRecords = 2
  GraphErrors = {g1}
  Parents = parents
  NoError = noError
  NoEpisode = noEpisode
  NoClosure = noClosure
  TxMayFail = TRUE
PROPERTIES
  ClosedRejectsAppends
