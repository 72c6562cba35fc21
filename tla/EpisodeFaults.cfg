SPECIFICATION Spec
CONSTANTS
  Episodes = {e1, e2}
  MaxRecords = 2
  GraphErrors = {g1}
  Parents = parents
  NoError = noError
  NoEpisode = noEpisode
  NoClosure = noClosure
  TxMayFail = TRUE
SYMMETRY EpisodeSymmetry
INVARIANTS
  JournalRestorable
  GraphFollowsJournal
  SessionMirrorsJournal
PROPERTIES
  HistoryIsFinal
