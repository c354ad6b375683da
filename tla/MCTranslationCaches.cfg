SPECIFICATION Spec
CONSTANTS
  Pages = {1, 2}
  CodePages = {1}
  DataPages = {1, 2}
  ITLB_RQ_SIZE = 1
  DTLB_RQ_SIZE = 1
  STLB_RQ_SIZE = 4
  ITLB_MSHR_SIZE = 1
  DTLB_MSHR_SIZE = 1
  STLB_MSHR_SIZE = 1
  ITLB_WAY = 1
  DTLB_WAY = 1
  STLB_WAY = 1
  L1I_RQ_SIZE = 1
  L1I_PQ_SIZE = 1
  L1D_RQ_SIZE = 1
  L1D_WQ_SIZE = 1
  L1D_PQ_SIZE = 2
  ROB_SIZE = 8
  None = None
  Dropped = Dropped
  MaxRequests = 4
INVARIANTS TypeOK WaitersNamed MissesCarriedOnce TranslationsRight
PROPERTIES UsesTranslationPort EveryRequestTranslated
CHECK_DEADLOCK FALSE
