SPECIFICATION MCSpec
CONSTANTS
  ContentOne = ContentOne
  DocOld = DocOld
  DocNew = DocNew
  DocA = DocA
  DocB = DocB
  Contents = {ContentOne, c2}
  Requests = {r1, r2}
  Workers = {w1, w2}
  MaxAttempts = 2
  LeaseTicks = 1
  MaxCrashes = 1
  MaxOutages = 1
  Docs = {DocOld, DocNew, DocA, DocB}
  Txs = {t1, t2}
  MaxRequests = 3
  MaxDay = 2
  InitDocs <- MCInitDocs
  InitLinks <- MCInitLinks
  LinkRequests <- MCLinkRequests
  ReplaceRequests <- MCReplaceRequests
  TypeRequests <- MCTypeRequests
  DateRequests <- MCDateRequests
INVARIANTS
  UploadsAgree
  DocumentsStand
PROPERTIES
  GateSpec
  EveryFileIsDecided
  JudgementsStand
CHECK_DEADLOCK FALSE
