CONSTANTS
  Urls = {url1, url2}
  Activities = {a1, a2}
  Syncs = {s1, s2}
  u1 = u1
  u2 = u2
  brief = brief
  blank = blank
  None = None
  Uids <- MCUids
  Texts <- MCTexts
  Blank = blank
  Documents <- MCDocuments
  MaxVersion = 2
  MaxEdits = 2
SPECIFICATION Spec
SYMMETRY Symmetry
INVARIANTS
  CachedMeansSynced
  SerialSyncsDedupe
\* The system stops once the publications and edits are used up.
CHECK_DEADLOCK FALSE
