SPECIFICATION FairSpec
CONSTANTS
  Tracks = {t1, t2}
  NoTrack = NoTrack
  Remembered = 1
INVARIANTS ShowsItsTrack LookupsReported
PROPERTIES TextsOnlyImprove LookupsEnd
