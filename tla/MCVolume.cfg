SPECIFICATION VolumeSpec
CONSTANTS
  s1 = s1
  s2 = s2
  Sinks = {s1, s2}
  Levels = {0, 65700}
  NoSink = NoSink
  MaxChanges = 2
INVARIANTS
  VolumeTypeOK
  StaleOnlyIfWoken
PROPERTIES
  ShownCatchesUp
