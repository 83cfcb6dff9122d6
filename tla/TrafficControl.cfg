CONSTANTS
  None = None
  Others = Others
  Malformed = Malformed
  Numbers <- MCNumbers
  Word = 256
  Kilo = 10
  Faults = {"api", "link", "tc", "later"}
SPECIFICATION FairSpec
INVARIANTS
  TypeOK
  LimitFollowsSum
  NoSilentMiss
PROPERTIES
  LimitNeverStopsAdd
