SPECIFICATION FairSpec
CONSTANTS
  Files = {f, g}
  Watchers = {w1, w2}
  MaxWrites = 2
  MaxOpens = 2
INVARIANTS NoLostChange
PROPERTIES SentForCommitsOnly ListsCatchUp
