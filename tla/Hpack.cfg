SPECIFICATION Spec
CONSTANTS
  Names = {"a", "b", "c", "d", "m", "bad"}
  Values = {"v", "w", "x"}
  Lengths <- LengthsMC
  HashOf <- HashesMC
  Static <- StaticMC
  SkipNames = {"m"}
  RawCapacity = 4
  Word = 8
  DefaultSize = 4
  MalformedNames = {"bad"}
  MaxContinuations = 3
  AbuseMultiplier = 4
  Scenes <- AllScenes
INVARIANTS
  EntriesFound
  HeadersAgree
  RejectedOnlyBeyondLimits
  TablesAgree
  SizeObeyed
