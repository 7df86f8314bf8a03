CONSTANTS
  WordBits = 4
  Bases <- AtCapacity
  Registers = {1, 2}
  Inputs <- SmallInputs
  GuardBits = 2
  Projections = {2, 7, 10}
  NewModuli = {2, 11}
  FracBits = 4
  MaxLanes = 3
  AccumulatorBits = 24
  Conversions <- SmallConversions
  N = 2
  Eta = 1
  BaseBits = 3
  NarrowPool <- AnchorPrimes
  WidePool <- WidePrimes
  Systems <- SmallSystems
  Secrets <- TernarySecrets
  Tapes <- KeyTapes
  Draws <- EncryptionDraws
  Imports <- ExtremeImports
  Threads = {1, 2}
  Shadow = 5
  Anchor = 10
  Families <- SmallFamilies
  Probes <- Samples
  Divisors = {0, 2, 3}
  Scales <- ScalePairs
  Payloads <- SmallPayloads
  Slacks = {0, 5}
  Increments = {0, 1, 4, 10, 11, 21}
  BootN = 16
  SetUps = {}
  BootSecrets <- FamilySecrets
  Switches <- LargestSwitches
  Masks <- OneMask
  MaxRefreshes = 0
  DualSystems <- SmallDuals
  DualTapes <- MixedDraws
  AnchorsRead = 5
  Proximity = 500
  DigitBits = 3
  MaxDualSteps = 0
SPECIFICATION MCSpec
INVARIANT DecodeInvertsEncode
