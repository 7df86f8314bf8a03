CONSTANTS
  Moduli <- TwoModuli
  Generations = 3
  Operands = {1, 2}
  Lifetimes = {0, 2}
  MaxClock = 3
  CapsuleUses = {0, 3}
  Cost = 2
  MaxWord = 7
  Faults = TRUE
  MaxOperations = 2
  MaxFolds = 4
  Pow2 <- PowersOfTwo
  MaxBits = 24
  RingBits = 1
  T = 3
  PlaintextBits = 2
  Eta = 1
  ErrorBits = 1
  Delta = 524289
  DeltaBits = 20
  TensorDeposit = 144
  RelinNoise = 4096
  Thresholds = {0, 1000}
  MaxFresh = 2
  MaxCalls = 3
  MaxBootstraps = 6
  KeyModuli = {3, 128}
  KeyDraws <- EdgeDraws
  KeyWord = 256
  Intervals = {0, 2}
  MaxReshares = 3
  MaxKeyOperations = 2
  Values = {0, 1, 2}
  TimeBits = 6
  MinAccBits = 3
  Steps = {1, 3, 4, 11}
  Widths = {1, 3}
  Fibonacci <- FiveEighths
  Sizes = {1, 2}
  MaxPerSize = 2
  MaxHeld = 2
  MaxAcquires = 4
SPECIFICATION MCSpec
INVARIANT AllUsesAreHandedOut
