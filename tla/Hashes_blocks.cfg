CONSTANTS
  Words <- Word3
  Plus <- Plus3
  SUM_0 <- Sum0
  SUM_1 <- Sum1
  SIGMA_0 <- Sigma0
  SIGMA_1 <- Sigma1
  CH <- Choose3
  MAJ <- Majority3
  K <- Constants
  Rounds = 64
  Messages <- Blocks
  Hashes <- Chaining
  MaxOnes = 2
  Inputs <- MCInputs
SPECIFICATION MCSpec
INVARIANTS RegistersRotated RingIsSchedule ReturnsStandard WordsAreStandard Sm3IsStandard
