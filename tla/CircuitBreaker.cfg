SPECIFICATION FairSpec
CONSTANTS
  Callers = {c1, c2, c3}
  FailureThreshold = 3
  SuccessThreshold = 2
  Cooldown = 2
  MaxSkew = 2
INVARIANTS TypeOK ThresholdsAct
PROPERTIES TripsOnConsecutiveFailures CooldownRespected Recovers
