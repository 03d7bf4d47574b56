\* Two skills, two providers that overlap, one of which may panic, two calls that
\* retry, are cancelled and come back late.
SPECIFICATION FairSpec
CONSTANTS
    s1 = s1  s2 = s2  p1 = p1  p2 = p2  c1 = c1  c2 = c2  None = None
    Skills <- TwoSkills
    Providers <- TwoProviders
    SkillIDs <- TwoSkillIDs
    Calls <- TwoCalls
    RetrySettings <- Retries
    MaxRetryAttempts = 1
    FailureThreshold = 2
    RecoveryTimeout = 1
    Panicky <- SecondPanics
INVARIANTS
    TripsAtThreshold
    OneProbePerPeriod
    HalfOpenHasProbe
    ReportsOnce
PROPERTIES
    ProviderIsStable
    EarlyExit
    ProbeResolves
    CallReturns
