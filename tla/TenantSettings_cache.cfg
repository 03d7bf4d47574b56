\* Two updates and an agent run race, statements fail.
SPECIFICATION SettingsFairSpec
CONSTANTS
    p1 = p1  p2 = p2  a = a  n1 = n1  w1 = w1  w2 = w2  r1 = r1  Unset = Unset
    Providers <- TwoProviders
    Keys <- OneKey
    Names <- OneName
    Writers <- TwoWriters
    Readers <- OneReader
    CacheTTL = 2
    MaxUpdates = 2
    Faults = TRUE
PROPERTIES
    UndisturbedSave
    EventuallyCurrent
