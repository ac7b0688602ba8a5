\* Agents start and die, one of them may be late by a second beyond its lag, and
\* the server is restarted once.
SPECIFICATION HealSpec
CONSTANTS
    a1 = a1  a2 = a2
    Agents = {a1, a2}
    Ttl = 2
    NoView = NoView
    MaxLag = 1
    MaxDelays = 1
    MaxRestarts = 1
INVARIANTS
    StoreSettles
    HealsInTime
