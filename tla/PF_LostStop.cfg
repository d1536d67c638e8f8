SPECIFICATION FairSpec
CONSTANTS
    Runners = {r1}
    Stoppers = {s1, s2}
    Coincidences = {"call"}
PROPERTY StopReturns
