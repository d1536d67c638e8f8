SPECIFICATION Spec
CONSTANTS
    Runners = {r1}
    Stoppers = {s1, s2}
    Coincidences = {"spurious"}
PROPERTY EndsForAReason
