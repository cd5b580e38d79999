SPECIFICATION Spec
CONSTANTS
    c1 = c1
    Callers <- OneCaller
    Values = {0, 1}
    MaxRestarts = 1
INVARIANTS SettingsPersist
