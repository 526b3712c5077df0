SPECIFICATION Spec
CONSTANTS
    Agents = {1, 2, 3}
    Host <- TheHosts
    Retention = 4
    Scenarios <- TheScenarios
    MaxCalm = 11
INVARIANTS
    SettlesInTime
PROPERTIES
    NoFlapping
