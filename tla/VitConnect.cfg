\* One flow, two concurrent requests, two connections, two restarts.
SPECIFICATION Spec
CONSTANTS
    Tokens = {s1}
    Handlers = {h1, h2}
    ClientIds <- MCClientIds
    ClientSecrets <- MCClientSecrets
    OtherTypes <- MCOtherTypes
    VaultKeys = {v1}
    MaxRows = 2
    MaxTime = 1
    StateTTL = 0
    MaxRestarts = 2
SYMMETRY FlowSymmetry
INVARIANTS
    TypeOK
    StateSpentOnce
    ProviderAsStarted
    
    HealthyIsReadable
PROPERTIES
    DisconnectFinal
