\* Two requests and two bots; eviction does not meet a call.
CONSTANTS
    b1 = b1
    b2 = b2
    Calls = {h1, h2}
    UserKey = user
    Bots <- MCBots
    Strategy = "least_connections"
    Races = FALSE
    MaxSlots = 4
    MaxClients = 3
    Threshold = 1
    Cooldown = 1
    MaxTime = 1
SPECIFICATION CircuitSpec
INVARIANTS ConnsExact OneClientPerKey  
PROPERTIES GetReturns CooldownKept
CHECK_DEADLOCK FALSE
