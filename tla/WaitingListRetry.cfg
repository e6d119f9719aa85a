CONSTANTS
    Players = {ann, bob, cat, gm}
    Premium = {cat}
    AlwaysLogin = {gm}
    Nobody = nobody
    MaxPlayers = 2
    Step = 5
    MaxTime = 25
    MaxEntries = 4
SPECIFICATION Spec
PROPERTIES RetryKeepsPlace
