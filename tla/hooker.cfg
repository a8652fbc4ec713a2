SPECIFICATION Spec
CONSTANTS
    Conns = {1, 2, 3}
    Active = {2}
    Monitored = {1, 2}
    Named = {1}
    MapSize = 2
    Hash <- HashOf
    Cookie <- CookieOf
    MaxTries = 1
    Bodies = {"text", "binary"}
    None = None
    Redir = Redir
    MaxOpens = 3
    MaxPackets = 2
    MaxMsgs = 2
    MaxStarts = 2
INVARIANTS
    HookedGoesToDaemon
    SavedSynIsRegistered
    InwardFollowsHash
CHECK_DEADLOCK FALSE
