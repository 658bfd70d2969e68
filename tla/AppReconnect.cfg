SPECIFICATION FairSpec
CONSTANTS
    Client = {c1, c2, c3}
    None = None
    MaxDisconnects = 3
PROPERTIES Reconnects
