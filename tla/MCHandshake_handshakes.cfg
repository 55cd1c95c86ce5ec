SPECIFICATION FairSpec
CONSTANTS
    Outgoing = {"any out", "proper out"}
    Incoming = {"any in", "proper in"}
    Together <- Scenes
    Wanted <- Torrent
    Held = {2, 3}
    Hashes = {2, 3, 4}
    Proper = {"proper out", "proper in"}
    PstrLen = 2
    StrangerPstr = {0, 3}
    Reserved = 1
    HashLen = 1
    IdLen = 1
CHECK_DEADLOCK FALSE
INVARIANTS TypeOK MessagesComeNext SameTorrent
PROPERTIES HandshakesEnd ProperOnesMeet
