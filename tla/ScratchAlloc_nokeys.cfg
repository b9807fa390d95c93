SPECIFICATION Spec
CONSTANTS
    Codes <- MCCodes
    Length <- MCLength
    Engine <- MCEngine
    DbHandles = {d1}
    Blobs = {b1}
    Scratches = {s1, s2}
    Addrs = {4, 8}
    DamagedFields = {"platform", "code", "crc"}
    MaxBlocks = 5
    SizeofScratch = 640
    SizeofStream = 16
INVARIANTS
    LogsAsStated
SYMMETRY Symmetric
