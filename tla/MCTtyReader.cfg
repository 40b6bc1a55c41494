SPECIFICATION ReaderFairSpec
CONSTANTS
    Units <- MCUnits
    BufSize = 4
    MaxTyped = 2
INVARIANTS EveryByteKept KeysRecognised
PROPERTIES EverythingReturned
