CONSTANTS
    A = A
    B = B
    C = C
    Peers <- MCPeers
    Replicas = 2
    HashSpace <- MCHashSpace
SPECIFICATION Spec
SYMMETRY MCSymmetry
INVARIANTS
    TypeOK
    GetIsFirstClockwise
    AddingPeerMovesKeysOnlyToIt
