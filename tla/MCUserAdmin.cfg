SPECIFICATION Spec
CONSTANTS
    ann = ann
    bob = bob
    cay = cay
    User = {ann, bob, cay}
    Boot = ann
    r1 = r1
    r2 = r2
    Request = {r1, r2}
    NoOne = NoOne
INVARIANTS
    AdminRemainsUnlessLate
    SinkSeededOnce
PROPERTIES
    SeedsOnlyTheFirst
SYMMETRY Symmetry
