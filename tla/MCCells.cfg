SPECIFICATION Spec
CONSTANTS
    Cell = {c1, c2, c3}
    MaxQuantity <- WithoutMothers
    Batch <- WithoutMothers
    MotherFood = 1
    MaxAvatars = 2
    MaxEvents = 1
SYMMETRY AnyAddress
INVARIANTS
    TypeOK
    NoDanglingPointers
    DeadAreForgotten
    ZombiesDieOnce
    IdsAreConserved
    QuantitiesAgree
    LivingAreOnGrid
    MovingAreSimulated
