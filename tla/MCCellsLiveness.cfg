SPECIFICATION FairSpec
CONSTANTS
    Cell = {c1, c2, c3}
    MaxQuantity <- OneVirus
    Batch <- OneVirus
    MotherFood = 0
    MaxAvatars = 1
    MaxEvents = 0
PROPERTIES
    ZombiesAreDeleted
