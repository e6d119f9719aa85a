CONSTANTS
    Containers = {bag, sack}
    Stacks = {a1, a2}
    Bows = {b1}
    Shield = shield
    ContainerCapacity = 2
    StackSize = 2
    Strength = 6
    Customers = {c1, c2}
    Merchants = {m1, m2}
    Callbacks = {f1, f2, f3}
    Worths = {1, 3, 9}
    CoinStack = 3
    CoinLimit = 4
    MaxMoney = 9
    Me = "me"
    Others = {"c"}
    SeenMonsters = {"c"}
    Width = 4
    Height = 4
    LastFloor = 4
    Surface = 1
    VX = 0
    VY = 0
    Reach = 1
    Spots <- ViewSpots
    ViewPaths <- ViewSteps
    KnownLimit = 1
    MaxCached = 1
    Bags = {"bag", "box"}
    Coins = {"coin"}
    Changing = {"coin"}
    Grounds = {"west"}
    Cids = {0, 1}
    MaxInside = 2
    SetByScript <- Attributes
    ItemKinds = {"plain", "stack", "fluid", "charged", "timed", "board"}
    MaxAttrs = 2
    Ailments <- Suffered
    MaxAilments = 2
    Furniture <- Furnished
    SkillTries <- TriesOfLevel
    ManaNeeded <- ManaOfLevel
    ExpNeeded <- ExpOfLevel
    FirstSkill = 1
    HPGain = 2
    Amounts = {1, 2, 5}
    Rewards = {0, 1}
    Gear = {"g1", "g2", "g3"}
    GearTypes <- TypesOfGear
    FirstType <- TypeAtFirst
    Scripted <- Transforms
    GearSlots = {"left", "right", "feet"}
    MaxLevel = 1
    Pack = "pack"
    Gone = "gone"
    None = none
SYMMETRY PartSymmetry
SPECIFICATION Spec
INVARIANTS TypeOK ClientAgrees ItemsConserved
CHECK_DEADLOCK FALSE
