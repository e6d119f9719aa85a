CONSTANTS
    Persons = {p}
    Monsters = {m1, m2}
    Places = {a, b}
    Buckets = {0}
    MaxTasks = 3
    MaxConditions = 2
    MaxTime = 2
    MaxHealth = 1
    Walkers = {"rat", "ghost"}
    Hidden = {"rat", "ghost"}
    Watchers = {"w1", "w2", "w3"}
    Senses <- SensesOf
    Splashes = {s1, s2}
    Fields = {f1, f2}
    Door = door
    Barrier = barrier
    Box = box
    Dustbin = dustbin
    MaxStackPos = 4
    Embers = {t1, t2}
    Ashes = {x1}
    Lasting <- LastingTypes
    DecayBuckets = 2
    MaxReferences = 2
    Requests = {r1}
    MaxSteps = 2
    MaxWalkEvents = 2
    MaxStrays = 1
    Fighters <- Fighting
    Mages = {"a", "v"}
    Summons <- MasterOf
    Quarrels <- WhoStrikesWhom
    Groups <- WhoFights
    MaxMana = 2
    Experience = 7
    MaxPoints = 2
    MaxBlow = 2
    MaxDeaths = 1
    Prey = {p, q}
    AttackSpells <- Spellbook
    DefenseSpeed = 1
    SummonMax <- SummonsOfKind
    MaxSummons = 1
    SummonSpeed = 1
    Interval = 1
    ChangeSpeed = 1
    Challenge = 2
    TargetDistance = 1
    MaxAttacks = 1
    Field <- StepField
    Dim <- StepDim
    Stands <- StepStands
    Clutter <- StepClutter
    StepDistance = 3
    AttackRange = 2
    Ground <- PathGround
    Roof <- PathRoof
    Crowded <- PathCrowded
    PathDoors <- PathDoorways
    Searches <- PathSearches
    MaxNodes = 12
    MaxClosed = 10
    Tiles <- CacheTiles
    CacheDoors <- CacheDoorways
    CachePlaces <- CacheStands
    W = 1
    H = 1
    None = none
SPECIFICATION Spec
INVARIANTS TypeOK ReferencesExact WalkServed CopiesAgree CacheRight WaysRight HuntRight
CHECK_DEADLOCK FALSE
