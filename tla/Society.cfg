CONSTANTS
    Sessions = {s1, s2, s3}
    People = {q1, q2}
    Guilds = {u1, u2}
    Rankless = {u2}
    Addresses = {a}
    PrivateIds = {1}
    Occupants = {o1, o2}
    Beds = {b1, b2}
    Things = {t1}
    MaxWarnings = 1
    MaxHouseTasks = 7
    Persons = {p1, p2}
    Goods = {g}
    Cursed = {}
    Accounts = {a1, a2}
    StorageKeys = {k1}
    Values = {1, 2}
    Wide = {2}
    Absent = Absent
    MaxEnvs = 3
    MaxNesting = 2
    MaxOverflows = 0
    ScriptItems = {i1, i2}
    Timers = {e1, e2}
    Duelists = {d1, d2}
    WorldType = "pvp"
    FragTime = 1
    KillsToRed = 1
    KillsToBlack = 2
    MaxSkullTicks = 2
    CastSpells <- SpellsKnown
    Hands = {"wand", "bow", "fist"}
    WandMana = 1
    Charges = 1
    MaxMana = 1
    MaxSoul = 1
    Cooldown = 2
    ExDelay = 1
    AttackSpeed = 1
    MaxTimers = 1
    Reflects = FALSE
    None = none
SYMMETRY PartSymmetry
SPECIFICATION Spec
INVARIANTS TypeOK SessionsExact PointersAgree Conserved
PROPERTIES StrangersLeave SavedWhole
CHECK_DEADLOCK FALSE
