CONSTANTS
    AgentReplies = {r1}
    TemplateSends = {t1}
    Workers = {p1, p2}
    MaxTries = 2
    MaxRepublished = 1
    MaxMishaps = 1
    NoReplyRules = {1, 2}
    Delay <- MCDelay
    TimerHosts = {p1, p2}
    MaxClock = 4
    MaxHostCrashes = 1
    Configs <- MCConfigs
    TemplateEditors = {p1, p2}
    Bodies = {"x", "y"}
    MaxMade = 2
    MaxBroken = 1
    Instances = {p1, p2}
    MaxRotations = 3
    MaxLostUpdates = 1
    Accounts = {u1, u2, u3}
    Founders = {u1, u2}
    RoleSets <- MCRoleSets
    MaxChanges = 3
    Members = {1, 2, 3}
    Teams = {t1, t2}
    Pickers = {p1, p2}
    Patchers = {p1, p2}
    MaxPicks = 3
    MaxEdits = 2
    Gateways = {p1, p2}
    Agents = {a1}
    MaxWrites = 2
    MaxStreams = 3
    CrmRequests = {p1, p2}
    Tags = {x, y}
    TagLimit = 1
    MaxRows = 2
    RuleEditors = {p1, p2}
    LastNode = 2
    StepCap = 3
    FlowMessages = {p1, p2}
    MaxSessions = 2
    Clerks = {p1, p2}
    MaxLinkEdits = 2
    MaxOrderFaults = 1
    DeskTasks = {x, y}
    ReminderHosts = {p1, p2}
    MaxTaskEdits = 2
    MaxReminderFaults = 1
SPECIFICATION MCDeskSpec
SYMMETRY TwoOfAKind
INVARIANTS
    NoDispatchVanishes
    NoReplyRunsOnce
    TwinsAgree
    TemplatesAgree
    StaleTokenIsExplained
    RoleStoresAgree
    RotationIsFair
    
    OptOutStands
    HalfEditedRulesDoNothing
    OneSessionSpeaks
    OneOutcome
    RemindedOnce
PROPERTIES
    DispatchImplementsSendClaim
CHECK_DEADLOCK FALSE
