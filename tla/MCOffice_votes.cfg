CONSTANTS
    rev = rev
    ext = ext
    com = com
    NoTool = NoTool
    NoAction = NoAction
    Tools <- OneTool
    Catalog <- OneTool
    Risk <- RiskOf
    AlwaysManual = {}
    Threshold = 2
    Actions = {1}
    Calls = {1}
    Requests = {1, 2}
    Durable = TRUE
    MaxCrashes = 0
    ann = ann
    guest = guest
    Agents <- Assistants
    Colleague <- ann
    Outsider <- guest
    Offered = {"ask_availability", "ask_workload", "ask_task_status", "propose_meeting"}
    Grants <- TwoGrants
    NoContract = NoContract
    MaxForwards = 2
    MaxUpdates = 2
    Docs = {1, 2, 3}
    Wordings = {1, 2}
    Wordy = {1}
    Near = {1, 2}
    Syncs = {"s1", "s2"}
    Models = {"m1", "m2"}
    Limit = 2
    MaxChanges = 2
    MonthLengths <- ThreeMonths
    Starts = {1, 4, 8, 9}
    WindowOpens = 14
    WindowCloses = 20
    Turns = 16
    From = 19
    To = 22
    Fits <- TwoDeployments
    Untrusted <- FromOutside
    Keys = {"k1", "k2"}
    MaxRows = 2
    HeldTools = {"send"}
    MaxHeld = 2
    Shown = 1
    Values = {0, 1, 6}
    Days = 6
    Week = 2
    MinHistory = 3
    MinSeasonal = 2
    Nodes = {1, 2, 3, 4}
    LeafNode = 1
    Orphan = 0
    Trees <- ChainsAndLoops
    Groups = {"all", "eng", "pay"}
    Role = "pay"
    Nestings <- NestedGroups
    Imports <- SomeImports
    MaxAncestry = 3
    MaxDepth = 2
    Depth = 2
    Modes <- SomeModes
    Mappings <- SomeMappings
    Catalogue <- FiveTools
    Schemas <- SomeSchemas
    Nesting = 3
    Readings <- SomeReadings
    Deployments <- SomeDeployments
    WrittenCalls <- SomeCalls
    Attempts = 3
    MaxColleagueEdits = 2
SPECIFICATION OfficeSpec
CHECK_DEADLOCK FALSE
INVARIANT ExcellentVoteWins
