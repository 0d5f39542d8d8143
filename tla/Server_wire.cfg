CONSTANTS
    a1 = a1
    a2 = a2
    a3 = a3
    NoAgent = NoAgent
    Agents <- TwoAgents
    Tasks <- OneTask
    MaxConcurrentTasks = 2
    SkillMatch <- AllMatch
    Priority <- LaterIsUrgent
    AutoReview <- OneTask
    Similar <- NoneSimilar
    MaxDebates = 1
    MaxRounds = 2
    MaxInFlight = 3
CHECK_DEADLOCK FALSE
SPECIFICATION Spec
SYMMETRY AgentSymmetry
INVARIANTS TypeOK Consistent InProgressIsHeld QueuedHasNoOwner
PROPERTIES ReportedWorkIsKept
