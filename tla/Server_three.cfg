CONSTANTS
    a1 = a1
    a2 = a2
    a3 = a3
    NoAgent = NoAgent
    Agents <- ThreeAgents
    Tasks <- OneTask
    MaxConcurrentTasks = 2
    SkillMatch <- AllMatch
    Priority <- LaterIsUrgent
    AutoReview <- OneTask
    Similar <- NoneSimilar
    MaxDebates = 2
    MaxRounds = 2
    MaxInFlight = 1
CHECK_DEADLOCK FALSE
SPECIFICATION Spec
SYMMETRY AgentSymmetry
INVARIANTS InProgressIsHeld ReviewIsPending
PROPERTIES HandoverThroughQueue CompletionIsEarned
