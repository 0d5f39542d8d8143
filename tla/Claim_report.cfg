CONSTANTS
    a1 = a1
    a2 = a2
    a3 = a3
    NoAgent = NoAgent
    Agents <- TwoAgents
    Tasks <- OneTask
    MaxConcurrentTasks = 2
    SkillMatch <- AllMatch
    Priority <- LaterIsUrgent
    AutoReview <- OneTask
    Similar <- NoneSimilar
    MaxDebates = 0
    MaxRounds = 1
    MaxInFlight = 2
CHECK_DEADLOCK FALSE
SPECIFICATION Spec
PROPERTY AssignedAgentMayReport
