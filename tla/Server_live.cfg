CONSTANTS
    a1 = a1
    a2 = a2
    a3 = a3
    NoAgent = NoAgent
    Agents <- TwoAgents
    Tasks <- OneTask
    MaxConcurrentTasks = 2
    SkillMatch <- OneMatches
    Priority <- LaterIsUrgent
    AutoReview <- OneTask
    Similar <- NoneSimilar
    MaxDebates = 1
    MaxRounds = 1
    MaxInFlight = 1
CHECK_DEADLOCK FALSE
SPECIFICATION FairSpec
PROPERTIES GoneAgentsLeave OrphansAreRequeued
