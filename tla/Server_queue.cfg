CONSTANTS
    a1 = a1
    a2 = a2
    a3 = a3
    NoAgent = NoAgent
    Agents <- TwoAgents
    Tasks <- TwoTasks
    MaxConcurrentTasks = 2
    SkillMatch <- NoneMatches
    Priority <- LaterIsUrgent
    AutoReview <- TwoTasks
    Similar <- NoneSimilar
    MaxDebates = 0
    MaxRounds = 1
    MaxInFlight = 1
CHECK_DEADLOCK FALSE
SPECIFICATION FairSpec
INVARIANTS ReadyMeansIdle
PROPERTIES QueueIsServed WorkAsPromised
