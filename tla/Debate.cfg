CONSTANTS
    Participants = {a1, a2}
    Topics = {t1}
    Positions = {p1, p2}
    Doubles <- ThreeBits
    One = 4
    Confidences = {0, 1, 4}
    Threshold <- ThreeBitThreshold
    MaxDebates = 1
    MaxRounds = 2
    MaxArguments = 5
CHECK_DEADLOCK FALSE
SPECIFICATION FairSpec
INVARIANTS TypeOK RoundsAreComplete RivalsOrderDecidesTiesOnly VerdictsCoverArguments
PROPERTIES ImplementsSessions ArguedDebatesEnd
