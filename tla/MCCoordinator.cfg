SPECIFICATION FairSpec
CONSTANTS
    Instances = {i1, i2}
    None = None
    MaxFaults = 1
INVARIANTS LossIsUnread
PROPERTIES DeposedStepsDown MemberAgain NoticedVacancyFilled ImplementsElection
CHECK_DEADLOCK FALSE
