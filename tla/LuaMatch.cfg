SPECIFICATION Spec
CONSTANTS
    Jobs <- MCJobs
    Answers <- MCAnswers
    LUA_MAXCAPTURES = 2
INVARIANTS FindMeans HitsMeant GsubText ErrorsMeant
CHECK_DEADLOCK FALSE
