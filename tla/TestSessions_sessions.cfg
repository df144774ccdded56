SPECIFICATION FairSpec
CONSTANTS
    NAttempts = 2
    Standard = {q1}
    Requests = {r1, r2}
    Job = job
    Mixes = {{"save"}, {"view", "reopen"}, {"mark", "extra"}}
    Marks = {1}
    Amounts = {1}
    NExtra = 1
    MaxGrants = 1
    MaxDeaths = 1
INVARIANTS
    TypeOK
    OneAttempt
    ScoreAddsUp
    AnswersCounted
PROPERTIES
    LateIsClosed
CHECK_DEADLOCK FALSE
