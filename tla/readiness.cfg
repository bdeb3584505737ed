SPECIFICATION FairSpec
CONSTANTS
    Accounts = {home, a, c}
    Home = home
    Inactive = {c}
    Jobs = {j1, j2}
    Envs = {e1}
    Polls = {q1}
    Pool = 2
    Attempts = 2
    MaxFaults = 2
    None = None
INVARIANTS SweepAccounts ComparedWithLatest
PROPERTY PageSettles
CHECK_DEADLOCK FALSE
