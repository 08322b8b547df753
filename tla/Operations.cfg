SPECIFICATION OpsSpec
CONSTANTS
    Pid = {1, 2}
    Caller = {c1}
    None = None
    MaxFaults = 2
    RemindAfter = 1
    Horizon = 1
PROPERTIES
    PollTells
    NoStorm
    OutageTold
