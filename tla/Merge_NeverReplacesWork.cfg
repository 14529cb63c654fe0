SPECIFICATION MCSpec
CONSTANTS
    Clients = {c1, c2}
    Branches = {"main", "b1", "b2", "b3"}
    Reviews = {"low", "mid", "top"}
    Stack <- MCStack
    Trunk = "main"
    Works = {"w1", "w2", "w3", "w4", "w5"}
    Edit = "edit"
    Merge = "merge"
    None = "none"
    Clash <- MCClash
    Texts = {"old"}
    Edited = "old"
    SuggestedOn = "low"
    Asked <- MCAsked
    Sent <- MCSent
    InitReview <- MCReview
    InitTip <- MCTip
    InitChange <- MCChange
    InitFile <- MCFile
    MaxCommits = 8
    MaxCommands = 1
    MaxFaults = 0
PROPERTY NeverReplacesWork
CHECK_DEADLOCK FALSE
