CONSTANTS
    d1 = d1  d2 = d2  k1 = k1  u1 = u1  s1 = s1
    a1 = a1  a2 = a2  c1 = c1  h1 = h1  welcome = welcome
    None = None
    Commands = {d1}
    KeyOf <- NoKeys
    Users = {u1}
    UserOf <- OneUser
    Names = {welcome}
    StoryNameOf <- AskForWelcome
    Stories = {s1}
    NameOf <- SameName
    Acts <- OneStory
    Sweepers = {a1}
    Clicks = {c1}
    ClickUser <- ClicksOfOneUser
    Hooks = {h1}
    Rewind = 1
    MaxActs = 3
    MaxCrashes = 1
SPECIFICATION Spec
CHECK_DEADLOCK FALSE
INVARIANTS TypeOK AtMostOneEmailPerStep
PROPERTIES FinishedRunsStayPut UnsubscribedUsersFallSilent SweepHonoursWait
