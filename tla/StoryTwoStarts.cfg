CONSTANTS
    d1 = d1  d2 = d2  k1 = k1  u1 = u1  s1 = s1
    a1 = a1  a2 = a2  c1 = c1  h1 = h1  welcome = welcome
    None = None
    Commands = {d1, d2}
    KeyOf <- NoKeys
    Users = {u1}
    UserOf <- OneUser
    Names = {welcome}
    StoryNameOf <- AskForWelcome
    Stories = {s1}
    NameOf <- SameName
    Acts <- OneStory
    Sweepers = {a1}
    Clicks = {}
    ClickUser <- ClicksOfOneUser
    Hooks = {}
    Rewind = 1
    MaxActs = 3
    MaxCrashes = 0
SPECIFICATION Spec
CHECK_DEADLOCK FALSE
INVARIANTS ARunSurvives
