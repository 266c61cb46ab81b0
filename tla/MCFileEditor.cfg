SPECIFICATION Spec
CONSTANTS
    Hosts = {h1, h2}
    NoLink = noLink
    MaxGen = 1
    Files = {f1, f2}
    NoDoc = noDoc
    NoQuestion = noQuestion
    MaxActs = 4
PROPERTIES
    EditsSurvive
    StaysOnItsServer
    RequestsAreAnswered
CHECK_DEADLOCK FALSE
