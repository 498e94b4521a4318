\* The submission loop and an app-server caller that steers and sends mail,
\* under fair scheduling.
CONSTANTS
    Turns = {t1, t2}
    NoTask = NoTask
    Loop = loop
    Background = {app}
    Starters = {}
    UserInputs = {u1, u2}
    ResponseItems = {}
    Mails = {m1}
    TriggerMails = {m1}
    MaxAborts = 1
    MaxCompacts = 0
SPECIFICATION FairSpec
INVARIANTS
    LiveTaskIsActive
    OneTerminalEvent
    StartFindsNoTask
    SteeredInputKept
PROPERTIES
    LoopReturns
    SteeredInputHandled
\* A session with nothing left to do waits for the next submission.
CHECK_DEADLOCK FALSE
