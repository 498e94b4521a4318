\* Trigger mail sent to a session that is finishing its turn.
CONSTANTS
    Turns = {t1, t2}
    NoTask = NoTask
    Loop = loop
    Background = {app}
    Starters = {}
    UserInputs = {u1}
    ResponseItems = {}
    Mails = {m1}
    TriggerMails = {m1}
    MaxAborts = 0
    MaxCompacts = 0
SPECIFICATION FairSpec
PROPERTIES
    TriggerMailDelivered
\* A session with nothing left to do waits for the next submission.
CHECK_DEADLOCK FALSE
