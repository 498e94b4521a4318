\* A background caller that also aborts turns and starts idle work.
CONSTANTS
    Turns = {t1, t2}
    NoTask = NoTask
    Loop = loop
    Background = {ext}
    Starters = {ext}
    UserInputs = {u1}
    ResponseItems = {r1}
    Mails = {m1}
    TriggerMails = {m1}
    MaxAborts = 1
    MaxCompacts = 1
SYMMETRY Symmetry
SPECIFICATION Spec
INVARIANTS
    ActiveTaskIsLive
    NoDuplicate
\* A session with nothing left to do waits for the next submission.
CHECK_DEADLOCK FALSE
