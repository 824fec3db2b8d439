CONSTANTS
    t = t
    k = k
    r = r
    p = p
    a = a
    b = b
    c1 = c1
    c2 = c2
    Instance = {a}
    First = a
    Caller = {c1, c2}
    Turn = {t}
    Control = {k}
    Reply = {r}
    Prompt = {p}
    ReplyTo <- MCReplyTo
    MaxGeneration = 2
    MaxRebinds = 1
    MaxIntents = 2
SPECIFICATION Spec
SYMMETRY Symmetry
INVARIANT SentOnce
INVARIANT QuiescenceIsReal
CHECK_DEADLOCK FALSE
