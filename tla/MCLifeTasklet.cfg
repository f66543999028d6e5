SPECIFICATION Spec
CONSTANTS
    g1 = g1
    g2 = g2
    ep1 = ep1
    ctx1 = ctx1
    Groups = {g1, g2}
    Epolls = {ep1}
    Ioctxs = {ctx1}
    Threads = {t1}
    Setups <- TaskletSetups
    NULL = NULL
INVARIANTS
    TaskletMemory
