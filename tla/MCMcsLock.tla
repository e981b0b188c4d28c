----------------------------- MODULE MCMcsLock -----------------------------
EXTENDS McsLock

CONSTANTS t1, t2, t3

MCThreads == {t1, t2, t3}
============================================================================
