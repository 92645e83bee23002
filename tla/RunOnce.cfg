SPECIFICATION Spec
CONSTANT Callers = {t1, t2, t3, t4}
INVARIANTS CallbackAtMostOnce ReturnedMeansDone
PROPERTY CallReturns
