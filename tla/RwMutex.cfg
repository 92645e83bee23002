SPECIFICATION Spec
CONSTANTS
  Threads = {t1, t2, t3, t4}
  Nobody = Nobody
INVARIANTS MutualExclusion CountsReaders FirstReaderWaitsForWriter
PROPERTY SomebodyGetsIn
