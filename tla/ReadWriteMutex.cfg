\* Four threads that read and write at will, read locks not nested.
CONSTANTS
  Threads = {t1, t2, t3, t4}
  MaxDepth = 1
SPECIFICATION FairSpec
INVARIANT TypeOK
INVARIANT MutualExclusion
INVARIANT CountersExact
INVARIANT NoLostWakeup
PROPERTY WriterPreference
PROPERTY ImplementsReadersWriters
PROPERTY SomeWriterGetsIn
PROPERTY ReadersGetInOnceWritersStop
