CONSTANTS
  Threads = {p1, p2, c1, c2}
  Producers = {p1, p2}
  Consumers = {c1, c2}
  Values = {v1, v2}
  QLen = 2
  NoValue = NoValue

SPECIFICATION RoleSpec
INVARIANT TypeOK
INVARIANT RingConsistent
INVARIANT NoLostWakeup
PROPERTY FifoSpec
PROPERTY ValuesKeepFlowing
