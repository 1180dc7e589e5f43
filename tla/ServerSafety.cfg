CONSTANTS
  s1 = s1
  s2 = s2
  s3 = s3
  w1 = w1
  w2 = w2
  ext = ext
  m1 = m1
  m2 = m2
  m3 = m3
  null = null
  nomsg = nomsg
  NoService = null
  NoMsg = nomsg
  Workers = {w1, w2}
  Weight <- MCWeight
  Boot = s1
  BootMsg = m1
  Services = {s1, s2, s3}
  Msgs = {m1, m2}
  Others = {ext}
  Monitor = s2
  NoCallback = {s3}
  Killable = {s2}
  MayAbort = FALSE
SPECIFICATION Spec
INVARIANTS
  QueueOwnership
  NothingStranded
  RefExact
  MemorySafe
  KernelAsserts
  MessageConserved
PROPERTY DeadStaysDead
CHECK_DEADLOCK FALSE
