\* Two callers, two requests, two threads that close; two threads of a client and two calls; a
\* client that sends two requests and is told of three events.
SPECIFICATION WireSpec
CONSTANTS
  Workers = {w1, w2}
  Closers = {c1, c2}
  Frames <- AnswersAndJunk
  MaxId = 2
  Callers = {t1, t2}
  MaxCalls = 2
  MaxSid = 1
  MaxWire = 1
  None = None
  Requests = {q1, q2}
  Slots = 1
  MaxFrames = 2
  MaxBytes = 3
  MaxEvents = 3
INVARIANTS
  NobodyForgotten
  AnswersItsOwn
  NoGap
  AdmissionIsBack
PROPERTIES
  WakesTheOthers
  DeathWakesAll
  WriterEnds
CHECK_DEADLOCK FALSE
