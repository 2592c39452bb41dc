SPECIFICATION MCSpec
CONSTANTS
  Chunk = 2
  MaxBytes = 5
  MaxClose = 2
  Services = {s1, s2}
  Keys = {k1, k2}
  Values = {v1, v2}
  MaxOps = 3
  Nil = Nil
  States = {s1, s2}
  Timeout = 3
  Interval = 1
  Timers = {w1, w2}
  Slots = {1, 2, 3, 4}
  NoTimer = NoTimer
  Bytes = {b0, b1}
  IniSize = 1
  Spare = 2
  Limits = {0, 2}
  Word = 8
  Room = 4
  Junk = Junk
INVARIANTS
  TypesOK
  FlightApart
  NothingStuck
  CloseFlushes
PROPERTIES
  RefinesStream
  Drains
  RefinesMap
  LockFreed
  ArmedOnStall
  StallInterrupted
  TimersSound
  RefinesFifo
CHECK_DEADLOCK FALSE
