SPECIFICATION IoSpec
CONSTANTS
  Workers = {w1, w2}
  NoWorker = NoWorker
  MaxHandles = 2
  MaxSteps = 3
  Clients = {c1, c2}
  Delays = {1}
  MaxArms = 2
INVARIANTS LoopKept SendersDone AccessExclusive NotifiesRightly
PROPERTIES HomingFinishes TimersReturn TimersFire
