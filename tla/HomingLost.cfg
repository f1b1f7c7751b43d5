SPECIFICATION HomingSpec
CONSTANTS
  Workers = {w1, w2}
  NoWorker = NoWorker
  MaxHandles = 2
  MaxSteps = 2
PROPERTY HomingCompletes
