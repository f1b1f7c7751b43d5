SPECIFICATION TimersSpec
CONSTANTS
  Clients = {c1}
  Delays = {0, 1}
  MaxArms = 1
PROPERTY OneshotFires
