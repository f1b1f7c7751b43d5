SPECIFICATION Spec
CONSTANTS
  Senders = {s1}
  TrySenders = {s1}
  Caps = {1}
  MaxSends = 1
INVARIANT ReceiverWoken
