SPECIFICATION GateSpec
CONSTANTS
  w1 = w1
  NoWallet = NoWallet
  Wallets <- OneWallet
  MaxChanges = 1
  MaxPresses = 0
  MaxFailures = 0
PROPERTY HolderGetsIn
CHECK_DEADLOCK FALSE
