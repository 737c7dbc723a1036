CONSTANTS
  ada = ada
  bob = bob
  Account = {ada, bob}
  GraphAccount = {bob}
  MaxLen = 5
  MaxEdits = 1
  MaxFaults = 2
SPECIFICATION RemovalSpec
INVARIANTS
  RemovalTypeOK
  EchoesCostFailures
  TaggedIsNoOrigin
  ReconcileRemovesEchoes
  RemovalIsComplete
VIEW LiveState
