SPECIFICATION FairSpec
CONSTANTS
  g1 = g1
  g2 = g2
  prompt = prompt
  total = total
  Gateways <- TwoGateways
  Types <- OneType
  MaxConsumed = 2
  MaxEdits = 0
  MaxFaults = 0
  MaxLosses = 1
PROPERTY SyncRestoresUsage
