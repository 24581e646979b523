\* Two gateways, two types of one quota, one edit, one failure and one loss of data.
SPECIFICATION FairSpec
CONSTANTS
  g1 = g1
  g2 = g2
  prompt = prompt
  total = total
  Gateways <- TwoGateways
  Types <- TwoTypes
  MaxConsumed = 2
  MaxEdits = 1
  MaxFaults = 1
  MaxLosses = 1
INVARIANT StatusIsReal
INVARIANT ChargesKept
PROPERTY StatusMonotone
PROPERTY StatusConverges
