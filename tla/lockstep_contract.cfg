SPECIFICATION Spec
CONSTANTS
  NTicks = 2
  FaultSets = {{"slow"}}
  OddTypes = {}
INVARIANT ContractCodes
