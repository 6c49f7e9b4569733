CONSTANTS
  access = access
  product = product
  oldRule = oldRule
  SingleRec = {}
  Keep2Rec = {product}
  OtherRec = {}
  MasterRec = {product}
  InactiveRec = {}
  Entity = {e1}
  MaxSeq = 6
SPECIFICATION Spec
PROPERTIES LastKept
CHECK_DEADLOCK FALSE
