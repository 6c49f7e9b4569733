CONSTANTS
  access = access
  product = product
  oldRule = oldRule
  SingleRec = {access}
  Keep2Rec = {product}
  OtherRec = {}
  MasterRec = {access, product}
  InactiveRec = {}
  Entity = {e1}
  MaxSeq = 5
SPECIFICATION Spec
PROPERTIES SettledNewestKept CompactedEnough
CHECK_DEADLOCK FALSE
