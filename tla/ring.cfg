SPECIFICATION Spec
CONSTANTS
  Item = {a, b, c}
  NoItem = NoItem
  Torn = Torn
  Capacity = 4
PROPERTY IsFifo
