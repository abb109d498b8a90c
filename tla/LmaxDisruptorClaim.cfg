SPECIFICATION Spec
CONSTANTS
  Capacity = 2
  Trades = 5
PROPERTY ConsumesItsTrade
