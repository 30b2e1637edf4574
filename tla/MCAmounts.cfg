SPECIFICATION AmountsSpec
CONSTANTS
  v1 = v1
  a1 = a1
  Variants = {v1}
  AddOns = {a1}
  Cents = {0, 101, 5000}
  Deltas = {0, 55}
  Assets <- FourAssets
  Quantities = {1, 2}
  MaxLines = 2
  Precision = 4
  Scale = 3
INVARIANTS AmountsAgree FairPrice PaidInFull
CHECK_DEADLOCK FALSE
