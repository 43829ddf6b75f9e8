SPECIFICATION MethodSpec
CONSTANTS
  Owner = Owner
  Workers = {w1, w2, w3}
  MaxHeld = 3
  Overlapping = FALSE
INVARIANT FreedWithLast
