CONSTANTS
  Readers = {r1, r2, r3}
  Keys = {k1, k2, k3}
  Values = {v1, v2}
  None = None
SPECIFICATION Spec
INVARIANTS TypeOK SomeoneAwake
