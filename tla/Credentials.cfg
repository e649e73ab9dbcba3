SPECIFICATION Spec
CONSTANTS
  None = None
  p1 = p1
  p2 = p2
  t1 = t1
  r1 = r1
  q1 = q1
  q2 = q2
  Pairs <- TwoPairs
  Tokens <- OneToken
  Rotations <- OneRotation
  Requests <- TwoRequests
  Changes = 3
INVARIANTS
  TypeOK
  RotationsSettle
  UnauthorizedForAReason
