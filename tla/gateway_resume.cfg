CONSTANTS
  g1 = g1  g2 = g2  s1 = s1  s2 = s2  f1 = f1
  NoSession = NoSession  NoFile = NoFile  Original = Original  None = None
  Goals = {g1, g2}
  Sessions = {s1, s2}
  Files = {f1}
  Invocations = {1, 2}
  SessionOf <- SessionsOfGoals
  CallsOf <- CallsOfGoals
  MaxCrashes = 1
SPECIFICATION Spec
PROPERTY SessionGrantHolds
