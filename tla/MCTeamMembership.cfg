\* Three users, two teams, three requests at once.
SPECIFICATION Spec
CONSTANTS
  u1 = u1  u2 = u2  u3 = u3  t1 = t1  t2 = t2  c1 = c1  c2 = c2
  q1 = q1  q2 = q2  q3 = q3  Null = Null
  Users = {u1, u2, u3}
  Teams = {t1, t2}
  Codes = {c1, c2}
  Requests = {q1, q2, q3}
SYMMETRY Symmetry
INVARIANTS TypeOK OneOwner
PROPERTIES OrphansComeFromLateJoins
