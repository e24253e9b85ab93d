SPECIFICATION Spec
CONSTANTS
  Profile = {p1, p2}
  Revision = {r1, r2}
  Target = {t1, t2}
  Decision = {d1, d2}
  Host = {h1}
  Pattern = {x1}
  Wildcards = {x1}
  Covers <- CoversAll
  Port = {o1}
  Worker = {w1}
  Execution = {e1}
  Terms = {TRUE, FALSE}
  MaxValidations = 2
  MaxByHand = 1
  MaxScoped = 1
  None = None
SYMMETRY Symmetry
CONSTRAINT Apart
INVARIANTS EndedNeverAllows Provenance OneOwner
PROPERTY ActiveOnly
CHECK_DEADLOCK FALSE
