SPECIFICATION Spec
CONSTANTS
  Slugs = {a}
  Threads = {t, u}
  Requests = {r}
  MaxVersion = 2
  NoRows = NoRows
  Nobody = Nobody
  a = a
  t = t
  u = u
SYMMETRY ThreadSymmetry
INVARIANT TypeOK
INVARIANT CommittedIsWhole
INVARIANT AnswersAreWhole
PROPERTY AnswersNeverGoBack
PROPERTY ImplementsStore
