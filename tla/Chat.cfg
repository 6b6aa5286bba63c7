SPECIFICATION Spec
CONSTANTS
  Conns = {c1, c2}
  None = none
  Targets = {c2}
  MaxRequests = 2
INVARIANTS OwnUnlessLate ListedAreOpen AnswersMatch
PROPERTIES RequestsAnswered
