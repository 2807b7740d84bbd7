SPECIFICATION Spec
CONSTANTS
  p1 = p1
  p2 = p2
  r1 = r1
  r2 = r2
  Nil = Nil
  Conns <- MCConns
  RunIds = {r1, r2}
  MaxVersion = 2
  MaxInterruptions = 2
INVARIANTS NoStrayTransaction
PROPERTIES CommitsAreStatements AnswersAreTrue
SYMMETRY MCSymmetry
