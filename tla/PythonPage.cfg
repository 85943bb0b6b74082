SPECIFICATION PageSpec
CONSTANTS
  Tokens = {k1, k2, k3}
  Requests = {q1, q2}
  Lifetime = 1
  MaxTime = 1
  None = None
  Runs = {r1, r2}
  Page = Page
  Texts <- MCTexts
  Limit = 2
SYMMETRY Symmetry
INVARIANTS SignedOutStaysOut SessionsAgree PaneIsFaithful
