SPECIFICATION Spec
CONSTANTS
  None = None
  w1 = w1 w2 = w2
  k1 = k1 k2 = k2 k3 = k3 k4 = k4
  c1 = c1 c2 = c2
  p1 = p1 p2 = p2
  adm = adm ann = ann
  Workers = {w1, w2}
  Names = {adm, ann}
  Admins = {adm}
  Pwds = {p1}
  Codes = {c1}
  Cookies = {k1, k2}
  MaxAuthorId = 2
  MaxSessionId = 1
  Acts = {"Register", "Activate", "ConfirmAuthor", "Logout"}
  Ageing = TRUE
SYMMETRY Symmetry
INVARIANTS TypeOK RightsEarned ActivationConfirmed CookieBindsAuthor
PROPERTY ImplementsLifecycle
