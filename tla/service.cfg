SPECIFICATION ServiceSpec
CONSTANTS
  None = None
  w1 = w1 w2 = w2
  k1 = k1 k2 = k2 k3 = k3 k4 = k4 c1 = c1 p1 = p1
  adm = adm ann = ann t1 = t1 x1 = x1 l1 = l1
  Workers = {w1}
  Names = {adm, ann}
  Admins = {adm}
  Pwds = {p1}
  Codes = {c1}
  Cookies = {k1, k2}
  MaxAuthorId = 2
  MaxSessionId = 2
  Acts = {"Register", "Activate", "ConfirmAuthor", "DeleteAuthor", "EditChannel"}
  Ageing = TRUE
  Titles = {t1}
  Texts = {x1}
  Places = {l1}
  MaxChannelId = 1
  MaxLocationId = 0
  MaxItems = 0
SYMMETRY Symmetry
INVARIANTS  ChannelsOfActivated
PROPERTIES LoginOwnsChannel  ImplementsPublishing
