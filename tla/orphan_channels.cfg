SPECIFICATION Spec
CONSTANTS
  None = None
  w1 = w1 w2 = w2
  adm = adm ann = ann bob = bob
  t1 = t1 t2 = t2 x1 = x1 x2 = x2 p1 = p1 p2 = p2
  Workers = {w1}
  Names = {adm, ann}
  Admins = {adm}
  Titles = {t1, t2}
  Texts = {x1}
  Places = {p1}
  MaxChannelId = 1
  MaxLocationId = 1
  MaxItems = 0
  Failures = {}
SYMMETRY Symmetry
PROPERTY ChannelsGoWithAuthor
