SPECIFICATION Spec
CONSTANTS
  None = None
  w1 = w1 w2 = w2
  adm = adm ann = ann bob = bob
  t1 = t1 t2 = t2 x1 = x1 x2 = x2 p1 = p1 p2 = p2
  Workers = {w1}
  Names = {adm, ann}
  Admins = {adm}
  Titles = {t1, t2}
  Texts = {x1, x2}
  Places = {p1, p2}
  MaxChannelId = 2
  MaxLocationId = 2
  MaxItems = 2
  Failures = {"check1", "check2", "check3", "drop", "updName", "updDes", "byName", "insert", "locInsert", "locCheck", "locChannel", "locPosition", "show", "delCheck", "delChannel"}
SYMMETRY Symmetry
INVARIANTS TypeOK NoOrphans SavedAsReported  
PROPERTIES AuthorsOnly ImplementsRegistry
