SPECIFICATION Spec
CONSTANTS
  Proc = {p1, p2, p3}
  Tables <- TheTables
INVARIANTS TypeOK ReadyHasTables MadeInOrder IndexGone LateComersServed
PROPERTY SomeServed
