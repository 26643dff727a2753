SPECIFICATION StoreSpec
CONSTANTS
  s = s
  t = t
  o1 = o1
  o2 = o2
  a = a
  b = b
  None = None
  Pages = {a, b}
  Slugs = {s, t}
  Hosts = {h}
  Owners = {o1, o2}
  Visitors = {v1}
  Ttl = 1
  EdgeTtl = 1
  Delay = 1
  MaxEdits = 1
SYMMETRY MCSymmetry
INVARIANT OwnChangesShow
INVARIANT OldPagesGoAway
CHECK_DEADLOCK FALSE
