SPECIFICATION Spec
CONSTANTS
  Screens = {"list", "panel", "item", "view", "share", "backup", "users", "backlog", "settings"}
  i1 = i1
  i2 = i2
  i3 = i3
  k1 = k1
  k2 = k2
  c1 = c1
  c2 = c2
  r1 = r1
  r2 = r2
  Items <- MCItems
  Mine <- MCMine
  KindOf <- MCKindOf
  Kinds = {k1, k2}
  Named <- MCNamed
  Stale <- MCStale
  InRange <- MCInRange
  AllKinds = AllKinds
  NoText = NoText
  Text = Text
  None = None
  Blocked = Blocked
  Columns = {c1, c2}
  PageSizes = {1, 2}
  DEFAULT_PAGE_SIZE = 1
  Entries <- MCEntries
  Lists = {"magazines", "firearms", "plain"}
  MaxClicks = 3
  MaxOthers = 1
  Rows <- MCRows
  NoRow = NoRow
  Panels = {"photos", "documents", "rules", "history", "sessions", "log", "attachments", "defaults"}
  MaxPosts = 3
  MaxOpenings = 2
  MaxOutside = 1
  FormKinds = {"magazine", "firearm", "accessory", "ammo"}
  Guns = {g1, g2}
  NoGun = NoGun
  NextStart <- MCNextStart
  MaxActs = 5
  MaxItemOthers = 1
  Documents = {d1, d2}
  NoDocument = NoDocument
  MaxViews = 3
  Users = {u1, u2}
  NoUser = NoUser
  MaxShares = 5
  MaxRequests = 3
  MaxVisits = 2
  Accounts = {a1, a2}
  MaxToggles = 4
  DueRows = {b1, b2}
  MaxChecks = 5
  MaxDueChanges = 2
  MaxSwitches = 4
SYMMETRY MCRowSymmetry
CHECK_DEADLOCK FALSE
INVARIANTS
  ListIsSound
  PanelsAreTrue
  ItemPageIsTrue
  DialogsAreTrue
  AdminPagesAreTrue
PROPERTIES
  ViewStands
  AnswersTakeOnlyTheirOwn
