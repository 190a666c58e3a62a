SPECIFICATION FairSpec
CONSTANTS
  a = a
  b = b
  m1 = m1
  m2 = m2
  l1 = l1
  l2 = l2
  en = en
  es = es
  Courses = {a, b}
  SlugOrder <- MCSlugOrder
  Entities = {m1, m2, l1, l2}
  Root = Root
  Bundles <- MCBundles
  Server = Server
  Cli = Cli
  MaxDeploys = 2
  MaxCrashes = 1
  Users = {u1}
  TitleOrder <- MCTitleOrder
  Lessons = {l1}
  Languages = {en, es}
  Offered <- MCOffered
  ReadingChoices <- MCReadingChoices
  None = None
  ActiveChoices <- MCActiveChoices
  Slots = {s1, s2}
INVARIANTS TypeOK ServedIsMirrored ActiveTree LastWordStands SelectedIsActive RowsAnchored
PROPERTIES SettledStays SoundIsServed
CHECK_DEADLOCK FALSE
