CONSTANTS
  ann = ann  ben = ben  home = home  office = office  cafe = cafe
  None = None
  Members = {ann, ben}
  Addresses = {home, office, cafe}
  Browsers = {b1}
  Requests = {r1, r2}
  Tokens = {t1, t2, t3}
  InitialTables <- TwoAdmins
  MemberForms <- Forms
SPECIFICATION Spec
SYMMETRY SessionSymmetry
INVARIANTS TypeOK SessionsAuthenticated ConsoleUnlocked TokensPersonal AddressesProved
PROPERTIES EditsByConsoleOnly
