SPECIFICATION AdminSpec
CONSTANTS
  Requests = {r1, r2}
  NoRequest = nobody
  Folders = {home, shared, f1, f2, f3}
  NoFolder = nofolder
  Roots = {home, shared}
  Home = home
  Start = {f1, f2}
  Links = {l1}
  NoLink = nolink
  Orgs = {org}
  Registrars = {library, sponsor}
  Sponsors = {sponsor}
  Personal = personal
  MaxRequests = 3
SYMMETRY LibrarySymmetry
INVARIANTS LibraryInv CountsExact LinksPlaced
CHECK_DEADLOCK FALSE
