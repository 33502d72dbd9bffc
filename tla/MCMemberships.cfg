SPECIFICATION FairSpec
CONSTANTS
  Requests = {q1, q2}
  Orgs = {org}
  OtherOrgs = {other}
  Registrars = {library, firm}
  Approved = {library}
  NoRegistrar = noregistrar
  NoOrg = noorg
  MaxRequests = 3
INVARIANTS MembershipInv SponsorshipHasFolder ReadOnlyIsInactive AccessRulesAgree ListedOpens WarnedOfTheEnd
PROPERTIES ConfirmedStays ExpiredEnds
CHECK_DEADLOCK FALSE
