SPECIFICATION FairSpec
CONSTANTS
  Tabs = {t1}
  LoginRoles = {"investigator", "forensic_analyst", "legal_reviewer", "admin"}
  NoToken = NoToken
  MaxLogins = 2
  MaxInFlight = 1
INVARIANTS
  ForbiddenOnlyAfterSwitch
PROPERTIES
  UnauthorizedOnlyByUrl
  SessionEndsForCause
  EveryRouteSettles
