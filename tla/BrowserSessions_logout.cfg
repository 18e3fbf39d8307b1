SPECIFICATION SessionSpec
CONSTANTS
  Logins = {l1}
  Browser = {0, 1, 2}
  Earlier = {0}
  Orgs = {o1, o2}
  DefaultOrg = o1
  Roles = {analyst, viewer}
  Analyst = analyst
  NotMember = none
  AutoJoin = TRUE
  MayRevoke = FALSE
  MaxAdmin = 1
  MaxFailures = 1
INVARIANT LogoutRevokes
CHECK_DEADLOCK FALSE
