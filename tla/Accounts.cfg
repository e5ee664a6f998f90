\* Two requests at a time on two organisations, accounts and sessions.
SPECIFICATION Spec
CONSTANTS
  Handlers = {h1, h2}
  Emails = {e1, e2}
  MaxOrganisations = 2
  MaxUsers = 2
  MaxSessions = 2
  SessionTTL = 1
  BatchSize = 1
  MaxTime = 1
  None = None
SYMMETRY MCSymmetry
INVARIANTS
  OrganisationsComplete
  EmailIdentifiesUser
  DeadTokensStayDead
  ReadsStayInOrganisation
PROPERTY SessionsEndForAReason
