SPECIFICATION Spec
CONSTANTS
  Callers = {p1, p2}
  Donors = {d1}
  Channels = {email, sms}
  Week = 2
  MaxTime = 3
  MaxOps = 3
  MaxCrashes = 1
INVARIANTS
  RequestsStick
  MailHasConsentOnFile
  ThrottleHolds
CHECK_DEADLOCK FALSE
