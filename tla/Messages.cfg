SPECIFICATION Spec
CONSTANTS
  Telnet = {t1}
  Web = {w1}
  Senders = {p1}
  NoSession = NoSession
  MAXMESSAGE = 0
  MaxMsgs = 2
  MaxClears = 1
  MaxLogins = 2
INVARIANTS RightText FreshHead NoneSkipped OnceUnlessOverlap BlockedHasCause
PROPERTY Prompt
CHECK_DEADLOCK FALSE
