\* Two mail pollers, a calendar poller and a request, over a mailbox of two messages
\* or three versions of a calendar.
CONSTANTS
  Nil = Nil
  t1 = t1
  t2 = t2
  MailPollers = {p1, p2}
  CalendarPollers = {p1}
  Callers = {c1}
  Senders = {c1}
  Docs <- MCDocs
  Unusable <- MCUnusable
  MaxMail = 2
  MaxMade = 1
  MaxCalls = 2
  MaxFaults = 1
SPECIFICATION InboundSpec
INVARIANTS
  NothingSkipped
  MailTakenOnce
  EtagMeansSynced
  SentIsNoted
PROPERTIES
  MailArrives
  FeedSettles
CHECK_DEADLOCK FALSE
