\* Two mails, a mail and a page, two pages, or one of these and a death.
CONSTANTS
  s1 = s1  s2 = s2  p1 = p1  m1 = m1  m2 = m2  m3 = m3  None = None
  Sessions <- Connections
  Pages <- Threads
  Texts <- Mails
  Untitled <- NoTitle
  Lists <- OldMailboxes
  MaxMails = 2
  MaxCrashes = 1
  MaxRcpts = 2
  MaxEvents = 2
SPECIFICATION FairSpec
INVARIANTS DeliveredKept RelayedOnce
PROPERTIES PageEndsOnlyIf LoopsEnd
CHECK_DEADLOCK FALSE
