SPECIFICATION FairSpec
CONSTANTS
  Senders = {s1, s2}
  Urls = {u1, bad}
  BadUrls = {bad}
  Accounts = {a1, a2}
  None = None
  MaxFaults = 3
INVARIANTS OneConnection
PROPERTIES DeadClientLeaves
