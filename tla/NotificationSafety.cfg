\* Two handlers at a time.
SPECIFICATION Spec
CONSTANTS
  w1 = w1
  w2 = w2
  n1 = n1
  n2 = n2
  n3 = n3
  s1 = s1
  s2 = s2
  s3 = s3
  None = None
  Users <- MCUsers
  Notifications <- MCNotifications
  Recipient <- MCRecipient
  Sockets <- MCSockets
  UserOf <- MCUserOf
  Workers <- MCWorkers
SYMMETRY AnySymmetry
INVARIANTS
  FreshCountArrives
PROPERTY
  OnceReadNeverUnread
