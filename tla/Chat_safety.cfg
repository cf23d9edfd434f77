SPECIFICATION Spec
CONSTANTS
  alice = alice
  bob = bob
  w1 = w1
  w2 = w2
  Request = {r1, r2, r3, r4}
  User = {alice, bob}
  Profile = {alice}
  Workspace = {w1, w2}
  Place <- MCPlace
  Source = {"web"}
  Sent = {"web", "fax"}
  Limit <- MCLimit
SYMMETRY Symmetry
INVARIANTS
  TypeOK
  SentOrderIsListedOrder
  AnsweredIsListed
  ConversationsNewestFirst
CHECK_DEADLOCK FALSE
