SPECIFICATION Spec
CONSTANTS
  i1 = i1
  i2 = i2
  tradeSettled = tradeSettled
  trade = trade
  AnyTopic = AnyTopic
  c1 = c1
  c2 = c2
  a1 = a1
  p1 = p1
  p2 = p2
  Ids <- MCIds
  Topics <- MCTopics
  Items <- MCItems
  Buckets <- MCBuckets
  BucketOf <- MCBucketOf
  SplitKey <- MCSplitKey
  Callers <- MCCallers
  Admins <- MCAdmins
  Passwords <- MCPasswords
  NoKey = NoKey
  ZeroKey = ZeroKey
  NoValue = NoValue
  NoId = NoId
  NoTopic = NoTopic
  NoPassword = NoPassword
  MaxKeys = 2
  MaxFaults = 1
SYMMETRY WebhookSymmetry
INVARIANT
  WebhooksSurvivePasswordChange
