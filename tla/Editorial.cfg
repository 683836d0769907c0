SPECIFICATION FairSpec
CONSTANTS
  MaxRequests = 3
  MaxConnections = 2
  PostIds <- MCPosts
  TopicIds <- MCTopics
  Slugs = {a, b, c}
  NoSlug = NoSlug
  NoRow = NoRow
  NoTopic = NoTopic
  Keep = Keep
  InitialPosts <- MCInitialPosts
  InitialTopics <- MCInitialTopics
  InitialLinks <- MCInitialLinks
  Orders <- MCOrders
  p1 = p1
  p2 = p2
  p3 = p3
  t1 = t1
  t2 = t2
  t3 = t3
  a = a
  b = b
  c = c
INVARIANTS
  TopicsAreOneEdits
  OnlyFallbacksCollide
  KnotsHaveACause
PROPERTY EveryRequestEnds
