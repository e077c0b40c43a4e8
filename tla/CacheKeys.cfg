\* Queries of the commands that share a cache key.
SPECIFICATION BrokerSpec
CONSTANTS
  Client = {c1, c2}
  Query <- MCSharedQuery
  PrefixOf <- MCPrefixOf
  MaxSize = 2
  Ttl = 2
  CallTimeout = 2
  Nothing = Nothing
INVARIANTS AnswersWhatIsAsked
CHECK_DEADLOCK FALSE
