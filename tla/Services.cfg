\* A conversation of each bridge with three messages; four configurations of
\* three nodes with reloads, health changes and dry runs; two clients of the
\* broker with four queries and room for two entries.
SPECIFICATION ServicesSpec
CONSTANTS
  DingTalk = {"ding"}
  Feishu = {"lark"}
  Message = {m1, m2, m3}
  MaxTurns = 1
  Expire = 1
  Life = 3
  Margin = 1
  a = a
  b = b
  c = c
  Node = {a, b, c}
  None = None
  Config <- MCConfig
  Context <- MCContext
  Cycle = 6
  Client = {c1, c2}
  Query <- MCQuery
  PrefixOf <- MCPrefixOf
  MaxSize = 2
  Ttl = 2
  CallTimeout = 2
  Nothing = Nothing
SYMMETRY Symmetry
INVARIANTS TokenValid SplitSound DecisionSound SizeBounded AnswerFresh AnswersOwnCall
PROPERTIES ConversationSpec RotatesAlone
