\* Replies of up to seven characters, cut at three and at four.
SPECIFICATION Spec
CONSTANTS
  DingTalk = {"ding"}
  Feishu = {}
  Message = {m1}
  MaxTurns = 1
  Expire = 1
  Life = 3
  Margin = 1
INVARIANTS PiecesFit
