SPECIFICATION Spec
CONSTANTS
  NaN = NaN
  PosInf = PosInf
  NegInf = NegInf
  Garbage = Garbage
  u1 = u1
  u2 = u2
  u3 = u3
  r1 = r1
  r2 = r2
  r3 = r3
  here = here
  away = away
  Users = {u1, u2, u3}
  Rooms = {r1, r2, r3}
  Unknown = {nobody}
  Places = {here, away}
  NoPlace = NoPlace
  PlaceOf <- Start
  MovesTo <- Rows
  OwnerOf <- Owners
  NoOwner = NoOwner
  Unreadable = {u3}
  Scores <- SomeScores
  Limit = 2
  MaxLikes = 2
INVARIANTS
  TypeOK
  BestNotLeftOut
  AnswerIsRanking
CHECK_DEADLOCK FALSE
