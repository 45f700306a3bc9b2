SPECIFICATION Spec
CONSTANTS
  u1 = u1
  u2 = u2
  u3 = u3
  u4 = u4
  a = a
  Acap = Acap
  b = b
  c = c
  Users = {u1, u2, u3, u4}
  Unknown = {nobody}
  Words = {a, Acap, b, c}
  Lower <- LowerCase
  NotText = NotText
  Corpora <- SomeCorpora
  Rows <- NewAddresses
  Idf <- SomeIdf
  MaxResults = 2
INVARIANTS
  TypeOK
  NobodyDropped
  SharersFirst
  TwinOnTop
CHECK_DEADLOCK FALSE
