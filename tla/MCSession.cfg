SPECIFICATION FairSpec
CONSTANTS
  Users = {"ann", "bob"}
  Nobody = "nobody"
  Registered = {"ann"}
  Calls = {"c1", "c2"}
  MaxTokens = 5
INVARIANTS TypeOK ExecutedAtMostOnce SessionOfOneUser ActsForItsUser
PROPERTIES LogoutSticks CallAdvances CallEnds
