SPECIFICATION MCSpec
CONSTANTS
  Calls = {1, 2}
  MaxTokens = 3
  MaxAgings = 1
  MaxFaults = 1
INVARIANTS
  OneUsableToken
  ReuseRevokesFamily
  LogoutRevokesFamilyUnlessOvertaken
PROPERTIES
  EveryCallEnds
  ImplementsTokenFamily
