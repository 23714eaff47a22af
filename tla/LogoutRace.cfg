SPECIFICATION MCSpec
CONSTANTS
  Calls = {1, 2}
  MaxTokens = 3
  MaxAgings = 0
  MaxFaults = 0
INVARIANT LogoutRevokesFamily
