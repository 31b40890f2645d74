\* Up to four upstream events after the session frame, cut anywhere.
CONSTANTS
  Text = {"a", "b"}
  MaxLines = 12
SPECIFICATION RelaySpec
INVARIANTS StoredIsRebuilt 
