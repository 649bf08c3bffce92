CONSTANTS
  Client = {c1, c2}
  MaxClicks = 3
  MaxChats = 2
  NONE = NONE
SPECIFICATION FairSpec
INVARIANTS ChatPageIsLoggedIn NoChatIsMissed WritersAreReadInOrder
PROPERTIES LoginEnds EveryChatIsShown
CHECK_DEADLOCK FALSE
