SPECIFICATION Spec
CONSTANTS
  Line <- Lines
  Model = {"m1", "m2"}
  Offer <- Offers
  Start <- Starts
  MaxLines = 3
  MaxInterrupts = 2
INVARIANTS EachLineServesOnce SettingsWereChosen
 
CHECK_DEADLOCK FALSE
