\* Two markets, three clicks that start requests, two changes of the server.
CONSTANTS
  m1 = m1
  m2 = m2
  Markets = {m1, m2}
  NoMarket = NoMarket
  Given = {"blank", "pad"}
  Own = {m1}
  Closing = {m1}
  Outcomes = {"YES"}
  MaxSteps = 3
  MaxChanges = 2
SPECIFICATION Spec
CHECK_DEADLOCK FALSE
INVARIANTS
  ReadYourWrites
  PageShowsMarket
  LabelsAgree
PROPERTY ResolutionAppears
