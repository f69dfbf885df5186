CONSTANTS
  Company = {"apple", "gme"}
  Period = {"FY", "Q1"}
  Request = {r1, r2}
  History = "all"
  FactsCarryFrame = {FALSE}
  Asked <- MCAsked
  Reported <- MCReported
  MaxFilings = 2
SPECIFICATION Spec
SYMMETRY Clients
INVARIANTS
  AnswersFaithful
  NeverGoesBack
  IndexIngested
PROPERTY ScreeningKeeps
