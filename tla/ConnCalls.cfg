SPECIFICATION FairSpec
CONSTANTS
  Calls = {c1, c2}
  Cap = 1
  MaxAnswers = 2
  MaxEvents = 2
CONSTRAINT FewEvents
INVARIANTS
  SettledOnce
  BegunIsSettled
  NothingLeaks
  AnswersWin
PROPERTIES
  CallReturns
