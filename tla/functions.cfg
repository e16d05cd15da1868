SPECIFICATION Spec
CONSTANTS
  Images <- Both
  Length = 6
  Length2 = 2
INVARIANTS ProloguesFound ResultsArePrologues CandidateIsRun
