SPECIFICATION FairSpec
CONSTANTS
  NumPieces = 2
  Width = 2
  Configurations <- MCConfigurations
INVARIANT TypeOK
INVARIANT AnswersAreWhole
INVARIANT EffortGoesDown
PROPERTY RungDiscipline
PROPERTY CallContract
PROPERTY CallEnds
