SPECIFICATION Spec
CONSTANTS
  Unset = Unset
  Setups <- MCSetups
  Answers <- MCAnswers
  Branches = {"main", "side"}
  MaxChanges = 2
  MaxTries = 3
  Files = {"t", "n"}
  NewFiles = {"n"}
  Trees <- MCTrees
  Calls = {"c1", "c2"}
  MaxEdits = 1
  MaxCalls = 3
  Workers = 2
INVARIANT StartsWhole
INVARIANT InitKeepsWhatAnswered
INVARIANT TokensAreSafe
 
