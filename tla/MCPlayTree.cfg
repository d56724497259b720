SPECIFICATION FairSpec
CONSTANTS
  Nodes <- MCNodes
  Root = "root"
  Files <- MCFiles
  Kind <- MCKind
  ListOf <- MCListOf
  Content <- MCContent
  Trees <- MCTrees
  MaxCommands = 3
  MaxDepth = 4
  Values = {"default", "low", "high"}
INVARIANTS
  LevelsBalanced
  IteratorInTree
  OptionsAsListed
  PlaysAsAsked
  AcceptedStepPlays
PROPERTY PlayerGoesOn
CHECK_DEADLOCK FALSE
