SPECIFICATION Spec
CONSTANTS
  Nodes <- GrammarNodes
  Grammars <- AllGrammars
  Samples <- ObsoleteSamples
  ExactRules <- ArguedRules
  ListedAsSafe <- ModernOrObsolete
INVARIANT OrderedChoiceIsSafe
CHECK_DEADLOCK FALSE
