SPECIFICATION Spec
CONSTANTS
  Nodes <- GrammarNodes
  Grammars <- AllGrammars
  Samples <- TagSamples
  ExactRules <- ArguedRules
  ListedAsSafe <- ModernOrObsolete
INVARIANT SubtagsStayWhole
CHECK_DEADLOCK FALSE
