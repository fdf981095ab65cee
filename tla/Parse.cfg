SPECIFICATION Spec
CONSTANTS
  Nodes <- GrammarNodes
  Grammars <- AllGrammars
  Samples <- AllSamples
  ExactRules <- ArguedRules
  ListedAsSafe <- ModernOrObsolete
INVARIANTS ReplyIsItsSpan NoLeftRecursion TheParsersAgree OrderedChoiceIsExact
PROPERTY ParseEnds
CHECK_DEADLOCK FALSE
