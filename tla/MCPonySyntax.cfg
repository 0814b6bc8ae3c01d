SPECIFICATION PartsSpec
CONSTANTS
  None = None
  MaxBytes = 4
  MaxParsed = 2
  symbols <- MCSymbols
  keywords <- MCKeywords
  camel <- MCcamel
  Letters <- MCLetters
  HexDigits <- MCHexDigits
  Sources <- MCSources
  Parsed <- MCParsed
  Trivia = {"TkWhitespace", "TkLineComment", "TkNestedComment"}
  NodeKinds = {"NdRef", "NdDot"}
  MaxNodes = 3
  MaxRules = 3
  Rules = {r1, r2, r3}
  Grammars <- MCGrammars
  MaxNesting = 2
SYMMETRY RuleSymmetry
INVARIANTS
  EveryByteIsInOneToken SymbolIsPonycs NewlineFormIsRight Lossless NodesBeginAtTokens
  ReportedIsCycle CleanIsAcyclic DepthIsBalanced StackIsBounded
PROPERTIES ArrayIsTree
