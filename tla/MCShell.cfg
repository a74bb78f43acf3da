\* The shell ends, so no step need be left.
CONSTANTS
  MaxDigits = 1
  MaxLine = 2
  MaxText = 6
  MaxFault = 2
  Lines <- MCLines
  Arguments <- MCArguments
  Quit <- MCQuit
  Help <- MCHelp
  Listing <- MCListing
SPECIFICATION Spec
VIEW MCView
INVARIANTS SeparatorsSeparate QuotedTextsReadBack
INVARIANTS ShellAgreesWithLexer CommandsAreBetweenStatements ExitStatusIsRight
CHECK_DEADLOCK FALSE
