\* Short texts over four alphabets: strings and quoted names, comments,
\* dollar quotes, DELIMITER commands.
SPECIFICATION Spec
CONSTANTS
  Alphabets = {
    {";", "a", "quote", "dquote", "backtick", "backslash"},
    {";", "#", "-", "/", "*", " ", "quote"},
    {";", "$", "a", "1", "quote", "newline"},
    {";", "/", "D", " ", "quote", "newline"}}
  MaxLength = 5
  DollarQuotings = {FALSE, TRUE}
CHECK_DEADLOCK FALSE
INVARIANTS
  TypeOK
  LoadsTheStatements
PROPERTIES
  ScanAdvances
