\* A line that starts with a semicolon is no comment.
SPECIFICATION Spec
CONSTANTS
  Alphabets = {{";", "a", "/", "newline"}}
  MaxLength = 4
  DollarQuotings = {TRUE}
CHECK_DEADLOCK FALSE
INVARIANTS
  CommentLinesAreIgnored
