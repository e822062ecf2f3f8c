SPECIFICATION Spec
CONSTANTS
  Codes = {200, 302, 404}
  MaxBody = 2
  MaxBytes = 2
  MaxHeads = 2
  Https = TRUE
  NONE = NONE
INVARIANT DownloadIsASample
CHECK_DEADLOCK FALSE
