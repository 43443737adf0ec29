SPECIFICATION Spec
CONSTANTS
  r1 = r1
  r2 = r2
  Threads = {r1, r2}
  None = None
  Offered <- Options
  Defaults <- MCDefaults
  MaxChanges = 3
  MaxUploads = 2
  MaxCuts = 1
INVARIANTS FileReads SettingsHold InstallsOwn UploadRemoved
PROPERTY UploadsEnd
CHECK_DEADLOCK FALSE
