SPECIFICATION Spec
CONSTANTS
  Choices <- MCChoices
  SysFiles <- MCSysFiles
  UserFiles <- MCUserFiles
  OddTexts = {"odd"}
  Misread = "misread"
  LogDirs = {"/var/log/lanft/"}
  Wrong = Wrong
  None = None
  MaxStarts = 2
  MaxInputs = 2
  MaxFaults = 1
INVARIANTS TypeOK CliRunsAsTold GuiRunsAsStarted
PROPERTIES SavedComesBack NothingOldComesBack PrintedComesBack
CHECK_DEADLOCK FALSE
