SPECIFICATION FairSpec
CONSTANTS
  Cap = 3
  MaxBytes = 3
  MaxRestarts = 0
PROPERTY WriterResumes
