SPECIFICATION Spec
CONSTANTS
  Handles = {h1, h2}
  FileSize = 3
  DirSize = 2
  ReadSizes = {1}
  WriteSizes = {1, 3}
  MaxRead = 2
  MaxOut = 2
  Simple = {"unlink", "rename", "mkdir", "rmdir", "fsync", "posix_rename", "fstat", "stat", "symlink", "statvfs", "fstatvfs"}
  MaxCalls = 5
  MaxAbandon = 1
  MaxShort = 1
  MaxFault = 1
INVARIANTS Inv ReadIsTheFile ReportedIsWritten RepliesFindTheirCall
CHECK_DEADLOCK FALSE
