\* Two threads, three boards, at most two postings a scan, one failing call or
\* restart.
SPECIFICATION FairSpec
CONSTANTS
  workday = workday  lever = lever  ashby = ashby
  writer = writer  editor = editor  plumber = plumber  ghost = ghost
  t1 = t1  t2 = t2
  Threads = {t1, t2}
  Roster <- Scanned
  Unknown = {workday}
  Board <- Boards
  Matching = {writer, editor, ghost}
  Keyed = {writer, editor, plumber}
  Limit = 2
  MaxFaults = 1
INVARIANTS
  NeverAgain
  NothingHidden
  OwnErrors
PROPERTY EveryMatchReported
