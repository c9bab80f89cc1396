CONSTANTS
  x = x
  v = v
  e1 = e1
  e2 = e2
  why = why
  d = d
  Tick = Tick
  Panel = Panel
  NoEvidence = NoEvidence
  NoReason = NoReason
  NoDeadline = NoDeadline
  NoWatch = NoWatch
  NoLock = NoLock
  NoEdit = NoEdit
  Idle = Idle
  c1 = c1
  l1 = l1
  l2 = l2
  Ids = {x}
  Callers = {c1}
  Locks = {l1, l2}
  Evidence = {e1, e2}
  Reasons = {why}
  StallCap = 1
  MaxEditions = 2
  MaxEvents = 1
  Faults = {"crash", "raise"}
  Triggers = {"met","change"}
  Repeats = {TRUE}
  EditedFields = {"stallAfter", "repeat", "trigger"}
  Verifiers = {v}
  Deadlines = {d}
  Specs <- MCSpecs
  Edits <- MCEdits
  Findings <- MCFindings
SPECIFICATION FairSpec
INVARIANTS SettingsStand
PROPERTIES EdgeOnly StallToldOnce FiresWhenMet DeadlineEnds
