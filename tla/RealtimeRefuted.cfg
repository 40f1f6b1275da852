\* What the code, or a text about it, promises and does not keep.  Activate one
\* property at a time; TLC finds each of them violated.
SPECIFICATION Spec
CONSTANTS
  Total = 4
  RestPage = 100
  SocketPage = 500
  MaxLost = 1
  MaxFaults = 1
CHECK_DEADLOCK FALSE
INVARIANT DroppedIsRepaired
\* With MaxLost = 0, MaxFaults = 0:
\* PROPERTY ShownNeverOlder
\* With Total = 3, MaxLost = 0, MaxFaults = 0:
\* INVARIANT SettledIsCurrent
\* With SocketPage = 2, MaxFaults = 0: a replay is one page, and the rest is not asked for.
\* INVARIANT HolesWereMissed
