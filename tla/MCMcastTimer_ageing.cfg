\* Two reporters and two packets; timeouts that are zero, short and more than
\* twice as long.
SPECIFICATION Spec
CONSTANTS
  Rep = {r1, r2}
  MaxDelayed = 2
  Timeouts = {0, 1, 3}
  SkbTimeout = 2
  Slack = 1
  MaxTime = 8
SYMMETRY Sym
CHECK_DEADLOCK FALSE
INVARIANTS NoStaleReporter NoStalePacket
