SPECIFICATION Spec
CONSTANTS
  N = 13
  Sounds <- ThreeStretches
  Lyrics <- Songs
  Layouts <- Alignments
  Widths <- OneFrame
  MaxBack = 3
  Beats <- Rhythms
  LargeGap = 60
  LargeGaps = 2
  MaxChars = 4
  BarLead = 20
  MinPause = 60
  Clock <- Times
CHECK_DEADLOCK FALSE
INVARIANTS
  Inside
  InOrder
  SingersSeeTheirLine
  LinesAreWhole
PROPERTY LinesGoForward
