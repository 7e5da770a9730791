CONSTANTS
  Width = 4
  Height = 5
  Visible = 2
  Modulus = 16
  Events <- WritingEvents
  QueueLength = 2
  Column = 1
  TextLength = 2
SPECIFICATION Spec
INVARIANTS
  ScreenCurrent
  WritesInside
PROPERTIES
  BackspaceGoesBack
