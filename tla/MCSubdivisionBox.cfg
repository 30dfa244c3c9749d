CONSTANTS
  Width = 8
  Height = 8
  HorImages = 2
  VerImages = 2
  MaxBends = 2
SPECIFICATION SubdivisionSpec
INVARIANT BoxHoldsMask
