\* Up to three lines of three points, of two colours, some too short to be
\* seen, over one another; a width goes the way of a colour.
CONSTANTS
  Colors = {black, red}
  Black = black
  Widths = {1}
  Thin = 1
  Points = {p1}
  MaxLines = 3
  MaxPoints = 3
SPECIFICATION FairCanvasSpec
INVARIANT CanvasTypeOK
INVARIANT ScreenIsFresh
INVARIANT FinishedLinesKept
PROPERTY PictureIsAStack
PROPERTY ScreenCatchesUp
