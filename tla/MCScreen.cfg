\* All four buttons, up to two of them held at a time, around one photo job
\* and one upload.
CONSTANTS
  Colors = {black}
  Black = black
  Widths <- MCWidths
  Thin = 1
  Points = {p1}
  MaxLines = 1
  MaxPoints = 2
  InUse = {"Save", "Clear", "Undo", "Share"}
  MaxTouches = 2
  MaxSaves = 1
  MaxUploads = 1
SPECIFICATION VCSpec
INVARIANT VCTypeOK
INVARIANT TitlesOnTop
INVARIANT DialogHasDrawing
PROPERTY PicturesAreCurrent
