\* One canvas is shared while there is no connection.
CONSTANTS
  Colors = {black}
  Black = black
  Widths <- MCWidths
  Thin = 1
  Points = {p1}
  MaxLines = 1
  MaxPoints = 1
  InUse = {"Share"}
  MaxTouches = 1
  MaxSaves = 0
  MaxUploads = 1
SPECIFICATION FairVCSpec
PROPERTY OfflineIsUploadedLater
