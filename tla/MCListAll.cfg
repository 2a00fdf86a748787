\* Up to four pages of a growing bucket of four objects.
CONSTANT Names <- MCNames
SPECIFICATION FairListSpec
INVARIANT ListTypeOK
INVARIANT ListingComplete
PROPERTY ListingEnds
