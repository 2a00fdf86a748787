\* The same bucket; the listing fails on a later page.
CONSTANT Names <- MCNames
SPECIFICATION ListSpec
INVARIANT NoErrorMeansAll
