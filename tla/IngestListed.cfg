SPECIFICATION Spec
CONSTANTS
  s1 = s1  s2 = s2  s3 = s3  l1 = l1  l2 = l2  c1 = c1  c2 = c2  f1 = f1
  Signals <- TwoSignals
  Listings <- OneListing
  ListingOf <- OneSubject
  Cycles <- TwoCycles
  Forms <- OneForm
  MaxMishaps = 1
INVARIANT AckedIsListed
