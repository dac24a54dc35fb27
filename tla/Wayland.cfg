\* Two outputs, so that one overwrites the other, and up to three events on the
\* wire and in the queue: all globals at once, or a configure behind a closed.
CONSTANTS
  Outputs = {o1, o2}
  Sizes = {s1}
  Unsized = Unsized
  MaxUnread = 3
SPECIFICATION FairSpec
INVARIANTS
  TypeOK
  NoDangling
  ParentsOutlive
  ReadsPaired
PROPERTIES
  ImplementsWindowSystem
  PumpReturns
  InitializeReturns
