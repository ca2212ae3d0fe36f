SPECIFICATION FairSpec
CONSTANT
  MaxRestarts = 2
INVARIANTS
  ServerErrorIsEarned
  RefusedOnlyByRotation
  RedirectIsRight
  WhatIsThereIsFound
PROPERTY
  EveryRequestEnds
