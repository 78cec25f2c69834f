SPECIFICATION NotifierFairSpec
CONSTANTS
  Tls = FALSE
PROPERTY RecoversIfAnswered
INVARIANT StoppedStaysDown
INVARIANT LossIsRepaired
INVARIANT OpenIsLiveOrReplaced
