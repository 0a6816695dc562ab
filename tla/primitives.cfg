\* digests, derived keys and tokens
SPECIFICATION Spec
CONSTANTS
  Messages <- Lengths
  Secrets <- Derived
  Interfaces <- Configured
  Received <- OfTheCorpus
  Tokens <- Sent
  IfacSalt <- Salt
INVARIANT HashesAsPublished
INVARIANT CorpusAnswers
INVARIANT OpensWhatWasSealed
INVARIANT DamageIsSeen
CHECK_DEADLOCK FALSE
