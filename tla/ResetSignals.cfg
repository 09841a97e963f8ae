SPECIFICATION FairSpec
CONSTANTS
  MaxTerms = 3
  MaxResets = 3
INVARIANTS TypeOK TerminationNotInvented TerminationNotLost NoSpuriousReset
PROPERTIES TerminationReported SoftResetServed
