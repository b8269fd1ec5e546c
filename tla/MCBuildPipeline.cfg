CONSTANTS
  MaxVersion = 2
  Invocations <- Calls
SPECIFICATION Spec
INVARIANTS TypeOK SuccessComplete ReusedArtCooked ForcedDepFresh
