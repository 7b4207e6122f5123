SPECIFICATION Spec
CONSTANTS
    None = None
    Direct = {"d"}
    Batches <- Pair
    Markable = {"a"}
    Gated = {"b", "d"}
    MaxBoots = 1
INVARIANTS TypeOK OneActiveRun ChainOrder IdleMeansDrained RunningItemIsLive
PROPERTIES NoWorkUnapproved
