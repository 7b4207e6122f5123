SPECIFICATION Spec
CONSTANTS
    None = None
    Direct = {"d"}
    Batches <- Single
    Markable = {}
    Gated = {"d"}
    MaxBoots = 1
PROPERTIES StoppedStaysStopped
