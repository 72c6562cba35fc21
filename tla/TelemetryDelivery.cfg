SPECIFICATION Spec
CONSTANTS
  Episodes = {e1, e2}
  MaxRecords = 2
  Settings = {"configured"}
  NoReceipt = NoReceipt
SYMMETRY EpisodeSymmetry
INVARIANTS DeliveryTruthful
PROPERTIES DeliveryOrdered
