SPECIFICATION Spec
INVARIANTS OneUserConnects QuietWhenStopped TransfersAsStored SelectedSuits RequestsCarriedOut
PROPERTIES NothingTooEarly
CHECK_DEADLOCK FALSE
