SPECIFICATION Spec
CONSTANTS
  Address <- Four
  Images <- Shapes
  HardwareConcurrency = 6
INVARIANTS TypeOK Reservation NothingLost ReportComplete
PROPERTIES PublishedOnce ImplementsClosure MainFinishes
