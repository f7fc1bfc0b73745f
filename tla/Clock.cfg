SPECIFICATION FairSpec
INVARIANTS CalibratesOnCrystal LetsGo
PROPERTIES KeepsCalibrating
