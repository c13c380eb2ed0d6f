SPECIFICATION Spec
CONSTANTS
  MaxConfigBytes = 2
  MaxPasswordBytes = 4
  MaxFieldBytes = 3
  Texts <- MCTexts
  Metrics = {"cpu.frequency_mhz", "power", "disk"}
  Armv7 = TRUE
INVARIANTS
  InputsBounded
  StartAsChecked
  ReportHonest
