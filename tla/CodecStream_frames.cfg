SPECIFICATION Spec
CONSTANTS
  Ids = {0, 258, 65535}
  Words = {0, 1, 255, 65280}
  MaxBlock = 123
  MaxCoils = 1968
  Changes = {1, 2, 128, 255}
INVARIANTS WaitsForWholeFrame ModbusIsUnderstood GarbledIsRefused PanelIsUnderstood
