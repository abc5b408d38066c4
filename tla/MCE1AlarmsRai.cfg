SPECIFICATION Spec
CONSTANTS
  Lines <- MCAlarmedLines
  CountWrap = 2
  Troubles = {"line"}
  MaxTrouble = 1
PROPERTY RaiShown
