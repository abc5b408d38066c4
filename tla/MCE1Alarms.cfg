SPECIFICATION Spec
CONSTANTS
  Lines <- MCPlainLines
  CountWrap = 2
  Troubles = {"line", "error", "stop", "config"}
  MaxTrouble = 1
PROPERTIES LedsShowLine CoreConfigured  CountsSettle
