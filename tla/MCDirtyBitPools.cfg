CONSTANTS
  APages = {0}
  BPages = {1}
  Vals = {0, 1}
  Zero = 0
SPECIFICATION Spec
PROPERTY ARefinesSnapshot
