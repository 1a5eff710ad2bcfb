SPECIFICATION Spec
CONSTANTS
  Clients = {"c1"}
  None = None
  Torn = Torn
  CAValidity = 9
  ServerValidity = 2
  MaxAge = 1
  MaxGens = 2
  MaxTime = 2
INVARIANTS
  TypeOK
  FilesBelongTogether
  
 
CHECK_DEADLOCK FALSE
