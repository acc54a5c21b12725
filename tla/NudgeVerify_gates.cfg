SPECIFICATION Spec
CONSTANTS
  Texts = {parked, resumed, clear}
  Banners = {parked, resumed}
  Sizes = {wide, narrow, tall}
  None = None
  Retries = 1
  MaxEvents = 3
INVARIANTS
  TypeOK
  NoFalseSkip
  RightServer
CHECK_DEADLOCK FALSE
