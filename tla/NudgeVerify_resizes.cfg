SPECIFICATION Spec
CONSTANTS
  Texts = {parked, resumed}
  Banners = {parked, resumed}
  Sizes = {wide, narrow}
  None = None
  Retries = 0
  MaxEvents = 2
INVARIANT ResizesFailOpen
CHECK_DEADLOCK FALSE
