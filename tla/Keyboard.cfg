SPECIFICATION Spec
CONSTANTS
  BUFFER_SIZE = 3
  Keys = {"LShift", "LCtrl", "A", "1", "Space", "Left"}
  MaxStrokes = 4
  MaxPending = 3
INVARIANT KeyboardInv
PROPERTY TypedAsMeant
PROPERTY RingIsQueue
PROPERTY GetcharReturns
