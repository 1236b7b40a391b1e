SPECIFICATION Spec
CONSTANTS
  IFUINST = 3
  INST_WINDOW = 7
  Instruction = {a, b}
PROPERTY OneQueue
