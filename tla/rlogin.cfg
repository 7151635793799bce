SPECIFICATION Spec
CONSTANTS
  Modes <- AllModes
  Outputs <- SomeOutputs
  Marks <- SomeMarks
  Keys = {"cr", "~", ".", "susp"}
  Sizes = {"small", "large"}
  MaxInputs = 3
INVARIANTS
  InputFaithful
  OutputFaithful
PROPERTIES
  WindowKnown
CHECK_DEADLOCK FALSE
