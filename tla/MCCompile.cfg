CONSTANTS
  Programs <- MCPrograms
  Globals <- MCGlobals
  Structs <- MCStructs
  Functions <- MCFunctions
  Enums <- MCEnums
  Unset <- MCUnset
  FieldOrder <- MCFieldOrder
  ConstValues <- MCConstValues
  Apply <- MCApply
  Sample <- MCSample
  Fuel = 12
SPECIFICATION CompileSpec
INVARIANTS Decides NeverCompletes OneType FieldsApart RunsAsWritten ValidIR
CHECK_DEADLOCK FALSE
