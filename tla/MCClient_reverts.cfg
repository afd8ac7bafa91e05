SPECIFICATION ClientSpec
CONSTANTS
  None = None
  Looks = {"quotation-edit"}
  Staff = {"Sales"}
INVARIANT EditsStartFromLastSave
CHECK_DEADLOCK FALSE
