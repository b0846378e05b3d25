SPECIFICATION Spec
INVARIANTS CommandsRight  IrqsRight   
