SPECIFICATION Spec
CONSTANTS
  Keys <- MCKeys
  Named = {"UP"}
  Builtin <- MCBuiltin
  Layout <- MCLayout
  MaxHeld = 2
  MaxAhead = 0
  LineSizes = {1, 3}
INVARIANTS TypeOK Understood EchoShowsLine
PROPERTY Delivers
