CONSTANTS
  None = None
  anna = anna
  ben = ben
  front = front
  back = back
  side = side
  repl = repl
  del = del
  pinA = pinA
  pinB = pinB
  always = always
  evening = evening
  Person = {anna, ben}
  Door = {front, back, side}
  Op = {repl, del}
  Caller = {c1, c2}
  Schedule = {always, evening}
  Credential = {pinA, pinB}
  Permanent = always
  Legacy = front
  Kind <- MCKind
  InOrder <- MCInOrder
  Homes <- MCEarlyHomes
SPECIFICATION Spec
CHECK_DEADLOCK FALSE
INVARIANT DocumentsLoad
