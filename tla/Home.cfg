CONSTANTS
  None = None
  anna = anna
  ben = ben
  carl = carl
  dora = dora
  front = front
  back = back
  side = side
  pad = pad
  spare = spare
  shared = shared
  other = other
  permanent = permanent
  own = own
  always = always
  day = day
  night = night
  newcomer = newcomer
  occupant = occupant
  empty = empty
  Person = {anna, ben, carl, dora}
  Door = {front, back, side}
  WithLock = {front, side}
  Discovered = {front}
  Known = {front}
  Coded = {front}
  Keypad = {pad, spare}
  Schedule = {shared, other, own, permanent}
  Permanent = permanent
  Policy = {always, day, night}
  Always = always
  Request = {newcomer, occupant, empty}
  Caller = {c1, c2}
  Asked <- MCAsked
  Homes <- MCHomes
SYMMETRY Symmetry
SPECIFICATION Spec
CHECK_DEADLOCK FALSE
INVARIANTS HoursAsMeant DoorsAgree SetUpOnce
PROPERTY AnswersTrue
