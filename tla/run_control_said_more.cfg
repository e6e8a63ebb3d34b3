\* Two more finals behind the first.
SPECIFICATION Spec
CONSTANTS
  LastFrame = 3
  MaxConsults = 1
  Control = {c1}
  Plain = {plain}
  NoWords = NoWords
INVARIANTS
  AnsweredOnceSaidMore
