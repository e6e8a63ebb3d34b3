\* What must happen in the end, in each part.
SPECIFICATION Spec
CONSTANTS
  alice1 = alice1
  alice2 = alice2
  call1 = call1
  None = None
  alice = alice
  phone = phone
  kitchen = kitchen
  call2 = call2
  k1 = k1
  c1 = c1
  NoWords = NoWords
  a = a
  b = b
  s1 = s1
PROPERTIES
  EveryPromiseKept
