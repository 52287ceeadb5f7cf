CONSTANTS
  Length = 13
  SizeofLen = 2
  m0 = m0
  m1 = m1
  m2 = m2
  m4 = m4
  big = big
  Messages <- MCMessages
  LenOf <- MCLenOf
  Zero = Zero
  NULL = NULL
  Garbage = Garbage
SPECIFICATION Spec
INVARIANTS
  TypeOK
  Layout
  UnreadIntact
  CountsAgree
  EmptyAcceptsSmall
PROPERTIES
  FifoSpec
