\* The demo and one more user of the character device.
CONSTANT MaxUsers = 2
SPECIFICATION DemoSpec
INVARIANTS
  UsersFindItReady
  LeavesNothing
  ShowsItsWrites
  WritesInPlace
