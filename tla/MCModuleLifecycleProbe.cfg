\* The device may be there before the module is loaded.
CONSTANT MaxUsers = 1
SPECIFICATION Spec
INVARIANT ProbedDeviceIsWritable
