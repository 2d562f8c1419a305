SPECIFICATION Spec
CONSTANTS
  sda = sda
  usb = usb
  ticker = ticker
  handler = handler
  Drive = {sda, usb}
  Writer = {ticker, handler}
  MaxId = 3
  MaxRestarts = 1
SYMMETRY Symmetric
INVARIANTS
  NumberMeansOneDrive
  CacheFollowsSweep
CHECK_DEADLOCK FALSE
