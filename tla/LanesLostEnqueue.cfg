SPECIFICATION Spec
CONSTANTS
  c1 = c1
  c2 = c2
  Client = {c1, c2}
  review = review
  normal = normal
  Lane = {review}
  o1 = o1
  o2 = o2
  o3 = o3
  Op = {o1, o2}
  LaneOf <- OneLane
  None = None
  Absent = Absent
  MaxFaults = 1
PROPERTY DuplicateIsQueued
CHECK_DEADLOCK FALSE
