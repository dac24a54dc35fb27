\* Two outputs and up to two unread events.
CONSTANTS
  Outputs = {o1, o2}
  Sizes = {s1}
  Unsized = Unsized
  MaxUnread = 2
SPECIFICATION Spec
INVARIANTS
  AllReleased
