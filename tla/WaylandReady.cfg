\* One output and up to two unread events.
CONSTANTS
  Outputs = {o1}
  Sizes = {s1}
  Unsized = Unsized
  MaxUnread = 2
SPECIFICATION Spec
PROPERTIES
  ReadyToRender
