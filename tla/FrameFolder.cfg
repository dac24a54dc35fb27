\* A folder with both shaders and one entry more.
CONSTANTS
  Sizes = {s1}
  Unsized = Unsized
  Files = {f1, f2, f3}
SPECIFICATION Spec
PROPERTIES
  OtherFilesIgnored
