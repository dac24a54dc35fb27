\* Three entries in the shader folder, so that two stages and an intruder meet
\* in every order, and two sizes.
CONSTANTS
  Sizes = {s1, s2}
  Unsized = Unsized
  Files = {f1, f2, f3}
SPECIFICATION Spec
SYMMETRY Symmetry
INVARIANTS
  TypeOK
  GlCallsHaveContext
  NoGlLeak
  EglLifetimes
  FramesAreDrawable
PROPERTIES
  ImplementsResources
