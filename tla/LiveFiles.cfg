SPECIFICATION Spec
CONSTANTS
  Sessions = {s1, s2}
  None = None
  Variants = 2
  Elements = {"hero", "card1", "card2", "panel", "inner"}
  TagOf <- Tags
  ClassOf <- Classes
  TwoLines = {"panel"}
  Short = {"card1"}
  Files = {"page", "component", "output"}
  Jsx = {"component"}
  Generated = {"output"}
  Page = "page"
  Output = "output"
  OutputFirst = TRUE
  Configured = {"page"}
  Ports = {p1, p2}
  Source <- Before
  MaxBuilds = 1
SYMMETRY Symmetry
INVARIANTS
  TypeOK TagsNest TagMatchesPolicy
PROPERTIES
  OnlyTheChoiceChanges WrapsThePicked
