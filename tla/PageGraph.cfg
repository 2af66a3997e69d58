SPECIFICATION Spec
CONSTANTS
  Pages = {a, b, index}
  Hubs = {index}
  Index = index
  Missing = Missing
  None = None
  Dated = {a, Missing}
  Titles = {plain1, plain2, apostrophe}
  Curly = {apostrophe}
INVARIANTS TypeOK Symmetric SupersededIsRelated TrailUnlessLost
\* Every page has been rendered.
CHECK_DEADLOCK FALSE
