SPECIFICATION MCSpec
CONSTANTS
  Events <- MCEvents
  None = None
  Root = Root
  Unsandboxed = Unsandboxed
  d1 = d1
  d2 = d2
  d3 = d3
  r1 = r1
  r2 = r2
INVARIANTS FactsExact FactsTogether
PROPERTIES KnowledgeGrows
