SPECIFICATION MCSpec
CONSTANTS
  Domains = {1, 2, 3, 4}
  Others = {0, 9}
  Rulesets = {1, 2}
  MaxCount = 3
  None = None
INVARIANTS TreeDrawn DenialsListed ScreensAgree LinesReadable
PROPERTIES ListingComplete
