SPECIFICATION HighlightSpec
CONSTANTS
  Listings <- MCListings
  NoListing = NoListing
  PatternLists <- MCPatternLists
  PR_TAB_WIDTH = 4
  MaxDepth = 6
INVARIANTS
  PatternsUnite
  LexingTiles
  HtmlKept
  SpansNest
  SpacesKept
