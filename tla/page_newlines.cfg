SPECIFICATION SiteSpec
CONSTANTS
  Page <- MCPage
  Column <- MCColumn
  Header <- MCHeader
  Row <- MCRow
  Cell <- MCCell
  Delivered <- MCDelivered
  Link <- MCLink
  Target <- MCTarget
  Tagged <- MCTagged
  NoSort = NoSort
  MaxBack = 3
  Node <- MCNode
  Tag <- MCTag
  Outer <- MCOuter
  Deep <- MCDeep
  Source <- MCSource
  Empty <- MCEmpty
  Faulty <- MCFaulty
  Wrapped <- MCWrapped
  Breaks <- MCBreaks
  Xhtml <- MCXhtml
  ByTagName <- MCByTagName
INVARIANT NewlinesFollowStyle
