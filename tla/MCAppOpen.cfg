SPECIFICATION Spec
CONSTANTS
  url = url  packed = packed  plain = plain  misnamed = misnamed
  Targets = {url, packed, plain, misnamed}
  Remote = {url}
  Content <- MCContent
  Gzipped = {url, packed}
  Searched = {plain}
  Finder = {packed}
  MaxRecents = 2
  MaxActs = 3
  None = None
INVARIANT TypeOK
INVARIANT SearchInSight
INVARIANT EscapeClosesOne
PROPERTY OutcomesKept
PROPERTY Served
