CONSTANTS
  None = None
  Partners <- MCPartners
  Queries <- MCQueries
SPECIFICATION Spec
INVARIANT TypeOK
INVARIANT LabelLeadsBack
INVARIANT OnlyPartnersResolved
INVARIANT StatusTellsResult
