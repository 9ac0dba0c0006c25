CONSTANTS
  None = None
  Partners <- MCPartners
  Queries <- MCQueries
SPECIFICATION Spec
INVARIANT AnswerCarriesMapping
