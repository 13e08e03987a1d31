SPECIFICATION Spec
CONSTANTS
  MinDegree = 2
  Ids <- MCIds
  Offers <- MCOffers
  Queries <- MCQueries
INVARIANTS PriceIndexExact PagesExact
