\* Any two of twenty-two messages, in any order.
CONSTANTS
  HeapSize = 48
  MaxOffers = 2
  Offer <- Offers
SPECIFICATION FairSpec
INVARIANTS HeapExact OnlyForeign
PROPERTIES IsRouted AllLeave
\* the gateway is idle when nothing enters any more
CHECK_DEADLOCK FALSE
