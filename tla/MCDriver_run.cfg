\* Two workers, more ticks than fit in the channel, a service that may never answer.
SPECIFICATION PacerSpec
CONSTANTS
  Workers = {w1, w2}
  Ops = {"post", "range"}
  Devices = 1
  Rates <- MCRates
  MaxTicks = 5
INVARIANTS TypeOK JobsAccounted ResultIsFinal
PROPERTIES PacerReturns RunEnds
