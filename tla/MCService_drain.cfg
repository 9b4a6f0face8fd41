\* All kinds of requests, panics, and SIGTERMs at any moment.
SPECIFICATION FairSpec
CONSTANTS
  Users = {u1, u2}
  Cached = {200, 202, 400, 404, 413, 500, 503}
  Others = {405}
  nobody = nobody
  Kinds = {"ingest", "query", "anomaly", "ready", "scrape", "live", "invalid", "unrouted"}
  CanPanic = TRUE
  MaxRequests = 2
  MaxSignals = 1
INVARIANTS TypeOK NoCountLost ScrapeShowsDelivered CountedAsDelivered DrainAnswers
PROPERTIES SigtermEnds HandledIsDelivered
