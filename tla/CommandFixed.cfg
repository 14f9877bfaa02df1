\* One target compared with a baseline that has an HSTS finding of the start host.
SPECIFICATION Spec
CONSTANTS
  NoAnswer = NoAnswer
  NoBaseline = NoBaseline
  NoLimit = NoLimit
  Unset = Unset
  Options <- MCFixedOptions
  Today = 5
  Landings <- MCLandings
  StartHosts <- MCStartHosts
  TlsResults <- MCTlsResults
  CorsAnswers <- MCCorsAnswers
  HopAnswers <- MCHopAnswers
  ProbeAnswers <- MCProbeAnswers
  PathAnswers <- MCPathAnswers
  SensitivePath = {".git", ".env"}
  ListingPath = {"backup/"}
  SeverityOf <- MCSeverityOf
  Crawls <- MCCrawls
  MaxRedirects = 2
  MaxAffectedUrls = 2
INVARIANTS FixedWasLookedFor
CHECK_DEADLOCK FALSE
