\* Command lines of every kind over one or two targets: every phase of a scan,
\* each check broken or not, a limit at any request, crawls of up to two pages.
SPECIFICATION Spec
CONSTANTS
  NoAnswer = NoAnswer
  NoBaseline = NoBaseline
  NoLimit = NoLimit
  Unset = Unset
  Options <- MCOptions
  Today = 5
  Landings <- MCLandings
  StartHosts <- MCStartHosts
  TlsResults <- MCTlsResults
  CorsAnswers <- MCCorsAnswers
  HopAnswers <- MCHopAnswers
  ProbeAnswers <- MCProbeAnswers
  PathAnswers <- MCPathAnswers
  SensitivePath = {".git", ".env"}
  ListingPath = {"backup/"}
  SeverityOf <- MCSeverityOf
  Crawls <- MCCrawls
  MaxRedirects = 2
  MaxAffectedUrls = 2
INVARIANTS ExitZeroMeansClean VerdictsAgree BaselineAccounted PagesAddUp
CHECK_DEADLOCK FALSE
