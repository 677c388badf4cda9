SPECIFICATION Spec
CONSTANTS
  pub1 = pub1
  pub2 = pub2
  priv = priv
  name1 = name1
  name2 = name2
  Address <- MCAddress
  Forbidden <- MCForbidden
  Name <- MCName
  Answers <- MCAnswers
  Targets <- MCTargets
  MaxRedirects = 1
  MaxBodyBytes = 3
  MaxHTMLResources = 2
  Certificates <- MCCertificates
  MaxDNSNames = 1
  MaxTLSDNSNames = 1
  Bodies <- MCBodies
CHECK_DEADLOCK FALSE
INVARIANTS CleanAnswersOnly CompleteChannelsLoseNothing TLSOfFinalConnection HopsAccounted
