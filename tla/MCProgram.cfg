SPECIFICATION FairSpec
CONSTANTS
  Files <- AllFiles
  Hosts <- FewHosts
  Servers <- AllServers
  Names = {"mariadb", "postgresql", "nginx", "redis", "http-api", "ssl"}
INVARIANTS
  TypeOK
  ReportsAreTrue
  EveryoneIsTold
  DomainsFound
PROPERTIES
  ReadsAnswered
  ShutdownEnds
  HealthzFollows
  ChecksGoOnWithMail
CHECK_DEADLOCK FALSE
