SPECIFICATION TSpec
CONSTANTS
  Files <- MailFiles
  Hosts <- FewHosts
  Servers <- AllServers
  Names = {"mariadb", "postgresql", "nginx", "redis", "http-api", "ssl"}
INVARIANTS
  NotRetried
CHECK_DEADLOCK FALSE
