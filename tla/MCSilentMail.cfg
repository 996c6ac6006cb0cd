SPECIFICATION FairSpec
CONSTANTS
  Files <- MailFiles
  Hosts <- FewHosts
  Servers <- AllServers
  Names = {"mariadb", "postgresql", "nginx", "redis", "http-api", "ssl"}
PROPERTIES
  ChecksGoOn
CHECK_DEADLOCK FALSE
