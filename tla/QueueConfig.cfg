CONSTANTS
  alpha = alpha  beta = beta
  Text <- MCText
  Secret = {"password", "sentinelPassword", "tlsCa", "tlsKey"}
  TlsFile = {"tlsCa", "tlsKey"}
  Blank = Blank
  Missing = Missing
  Rejected = Rejected
  POSTGRES_CONNECTION_TIMEOUT = 10
SPECIFICATION MCSpec
INVARIANTS TransportAsConfigured PostgresIgnoresRedis FailFastByRole
CHECK_DEADLOCK FALSE
