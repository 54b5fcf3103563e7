CONSTANTS
    Starts <- MCStarts
    Token = {1, 2}
    GrantMode <- MCGrantMode
    Sni <- MCSni
SPECIFICATION Spec
INVARIANTS OffloadStaysBytes UpstreamIsHttp StaticTreatment OwnCertIsShown CertNamesHost
CHECK_DEADLOCK FALSE
