---------------------------- MODULE MCWalStorage ----------------------------
EXTENDS WalStorage

AllPoints    == {"idle", "persist", "truncate", "save", "compact", "install"}
BetweenOps   == {"idle"}
InstallPoint == {"install"}
SavePoint    == {"save"}
=============================================================================
