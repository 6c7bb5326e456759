--------------------------- MODULE MCProxyManager ---------------------------
EXTENDS ProxyManager
CONSTANTS http, ssh, manager, nobody, hand, clean
MCNames == {http, ssh}
MCThreads == {hand, clean}
MCSamePort == [n \in MCNames |-> 80]
=============================================================================
