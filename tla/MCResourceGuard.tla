-------------------------- MODULE MCResourceGuard --------------------------
EXTENDS ResourceGuard
CONSTANTS proxy, key
MCModules == {proxy}
MCKeys == {key}
=============================================================================
