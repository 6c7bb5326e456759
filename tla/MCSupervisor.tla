---------------------------- MODULE MCSupervisor ----------------------------
EXTENDS Supervisor
CONSTANTS proxy, bait, agent, nobody, life, mon
MCNames == {proxy, bait}
MCThreads == {life, mon}
=============================================================================
