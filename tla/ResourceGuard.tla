---------------------------- MODULE ResourceGuard ----------------------------
(***************************************************************************)
(* The two guards that end a process which uses too much of the host:      *)
(* StartMemCpuMonitor, by which every process watches itself, and          *)
(* isMemOverloaded with isBigTooLong, by which decept-agent judges the     *)
(* processes of process-table.json before it kills them.  Each samples     *)
(* every five seconds, on its own clock.                                   *)
(*                                                                         *)
(* The agent's histories belong to a name and live as long as the agent;   *)
(* a process's own window lives as long as the process.                    *)
(***************************************************************************)
EXTENDS Integers, Sequences

CONSTANTS
    Modules,    \* decept-proxy and decept-bait
    Keys,       \* the names of tcpProxies and relays, without "decept-"
    OwnLoads,   \* the CPU loads a process may find for itself, in percent
    Loads,      \* the CPU loads the agent may find
    Followed,   \* bound: the names whose own samples are followed
    MaxHis      \* bound: the length of the agent's history of a module

Names == Modules \cup Keys

\* cpuLimit in processResourceOccupancyMonitoring, the 15 of isMemOverloaded,
\* and the limit StartMemCpuMonitor is called with.
Limit == 6
Burst == 15
OwnLimit == 5

ASSUME LoadsAssumption == Loads \cup OwnLoads \subseteq Nat
ASSUME NamesAssumption == Modules \cap Keys = {} /\ Followed \subseteq Names
ASSUME BoundAssumption == MaxHis \in Nat

VARIABLES
    up,         \* whether the process of a name runs
    cpuHis,     \* its own window of samples
    his,        \* the agent's history of a module: proxyCpuHis, baitCpuHis
    streak,     \* history: how many of the latest own samples are too high
    high        \* history: the same for the samples the agent has kept

vars == <<up, cpuHis, his, streak, high>>

Init ==
    /\ up = [n \in Names |-> TRUE]
    /\ cpuHis = [n \in Names |-> <<>>]
    /\ his = [n \in Modules |-> <<>>]
    /\ streak = [n \in Names |-> 0]
    /\ high = [n \in Names |-> 0]

\* The length of the run of loads of at least limit that c prolongs or ends.
Run(length, c, limit) == IF c >= limit THEN length + 1 ELSE 0

AllAtLeast(s, limit) == \A i \in DOMAIN s : s[i] >= limit

\* Mutant of isBigTooLong: a longer history is judged, too.
isBigLongEver(s, limit) ==
    LET cHis == IF Len(s) > 5 THEN Tail(s) ELSE s
    IN  Len(cHis) >= 5 /\ AllAtLeast(cHis, limit)

\* Mutant of isBigTooLong: only the newest sample is looked at.
isBigOnce(s, limit) == Len(s) \in {5, 6} /\ s[Len(s)] >= limit

\* isBigTooLong, which sees the history with the new sample.  What it cuts
\* off is not cut off the history itself.
isBigTooLong(s, limit) ==
    LET cHis == IF Len(s) > 5 THEN Tail(s) ELSE s
    IN  Len(cHis) = 5 /\ AllAtLeast(cHis, limit)

\* The CPU part of isMemOverloaded for a sample c of name n.
CpuOverloaded(n, c) ==
    IF n \in Keys THEN c > Limit
    ELSE c <= Burst /\ isBigTooLong(Append(his[n], c), Limit)

\* The agent samples name n: memory first, then CPU.  A sample above 150 MB,
\* and a burst of a module, is not kept.
AgentSample(n, big, c) ==
    /\ up[n]
    /\ n \in Modules => Len(his[n]) < MaxHis
    /\ up' = [up EXCEPT ![n] = ~big /\ ~CpuOverloaded(n, c)]
    /\ IF n \in Modules /\ ~big /\ c <= Burst
       THEN /\ his' = [his EXCEPT ![n] = Append(@, c)]
            /\ high' = [high EXCEPT ![n] = Run(@, c, Limit)]
       ELSE UNCHANGED <<his, high>>
    /\ UNCHANGED <<cpuHis, streak>>

\* Mutant of SelfSample: the window is cut before the new sample is added.
SelfSampleLate(n, big, c) ==
    /\ up[n] /\ n \in Followed
    /\ LET s == IF Len(cpuHis[n]) > 6 THEN Tail(cpuHis[n]) ELSE cpuHis[n]
           window == Append(s, c)
       IN  IF big
           THEN /\ up' = [up EXCEPT ![n] = FALSE]
                /\ UNCHANGED <<cpuHis, streak>>
           ELSE /\ cpuHis' = [cpuHis EXCEPT ![n] = window]
                /\ streak' = [streak EXCEPT ![n] = Run(@, c, OwnLimit)]
                /\ up' = [up EXCEPT ![n] = ~(Len(window) = 6 /\ AllAtLeast(window, OwnLimit))]
    /\ UNCHANGED <<his, high>>

\* Process n samples itself.
SelfSample(n, big, c) ==
    /\ up[n] /\ n \in Followed
    /\ LET s == Append(cpuHis[n], c)
           window == IF Len(s) > 6 THEN Tail(s) ELSE s
       IN  IF big
           THEN /\ up' = [up EXCEPT ![n] = FALSE]
                /\ UNCHANGED <<cpuHis, streak>>
           ELSE /\ cpuHis' = [cpuHis EXCEPT ![n] = window]
                /\ streak' = [streak EXCEPT ![n] = Run(@, c, OwnLimit)]
                /\ up' = [up EXCEPT ![n] = ~(Len(window) = 6 /\ AllAtLeast(window, OwnLimit))]
    /\ UNCHANGED <<his, high>>

\* The lifecycle task, or a strategy, starts the process again.  The agent's
\* history of the name stays.
Restart(n) ==
    /\ ~up[n]
    /\ up' = [up EXCEPT ![n] = TRUE]
    /\ cpuHis' = [cpuHis EXCEPT ![n] = <<>>]
    /\ streak' = [streak EXCEPT ![n] = 0]
    /\ UNCHANGED <<his, high>>

\* decept-agent starts again, with empty histories; the others run on.
AgentRestart ==
    /\ his' = [n \in Modules |-> <<>>]
    /\ high' = [n \in Names |-> 0]
    /\ UNCHANGED <<up, cpuHis, streak>>

Next ==
    \/ AgentRestart
    \/ \E n \in Names :
        \/ Restart(n)
        \/ \E big \in BOOLEAN, c \in Loads : AgentSample(n, big, c)
        \/ \E big \in BOOLEAN, c \in OwnLoads : SelfSample(n, big, c)

Spec == Init /\ [][Next]_vars

-----------------------------------------------------------------------------
(***************************************************************************)
(* Properties.                                                             *)
(***************************************************************************)
\* Every variable stays in its type, and no window outgrows its limit.
TypeOK ==
    /\ up \in [Names -> BOOLEAN]
    /\ cpuHis \in [Names -> Seq(OwnLoads)] /\ \A n \in Names : Len(cpuHis[n]) <= 6
    /\ his \in [Modules -> Seq(Loads)]
    /\ streak \in [Names -> 0..6] /\ high \in [Names -> 0..MaxHis]

\* The sliding window of StartMemCpuMonitor is exact: a process ends itself
\* for its CPU load with the sixth sample in a row at or above the limit,
\* never earlier and never later, whatever came before.
OwnGuardExact ==
    [][\A n \in Names, c \in OwnLoads :
        SelfSample(n, FALSE, c) => (up'[n] <=> streak'[n] < 6)]_vars

\* The agent kills a module for its CPU load only after five kept samples in
\* a row at or above the limit, although the histories are never reset.
NoFalseKill ==
    [][\A n \in Modules, c \in Loads :
        AgentSample(n, FALSE, c) /\ ~up'[n] => high'[n] >= 5]_vars

\* isBigTooLong can only answer TRUE for the fifth and the sixth sample of a
\* name: the histories are never cut, so from the seventh on its CPU guard is
\* off until the agent restarts, and it never kills a name more than twice.
GuardRunsDry ==
    [][\A n \in Modules, c \in Loads :
        AgentSample(n, FALSE, c) /\ ~up'[n] => Len(his'[n]) \in {5, 6}]_vars
=============================================================================
