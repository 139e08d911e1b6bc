------------------------------- MODULE Monitors -------------------------------
(***************************************************************************)
(* What the server keeps of its own work, in memory: the samples and       *)
(* counters of PerformanceMonitorService, fed by PerformanceInterceptor    *)
(* and a cron, and the lists and statistics of ErrorTrackingService.  Each *)
(* operation runs without an await; what matters is which samples are      *)
(* still there when a report is asked for.                                 *)
(*                                                                         *)
(* A sample is a whole number.  Events, logs and the tracker's             *)
(* notifications, which are logs too, are left out, and so is the number   *)
(* of connections, which nothing else depends on.                          *)
(***************************************************************************)
EXTENDS Integers, FiniteSets, FiniteSetsExt, Sequences, SequencesExt, StableSort

CONSTANTS
    Endpoints, QueryNames,
    Samples,        \* milliseconds, percentages
    LevelOrder,     \* the levels of errors, critical ones first
    ErrorTypes, ErrorModules,
    WindowSize,     \* WindowSize[kind]: how many samples or errors are kept
    RecentLimit,    \* how many errors getRecentErrors() gives
    AlertLimit,     \* AlertLimit[what]: above which there is an alert
    AdviceLimit,    \* and a recommendation
    HoursInDay, MaxHour, MaxRecorded   \* bounds on the clock and on what is recorded

Levels == ToSet(LevelOrder)

Series == ({"api"} \X Endpoints) \cup ({"database"} \X QueryNames)
            \cup ({"system"} \X {"memory", "cpu"})

ErrorInfo == [level : Levels, type : ErrorTypes, module : ErrorModules, timestamp : 0..MaxHour]

ASSUME MonitorsAssumption ==
    /\ IsFiniteSet(Endpoints) /\ Samples \subseteq Nat
    /\ LevelOrder \in Seq(Levels)
    /\ WindowSize \in [{"api", "database", "system", "errors"} -> Nat \ {0}]
    /\ RecentLimit \in Nat
    /\ AlertLimit \in [{"memory", "cpu", "errors"} -> Nat]
    /\ AdviceLimit \in [{"memory", "cpu", "errors"} -> Nat]
    /\ HoursInDay \in Nat \ {0} /\ MaxHour \in Nat /\ MaxRecorded \in Nat

VARIABLES
    metrics,       \* metrics[s]: the samples of a series that are kept
    requestCount, errorCount,
    errors,        \* errors[level]: those that are kept
    statistics,    \* of all errors: by type, by module, by hour of the day
    hour,          \* the clock
    sampled,       \* (history) all samples since the last reset
    raised         \* (history) all errors since they were last cleared

monitorsVars == <<metrics, requestCount, errorCount, errors, statistics, hour, sampled, raised>>

Statistics == [total : Nat, byType : [ErrorTypes -> Nat],
               byModule : [ErrorModules -> Nat], byHour : [0..(HoursInDay - 1) -> Nat]]

MonitorsTypeOK ==
    /\ metrics \in [Series -> Seq(Samples)] /\ sampled \in [Series -> Seq(Samples)]
    /\ requestCount \in Nat /\ errorCount \in Nat
    /\ errors \in [Levels -> Seq(ErrorInfo)] /\ raised \in Seq(ErrorInfo)
    /\ statistics \in Statistics
    /\ hour \in 0..MaxHour

NoSamples == [s \in Series |-> <<>>]
NoErrors == [l \in Levels |-> <<>>]
NoStatistics == [total |-> 0, byType |-> [t \in ErrorTypes |-> 0],
                 byModule |-> [m \in ErrorModules |-> 0],
                 byHour |-> [h \in 0..(HoursInDay - 1) |-> 0]]

MonitorsInit ==
    /\ metrics = NoSamples /\ sampled = NoSamples
    /\ requestCount = 0 /\ errorCount = 0
    /\ errors = NoErrors /\ raised = <<>> /\ statistics = NoStatistics
    /\ hour = 0

-----------------------------------------------------------------------------
(* Recording.                                                              *)

\* The newest one goes.
PushedAndPopped(window, x, size) == IF Len(window) < size THEN Append(window, x) ELSE window

\* push(), and shift() once the window is too long.
Pushed(window, x, size) ==
    IF Len(window) < size THEN Append(window, x) ELSE Append(Tail(window), x)

RoomToRecord ==
    Len(raised) + FoldFunction(LAMBDA w, n : Len(w) + n, 0, sampled) < MaxRecorded

Sampled(s, x) ==
    /\ metrics' = [metrics EXCEPT ![s] = Pushed(@, x, WindowSize[s[1]])]
    /\ sampled' = [sampled EXCEPT ![s] = Append(@, x)]

\* What the interceptor does when a request ends, in an error or not.
intercept(endpoint, responseTime, fails) ==
    /\ RoomToRecord
    /\ Sampled(<<"api", endpoint>>, responseTime)
    /\ requestCount' = requestCount + 1
    /\ errorCount' = IF fails THEN errorCount + 1 ELSE errorCount
    /\ UNCHANGED <<errors, statistics, hour, raised>>

recordDatabaseQueryTime(query, queryTime) ==
    /\ RoomToRecord
    /\ Sampled(<<"database", query>>, queryTime)
    /\ UNCHANGED <<requestCount, errorCount, errors, statistics, hour, raised>>

\* The cron: one sample each of memory and processor.
monitorSystemResources(memory, cpu) ==
    LET Sample(s) == IF s[2] = "memory" THEN memory ELSE cpu
        IsSystem(s) == s[1] = "system"
    IN  /\ RoomToRecord
        /\ metrics' = [s \in Series |->
             IF IsSystem(s) THEN Pushed(metrics[s], Sample(s), WindowSize["system"]) ELSE metrics[s]]
        /\ sampled' = [s \in Series |->
             IF IsSystem(s) THEN Append(sampled[s], Sample(s)) ELSE sampled[s]]
        /\ UNCHANGED <<requestCount, errorCount, errors, statistics, hour, raised>>

resetMetrics ==
    /\ metrics' = NoSamples /\ sampled' = NoSamples
    /\ requestCount' = 0 /\ errorCount' = 0
    /\ UNCHANGED <<errors, statistics, hour, raised>>

updateStatistics(e) ==
    statistics' = [total |-> statistics.total + 1,
                   byType |-> [statistics.byType EXCEPT ![e.type] = @ + 1],
                   byModule |-> [statistics.byModule EXCEPT ![e.module] = @ + 1],
                   byHour |-> [statistics.byHour EXCEPT ![e.timestamp % HoursInDay] = @ + 1]]

recordError(level, type, module) ==
    LET e == [level |-> level, type |-> type, module |-> module, timestamp |-> hour]
    IN  /\ RoomToRecord
        /\ errors' = [errors EXCEPT ![level] = Pushed(@, e, WindowSize["errors"])]
        /\ updateStatistics(e)
        /\ raised' = Append(raised, e)
        /\ UNCHANGED <<metrics, requestCount, errorCount, hour, sampled>>

clearErrors ==
    /\ errors' = NoErrors /\ statistics' = NoStatistics /\ raised' = <<>>
    /\ UNCHANGED <<metrics, requestCount, errorCount, hour, sampled>>

HourPasses ==
    /\ hour < MaxHour /\ hour' = hour + 1
    /\ UNCHANGED <<metrics, requestCount, errorCount, errors, statistics, sampled, raised>>

MonitorsNext ==
    \/ \E x \in Samples :
         \/ \E e \in Endpoints, fails \in BOOLEAN : intercept(e, x, fails)
         \/ \E q \in QueryNames : recordDatabaseQueryTime(q, x)
         \/ \E cpu \in Samples : monitorSystemResources(x, cpu)
    \/ \E l \in Levels, t \in ErrorTypes, m \in ErrorModules : recordError(l, t, m)
    \/ resetMetrics \/ clearErrors \/ HourPasses

MonitorsSpec == MonitorsInit /\ [][MonitorsNext]_monitorsVars

-----------------------------------------------------------------------------
(* Reports.                                                                *)

calculateAverage(window) ==
    IF window = <<>> THEN 0 ELSE SumFunction(window) \div Len(window)

\* getMetrics(), of one series; `current` is given of the system's alone.
getMetrics(s) ==
    LET window == metrics[s]
    IN  [current |-> IF window = <<>> THEN 0 ELSE Last(window),
         average |-> calculateAverage(window),
         min |-> IF window = <<>> THEN 0 ELSE Min(ToSet(window)),
         max |-> IF window = <<>> THEN 0 ELSE Max(ToSet(window)),
         count |-> Len(window)]

\* In percent, of the report and of getHealth().
errorRate == IF requestCount > 0 THEN (errorCount * 100) \div requestCount ELSE 0

\* What there is an alert about, and what a recommendation.
generateAlerts ==
    {what \in DOMAIN AlertLimit :
       AlertLimit[what] < IF what = "errors" THEN errorCount
                          ELSE getMetrics(<<"system", what>>).current}

generateRecommendations ==
    {what \in DOMAIN AdviceLimit :
       AdviceLimit[what] < IF what = "errors" THEN errorCount
                           ELSE getMetrics(<<"system", what>>).average}

\* getErrorStatistics(): what is kept of each level, what came of the rest.
getErrorStatistics == [total |-> statistics.total,
                       byLevel |-> [l \in Levels |-> Len(errors[l])],
                       byType |-> statistics.byType,
                       byModule |-> statistics.byModule, byHour |-> statistics.byHour]

\* getRecentErrors(): all lists, the latest timestamps first.
getRecentErrors ==
    LET all == FlattenSeq([n \in DOMAIN LevelOrder |-> errors[LevelOrder[n]]])
        nth == Sorted([i \in DOMAIN all |-> all[i].timestamp])
    IN  [k \in 1..Min({RecentLimit, Len(all)}) |-> all[nth[k]]]

-----------------------------------------------------------------------------
(* Properties.                                                             *)

\* What is kept is the last of what came, of what came at these positions:
\* as many as fit, each before as many as are kept after it.
HoldsTheLatest(window, size, all, positions) ==
    /\ Len(window) = Min({size, Cardinality(positions)})
    /\ \A k \in DOMAIN window : \E i \in positions :
         /\ window[k] = all[i]
         /\ Cardinality({j \in positions : j > i}) = Len(window) - k

\* Every window holds the latest samples, and every list the latest errors of
\* its level, as many as fit, in the order in which they came.
WindowsHoldTheLatest ==
    /\ \A s \in Series :
         HoldsTheLatest(metrics[s], WindowSize[s[1]], sampled[s], DOMAIN sampled[s])
    /\ \A l \in Levels :
         HoldsTheLatest(errors[l], WindowSize["errors"], raised,
                        {i \in DOMAIN raised : raised[i].level = l})

\* The counters are those of all samples and errors, also of those that are
\* not kept, and each request fails at most once.
CountersAgree ==
    /\ requestCount = SumFunction([e \in Endpoints |-> Len(sampled[<<"api", e>>])])
    /\ errorRate \in 0..100
    /\ statistics.total = Len(raised)
    /\ \A t \in ErrorTypes :
         statistics.byType[t] = Cardinality({i \in DOMAIN raised : raised[i].type = t})
    /\ \A m \in ErrorModules :
         statistics.byModule[m] = Cardinality({i \in DOMAIN raised : raised[i].module = m})
    /\ SumFunction(statistics.byHour) = statistics.total
    /\ SumFunction(getErrorStatistics.byLevel) <= statistics.total

\* The errors shown as recent are the latest that are kept, an alert is about
\* the last sample, and a recommendation about one that is not too old.
ReportsAreRecent ==
    /\ LET shown == getRecentErrors
           kept == UNION {ToSet(errors[l]) : l \in Levels}
       IN  /\ \A e \in kept \ ToSet(shown), i \in DOMAIN shown :
                e.timestamp <= shown[i].timestamp
           /\ \A i, j \in DOMAIN shown :
                i < j => shown[i].timestamp >= shown[j].timestamp
    /\ \A what \in generateAlerts \ {"errors"} :
         Last(sampled[<<"system", what>>]) > AlertLimit[what]
    /\ \A what \in generateRecommendations \ {"errors"} :
         LET samples == sampled[<<"system", what>>]
         IN  \E i \in DOMAIN samples : /\ i > Len(samples) - WindowSize["system"]
                                       /\ samples[i] > AdviceLimit[what]

\* Whatever was recorded, reset and cleared in whatever order, and however
\* many windows have overflowed: what the monitors report is what came last.
MonitorsAreCurrent == WindowsHoldTheLatest /\ CountersAgree /\ ReportsAreRecent
=============================================================================
