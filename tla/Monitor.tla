------------------------------ MODULE Monitor -------------------------------
(***************************************************************************)
(* kernel/monitor.c: the ring of log entries, the performance timers and   *)
(* the statistics.  The clock of all three is timestamp_counter, which     *)
(* only logging advances.  A timer's name is a sequence of characters cut  *)
(* to the size of its field; an entry's level, source and text are one     *)
(* message.  The figures monitor_update_stats sets to constants are left   *)
(* out.                                                                    *)
(***************************************************************************)
EXTENDS Integers, Sequences

CONSTANTS
    LOG_BUFFER_SIZE,  \* 256
    MonitorWord,      \* the values of a uint32_t (2^32), a multiple of LOG_BUFFER_SIZE
    MAX_TIMERS,       \* 16
    NameSize,         \* the characters a timer's name keeps (31)
    Message,          \* the messages that are logged
    TimerName,        \* the names callers give their timers
    MaxStamp,         \* bound: timestamp_counter
    MaxUptime         \* bound: uptime_seconds

ASSUME MonitorAssumption ==
    /\ {LOG_BUFFER_SIZE, MAX_TIMERS, NameSize} \subseteq Nat \ {0}
    /\ \E k \in 1 .. MonitorWord : MonitorWord = k * LOG_BUFFER_SIZE
    /\ {MaxStamp, MaxUptime} \subseteq Nat
    /\ \A name \in TimerName : name \in Seq({name[i] : i \in DOMAIN name})

VARIABLES
    log_buffer, log_index, log_count,
    timestamp_counter,
    timers,
    uptime_seconds, cpu_usage_percent

monitorVars == <<log_buffer, log_index, log_count, timestamp_counter, timers,
                 uptime_seconds, cpu_usage_percent>>

LogIndex == 0 .. LOG_BUFFER_SIZE - 1
TimerIndex == 0 .. MAX_TIMERS - 1
NoEntry == [timestamp |-> 0, message |-> ""]
NoTimer == [name |-> <<>>, start_time |-> 0, total_time |-> 0, active |-> FALSE]

(* monitor_init, the entry it logs included. *)
MonitorInit ==
    /\ timestamp_counter = 1
    /\ log_buffer = [i \in LogIndex |->
                        IF i = 0 THEN [timestamp |-> 1, message |-> "init"] ELSE NoEntry]
    /\ log_index = 1 % LOG_BUFFER_SIZE
    /\ log_count = 1
    /\ timers = [i \in TimerIndex |-> NoTimer]
    /\ uptime_seconds = 0 /\ cpu_usage_percent = 0

LogAdvance_stays(i) == IF log_count < LOG_BUFFER_SIZE THEN (i + 1) % LOG_BUFFER_SIZE ELSE i
LogAdvance(i) == (i + 1) % LOG_BUFFER_SIZE

monitor_log(message) ==
    /\ timestamp_counter < MaxStamp
    /\ timestamp_counter' = timestamp_counter + 1
    /\ log_buffer' = [log_buffer EXCEPT ![log_index] =
                         [timestamp |-> timestamp_counter', message |-> message]]
    /\ log_index' = LogAdvance(log_index)
    /\ log_count' = IF log_count < LOG_BUFFER_SIZE THEN log_count + 1 ELSE log_count
    /\ UNCHANGED <<timers, uptime_seconds, cpu_usage_percent>>

(* monitor_get_log_entry; entry 0 is the oldest.  The difference is that of a uint32_t
   and wraps before the remainder is taken. *)
LogEntry(index) ==
    log_buffer[((log_index - log_count + index) % MonitorWord) % LOG_BUFFER_SIZE]

(* What monitor_get_log_entry delivers for the indices it accepts.  monitor_dump_logs asks
   for the same entries, but prints the text of its format in the place of each. *)
Log == [i \in 1 .. log_count |-> LogEntry(i - 1)]

Cut(name) == IF Len(name) > NameSize THEN SubSeq(name, 1, NameSize) ELSE name

First(slots) == {i \in slots : \A j \in slots : i <= j}

(* The first slot that is unnamed or bears the name; with no such slot the call is lost.
   A name that was cut never matches again. *)
monitor_start_timer(name) ==
    LET taken == {i \in TimerIndex : timers[i].name \in {<<>>, name}}
    IN  /\ \E i \in First(taken) :
              timers' = [timers EXCEPT ![i].name = Cut(name),
                                       ![i].start_time = timestamp_counter,
                                       ![i].active = TRUE]
        /\ UNCHANGED <<log_buffer, log_index, log_count, timestamp_counter,
                       uptime_seconds, cpu_usage_percent>>

monitor_end_timer_keeps_running(name) ==
    LET running == {i \in TimerIndex : timers[i].active /\ timers[i].name = name}
    IN  /\ \E i \in First(running) :
              timers' = [timers EXCEPT
                 ![i].total_time = @ + (timestamp_counter - timers[i].start_time)]
        /\ UNCHANGED <<log_buffer, log_index, log_count, timestamp_counter,
                       uptime_seconds, cpu_usage_percent>>

monitor_end_timer(name) ==
    LET running == {i \in TimerIndex : timers[i].active /\ timers[i].name = name}
    IN  /\ \E i \in First(running) :
              timers' = [timers EXCEPT
                 ![i].total_time = @ + (timestamp_counter - timers[i].start_time),
                 ![i].active = FALSE]
        /\ UNCHANGED <<log_buffer, log_index, log_count, timestamp_counter,
                       uptime_seconds, cpu_usage_percent>>

(* monitor_update_stats, called by both queries and by monitor_dump_stats. *)
monitor_update_stats ==
    /\ uptime_seconds < MaxUptime
    /\ uptime_seconds' = uptime_seconds + 1
    /\ LET total == uptime_seconds' * 100
           idle  == total \div 4
       IN  cpu_usage_percent' = ((total - idle) * 100) \div (total + 1)
    /\ UNCHANGED <<log_buffer, log_index, log_count, timestamp_counter, timers>>

MonitorNext ==
    \/ \E message \in Message : monitor_log(message)
    \/ \E name \in TimerName : monitor_start_timer(name) \/ monitor_end_timer(name)
    \/ monitor_update_stats

MonitorSpec == MonitorInit /\ [][MonitorNext]_monitorVars

-----------------------------------------------------------------------------
MonitorTypeOK ==
    /\ log_index \in LogIndex /\ log_count \in 0 .. LOG_BUFFER_SIZE
    /\ \A i \in TimerIndex : Len(timers[i].name) <= NameSize
    /\ cpu_usage_percent \in 0 .. 100

(* The ring and its index arithmetic, which wraps below zero as a uint32_t, are a log that
   forgets its oldest entry: what monitor_get_log_entry delivers is extended by the new
   entry, and once the ring is full loses its first one; nothing else ever changes it, and
   the entries are the latest ones without a gap. *)
LogKeepsLatest ==
    [][\/ UNCHANGED <<log_buffer, log_index, log_count>>
       \/ /\ SubSeq(Log', 1, Len(Log') - 1) =
                IF Len(Log) = LOG_BUFFER_SIZE THEN Tail(Log) ELSE Log
          /\ \A i \in DOMAIN Log' :
                Log'[i].timestamp = timestamp_counter' - Len(Log') + i]_monitorVars

(* Timers account for no time twice, however often they are restarted while they run,
   ended twice or taken over: the total and the running interval fit into the time since
   boot.  And the names of timers identify them, unless they fill the whole field. *)
TimersAccount ==
    \A i \in TimerIndex :
        /\ timers[i].total_time
              + (IF timers[i].active THEN timestamp_counter - timers[i].start_time ELSE 0)
              <= timestamp_counter
        /\ \A j \in TimerIndex \ {i} :
              timers[i].name = timers[j].name /\ timers[i].name # <<>>
                 => Len(timers[i].name) = NameSize
=============================================================================
