------------------------------- MODULE Power --------------------------------
(***************************************************************************)
(* kernel/power.c: the power state, the processor's frequency (MHz), the   *)
(* fan (RPM), the temperature and the battery, and the statistics kept     *)
(* beside them.  A call that is refused changes nothing and is not a step. *)
(* The running totals of seconds and the battery's voltage and current     *)
(* are left out, and so is charging, which nothing ever turns on.          *)
(***************************************************************************)
EXTENDS Integers

CONSTANTS
    CoolLimit, Warm, Hot, HeatLimit,  \* 30, 40, 60 and 80 degrees
    BootHeat,                         \* thermal_state at the start (45)
    ThermalPeriod,                    \* updates per thermal change (100)
    DischargePeriod,                  \* battery queries per percent (100)
    BootCharge, BootMinutes,          \* percentage (75) and remaining_time (180)
    Frequencies, FanSpeeds, Throttles \* the arguments callers pass

ASSUME PowerAssumption ==
    /\ {CoolLimit, Warm, Hot, HeatLimit, BootHeat, BootCharge, BootMinutes} \subseteq Nat
    /\ {ThermalPeriod, DischargePeriod} \subseteq Nat \ {0}
    /\ CoolLimit <= BootHeat /\ BootHeat <= HeatLimit

VARIABLES
    current_power_state,
    cpu_frequency, fan_speed, thermal_state,
    power_stats,       \* the copies callers are given, and the consumption (mW)
    thermal_counter,
    battery            \* percentage, remaining_time and discharge_counter

powerVars == <<current_power_state, cpu_frequency, fan_speed, thermal_state,
               power_stats, thermal_counter, battery>>

Stats(thermal, frequency, fan, consumption) ==
    [thermal_state |-> thermal, cpu_frequency |-> frequency, fan_speed |-> fan,
     power_consumption |-> consumption]

(* power_init *)
PowerInit ==
    /\ current_power_state = "on"
    /\ cpu_frequency = 1000 /\ fan_speed = 2000 /\ thermal_state = BootHeat
    /\ power_stats = Stats(BootHeat, 1000, 2000, 5000)
    /\ thermal_counter = 0
    /\ battery = [percentage |-> BootCharge, remaining_time |-> BootMinutes, discharge |-> 0]

(* power_set_state without the copy of the new settings. *)
power_set_state_uncounted(state) ==
    /\ current_power_state' = state
    /\ cpu_frequency' = CASE state = "on" -> 1000 [] state = "sleep" -> 100
                          [] OTHER -> cpu_frequency
    /\ fan_speed' = CASE state = "on" -> 2000 [] state = "sleep" -> 1000
                      [] OTHER -> fan_speed
    /\ UNCHANGED <<thermal_state, power_stats, thermal_counter, battery>>

(* Hibernating and switching off keep the frequency and the fan as they are. *)
power_set_state(state) ==
    /\ current_power_state' = state
    /\ cpu_frequency' = CASE state = "on" -> 1000 [] state = "sleep" -> 100
                          [] OTHER -> cpu_frequency
    /\ fan_speed' = CASE state = "on" -> 2000 [] state = "sleep" -> 1000
                      [] OTHER -> fan_speed
    /\ power_stats' = [power_stats EXCEPT !.cpu_frequency = cpu_frequency',
                                          !.fan_speed = fan_speed']
    /\ UNCHANGED <<thermal_state, thermal_counter, battery>>

(* The state each sleep state stands for; S2 is refused. *)
SleepState == [S0 |-> "on", S1 |-> "sleep", S3 |-> "sleep", S4 |-> "hibernate", S5 |-> "off"]

power_request_sleep(s) == s \in DOMAIN SleepState /\ power_set_state(SleepState[s])

power_request_wake ==
    current_power_state \in {"sleep", "hibernate"} /\ power_set_state("on")

power_set_cpu_frequency(mhz) ==
    /\ mhz \in 100 .. 2000
    /\ cpu_frequency' = mhz
    /\ power_stats' = [power_stats EXCEPT !.cpu_frequency = mhz]
    /\ UNCHANGED <<current_power_state, fan_speed, thermal_state, thermal_counter, battery>>

(* A share of 1000 MHz, whatever the frequency is; below 10 % it is refused. *)
power_throttle_cpu(percentage) ==
    /\ percentage <= 100
    /\ power_set_cpu_frequency((1000 * percentage) \div 100)

(* POWER_EVENT_SLEEP, WAKE, BATTERY_LOW and CRITICAL. *)
power_handle_event ==
    \/ power_request_sleep("S3")
    \/ power_request_wake
    \/ power_throttle_cpu(50)
    \/ power_request_sleep("S4")

power_set_fan_speed(rpm) ==
    /\ rpm \in 500 .. 5000
    /\ fan_speed' = rpm
    /\ power_stats' = [power_stats EXCEPT !.fan_speed = rpm]
    /\ UNCHANGED <<current_power_state, cpu_frequency, thermal_state, thermal_counter, battery>>

(* The temperature one thermal change later. *)
Heated ==
    IF cpu_frequency > 800
    THEN IF thermal_state < HeatLimit THEN thermal_state + 1 ELSE HeatLimit
    ELSE IF thermal_state > CoolLimit THEN thermal_state - 1 ELSE CoolLimit

FanFor(heat) == CASE heat > Hot -> 3000 [] heat > Warm -> 2000 [] OTHER -> 1000

Consumption ==
    CASE current_power_state = "on"    -> 3000 + (cpu_frequency \div 100) * 200
      [] current_power_state = "sleep" -> 500
      [] OTHER                         -> 100

(* power_update_statistics, called by power_get_statistics: the fan follows the
   temperature in every call, over whatever speed was set before. *)
power_update_statistics ==
    LET due == thermal_counter + 1 >= ThermalPeriod
    IN  /\ thermal_counter' = IF due THEN 0 ELSE thermal_counter + 1
        /\ thermal_state' = IF due THEN Heated ELSE thermal_state
        /\ fan_speed' = FanFor(thermal_state')
        /\ power_stats' = [power_stats EXCEPT
              !.thermal_state = IF due THEN thermal_state' ELSE @,
              !.fan_speed = fan_speed', !.power_consumption = Consumption]
        /\ UNCHANGED <<current_power_state, cpu_frequency, battery>>

power_reset_statistics ==
    /\ power_stats' = Stats(thermal_state, cpu_frequency, fan_speed, 0)
    /\ UNCHANGED <<current_power_state, cpu_frequency, fan_speed, thermal_state,
                   thermal_counter, battery>>

(* Every query of the battery drains it. *)
power_get_battery_status ==
    LET due   == battery.discharge + 1 >= DischargePeriod
        drops == due /\ battery.percentage > 0
    IN  /\ battery' =
              [percentage |-> battery.percentage - (IF drops THEN 1 ELSE 0),
               remaining_time |-> battery.remaining_time
                                  - (IF drops /\ battery.remaining_time > 0 THEN 1 ELSE 0),
               discharge |-> IF due THEN 0 ELSE battery.discharge + 1]
        /\ UNCHANGED <<current_power_state, cpu_frequency, fan_speed, thermal_state,
                       power_stats, thermal_counter>>

PowerNext ==
    \/ \E s \in {"S0", "S1", "S2", "S3", "S4", "S5"} : power_request_sleep(s)
    \/ power_handle_event
    \/ \E mhz \in Frequencies : power_set_cpu_frequency(mhz)
    \/ \E percentage \in Throttles : power_throttle_cpu(percentage)
    \/ \E rpm \in FanSpeeds : power_set_fan_speed(rpm)
    \/ power_update_statistics
    \/ power_reset_statistics
    \/ power_get_battery_status

PowerSpec == PowerInit /\ [][PowerNext]_powerVars

-----------------------------------------------------------------------------
PowerTypeOK ==
    /\ current_power_state \in {"on", "sleep", "hibernate", "off"}
    /\ cpu_frequency \in 100 .. 2000 /\ fan_speed \in 500 .. 5000
    /\ thermal_state \in CoolLimit .. HeatLimit
    /\ thermal_counter \in 0 .. ThermalPeriod - 1

(* The settings live twice, in the driver's variables and in the statistics handed to
   callers, and six functions write one or both: whatever the order of sleeping, waking,
   throttling, resets and updates, the two agree after every call. *)
StatsMirror ==
    /\ power_stats.thermal_state = thermal_state
    /\ power_stats.cpu_frequency = cpu_frequency
    /\ power_stats.fan_speed = fan_speed
=============================================================================
