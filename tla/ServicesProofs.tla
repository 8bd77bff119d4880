--------------------------- MODULE ServicesProofs ---------------------------
(***************************************************************************)
(* Proofs about the services: power management, the security tables, the   *)
(* monitor, the mouse, the devices on the pages of physical memory and the *)
(* shell's line on its screen, and with the formatter all of them          *)
(* together, for all values of the constants.                              *)
(***************************************************************************)
EXTENDS MCServices, FormatProofs

-----------------------------------------------------------------------------
(* Power management. *)

PowerStats == [thermal_state : Int, cpu_frequency : Int, fan_speed : Int,
               power_consumption : Int]

(* power_stats has to be a record for its fields to be assigned; the rest is PowerTypeOK
   and the mirror itself. *)
PowerInv == PowerTypeOK /\ power_stats \in PowerStats /\ StatsMirror

LEMMA PowerSetState ==
    ASSUME NEW state \in {"on", "sleep", "hibernate", "off"}, PowerInv, power_set_state(state)
    PROVE  PowerInv'
<1>1. /\ cpu_frequency' \in 100 .. 2000
      /\ fan_speed' \in 500 .. 5000
  BY DEF PowerInv, PowerTypeOK, power_set_state
<1>2. cpu_frequency' \in Int /\ fan_speed' \in Int
  BY <1>1
<1>3. power_stats \in PowerStats /\ power_stats.thermal_state = thermal_state
  BY DEF PowerInv, StatsMirror
<1>4. /\ power_stats' = [power_stats EXCEPT !.cpu_frequency = cpu_frequency',
                                            !.fan_speed = fan_speed']
      /\ thermal_state' = thermal_state
  BY DEF power_set_state
<1>5. /\ power_stats' \in PowerStats
      /\ power_stats'.cpu_frequency = cpu_frequency' /\ power_stats'.fan_speed = fan_speed'
      /\ power_stats'.thermal_state = power_stats.thermal_state
  BY <1>2, <1>3, <1>4 DEF PowerStats
<1>6. StatsMirror'
  BY <1>3, <1>4, <1>5 DEF StatsMirror
<1> QED
  BY <1>1, <1>5, <1>6 DEF PowerInv, PowerTypeOK, power_set_state

LEMMA PowerSleep ==
    ASSUME NEW s, PowerInv, power_request_sleep(s)
    PROVE  PowerInv'
<1>1. SleepState[s] \in {"on", "sleep", "hibernate", "off"}
  BY DEF power_request_sleep, SleepState
<1> QED
  BY <1>1, PowerSetState DEF power_request_sleep

LEMMA PowerFrequency ==
    ASSUME NEW mhz, PowerInv, power_set_cpu_frequency(mhz)
    PROVE  PowerInv'
<1>1. mhz \in 100 .. 2000 /\ mhz \in Int
  BY DEF power_set_cpu_frequency
<1>2. power_stats' \in PowerStats
  BY <1>1 DEF PowerInv, PowerStats, power_set_cpu_frequency
<1>3. StatsMirror'
  BY <1>1 DEF PowerInv, PowerStats, StatsMirror, power_set_cpu_frequency
<1> QED
  BY <1>1, <1>2, <1>3 DEF PowerInv, PowerTypeOK, power_set_cpu_frequency

LEMMA PowerFan ==
    ASSUME NEW rpm, PowerInv, power_set_fan_speed(rpm)
    PROVE  PowerInv'
<1>0. rpm \in 500 .. 5000
  BY DEF power_set_fan_speed
<1>1. rpm \in 500 .. 5000 /\ rpm \in Int
  BY <1>0
<1>2. power_stats' \in PowerStats
  BY <1>1 DEF PowerInv, PowerStats, power_set_fan_speed
<1>3. StatsMirror'
  BY <1>1 DEF PowerInv, PowerStats, StatsMirror, power_set_fan_speed
<1> QED
  BY <1>1, <1>2, <1>3 DEF PowerInv, PowerTypeOK, power_set_fan_speed

LEMMA PowerUpdate ==
    ASSUME PowerInv, power_update_statistics
    PROVE  PowerInv'
<1>0. /\ CoolLimit \in Nat /\ HeatLimit \in Nat /\ Warm \in Nat /\ Hot \in Nat
      /\ CoolLimit <= HeatLimit
  BY PowerAssumption
<1>1. thermal_state' \in CoolLimit .. HeatLimit /\ thermal_state' \in Int
  BY <1>0 DEF PowerInv, PowerTypeOK, power_update_statistics, Heated
<1>2. fan_speed' \in 500 .. 5000 /\ fan_speed' \in Int
  <2>1. fan_speed' = FanFor(thermal_state')
    BY DEF power_update_statistics
  <2> QED
    BY <1>0, <1>1, <2>1 DEF FanFor
<1>3. Consumption \in Int
  <2>1. cpu_frequency \in Nat
    BY DEF PowerInv, PowerTypeOK
  <2> QED
    BY <2>1 DEF Consumption
<1>4. power_stats' = [power_stats EXCEPT !.thermal_state = thermal_state',
                         !.fan_speed = fan_speed', !.power_consumption = Consumption]
  BY DEF PowerInv, PowerStats, StatsMirror, power_update_statistics
<1>5. /\ power_stats \in PowerStats
      /\ thermal_state' \in Int /\ fan_speed' \in Int
  BY <1>1, <1>2 DEF PowerInv
<1>6. /\ power_stats' \in PowerStats
      /\ power_stats'.thermal_state = thermal_state' /\ power_stats'.fan_speed = fan_speed'
      /\ power_stats'.cpu_frequency = power_stats.cpu_frequency
  BY <1>3, <1>4, <1>5 DEF PowerStats
<1>7. UNCHANGED <<current_power_state, cpu_frequency>>
  BY DEF power_update_statistics
<1>8. StatsMirror'
  BY <1>6, <1>7 DEF PowerInv, StatsMirror
<1>9. thermal_counter' \in 0 .. ThermalPeriod - 1
  BY PowerAssumption DEF PowerInv, PowerTypeOK, power_update_statistics
<1> QED
  BY <1>1, <1>2, <1>6, <1>7, <1>8, <1>9 DEF PowerInv, PowerTypeOK

LEMMA PowerInductive == PowerInv /\ [PowerNext]_powerVars => PowerInv'
<1> SUFFICES ASSUME PowerInv, [PowerNext]_powerVars PROVE PowerInv'
  OBVIOUS
<1>1. CASE \E s \in {"S0", "S1", "S2", "S3", "S4", "S5"} : power_request_sleep(s)
  BY <1>1, PowerSleep
<1>2. CASE power_handle_event
  BY <1>2, PowerSleep, PowerSetState, PowerFrequency
     DEF power_handle_event, power_request_wake, power_throttle_cpu
<1>3. CASE \E mhz \in Frequencies : power_set_cpu_frequency(mhz)
  BY <1>3, PowerFrequency
<1>4. CASE \E percentage \in Throttles : power_throttle_cpu(percentage)
  BY <1>4, PowerFrequency DEF power_throttle_cpu
<1>5. CASE \E rpm \in FanSpeeds : power_set_fan_speed(rpm)
  BY <1>5, PowerFan
<1>6. CASE power_update_statistics
  BY <1>6, PowerUpdate
<1>7. CASE power_reset_statistics
  BY <1>7, PowerAssumption
     DEF PowerInv, PowerTypeOK, PowerStats, StatsMirror, power_reset_statistics, Stats
<1>8. CASE power_get_battery_status
  BY <1>8 DEF PowerInv, PowerTypeOK, PowerStats, StatsMirror, power_get_battery_status
<1>9. CASE UNCHANGED powerVars
  BY <1>9 DEF PowerInv, PowerTypeOK, PowerStats, StatsMirror, powerVars
<1> QED
  BY <1>1, <1>2, <1>3, <1>4, <1>5, <1>6, <1>7, <1>8, <1>9 DEF PowerNext

LEMMA PowerAlways == PowerSpec => []PowerInv
<1>1. PowerInit => PowerInv
  BY PowerAssumption DEF PowerInit, PowerInv, PowerTypeOK, PowerStats, StatsMirror, Stats
<1> QED
  BY <1>1, PowerInductive, PTL DEF PowerSpec

(* The driver's variables and the statistics handed to callers agree after every call of
   power.c, for all arguments and limits, and the settings stay in their ranges. *)
THEOREM StatsMirrorAlways == PowerSpec => [](StatsMirror /\ PowerTypeOK)
BY PowerAlways, PTL DEF PowerInv

-----------------------------------------------------------------------------
(* The security tables. *)

KeptNames == {NameKept[n] : n \in UserName} \cup {"root"}
KeptPasswords == {PasswordKept[w] : w \in Password} \cup {""}
KeptResources == {ResourceKept[z] : z \in Resource} \cup {"/dev", "/proc", "/sys"}

Users == [name : KeptNames, uid : Uid, gid : Uid, password : KeptPasswords, active : BOOLEAN]
Modes == Permissions \cup {{"read", "write", "admin"}, {"read", "admin"},
                           {"read", "write", "execute"}}
Entries == [resource : KeptResources, uid : Uid, gid : Uid, permissions : Modes]
Contexts == [uid : Uid, gid : Uid, permissions : SUBSET All]

SecurityTables ==
    /\ current_context \in Contexts
    /\ user_db \in Seq(Users) /\ Len(user_db) <= MaxUsers
    /\ acl_table \in Seq(Entries) /\ Len(acl_table) <= MaxAcl

ClippedName(k) == Clipped(k, UserName, NameKept)
ClippedResource(k) == Clipped(k, Resource, ResourceKept)

NamesUnique ==
    \A i, j \in DOMAIN user_db :
        user_db[i].name = user_db[j].name => i = j \/ ClippedName(user_db[i].name)

EntriesUnique ==
    \A i, j \in DOMAIN acl_table :
        /\ acl_table[i].resource = acl_table[j].resource
        /\ acl_table[i].uid = acl_table[j].uid
        /\ acl_table[i].gid = acl_table[j].gid
        => i = j \/ ClippedResource(acl_table[j].resource)

RootActive == \A i \in DOMAIN user_db : user_db[i].uid = ROOT_UID => user_db[i].active

SecurityInv == SecurityTables /\ NamesUnique /\ EntriesUnique /\ RootActive

(* A name that is kept as it is, or the name another one is clipped to. *)
LEMMA KeptOrClipped ==
    /\ \A n \in UserName : NameKept[n] = n \/ ClippedName(NameKept[n])
    /\ \A z \in Resource : ResourceKept[z] = z \/ ClippedResource(ResourceKept[z])
BY DEF ClippedName, ClippedResource, Clipped

LEMMA SecurityInitial == SecurityInit => SecurityInv
<1> SUFFICES ASSUME security_init PROVE SecurityInv
  <2>1. ASSUME Zeroed PROVE SecurityInv
    <3>1. user_db = <<>> /\ acl_table = <<>>
      BY <2>1 DEF Zeroed
    <3>2. current_context \in Contexts
      BY <2>1, SecurityAssumption DEF Zeroed, Contexts, ROOT_UID
    <3>3. /\ user_db \in Seq(Users) /\ Len(user_db) = 0 /\ DOMAIN user_db = {}
          /\ acl_table \in Seq(Entries) /\ Len(acl_table) = 0 /\ DOMAIN acl_table = {}
      BY <3>1
    <3>4. 0 <= MaxUsers /\ 0 <= MaxAcl
      BY SecurityAssumption
    <3> QED
      BY <3>2, <3>3, <3>4 DEF SecurityInv, SecurityTables, NamesUnique, EntriesUnique, RootActive
  <2> QED
    BY <2>1 DEF SecurityInit
<1> DEFINE root == User("root", 0, 0)
           dev  == Entry("/dev", 0, 0, {"read", "write", "admin"})
           proc == Entry("/proc", 0, 0, {"read", "admin"})
           sys  == Entry("/sys", 0, 0, {"read", "admin"})
<1>1. user_db = <<root>> /\ acl_table = <<dev, proc, sys>>
  BY DEF security_init, ROOT_UID
<1>2. current_context \in Contexts
  <2>1. 0 \in Uid /\ All \in SUBSET All
    BY SecurityAssumption
  <2> QED
    BY <2>1 DEF security_init, Contexts, ROOT_UID
<1>3. root \in Users /\ root.name = "root" /\ root.active /\ root.uid = 0
  BY SecurityAssumption DEF Users, User, KeptNames, KeptPasswords
<1>4. /\ dev \in Entries /\ dev.resource = "/dev"
      /\ proc \in Entries /\ proc.resource = "/proc"
      /\ sys \in Entries /\ sys.resource = "/sys"
  BY SecurityAssumption DEF Entries, Entry, Modes, KeptResources
<1> HIDE DEF root, dev, proc, sys
<1>5. user_db \in Seq(Users) /\ Len(user_db) = 1 /\ user_db[1] = root
  BY <1>1, <1>3
<1>6. /\ acl_table \in Seq(Entries) /\ Len(acl_table) = 3
      /\ acl_table[1] = dev /\ acl_table[2] = proc /\ acl_table[3] = sys
  BY <1>1, <1>4
<1>7. NamesUnique /\ RootActive
  BY <1>3, <1>5 DEF NamesUnique, RootActive, ROOT_UID
<1>8. EntriesUnique
  <2>1. DOMAIN acl_table = 1 .. 3
    BY <1>6
  <2> QED
    BY <1>4, <1>6, <2>1 DEF EntriesUnique
<1>9. 1 <= MaxUsers /\ 3 <= MaxAcl
  BY SecurityAssumption
<1> QED
  BY <1>2, <1>5, <1>6, <1>7, <1>8, <1>9 DEF SecurityInv, SecurityTables

LEMMA ContextSet ==
    ASSUME SecurityTables, NEW uid \in Uid, NEW gid \in Uid, SetContext(uid, gid)
    PROVE  current_context' \in Contexts
<1>1. CASE IsRoot
  BY <1>1 DEF SetContext, Context, Contexts, All
<1>2. CASE ~IsRoot
  BY <1>2 DEF SetContext, SecurityTables
<1> QED
  BY <1>1, <1>2

(* A step that only changes the context. *)
LEMMA ContextStep ==
    ASSUME SecurityInv, current_context' \in Contexts, UNCHANGED <<user_db, acl_table>>
    PROVE  SecurityInv'
BY DEF SecurityInv, SecurityTables, NamesUnique, EntriesUnique, RootActive

LEMMA PermissionStep ==
    ASSUME SecurityInv, NEW resource \in Resource, NEW uid \in Uid,
           NEW gid \in Uid, NEW perm \in Modes,
           security_set_permission(resource, uid, gid, perm)
    PROVE  SecurityInv'
<1> DEFINE same == {i \in DOMAIN acl_table : AclMatches(acl_table[i], resource, uid, gid)}
           kept == ResourceKept[resource]
           new == Entry(kept, uid, gid, perm)
           k == CHOOSE i \in same : \A j \in same : i <= j
<1>1. /\ acl_table \in Seq(Entries) /\ Len(acl_table) < MaxAcl /\ MaxAcl \in Nat
      /\ UNCHANGED <<current_context, user_db>>
  BY SecurityAssumption DEF SecurityInv, SecurityTables, security_set_permission
<1>2. SUFFICES /\ acl_table' \in Seq(Entries) /\ Len(acl_table') <= MaxAcl
               /\ EntriesUnique'
  BY <1>1 DEF SecurityInv, SecurityTables, NamesUnique, RootActive
<1>3. CASE same = {}
  <2>1. acl_table' = Append(acl_table, new)
    BY <1>3 DEF security_set_permission
  <2>2. /\ new \in Entries
        /\ new.resource = kept /\ new.uid = uid /\ new.gid = gid
    BY DEF Entry, Entries, KeptResources
  <2>3. \A i \in DOMAIN acl_table :
           ~ /\ acl_table[i].resource = resource
             /\ acl_table[i].uid = uid
             /\ acl_table[i].gid = gid
    BY <1>3 DEF AclMatches
  <2>4. EntriesUnique /\ (kept = resource \/ ClippedResource(kept))
    BY KeptOrClipped DEF SecurityInv
  <2> HIDE DEF new, kept
  <2>5. EntriesUnique'
    BY <1>1, <2>1, <2>2, <2>3, <2>4 DEF EntriesUnique
  <2> QED
    BY <1>1, <2>1, <2>2, <2>5
<1>4. CASE same # {}
  <2>1. same \subseteq Nat
    BY <1>1
  <2>4. k \in DOMAIN acl_table
    <3>1. \E m \in same : \A j \in same : m <= j
      <4> HIDE DEF same
      <4> QED
        BY <1>4, <2>1, LeastNumber
    <3> QED
      BY <3>1
  <2> DEFINE e == [acl_table[k] EXCEPT !.permissions = perm]
  <2>5. acl_table' = [acl_table EXCEPT ![k] = e]
    BY <1>4 DEF security_set_permission
  <2>6. acl_table[k] \in Entries
    BY <1>1, <2>4
  <2>7. /\ e \in Entries
        /\ e.resource = acl_table[k].resource
        /\ e.uid = acl_table[k].uid /\ e.gid = acl_table[k].gid
    BY <2>6 DEF Entries
  <2> HIDE DEF k, same, e
  <2>8. /\ acl_table' \in Seq(Entries) /\ Len(acl_table') = Len(acl_table)
        /\ DOMAIN acl_table' = DOMAIN acl_table
    BY <1>1, <2>4, <2>5, <2>7
  <2>9. \A m \in DOMAIN acl_table :
            /\ acl_table'[m].resource = acl_table[m].resource
            /\ acl_table'[m].uid = acl_table[m].uid
            /\ acl_table'[m].gid = acl_table[m].gid
    BY <1>1, <2>4, <2>5, <2>7
  <2> QED
    BY <1>1, <2>8, <2>9 DEF SecurityInv, EntriesUnique
<1> QED
  BY <1>3, <1>4

LEMMA CreateUserStep ==
    ASSUME SecurityInv, NEW name \in UserName, NEW uid \in Uid, NEW gid \in Uid,
           security_create_user(name, uid, gid)
    PROVE  SecurityInv'
<1> DEFINE kept == NameKept[name]
           new == User(kept, uid, gid)
<1>1. /\ user_db \in Seq(Users) /\ MaxUsers \in Nat
      /\ Len(user_db) < MaxUsers
      /\ \A i \in DOMAIN user_db : user_db[i].name # name
      /\ user_db' = Append(user_db, new)
      /\ UNCHANGED <<current_context, acl_table>>
  BY SecurityAssumption DEF SecurityInv, SecurityTables, security_create_user
<1>2. new \in Users /\ new.name = kept /\ new.active
  BY DEF Users, User, KeptNames, KeptPasswords
<1>3. kept = name \/ ClippedName(kept)
  BY KeptOrClipped
<1> HIDE DEF new, kept
<1>4. user_db' \in Seq(Users) /\ Len(user_db') <= MaxUsers
  BY <1>1, <1>2
<1>5. NamesUnique'
  BY <1>1, <1>2, <1>3 DEF SecurityInv, NamesUnique
<1>6. RootActive'
  BY <1>1, <1>2 DEF SecurityInv, RootActive
<1> QED
  BY <1>1, <1>4, <1>5, <1>6 DEF SecurityInv, SecurityTables, EntriesUnique

(* An entry of the user table that keeps its name and is active if it is root's. *)
LEMMA ChangeUserStep ==
    ASSUME SecurityInv, NEW i \in DOMAIN user_db, NEW u \in Users,
           u.name = user_db[i].name,
           u.uid = ROOT_UID => u.active,
           user_db' = [user_db EXCEPT ![i] = u],
           UNCHANGED <<current_context, acl_table>>
    PROVE  SecurityInv'
<1>1. user_db \in Seq(Users) /\ Len(user_db) <= MaxUsers
  BY DEF SecurityInv, SecurityTables
<1>2. user_db' \in Seq(Users) /\ Len(user_db') = Len(user_db) /\ DOMAIN user_db' = DOMAIN user_db
  BY <1>1
<1>3. NamesUnique' /\ RootActive'
  BY <1>1, <1>2 DEF SecurityInv, NamesUnique, RootActive
<1> QED
  BY <1>1, <1>2, <1>3 DEF SecurityInv, SecurityTables, EntriesUnique

LEMMA DeleteUserStep ==
    ASSUME SecurityInv, NEW uid \in Uid, security_delete_user(uid)
    PROVE  SecurityInv'
<1>1. PICK i \in DOMAIN user_db :
          /\ user_db[i].uid = uid
          /\ user_db' = [user_db EXCEPT ![i].active = FALSE]
  BY DEF security_delete_user
<1> DEFINE u == [user_db[i] EXCEPT !.active = FALSE]
<1>2. uid # ROOT_UID /\ UNCHANGED <<current_context, acl_table>>
  BY DEF security_delete_user
<1>3. user_db[i] \in Users
  BY DEF SecurityInv, SecurityTables
<1>4. u \in Users /\ u.name = user_db[i].name /\ u.uid = user_db[i].uid
  BY <1>3 DEF Users
<1>5. user_db' = [user_db EXCEPT ![i] = u]
  BY <1>1
<1>6. u.uid # ROOT_UID
  BY <1>1, <1>2, <1>4
<1> QED
  BY <1>2, <1>4, <1>5, <1>6, ChangeUserStep

LEMMA PasswordStep ==
    ASSUME SecurityInv, NEW uid \in Uid, NEW password \in Password,
           security_set_user_password(uid, password)
    PROVE  SecurityInv'
<1>1. PICK i \in DOMAIN user_db :
          user_db' = [user_db EXCEPT ![i].password = PasswordKept[password]]
  BY DEF security_set_user_password
<1> DEFINE u == [user_db[i] EXCEPT !.password = PasswordKept[password]]
<1>2. UNCHANGED <<current_context, acl_table>>
  BY DEF security_set_user_password
<1>3. user_db[i] \in Users
  BY DEF SecurityInv, SecurityTables
<1>4. /\ u \in Users /\ u.name = user_db[i].name
      /\ u.active = user_db[i].active /\ u.uid = user_db[i].uid
  BY <1>3 DEF Users, KeptPasswords
<1>5. user_db' = [user_db EXCEPT ![i] = u]
  BY <1>1
<1>6. u.uid = ROOT_UID => u.active
  BY <1>4 DEF SecurityInv, RootActive
<1> QED
  BY <1>2, <1>4, <1>5, <1>6, ChangeUserStep

LEMMA SecurityInductive == SecurityInv /\ [SecurityNext]_securityVars => SecurityInv'
<1> SUFFICES ASSUME SecurityInv, [SecurityNext]_securityVars PROVE SecurityInv'
  OBVIOUS
<1>0. SecurityTables /\ current_context.uid \in Uid /\ current_context.gid \in Uid
  BY DEF SecurityInv, SecurityTables, Contexts
<1>1. CASE \E uid \in Uid : sys_setuid(uid) \/ sys_setgid(uid)
  BY <1>0, <1>1, ContextSet, ContextStep DEF sys_setuid, sys_setgid
<1>2. CASE \E uid \in Uid : security_delete_user(uid)
  BY <1>2, DeleteUserStep
<1>3. CASE \E name \in UserName, password \in Password :
              security_authenticate_user(name, password)
  <2>1. PICK i \in DOMAIN user_db : SetContext(user_db[i].uid, user_db[i].gid)
    BY <1>3 DEF security_authenticate_user
  <2>2. user_db[i] \in Users
    BY <1>0 DEF SecurityTables
  <2>3. user_db[i].uid \in Uid /\ user_db[i].gid \in Uid
    BY <2>2 DEF Users
  <2>4. UNCHANGED <<user_db, acl_table>>
    BY <1>3 DEF security_authenticate_user
  <2> QED
    BY <1>0, <2>1, <2>3, <2>4, ContextSet, ContextStep
<1>4. CASE \E name \in UserName, uid, gid \in Uid : security_create_user(name, uid, gid)
  BY <1>4, CreateUserStep
<1>5. CASE \E uid \in Uid, password \in Password : security_set_user_password(uid, password)
  BY <1>5, PasswordStep
<1>6. CASE \E path \in Resource :
              \/ \E mode \in Permissions : sys_chmod(path, mode)
              \/ \E uid, gid \in Uid : sys_chown(path, uid, gid)
  <2>1. Permissions \subseteq Modes /\ {"read", "write", "execute"} \in Modes
    BY DEF Modes
  <2> QED
    BY <1>0, <1>6, <2>1, PermissionStep DEF sys_chmod, sys_chown
<1>7. CASE UNCHANGED securityVars
  BY <1>0, <1>7, ContextStep DEF securityVars, SecurityTables
<1> QED
  BY <1>1, <1>2, <1>3, <1>4, <1>5, <1>6, <1>7 DEF SecurityNext

LEMMA SecurityAlways == SecuritySpec => []SecurityInv
BY SecurityInitial, SecurityInductive, PTL DEF SecuritySpec

(* The user table keeps one entry per name and the access control list one entry per
   resource, user and group, whatever is created, deleted, set and replaced in whatever
   order, unless the name fills its field and a longer one is cut to it; no account of
   root's uid is deactivated. *)
THEOREM KeysUniqueAlways == SecuritySpec => [](KeysUnique /\ SecurityTypeOK)
<1>1. SecurityInv => KeysUnique
  BY DEF SecurityInv, NamesUnique, EntriesUnique, RootActive, KeysUnique, AclMatches,
         ClippedName, ClippedResource
<1>2. SecurityInv => SecurityTypeOK
  BY SecurityAssumption DEF SecurityInv, SecurityTables, Contexts, SecurityTypeOK
<1> QED
  BY <1>1, <1>2, SecurityAlways, PTL

LEMMA PrivilegeStep ==
    ASSUME ~IsRoot, [SecurityNext]_securityVars
    PROVE  /\ UNCHANGED <<current_context, acl_table>>
           /\ DOMAIN user_db' = DOMAIN user_db
           /\ \A i \in DOMAIN user_db :
                  user_db'[i] # user_db[i] => user_db[i].uid = current_context.uid
<1>1. CASE \E uid \in Uid : sys_setuid(uid) \/ sys_setgid(uid)
  BY <1>1 DEF sys_setuid, sys_setgid, SetContext
<1>2. CASE \E uid \in Uid : security_delete_user(uid)
  BY <1>2 DEF security_delete_user
<1>3. CASE \E name \in UserName, password \in Password :
              security_authenticate_user(name, password)
  BY <1>3 DEF security_authenticate_user, SetContext
<1>4. CASE \E name \in UserName, uid, gid \in Uid : security_create_user(name, uid, gid)
  BY <1>4 DEF security_create_user
<1>5. CASE \E uid \in Uid, password \in Password : security_set_user_password(uid, password)
  <2>1. PICK uid \in Uid, password \in Password : security_set_user_password(uid, password)
    BY <1>5
  <2>2. current_context.uid = uid /\ UNCHANGED <<current_context, acl_table>>
    BY <2>1 DEF security_set_user_password
  <2>3. PICK i \in DOMAIN user_db :
            user_db[i].uid = uid /\ user_db' = [user_db EXCEPT ![i].password = PasswordKept[password]]
    BY <2>1 DEF security_set_user_password
  <2>4. DOMAIN user_db' = DOMAIN user_db /\ \A j \in DOMAIN user_db : j # i => user_db'[j] = user_db[j]
    BY <2>3
  <2> QED
    BY <2>2, <2>3, <2>4
<1>6. CASE \E path \in Resource :
              \/ \E mode \in Permissions : sys_chmod(path, mode)
              \/ \E uid, gid \in Uid : sys_chown(path, uid, gid)
  BY <1>6 DEF sys_chmod, sys_chown, security_set_permission
<1>7. CASE UNCHANGED securityVars
  BY <1>7 DEF securityVars
<1> QED
  BY <1>1, <1>2, <1>3, <1>4, <1>5, <1>6, <1>7 DEF SecurityNext

(* Privilege only drops: from the moment the context is not root's, no call of security.c
   or of the system calls on it changes the context or the access control list, and the
   user table changes only in the password of an entry of that uid. *)
THEOREM PrivilegeOnlyDropsAlways == SecuritySpec => PrivilegeOnlyDrops
<1>1. [SecurityNext]_securityVars =>
        [~IsRoot =>
          /\ UNCHANGED <<current_context, acl_table>>
          /\ DOMAIN user_db' = DOMAIN user_db
          /\ \A i \in DOMAIN user_db :
                user_db'[i] # user_db[i] => user_db[i].uid = current_context.uid]_securityVars
  BY PrivilegeStep
<1> QED
  BY <1>1, PTL DEF SecuritySpec, PrivilegeOnlyDrops

-----------------------------------------------------------------------------
(* The monitor: the log. *)

(* Positions of log entries are at most one turn before the start of the ring. *)
LEMMA ModAround ==
    ASSUME NEW n \in Nat \ {0}, NEW z \in -n .. 2 * n - 1
    PROVE  z % n = IF z < 0 THEN z + n ELSE IF z < n THEN z ELSE z - n
OBVIOUS

LEMMA BelowTop ==
    ASSUME NEW n \in Int, NEW i \in 1 .. n, i # n
    PROVE  i \in 1 .. n - 1
OBVIOUS

LogRecord == [timestamp : Nat, message : Message \cup {"", "init"}]

LEMMA CellOfPosition ==
    ASSUME NEW w \in Nat \ {0}, NEW y \in Nat, NEW r \in 0 .. w - 1
    PROVE  (y * w + r) \div w = y /\ (y * w + r) % w = r /\ y * w \in Nat
<1> DEFINE place == y * w + r
           q == place \div w
           m == place % w
<1>1. y * w \in Nat /\ place \in Nat
  OBVIOUS
<1>2. q \in Int /\ m \in 0 .. w - 1 /\ place = q * w + m
  BY <1>1
<1>3. q = y
  <2>1. CASE q < y
    <3>1. (q + 1) * w <= y * w
      BY <1>2, <2>1
    <3> QED
      BY <1>1, <1>2, <3>1
  <2>2. CASE q > y
    <3>1. (y + 1) * w <= q * w
      BY <1>2, <2>2
    <3> QED
      BY <1>1, <1>2, <3>1
  <2> QED
    BY <1>2, <2>1, <2>2
<1> QED
  BY <1>1, <1>2, <1>3

(* The wrapped difference has the remainder of the difference. *)
LEMMA WrappedPlace ==
    ASSUME NEW n \in Nat \ {0}, NEW k \in Nat \ {0}, NEW z \in -n .. n - 1
    PROVE  (z % (k * n)) % n = z % n
<1> DEFINE w == k * n
           b == (k - 1) * n
<1>1. w \in Nat \ {0} /\ b \in Nat /\ w = b + n
  OBVIOUS
<1>2. CASE z >= 0
  <2> HIDE DEF w, b
  <2>1. z % w = z
    BY <1>1, <1>2
  <2> QED
    BY <2>1 DEF w
<1>3. CASE z < 0
  <2>1. z % w = z + w /\ z % n = z + n /\ z + n \in 0 .. n - 1
    <3> HIDE DEF w, b
    <3> QED
      BY <1>1, <1>3
  <2>2. z + w = (k - 1) * n + (z + n) /\ k - 1 \in Nat
    BY <1>1
  <2>3. ((k - 1) * n + (z + n)) % n = z + n
    BY <2>1, <2>2, CellOfPosition
  <2> QED
    BY <2>1, <2>2, <2>3 DEF w
<1> QED
  BY <1>2, <1>3

(* The entry that is delivered at place i. *)
At(i) == log_buffer[(log_index - log_count + (i - 1)) % LOG_BUFFER_SIZE]

LogInv ==
    /\ log_index \in LogIndex /\ log_count \in 1 .. LOG_BUFFER_SIZE
    /\ timestamp_counter \in Nat /\ log_count <= timestamp_counter
    /\ log_buffer \in [LogIndex -> LogRecord]
    /\ \A i \in 1 .. log_count : At(i).timestamp = timestamp_counter - log_count + i

LogShape ==
    /\ Log \in Seq(LogRecord) /\ Len(Log) = log_count
    /\ \A i \in 1 .. log_count : Log[i] = At(i)

LEMMA LogReads == LogInv => LogShape
<1> SUFFICES ASSUME LogInv PROVE LogShape
  OBVIOUS
<1>1. LOG_BUFFER_SIZE \in Nat \ {0} /\ log_count \in Nat
  BY MonitorAssumption DEF LogInv
<1>2. ASSUME NEW i \in 1 .. log_count PROVE At(i) \in LogRecord
  <2>1. log_index - log_count + (i - 1) \in -LOG_BUFFER_SIZE .. 2 * LOG_BUFFER_SIZE - 1
    BY <1>1 DEF LogInv, LogIndex
  <2>2. (log_index - log_count + (i - 1)) % LOG_BUFFER_SIZE \in LogIndex
    BY <1>1, <2>1 DEF LogIndex
  <2> QED
    BY <2>2 DEF At, LogInv
<1>3. ASSUME NEW i \in 1 .. log_count PROVE LogEntry(i - 1) = At(i)
  <2> DEFINE z == log_index - log_count + (i - 1)
  <2>1. z \in -LOG_BUFFER_SIZE .. LOG_BUFFER_SIZE - 1
    BY <1>1 DEF LogInv, LogIndex
  <2>2. PICK k \in 1 .. MonitorWord : MonitorWord = k * LOG_BUFFER_SIZE
    BY MonitorAssumption
  <2>3. k \in Nat \ {0}
    OBVIOUS
  <2> HIDE DEF z
  <2>4. (z % MonitorWord) % LOG_BUFFER_SIZE = z % LOG_BUFFER_SIZE
    BY <1>1, <2>1, <2>2, <2>3, WrappedPlace
  <2> QED
    BY <2>4 DEF LogEntry, At, z
<1>4. Log = [i \in 1 .. log_count |-> At(i)]
  BY <1>3 DEF Log
<1> QED
  BY <1>1, <1>2, <1>4 DEF LogShape

LEMMA LogInitial == MonitorInit => LogInv
<1> SUFFICES ASSUME MonitorInit PROVE LogInv
  OBVIOUS
<1>1. LOG_BUFFER_SIZE \in Nat \ {0}
  BY MonitorAssumption
<1>2. log_index \in LogIndex /\ log_index = IF LOG_BUFFER_SIZE = 1 THEN 0 ELSE 1
  <2>1. log_index = 1 % LOG_BUFFER_SIZE
    BY DEF MonitorInit
  <2>2. 1 \in -LOG_BUFFER_SIZE .. 2 * LOG_BUFFER_SIZE - 1
    BY <1>1
  <2>3. 1 % LOG_BUFFER_SIZE = IF LOG_BUFFER_SIZE = 1 THEN 0 ELSE 1
    BY <1>1, <2>2, ModAround
  <2> QED
    BY <1>1, <2>1, <2>3 DEF LogIndex
<1>3. log_buffer \in [LogIndex -> LogRecord]
  BY DEF MonitorInit, LogRecord, NoEntry
<1>4. (log_index - 1 + (1 - 1)) % LOG_BUFFER_SIZE = 0
  BY <1>1, <1>2, ModAround
<1>5. log_buffer[0].timestamp = 1
  BY <1>1 DEF MonitorInit, LogIndex
<1>6. \A i \in 1 .. 1 : At(i).timestamp = timestamp_counter - log_count + i
  BY <1>4, <1>5 DEF MonitorInit, At
<1> QED
  BY <1>1, <1>2, <1>3, <1>6 DEF LogInv, MonitorInit

LEMMA LogStep ==
    ASSUME LogInv, NEW message \in Message, monitor_log(message)
    PROVE  /\ LogInv'
           /\ \A i \in 1 .. log_count' - 1 :
                 At(i)' = IF log_count < LOG_BUFFER_SIZE THEN At(i) ELSE At(i + 1)
<1> DEFINE N == LOG_BUFFER_SIZE
           e == [timestamp |-> timestamp_counter', message |-> message]
           j(i) == IF log_count < N THEN i ELSE i + 1
<1>1. /\ N \in Nat \ {0} /\ log_index \in 0 .. N - 1 /\ log_count \in 1 .. N
      /\ timestamp_counter \in Nat /\ log_count <= timestamp_counter
      /\ log_buffer \in [0 .. N - 1 -> LogRecord]
  BY MonitorAssumption DEF LogInv, LogIndex
<1>2. /\ timestamp_counter' = timestamp_counter + 1
      /\ log_buffer' = [log_buffer EXCEPT ![log_index] = e]
      /\ log_index' = (log_index + 1) % N
      /\ log_count' = IF log_count < N THEN log_count + 1 ELSE log_count
  BY DEF monitor_log, LogAdvance
<1>3. e \in LogRecord /\ e.timestamp = timestamp_counter'
  <2>1. timestamp_counter' \in Nat
    BY <1>1, <1>2
  <2> QED
    BY <2>1 DEF LogRecord
<1> HIDE DEF e, N
<1>4. log_count' \in 1 .. N
  BY <1>1, <1>2
<1>5. /\ log_index' \in 0 .. N - 1
      /\ (log_index' - log_count' + (log_count' - 1)) % N = log_index
      /\ \A i \in 1 .. log_count' - 1 :
            /\ (log_index' - log_count' + (i - 1)) % N
                  = (log_index - log_count + (j(i) - 1)) % N
            /\ (log_index' - log_count' + (i - 1)) % N # log_index
            /\ (log_index' - log_count' + (i - 1)) % N \in 0 .. N - 1
  <2> DEFINE m(z) == z % N
  <2>1. \A z \in -N .. 2 * N - 1 :
            m(z) = IF z < 0 THEN z + N ELSE IF z < N THEN z ELSE z - N
    BY <1>1, ModAround
  <2>2. log_index' = m(log_index + 1)
    BY <1>2
  <2>3. log_count' = IF log_count < N THEN log_count + 1 ELSE log_count
    BY <1>2
  <2> HIDE DEF m
  <2>4. log_index' = IF log_index + 1 < N THEN log_index + 1 ELSE 0
    BY <1>1, <2>1, <2>2
  <2>5. m(log_index' - log_count' + (log_count' - 1)) = log_index
    BY <1>1, <1>4, <2>1, <2>4
  <2>6. ASSUME NEW i \in 1 .. log_count' - 1
        PROVE  /\ m(log_index' - log_count' + (i - 1)) = m(log_index - log_count + (j(i) - 1))
               /\ m(log_index' - log_count' + (i - 1)) # log_index
               /\ m(log_index' - log_count' + (i - 1)) \in 0 .. N - 1
    BY <1>1, <1>4, <2>1, <2>3, <2>4
  <2> QED
    BY <1>1, <2>4, <2>5, <2>6 DEF m
<1>6. log_buffer' \in [0 .. N - 1 -> LogRecord]
  BY <1>1, <1>2, <1>3
<1>7. ASSUME NEW i, i = log_count'
      PROVE  At(i)' = e
  BY <1>1, <1>2, <1>5, <1>7 DEF At, N
<1>8. ASSUME NEW i \in 1 .. log_count' - 1
      PROVE  At(i)' = At(j(i))
  BY <1>1, <1>2, <1>5 DEF At, N
<1>9. ASSUME NEW i \in 1 .. log_count'
      PROVE  At(i)'.timestamp = timestamp_counter' - log_count' + i
  <2>1. CASE i = log_count'
    <3>1. At(i)'.timestamp = timestamp_counter'
      BY <1>3, <1>7, <2>1 DEF e
    <3>2. timestamp_counter' = timestamp_counter' - log_count' + i
      BY <1>1, <1>2, <1>4, <2>1
    <3> QED
      BY <3>1, <3>2
  <2>2. CASE i # log_count'
    <3>1. i \in 1 .. log_count' - 1
      <4>1. log_count' \in Int
        BY <1>1, <1>4
      <4> QED
        BY <2>2, <4>1, BelowTop
    <3>2. j(i) \in 1 .. log_count /\ timestamp_counter - log_count + j(i)
                                       = timestamp_counter' - log_count' + i
      BY <1>1, <1>2, <3>1
    <3>3. At(i)' = At(j(i))
      BY <1>8, <3>1
    <3> HIDE DEF j
    <3>4. At(j(i)).timestamp = timestamp_counter - log_count + j(i)
      BY <3>2 DEF LogInv
    <3> QED
      BY <3>2, <3>3, <3>4
  <2> QED
    BY <2>1, <2>2
<1>10. LogInv'
  BY <1>1, <1>2, <1>4, <1>5, <1>6, <1>9 DEF LogInv, LogIndex, N
<1> QED
  BY <1>8, <1>10 DEF N

(* A sequence that extends s by one element has s in front. *)
LEMMA IsFront ==
    ASSUME NEW S, NEW s \in Seq(S), NEW t \in Seq(S),
           Len(t) = Len(s) + 1, \A i \in 1 .. Len(s) : t[i] = s[i]
    PROVE  SubSeq(t, 1, Len(t) - 1) = s
OBVIOUS

LEMMA TailItems ==
    ASSUME NEW S, NEW s \in Seq(S), Len(s) > 0
    PROVE  /\ Tail(s) \in Seq(S) /\ Len(Tail(s)) = Len(s) - 1
           /\ \A i \in 1 .. Len(s) - 1 : Tail(s)[i] = s[i + 1]
OBVIOUS

(* The steps that log nothing. *)
LogRests == UNCHANGED <<log_buffer, log_index, log_count, timestamp_counter>>

LEMMA LogQuiet == LogInv /\ LogRests => LogInv'
BY DEF LogInv, LogRests, At

LEMMA MonitorSteps ==
    ASSUME [MonitorNext]_monitorVars
    PROVE  (\E message \in Message : monitor_log(message)) \/ LogRests
BY DEF MonitorNext, monitorVars, LogRests, monitor_start_timer, monitor_end_timer,
       monitor_update_stats

LEMMA LogInductive == LogInv /\ [MonitorNext]_monitorVars => LogInv'
BY MonitorSteps, LogStep, LogQuiet

LEMMA LogAlways == MonitorSpec => []LogInv
BY LogInitial, LogInductive, PTL DEF MonitorSpec

LEMMA LogExtends ==
    ASSUME LogInv, LogInv', LogShape, LogShape',
           NEW message \in Message, monitor_log(message)
    PROVE  /\ SubSeq(Log', 1, Len(Log') - 1) =
                IF Len(Log) = LOG_BUFFER_SIZE THEN Tail(Log) ELSE Log
           /\ \A i \in DOMAIN Log' :
                Log'[i].timestamp = timestamp_counter' - Len(Log') + i
<1> DEFINE old == IF Len(Log) = LOG_BUFFER_SIZE THEN Tail(Log) ELSE Log
<1>1. /\ LOG_BUFFER_SIZE \in Nat \ {0} /\ log_count \in 1 .. LOG_BUFFER_SIZE
      /\ log_count' = IF log_count < LOG_BUFFER_SIZE THEN log_count + 1 ELSE log_count
  BY MonitorAssumption DEF LogInv, monitor_log
<1>2. /\ Log \in Seq(LogRecord) /\ Len(Log) = log_count
      /\ Log' \in Seq(LogRecord) /\ Len(Log') = log_count'
  BY DEF LogShape
<1>3. /\ old \in Seq(LogRecord) /\ Len(old) + 1 = log_count'
      /\ \A i \in 1 .. Len(old) :
            old[i] = IF log_count < LOG_BUFFER_SIZE THEN Log[i] ELSE Log[i + 1]
  <2>1. CASE log_count < LOG_BUFFER_SIZE
    BY <1>1, <1>2, <2>1
  <2>2. CASE ~(log_count < LOG_BUFFER_SIZE)
    <3>1. log_count = LOG_BUFFER_SIZE /\ old = Tail(Log) /\ Len(Log) > 0
      BY <1>1, <1>2, <2>2
    <3>2. /\ Tail(Log) \in Seq(LogRecord) /\ Len(Tail(Log)) = Len(Log) - 1
          /\ \A i \in 1 .. Len(Log) - 1 : Tail(Log)[i] = Log[i + 1]
      BY <1>2, <3>1, TailItems
    <3> QED
      BY <1>1, <1>2, <2>2, <3>1, <3>2
  <2> QED
    BY <2>1, <2>2
<1> HIDE DEF old
<1>4. ASSUME NEW i \in 1 .. Len(old)
      PROVE  Log'[i] = old[i]
  <2>1. /\ i \in 1 .. log_count' - 1 /\ i \in 1 .. log_count'
        /\ IF log_count < LOG_BUFFER_SIZE THEN i \in 1 .. log_count ELSE i + 1 \in 1 .. log_count
    BY <1>1, <1>3
  <2>2. At(i)' = IF log_count < LOG_BUFFER_SIZE THEN At(i) ELSE At(i + 1)
    BY <2>1, LogStep
  <2>3. Log'[i] = At(i)'
    BY <2>1 DEF LogShape
  <2>4. IF log_count < LOG_BUFFER_SIZE THEN Log[i] = At(i) ELSE Log[i + 1] = At(i + 1)
    BY <2>1 DEF LogShape
  <2> QED
    BY <1>3, <2>2, <2>3, <2>4
<1>5. SubSeq(Log', 1, Len(Log') - 1) = old
  <2>1. Len(Log') = Len(old) + 1
    BY <1>2, <1>3
  <2> QED
    BY <1>2, <1>3, <1>4, <2>1, IsFront
<1>6. ASSUME NEW i \in DOMAIN Log'
      PROVE  Log'[i].timestamp = timestamp_counter' - Len(Log') + i
  <2>1. i \in 1 .. log_count'
    BY <1>2
  <2>2. Log'[i] = At(i)'
    BY <2>1 DEF LogShape
  <2>3. At(i)'.timestamp = timestamp_counter' - log_count' + i
    BY <2>1 DEF LogInv
  <2> QED
    BY <1>2, <2>2, <2>3
<1> QED
  BY <1>5, <1>6 DEF old

(* What monitor_get_log_entry delivers is a log that forgets its oldest entry: for every
   ring whose size divides the range of a uint32_t, where the index is computed, each new
   entry extends it, a full ring loses its first entry, and the time stamps are the latest
   ones without a gap. *)
THEOREM LogKeepsLatestAlways == MonitorSpec => LogKeepsLatest
<1>1. LogInv /\ LogInv' /\ LogShape /\ LogShape' /\ [MonitorNext]_monitorVars
        => [\/ UNCHANGED <<log_buffer, log_index, log_count>>
            \/ /\ SubSeq(Log', 1, Len(Log') - 1) =
                     IF Len(Log) = LOG_BUFFER_SIZE THEN Tail(Log) ELSE Log
               /\ \A i \in DOMAIN Log' :
                     Log'[i].timestamp = timestamp_counter' - Len(Log') + i]_monitorVars
  BY MonitorSteps, LogExtends DEF LogRests
<1>2. MonitorSpec => []LogShape
  BY LogAlways, LogReads, PTL
<1> QED
  BY <1>1, <1>2, LogAlways, PTL DEF MonitorSpec, LogKeepsLatest

-----------------------------------------------------------------------------
(* The monitor: timers and statistics. *)

TimerChars == UNION {{name[i] : i \in DOMAIN name} : name \in TimerName}
TimerRecord == [name : Seq(TimerChars), start_time : Nat, total_time : Nat, active : BOOLEAN]

(* What is counted was counted before the running interval started. *)
Accounts(t, now) ==
    /\ Len(t.name) <= NameSize
    /\ t.start_time <= now /\ t.total_time <= now
    /\ t.active => t.total_time <= t.start_time

(* The timers that have a name come first, so that a start of a running timer meets the
   slot of that timer before it meets a free one. *)
NamedFirst ==
    \A i, j \in TimerIndex : i < j /\ timers[j].name # <<>> => timers[i].name # <<>>

NamesIdentify ==
    \A i, j \in TimerIndex :
        i # j /\ timers[i].name = timers[j].name /\ timers[i].name # <<>>
           => Len(timers[i].name) = NameSize

TimerInv ==
    /\ timestamp_counter \in Nat
    /\ timers \in [TimerIndex -> TimerRecord]
    /\ \A i \in TimerIndex : Accounts(timers[i], timestamp_counter)
    /\ NamedFirst /\ NamesIdentify

LEMMA TimerNames ==
    ASSUME NEW name \in TimerName
    PROVE  name \in Seq(TimerChars)
<1>1. name \in Seq({name[i] : i \in DOMAIN name})
  BY MonitorAssumption
<1>2. \A i \in DOMAIN name : name[i] \in TimerChars
  BY DEF TimerChars
<1> QED
  BY <1>1, <1>2

LEMMA CutNames ==
    ASSUME NEW name \in Seq(TimerChars)
    PROVE  /\ Cut(name) \in Seq(TimerChars) /\ Len(Cut(name)) <= NameSize
           /\ Cut(name) = <<>> <=> name = <<>>
           /\ Cut(name) = name \/ Len(Cut(name)) = NameSize
<1>1. NameSize \in Nat \ {0}
  BY MonitorAssumption
<1>2. CASE Len(name) > NameSize
  BY <1>1, <1>2 DEF Cut
<1>3. CASE ~(Len(name) > NameSize)
  BY <1>1, <1>3 DEF Cut
<1> QED
  BY <1>2, <1>3

LEMMA TimerInitial == MonitorInit => TimerInv
<1> SUFFICES ASSUME MonitorInit PROVE TimerInv
  OBVIOUS
<1>1. NoTimer \in TimerRecord /\ NoTimer.name = <<>> /\ Accounts(NoTimer, 1)
  BY MonitorAssumption DEF NoTimer, TimerRecord, Accounts
<1>2. timestamp_counter = 1 /\ timers = [i \in TimerIndex |-> NoTimer]
  BY DEF MonitorInit
<1> QED
  BY <1>1, <1>2 DEF TimerInv, NamedFirst, NamesIdentify

(* A timer that keeps its name. *)
LEMMA TimerEnds ==
    ASSUME TimerInv, NEW name, monitor_end_timer(name)
    PROVE  TimerInv'
<1>1. PICK i \in TimerIndex :
          /\ timers[i].active
          /\ timers' = [timers EXCEPT
                 ![i].total_time = @ + (timestamp_counter - timers[i].start_time),
                 ![i].active = FALSE]
  BY DEF monitor_end_timer, First
<1> DEFINE total == timers[i].total_time + (timestamp_counter - timers[i].start_time)
           t == [timers[i] EXCEPT !.total_time = total, !.active = FALSE]
<1>2. timers' = [timers EXCEPT ![i] = t]
  BY <1>1 DEF TimerInv
<1>3. timers[i] \in TimerRecord /\ Accounts(timers[i], timestamp_counter)
  BY DEF TimerInv
<1>4. /\ timestamp_counter \in Nat /\ timers[i].start_time \in Nat
      /\ timers[i].total_time \in Nat
  BY <1>3 DEF TimerInv, TimerRecord
<1>5. total \in Nat /\ total <= timestamp_counter
  BY <1>1, <1>3, <1>4 DEF Accounts
<1> HIDE DEF total
<1>6. /\ t \in TimerRecord /\ t.name = timers[i].name /\ t.active = FALSE
      /\ t.total_time = total /\ t.start_time = timers[i].start_time
  BY <1>3, <1>5 DEF TimerRecord
<1> HIDE DEF t
<1>7. Accounts(t, timestamp_counter)
  BY <1>3, <1>4, <1>5, <1>6 DEF Accounts
<1>8. timestamp_counter' = timestamp_counter
  BY DEF monitor_end_timer
<1>9. timers' \in [TimerIndex -> TimerRecord]
  BY <1>2, <1>6 DEF TimerInv
<1>10. \A k \in TimerIndex : timers'[k].name = timers[k].name
  BY <1>2, <1>6 DEF TimerInv
<1>11. NamedFirst' /\ NamesIdentify'
  BY <1>10 DEF TimerInv, NamedFirst, NamesIdentify
<1>12. \A k \in TimerIndex : Accounts(timers'[k], timestamp_counter)
  BY <1>2, <1>7 DEF TimerInv
<1> QED
  BY <1>8, <1>9, <1>11, <1>12 DEF TimerInv

LEMMA TimerStarts ==
    ASSUME TimerInv, NEW name \in TimerName, monitor_start_timer(name)
    PROVE  TimerInv'
<1>1. PICK i \in TimerIndex :
          /\ timers[i].name \in {<<>>, name}
          /\ \A j \in TimerIndex : timers[j].name \in {<<>>, name} => i <= j
          /\ timers' = [timers EXCEPT ![i].name = Cut(name),
                                      ![i].start_time = timestamp_counter,
                                      ![i].active = TRUE]
  BY DEF monitor_start_timer, First
<1> DEFINE t == [timers[i] EXCEPT !.name = Cut(name), !.start_time = timestamp_counter,
                                  !.active = TRUE]
<1>2. timers' = [timers EXCEPT ![i] = t]
  BY <1>1 DEF TimerInv
<1>3. timers[i] \in TimerRecord /\ Accounts(timers[i], timestamp_counter)
      /\ timestamp_counter \in Nat
  BY DEF TimerInv
<1>4. /\ Cut(name) \in Seq(TimerChars) /\ Len(Cut(name)) <= NameSize
      /\ Cut(name) = <<>> <=> name = <<>>
      /\ Cut(name) = name \/ Len(Cut(name)) = NameSize
  BY TimerNames, CutNames
<1>5. /\ t \in TimerRecord /\ t.name = Cut(name) /\ t.active
      /\ t.total_time = timers[i].total_time /\ t.start_time = timestamp_counter
  BY <1>3, <1>4 DEF TimerRecord
<1> HIDE DEF t
<1>6. Accounts(t, timestamp_counter)
  BY <1>3, <1>4, <1>5 DEF Accounts
<1>7. timestamp_counter' = timestamp_counter
  BY DEF monitor_start_timer
<1>8. timers' \in [TimerIndex -> TimerRecord]
  BY <1>2, <1>5 DEF TimerInv
<1>9. /\ timers'[i].name = Cut(name)
      /\ \A k \in TimerIndex : k # i => timers'[k].name = timers[k].name
  BY <1>2, <1>5 DEF TimerInv
<1>10. TimerIndex \subseteq Int
  BY MonitorAssumption DEF TimerIndex
<1>11. \A k \in TimerIndex : k < i => timers[k].name # <<>>
  BY <1>1, <1>10
<1>12. NamedFirst'
  <2> SUFFICES ASSUME NEW z \in TimerIndex, NEW b \in TimerIndex, z < b,
                      timers'[b].name # <<>>
               PROVE  timers'[z].name # <<>>
    BY DEF NamedFirst
  <2>1. CASE b = i
    BY <1>9, <1>10, <1>11, <2>1
  <2>2. CASE z = i
    <3>1. timers[b].name # <<>>
      BY <1>9, <1>10, <2>2
    <3>2. timers[i].name # <<>>
      BY <2>2, <3>1 DEF TimerInv, NamedFirst
    <3> QED
      BY <1>1, <1>4, <1>9, <2>2, <3>2
  <2>3. CASE z # i /\ b # i
    BY <1>9, <2>3 DEF TimerInv, NamedFirst
  <2> QED
    BY <2>1, <2>2, <2>3
<1>13. ASSUME NEW j \in TimerIndex, j # i, timers[j].name = Cut(name), Cut(name) # <<>>
       PROVE  Len(Cut(name)) = NameSize
  <2>1. CASE timers[i].name = <<>>
    <3>1. SUFFICES ASSUME Cut(name) = name PROVE FALSE
      BY <1>4
    <3>2. i < j
      BY <1>1, <1>10, <1>13, <3>1
    <3> QED
      BY <1>13, <2>1, <3>2 DEF TimerInv, NamedFirst
  <2>2. CASE timers[i].name = name /\ Cut(name) = name
    BY <1>13, <2>2 DEF TimerInv, NamesIdentify
  <2> QED
    BY <1>1, <1>4, <2>1, <2>2
<1>14. NamesIdentify'
  <2> SUFFICES ASSUME NEW z \in TimerIndex, NEW b \in TimerIndex, z # b,
                      timers'[z].name = timers'[b].name, timers'[z].name # <<>>
               PROVE  Len(timers'[z].name) = NameSize
    BY DEF NamesIdentify
  <2>1. CASE z = i
    BY <1>9, <1>13, <2>1
  <2>2. CASE b = i
    BY <1>9, <1>13, <2>2
  <2>3. CASE z # i /\ b # i
    BY <1>9, <2>3 DEF TimerInv, NamesIdentify
  <2> QED
    BY <2>1, <2>2, <2>3
<1>15. \A k \in TimerIndex : Accounts(timers'[k], timestamp_counter)
  BY <1>2, <1>6 DEF TimerInv
<1> QED
  BY <1>7, <1>8, <1>12, <1>14, <1>15 DEF TimerInv

LEMMA TimerInductive == TimerInv /\ [MonitorNext]_monitorVars => TimerInv'
<1> SUFFICES ASSUME TimerInv, [MonitorNext]_monitorVars PROVE TimerInv'
  OBVIOUS
<1>1. CASE \E message \in Message : monitor_log(message)
  <2>1. UNCHANGED timers /\ timestamp_counter' = timestamp_counter + 1
    BY <1>1 DEF monitor_log
  <2>2. \A i \in TimerIndex : timers[i] \in TimerRecord
    BY DEF TimerInv
  <2>3. \A i \in TimerIndex : timers[i].start_time \in Nat /\ timers[i].total_time \in Nat
    BY <2>2 DEF TimerRecord
  <2>4. \A i \in TimerIndex : Accounts(timers[i], timestamp_counter + 1)
    BY <2>3 DEF TimerInv, Accounts
  <2> QED
    BY <2>1, <2>4 DEF TimerInv, NamedFirst, NamesIdentify
<1>2. CASE \E name \in TimerName : monitor_start_timer(name)
  BY <1>2, TimerStarts
<1>3. CASE \E name \in TimerName : monitor_end_timer(name)
  BY <1>3, TimerEnds
<1>4. CASE monitor_update_stats
  BY <1>4 DEF monitor_update_stats, TimerInv, NamedFirst, NamesIdentify
<1>5. CASE UNCHANGED monitorVars
  BY <1>5 DEF monitorVars, TimerInv, NamedFirst, NamesIdentify
<1> QED
  BY <1>1, <1>2, <1>3, <1>4, <1>5 DEF MonitorNext

LEMMA TimerAlways == MonitorSpec => []TimerInv
BY TimerInitial, TimerInductive, PTL DEF MonitorSpec

(* However timers are started, restarted while they run, ended twice or taken over, the
   time a timer has counted and the interval it is counting fit into the time since boot;
   and two timers share a name only if it fills the whole field. *)
THEOREM TimersAccountAlways == MonitorSpec => []TimersAccount
<1>1. TimerInv => TimersAccount
  <2> SUFFICES ASSUME TimerInv, NEW i \in TimerIndex
               PROVE  /\ timers[i].total_time
                            + (IF timers[i].active THEN timestamp_counter - timers[i].start_time
                               ELSE 0) <= timestamp_counter
                      /\ \A j \in TimerIndex \ {i} :
                            timers[i].name = timers[j].name /\ timers[i].name # <<>>
                               => Len(timers[i].name) = NameSize
    BY DEF TimersAccount
  <2>1. timers[i] \in TimerRecord /\ Accounts(timers[i], timestamp_counter)
    BY DEF TimerInv
  <2>2. timers[i].start_time \in Nat /\ timers[i].total_time \in Nat
    BY <2>1 DEF TimerRecord
  <2> QED
    BY <2>1, <2>2 DEF TimerInv, Accounts, NamesIdentify
<1> QED
  BY <1>1, TimerAlways, PTL

(* The share of ticks that were not idle is a percentage at every uptime: the divisor is
   never zero and above the dividend's hundredth. *)
Usage(total) == ((total - (total \div 4)) * 100) \div (total + 1)

LEMMA QuotientBound ==
    ASSUME NEW n \in Nat, NEW d \in Nat \ {0}, NEW k \in Nat, n < d * (k + 1)
    PROVE  n \div d \in 0 .. k
<1> DEFINE q == n \div d
<1>1. q \in Nat /\ d * q <= n
  OBVIOUS
<1> HIDE DEF q
<1>2. SUFFICES ASSUME q >= k + 1 PROVE FALSE
  BY <1>1 DEF q
<1>3. d * (q - (k + 1)) \in Nat
  BY <1>1, <1>2
<1>4. d * (q - (k + 1)) = d * q - d * (k + 1)
  BY <1>1
<1>5. d * q \in Nat /\ d * (k + 1) \in Nat
  BY <1>1
<1> QED
  BY <1>1, <1>3, <1>4, <1>5

LEMMA UsageIsPercentage ==
    ASSUME NEW total \in Nat
    PROVE  Usage(total) \in 0 .. 100
<1> DEFINE idle == total \div 4
           working == (total - idle) * 100
<1>1. idle \in 0 .. total
  OBVIOUS
<1> HIDE DEF idle
<1>2. working \in Nat /\ working < (total + 1) * (100 + 1)
  BY <1>1
<1> HIDE DEF working
<1>3. working \div (total + 1) \in 0 .. 100
  BY <1>2, QuotientBound
<1> QED
  BY <1>3 DEF Usage, working, idle

UsageInv == uptime_seconds \in Nat /\ cpu_usage_percent \in 0 .. 100

LEMMA UsageInductive == UsageInv /\ [MonitorNext]_monitorVars => UsageInv'
<1> SUFFICES ASSUME UsageInv, [MonitorNext]_monitorVars PROVE UsageInv'
  OBVIOUS
<1>1. CASE monitor_update_stats
  <2> DEFINE next == uptime_seconds + 1
  <2>1. uptime_seconds' = next /\ cpu_usage_percent' = Usage(next * 100)
    BY <1>1 DEF monitor_update_stats, Usage
  <2>2. next \in Nat /\ next * 100 \in Nat
    BY DEF UsageInv
  <2> HIDE DEF next
  <2> QED
    BY <2>1, <2>2, UsageIsPercentage DEF UsageInv
<1>2. CASE UNCHANGED <<uptime_seconds, cpu_usage_percent>>
  BY <1>2 DEF UsageInv
<1> QED
  BY <1>1, <1>2 DEF MonitorNext, monitorVars, monitor_log, monitor_start_timer, monitor_end_timer

(* Index and count of the log stay in the ring, names in their fields and the CPU usage
   between 0 and 100 percent, however long the system runs. *)
THEOREM MonitorTypeCorrect == MonitorSpec => []MonitorTypeOK
<1>1. MonitorInit => UsageInv
  BY DEF MonitorInit, UsageInv
<1>2. LogInv => log_index \in LogIndex /\ log_count \in 0 .. LOG_BUFFER_SIZE
  BY MonitorAssumption DEF LogInv
<1>3. TimerInv => \A i \in TimerIndex : Len(timers[i].name) <= NameSize
  BY DEF TimerInv, Accounts
<1>4. LogInv /\ TimerInv /\ UsageInv => MonitorTypeOK
  BY <1>2, <1>3 DEF UsageInv, MonitorTypeOK
<1> QED
  BY <1>1, <1>4, UsageInductive, LogAlways, TimerAlways, PTL DEF MonitorSpec

-----------------------------------------------------------------------------
(* The screen. *)

(* A screen that shows the glyphs of G. *)
Screen(G) == [cells : [Row -> [Col -> G]], x : Int, y : Int]

LEMMA PutcharAt ==
    ASSUME NEW G, NEW s \in Screen(G), NEW c \in G, NEW x \in Col, NEW y \in Row
    PROVE  /\ vga_putchar_at(s, c, x, y) \in Screen(G)
           /\ \A v \in Row, u \in Col :
                 vga_putchar_at(s, c, x, y).cells[v][u]
                   = IF v = y /\ u = x THEN c ELSE s.cells[v][u]
           /\ vga_putchar_at(s, c, x, y).x = s.x
           /\ vga_putchar_at(s, c, x, y).y = s.y
<1> DEFINE row == [s.cells[y] EXCEPT ![x] = c]
           cells == [s.cells EXCEPT ![y] = row]
<1>1. s.cells \in [Row -> [Col -> G]]
  BY DEF Screen
<1>2. row \in [Col -> G]
  BY <1>1
<1>3. /\ cells \in [Row -> [Col -> G]]
      /\ \A v \in Row, u \in Col :
            cells[v][u] = IF v = y /\ u = x THEN c ELSE s.cells[v][u]
  BY <1>1, <1>2
<1>4. vga_putchar_at(s, c, x, y) = [s EXCEPT !.cells = cells]
  BY DEF vga_putchar_at
<1> HIDE DEF cells
<1> QED
  BY <1>3, <1>4 DEF Screen

LEMMA InBoundsCursor ==
    ASSUME NEW G, NEW s \in Screen(G)
    PROVE  /\ InBounds(s) \in Screen(G)
           /\ InBounds(s).cells = s.cells
           /\ InBounds(s).x = IF s.x >= VGA_WIDTH THEN 0 ELSE s.x
           /\ InBounds(s).y = IF s.y >= VGA_HEIGHT THEN VGA_HEIGHT - 1 ELSE s.y
<1> DEFINE x == IF s.x >= VGA_WIDTH THEN 0 ELSE s.x
           y == IF s.y >= VGA_HEIGHT THEN VGA_HEIGHT - 1 ELSE s.y
<1>1. x \in Int /\ y \in Int
  BY VgaAssumption DEF Screen
<1>2. InBounds(s) = [s EXCEPT !.x = x, !.y = y]
  BY DEF InBounds, Screen
<1> HIDE DEF x, y
<1>3. /\ InBounds(s) \in Screen(G) /\ InBounds(s).cells = s.cells
      /\ InBounds(s).x = x /\ InBounds(s).y = y
  BY <1>1, <1>2 DEF Screen
<1> QED
  BY <1>3 DEF x, y

LEMMA ScrollScreen ==
    ASSUME NEW G, Blank \in G, NEW s \in Screen(G)
    PROVE  [vga_scroll(s) EXCEPT !.y = VGA_HEIGHT - 1] \in Screen(G)
           /\ [vga_scroll(s) EXCEPT !.y = VGA_HEIGHT - 1].x = s.x
           /\ [vga_scroll(s) EXCEPT !.y = VGA_HEIGHT - 1].y = VGA_HEIGHT - 1
<1> DEFINE cells == [y \in Row |-> IF y < VGA_HEIGHT - 1 THEN s.cells[y + 1]
                                   ELSE [x \in Col |-> Blank]]
<1>0. VGA_HEIGHT \in Nat \ {0}
  BY VgaAssumption
<1>1. s.cells \in [Row -> [Col -> G]]
  BY DEF Screen
<1>2. cells \in [Row -> [Col -> G]]
  BY <1>0, <1>1 DEF Row
<1>3. vga_scroll(s) = [s EXCEPT !.cells = cells]
  BY DEF vga_scroll
<1> HIDE DEF cells
<1>4. vga_scroll(s) \in Screen(G) /\ vga_scroll(s).x = s.x
  BY <1>2, <1>3 DEF Screen
<1>5. VGA_HEIGHT - 1 \in Int
  BY <1>0
<1> QED
  BY <1>4, <1>5 DEF Screen

LEMMA MoveColumn ==
    ASSUME NEW G, NEW s \in Screen(G), NEW x \in Int
    PROVE  /\ [s EXCEPT !.x = x] \in Screen(G)
           /\ [s EXCEPT !.x = x].cells = s.cells
           /\ [s EXCEPT !.x = x].x = x /\ [s EXCEPT !.x = x].y = s.y
BY DEF Screen

MovedTo(s, x, y) == [s EXCEPT !.x = x, !.y = y]

LEMMA MoveCursor ==
    ASSUME NEW G, NEW s \in Screen(G), NEW x \in Int, NEW y \in Int
    PROVE  /\ MovedTo(s, x, y) \in Screen(G) /\ MovedTo(s, x, y).cells = s.cells
           /\ MovedTo(s, x, y).x = x /\ MovedTo(s, x, y).y = y
<1>1. MovedTo(s, x, y) \in Screen(G)
  BY DEF Screen, MovedTo
<1> QED
  BY <1>1 DEF Screen, MovedTo

(* A tab moves right by one to TabStop columns. *)
LEMMA TabColumn ==
    ASSUME NEW t \in Nat \ {0}, NEW x \in Nat
    PROVE  ((x + t) \div t) * t \in x + 1 .. x + t
<1> DEFINE q == (x + t) \div t
           r == (x + t) % t
<1>1. q \in Int /\ r \in 0 .. t - 1 /\ x + t = q * t + r
  OBVIOUS
<1> QED
  BY <1>1

(* What a character other than the controls does. *)
LEMMA PutGlyph ==
    ASSUME NEW G, NEW s \in Screen(G), NEW c \in G, c \notin Control,
           s.x \in Col, s.y \in Row
    PROVE  /\ vga_putchar(s, c) \in Screen(G)
           /\ \A v \in Row, u \in Col :
                 vga_putchar(s, c).cells[v][u]
                   = IF v = s.y /\ u = s.x THEN c ELSE s.cells[v][u]
           /\ vga_putchar(s, c).x = s.x + 1
           /\ vga_putchar(s, c).y = s.y
<1> DEFINE b == InBounds(s)
           t == vga_putchar_at(b, c, b.x, b.y)
           w == [t EXCEPT !.x = t.x + 1]
<1>0. VGA_WIDTH \in Nat \ {0} /\ VGA_HEIGHT \in Nat \ {0}
  BY VgaAssumption
<1>1. b \in Screen(G) /\ b.cells = s.cells /\ b.x = s.x /\ b.y = s.y
  BY <1>0, InBoundsCursor DEF Row, Col
<1>2. b.x \in Col /\ b.y \in Row
  BY <1>1
<1> HIDE DEF b
<1>3. /\ t \in Screen(G)
      /\ \A v \in Row, u \in Col :
            t.cells[v][u] = IF v = b.y /\ u = b.x THEN c ELSE b.cells[v][u]
      /\ t.x = b.x /\ t.y = b.y
  BY <1>1, <1>2, PutcharAt
<1> HIDE DEF t
<1>4. t.x + 1 \in Int
  BY <1>3 DEF Screen
<1>5. w \in Screen(G) /\ w.cells = t.cells /\ w.x = t.x + 1 /\ w.y = t.y
  BY <1>3, <1>4, MoveColumn
<1>6. Placed(b, c) = w
  BY <1>3 DEF Placed, Control, Screen, t
<1> HIDE DEF w
<1>7. ~(w.y >= VGA_HEIGHT)
  BY <1>0, <1>1, <1>3, <1>5 DEF Row
<1>8. vga_putchar(s, c) = w
  BY <1>6, <1>7 DEF vga_putchar, b
<1> QED
  BY <1>1, <1>3, <1>5, <1>8

(* The screens a call of vga_print goes through. *)
PrintedTo(f, s, str, n) ==
    f = [k \in 0 .. n |-> IF k = 0 THEN s ELSE vga_putchar(f[k - 1], str[k])]

LEMMA PrintDefined ==
    ASSUME NEW s, NEW str, Len(str) \in Nat
    PROVE  \E f : PrintedTo(f, s, str, Len(str)) /\ vga_print(s, str) = f[Len(str)]
<1> DEFINE T == {n \in Nat : \E f : PrintedTo(f, s, str, n)}
<1>1. 0 \in T
  <2>1. PrintedTo([k \in 0 .. 0 |-> s], s, str, 0)
    BY DEF PrintedTo
  <2> QED
    BY <2>1
<1>2. ASSUME NEW n \in Nat, n \in T PROVE n + 1 \in T
  <2>1. PICK f : PrintedTo(f, s, str, n)
    BY <1>2
  <2> DEFINE g == [k \in 0 .. n + 1 |-> IF k = n + 1 THEN vga_putchar(f[n], str[n + 1])
                                        ELSE f[k]]
  <2>2. PrintedTo(g, s, str, n + 1)
    <3>1. \A k \in 0 .. n : f[k] = IF k = 0 THEN s ELSE vga_putchar(f[k - 1], str[k])
      BY <2>1 DEF PrintedTo
    <3>2. g[n + 1] = vga_putchar(g[n], str[n + 1])
      OBVIOUS
    <3>3. \A k \in 0 .. n : g[k] = f[k]
      OBVIOUS
    <3>4. \A k \in 0 .. n : g[k] = IF k = 0 THEN s ELSE vga_putchar(g[k - 1], str[k])
      BY <3>1, <3>3
    <3>5. \A k \in 0 .. n + 1 : g[k] = IF k = 0 THEN s ELSE vga_putchar(g[k - 1], str[k])
      BY <3>2, <3>4
    <3>6. g = [k \in 0 .. n + 1 |-> g[k]]
      OBVIOUS
    <3> HIDE DEF g
    <3> QED
      BY <3>5, <3>6 DEF PrintedTo
  <2> HIDE DEF g
  <2> QED
    BY <2>2
<1>3. Len(str) \in T
  <2> HIDE DEF T
  <2> QED
    BY <1>1, <1>2, SetInduction
<1> DEFINE printed == CHOOSE f : PrintedTo(f, s, str, Len(str))
<1>4. PrintedTo(printed, s, str, Len(str))
  BY <1>3
<1>5. vga_print(s, str) = printed[Len(str)]
  BY DEF vga_print, PrintedTo
<1> QED
  BY <1>4, <1>5

LEMMA PrintOne ==
    ASSUME NEW s, NEW c
    PROVE  vga_print(s, <<c>>) = vga_putchar(s, c)
<1>1. Len(<<c>>) = 1 /\ <<c>>[1] = c
  OBVIOUS
<1>2. PICK f : PrintedTo(f, s, <<c>>, 1) /\ vga_print(s, <<c>>) = f[1]
  BY <1>1, PrintDefined
<1>3. f[0] = s /\ f[1] = vga_putchar(f[0], <<c>>[1])
  BY <1>2 DEF PrintedTo
<1> QED
  BY <1>1, <1>2, <1>3

(* Printing one glyph somewhere changes that cell and nothing else. *)
LEMMA PrintGlyphAt ==
    ASSUME NEW G, NEW s \in Screen(G), NEW c \in G, c \notin Control,
           NEW x \in Col, NEW y \in Row
    PROVE  /\ vga_print_at(s, <<c>>, x, y) \in Screen(G)
           /\ \A v \in Row, u \in Col :
                 vga_print_at(s, <<c>>, x, y).cells[v][u]
                   = IF v = y /\ u = x THEN c ELSE s.cells[v][u]
           /\ vga_print_at(s, <<c>>, x, y).x = s.x
           /\ vga_print_at(s, <<c>>, x, y).y = s.y
<1> DEFINE t == MovedTo(s, x, y)
           w == vga_putchar(t, c)
<1>0. x \in Int /\ y \in Int
  BY VgaAssumption DEF Row, Col
<1>1. t \in Screen(G) /\ t.cells = s.cells /\ t.x = x /\ t.y = y
  BY <1>0, MoveCursor
<1>2. t.x \in Col /\ t.y \in Row
  BY <1>1
<1>3. vga_print_at(s, <<c>>, x, y) = MovedTo(w, s.x, s.y)
  BY PrintOne DEF vga_print_at, MovedTo
<1> HIDE DEF t
<1>4. /\ w \in Screen(G)
      /\ \A v \in Row, u \in Col :
            w.cells[v][u] = IF v = t.y /\ u = t.x THEN c ELSE t.cells[v][u]
  BY <1>1, <1>2, PutGlyph
<1> HIDE DEF w
<1>5. s.x \in Int /\ s.y \in Int
  BY DEF Screen
<1>6. /\ MovedTo(w, s.x, s.y) \in Screen(G) /\ MovedTo(w, s.x, s.y).cells = w.cells
      /\ MovedTo(w, s.x, s.y).x = s.x /\ MovedTo(w, s.x, s.y).y = s.y
  BY <1>4, <1>5, MoveCursor
<1> QED
  BY <1>1, <1>3, <1>4, <1>6

-----------------------------------------------------------------------------
(* The list of devices and the pages. *)

(* s lists the pages of the devices: from first along the next fields of dev, each page
   once, never page 0. *)
IsChain(s, first, dev) ==
    /\ s \in Seq(Page)
    /\ \A k \in 1 .. Len(s) : s[k] # 0
    /\ \A j, k \in 1 .. Len(s) : s[j] = s[k] => j = k
    /\ first = IF Len(s) = 0 THEN 0 ELSE s[1]
    /\ \A k \in 1 .. Len(s) : dev[s[k]].next = IF k < Len(s) THEN s[k + 1] ELSE 0

Items(s) == {s[k] : k \in 1 .. Len(s)}

LEMMA PageFacts ==
    /\ MAX_PAGES \in Nat \ {0} /\ Reserved \in Nat \ {0} /\ Reserved <= MAX_PAGES
    /\ 0 \in Page /\ Page \subseteq Nat
    /\ 0 .. Reserved - 1 \subseteq Page /\ 0 \in 0 .. Reserved - 1
    /\ IsFiniteSet(Page) /\ Cardinality(Page) = MAX_PAGES
<1>1. /\ MAX_PAGES \in Nat \ {0} /\ Reserved \in Nat \ {0} /\ Reserved <= MAX_PAGES
      /\ 0 \in Page /\ Page \subseteq Nat
      /\ 0 .. Reserved - 1 \subseteq Page /\ 0 \in 0 .. Reserved - 1
  BY DevicesAssumption DEF Page
<1> DEFINE m == MAX_PAGES - 1
<1>2. m \in Int /\ ~(0 > m) /\ m - 0 + 1 = MAX_PAGES
  BY <1>1
<1> HIDE DEF m
<1>3. IsFiniteSet(0 .. m) /\ Cardinality(0 .. m) = MAX_PAGES
  BY <1>2, FS_Interval
<1> QED
  BY <1>1, <1>3 DEF Page, m

(* A chain has as many pages as it is long, and no more than there are. *)
LEMMA ChainLength ==
    ASSUME NEW s \in Seq(Page), \A j, k \in 1 .. Len(s) : s[j] = s[k] => j = k
    PROVE  /\ Len(s) \in Nat /\ Len(s) <= MAX_PAGES
           /\ IsFiniteSet(Items(s)) /\ Cardinality(Items(s)) = Len(s)
<1> DEFINE n == Len(s)
           D == 1 .. n
<1>1. n \in Nat
  OBVIOUS
<1>2. IsFiniteSet(D) /\ Cardinality(D) = n
  <2>1. 1 \in Int /\ n \in Int /\ (1 > n => n = 0) /\ n - 1 + 1 = n
    BY <1>1
  <2> HIDE DEF n
  <2> QED
    BY <2>1, FS_Interval
<1>3. s \in Bijection(D, Items(s))
  BY DEF Bijection, Injection, Surjection, Items, IsInjective
<1>4. IsFiniteSet(Items(s)) /\ Cardinality(Items(s)) = n
  BY <1>2, <1>3, FS_Bijection DEF ExistsBijection
<1>5. Items(s) \in SUBSET Page
  BY DEF Items
<1>6. Cardinality(Items(s)) <= MAX_PAGES
  BY <1>5, PageFacts, FS_Subset
<1> QED
  BY <1>1, <1>4, <1>6

(* The walk along a chain. *)
Path(s) == [i \in 0 .. MAX_PAGES |-> IF i < Len(s) THEN s[i + 1] ELSE 0]

IsWalk(f) == f = [i \in 0 .. MAX_PAGES |-> IF i = 0 THEN device_list ELSE After(f[i - 1])]

LEMMA WalkIsPath ==
    ASSUME NEW s, IsChain(s, device_list, device)
    PROVE  Walk = Path(s)
<1>0. /\ s \in Seq(Page) /\ Len(s) \in Nat /\ MAX_PAGES \in Nat
      /\ \A k \in 1 .. Len(s) : s[k] # 0
      /\ device_list = IF Len(s) = 0 THEN 0 ELSE s[1]
      /\ \A k \in 1 .. Len(s) : device[s[k]].next = IF k < Len(s) THEN s[k + 1] ELSE 0
  BY PageFacts DEF IsChain
<1>1. IsWalk(Path(s))
  <2>1. Path(s)[0] = device_list
    BY <1>0 DEF Path
  <2>2. ASSUME NEW i \in 1 .. MAX_PAGES PROVE Path(s)[i] = After(Path(s)[i - 1])
    <3>1. i - 1 \in 0 .. MAX_PAGES /\ i \in 0 .. MAX_PAGES /\ (i - 1) + 1 = i
      BY <1>0
    <3>2. Path(s)[i - 1] = IF i - 1 < Len(s) THEN s[i] ELSE 0
      BY <3>1 DEF Path
    <3>3. Path(s)[i] = IF i < Len(s) THEN s[i + 1] ELSE 0
      BY <3>1 DEF Path
    <3>4. CASE i - 1 < Len(s)
      <4>1. i \in 1 .. Len(s)
        BY <1>0, <3>4
      <4>2. Path(s)[i - 1] = s[i] /\ s[i] # 0
        BY <1>0, <3>2, <3>4, <4>1
      <4> QED
        BY <1>0, <3>3, <4>1, <4>2 DEF After, NULL
    <3>5. CASE ~(i - 1 < Len(s))
      <4>1. ~(i < Len(s))
        BY <1>0, <3>5
      <4> QED
        BY <3>2, <3>3, <3>5, <4>1 DEF After, NULL
    <3> QED
      BY <3>4, <3>5
  <2>3. \A i \in 0 .. MAX_PAGES : i = 0 \/ i \in 1 .. MAX_PAGES
    BY <1>0
  <2>4. Path(s) = [i \in 0 .. MAX_PAGES |-> Path(s)[i]]
    BY DEF Path
  <2> QED
    BY <2>1, <2>2, <2>3, <2>4 DEF IsWalk
<1>2. IsWalk(Walk)
  <2>1. Walk = CHOOSE f : IsWalk(f)
    BY DEF Walk, IsWalk
  <2> QED
    BY <1>1, <2>1
<1> DEFINE T == {i \in Nat : i <= MAX_PAGES => Walk[i] = Path(s)[i]}
<1>3. \A f : IsWalk(f) => f[0] = device_list /\ \A i \in 1 .. MAX_PAGES : f[i] = After(f[i - 1])
  <2>1. 0 \in 0 .. MAX_PAGES /\ \A i \in 1 .. MAX_PAGES : i \in 0 .. MAX_PAGES /\ i # 0
    BY <1>0
  <2> QED
    BY <2>1 DEF IsWalk
<1>4. 0 \in T
  BY <1>1, <1>2, <1>3
<1>5. ASSUME NEW n \in Nat, n \in T PROVE n + 1 \in T
  <2> SUFFICES ASSUME n + 1 <= MAX_PAGES PROVE Walk[n + 1] = Path(s)[n + 1]
    OBVIOUS
  <2>1. n + 1 \in 1 .. MAX_PAGES /\ (n + 1) - 1 = n /\ n <= MAX_PAGES
    BY <1>0
  <2>2. Walk[n] = Path(s)[n]
    BY <1>5, <2>1
  <2>3. Walk[n + 1] = After(Walk[n]) /\ Path(s)[n + 1] = After(Path(s)[n])
    BY <1>1, <1>2, <1>3, <2>1
  <2> QED
    BY <2>2, <2>3
<1>6. Nat \subseteq T
  <2> HIDE DEF T
  <2> QED
    BY <1>4, <1>5, SetInduction
<1>7. \A i \in 0 .. MAX_PAGES : Walk[i] = Path(s)[i]
  BY <1>0, <1>6
<1>8. Walk = [i \in 0 .. MAX_PAGES |-> Walk[i]]
  BY <1>2 DEF IsWalk
<1> QED
  BY <1>7, <1>8 DEF Path

LEMMA ListedIsChain ==
    ASSUME NEW s, IsChain(s, device_list, device)
    PROVE  /\ Listed = Items(s) /\ Walk[MAX_PAGES] = 0
           /\ Names = [k \in 1 .. Len(s) |-> device[s[k]].name]
<1>1. Walk = Path(s)
  BY WalkIsPath
<1>2. /\ Len(s) \in Nat /\ Len(s) <= MAX_PAGES /\ Cardinality(Items(s)) = Len(s)
      /\ MAX_PAGES \in Nat
  BY ChainLength, PageFacts DEF IsChain
<1>3. \A k \in 1 .. Len(s) : s[k] # 0
  BY DEF IsChain
<1>4. \A k \in 1 .. Len(s) : k - 1 \in 0 .. MAX_PAGES /\ Path(s)[k - 1] = s[k]
  <2>1. \A k \in 1 .. Len(s) : k - 1 \in 0 .. MAX_PAGES /\ k - 1 < Len(s) /\ (k - 1) + 1 = k
    BY <1>2
  <2> QED
    BY <2>1 DEF Path
<1>5. Items(s) \subseteq Listed
  BY <1>1, <1>3, <1>4 DEF Items, Listed, NULL
<1>6. Listed \subseteq Items(s)
  <2> SUFFICES ASSUME NEW i \in 0 .. MAX_PAGES, Path(s)[i] # 0 PROVE Path(s)[i] \in Items(s)
    BY <1>1 DEF Listed, NULL
  <2>1. i < Len(s) /\ Path(s)[i] = s[i + 1]
    BY DEF Path
  <2>2. i + 1 \in 1 .. Len(s)
    BY <1>2, <2>1
  <2> QED
    BY <2>1, <2>2 DEF Items
<1>7. Path(s)[MAX_PAGES] = 0
  BY <1>2 DEF Path
<1>8. Listed = Items(s)
  BY <1>5, <1>6
<1>9. Names = [k \in 1 .. Len(s) |-> device[s[k]].name]
  BY <1>1, <1>2, <1>4, <1>8 DEF Names
<1> QED
  BY <1>1, <1>7, <1>8, <1>9

(* The sets are the users of the pages, one per page. *)
Partition(all, A, B, C, D, E) ==
    /\ all = A \cup B \cup C \cup D \cup E
    /\ A \cap B = {} /\ A \cap C = {} /\ A \cap D = {} /\ A \cap E = {}
    /\ B \cap C = {} /\ B \cap D = {} /\ B \cap E = {}
    /\ C \cap D = {} /\ C \cap E = {} /\ D \cap E = {}

DeviceRecord == [name : Name \cup {NoName}, next : Page]

DevicesInv ==
    /\ page_bitmap \subseteq Page /\ used_pages = Cardinality(page_bitmap)
    /\ device_list \in Page /\ device \in [Page -> DeviceRecord]
    /\ block_data \in Page
    /\ held \subseteq Page /\ user \subseteq Page /\ user_entry \in {0, user_base}
    /\ \E s : /\ IsChain(s, device_list, device)
              /\ Partition(page_bitmap, 0 .. Reserved - 1, Items(s), {block_data} \ {0},
                           held, user)

LEMMA DevicesInvMeans == DevicesInv => TypeOK /\ OneUserPerPage /\ UsedPagesExact
<1> SUFFICES ASSUME DevicesInv PROVE TypeOK /\ OneUserPerPage /\ UsedPagesExact
  OBVIOUS
<1>1. PICK s : /\ IsChain(s, device_list, device)
               /\ Partition(page_bitmap, 0 .. Reserved - 1, Items(s), {block_data} \ {0},
                            held, user)
  BY DEF DevicesInv
<1>2. Listed = Items(s) /\ Walk[MAX_PAGES] = 0
  BY <1>1, ListedIsChain
<1>3. UsedPagesExact
  BY DEF DevicesInv, UsedPagesExact
<1>4. used_pages \in 0 .. MAX_PAGES
  <2>1. page_bitmap \in SUBSET Page /\ used_pages = Cardinality(page_bitmap)
    BY DEF DevicesInv
  <2>2. /\ Cardinality(page_bitmap) \in Nat /\ Cardinality(page_bitmap) <= MAX_PAGES
        /\ MAX_PAGES \in Nat
    BY <2>1, PageFacts, FS_Subset, FS_CardinalityType
  <2> QED
    BY <2>1, <2>2
<1>5. TypeOK
  BY <1>2, <1>4 DEF DevicesInv, TypeOK, DeviceRecord, NULL
<1>6. OneUserPerPage
  <2> DEFINE A == 0 .. Reserved - 1
             B == Listed
             C == {block_data} \ {NULL}
             Sets == <<A, B, C, held, user>>
  <2>1. Partition(page_bitmap, A, B, C, held, user)
    BY <1>1, <1>2 DEF NULL
  <2> HIDE DEF A, B, C
  <2>2. DOMAIN Sets = {1, 2, 3, 4, 5} /\ Sets[1] = A /\ Sets[2] = B /\ Sets[3] = C
        /\ Sets[4] = held /\ Sets[5] = user
    OBVIOUS
  <2> HIDE DEF Sets
  <2>3. page_bitmap = UNION {Sets[k] : k \in DOMAIN Sets}
    <3>1. {Sets[k] : k \in DOMAIN Sets} = {A, B, C, held, user}
      BY <2>2
    <3>2. page_bitmap = UNION {A, B, C, held, user}
      BY <2>1 DEF Partition
    <3> QED
      BY <3>1, <3>2
  <2>4. ASSUME NEW k \in DOMAIN Sets, NEW l \in DOMAIN Sets, k # l
        PROVE  Sets[k] \cap Sets[l] = {}
    <3>1. k \in {1, 2, 3, 4, 5} /\ l \in {1, 2, 3, 4, 5}
      BY <2>2
    <3>2. \A X, Y : X \cap Y = {} => Y \cap X = {}
      OBVIOUS
    <3> QED
      BY <2>1, <2>2, <2>4, <3>1, <3>2 DEF Partition
  <2> QED
    BY <2>3, <2>4 DEF OneUserPerPage, Sets, A, B, C
<1> QED
  BY <1>3, <1>5, <1>6

(* What alloc_page does. *)
LEMMA AllocPage ==
    ASSUME page_bitmap \subseteq Page, used_pages = Cardinality(page_bitmap),
           0 \in page_bitmap, NEW page, alloc_page(page)
    PROVE  /\ page \in Page /\ page \notin page_bitmap /\ page # 0
           /\ page_bitmap' = page_bitmap \cup {page}
           /\ page_bitmap' \subseteq Page /\ used_pages' = Cardinality(page_bitmap')
<1>1. FreePages \subseteq Nat /\ FreePages # {} /\ page = Min(FreePages)
  BY PageFacts DEF alloc_page, FreePages
<1>2. \E x \in FreePages : \A y \in FreePages : x <= y
  BY <1>1, LeastNumber
<1>3. page \in FreePages
  BY <1>1, <1>2 DEF Min
<1>4. page \in Page /\ page \notin page_bitmap /\ page # 0
  BY <1>3 DEF FreePages
<1>5. IsFiniteSet(page_bitmap)
  BY PageFacts, FS_Subset
<1>6. page_bitmap' = page_bitmap \cup {page} /\ used_pages' = used_pages + 1
  BY DEF alloc_page
<1>7. Cardinality(page_bitmap \cup {page}) = Cardinality(page_bitmap) + 1
  BY <1>4, <1>5, FS_AddElement
<1> QED
  BY <1>4, <1>6, <1>7

(* What free_page does to a page in use. *)
LEMMA FreePage ==
    ASSUME page_bitmap \subseteq Page, used_pages = Cardinality(page_bitmap),
           NEW page \in page_bitmap, free_page(page)
    PROVE  /\ page_bitmap' = page_bitmap \ {page}
           /\ page_bitmap' \subseteq Page /\ used_pages' = Cardinality(page_bitmap')
<1>1. IsFiniteSet(page_bitmap)
  BY PageFacts, FS_Subset
<1>2. page_bitmap' = page_bitmap \ {page} /\ used_pages' = used_pages - 1
  BY DEF free_page
<1>3. Cardinality(page_bitmap \ {page}) = Cardinality(page_bitmap) - 1
  BY <1>1, FS_RemoveElement
<1> QED
  BY <1>2, <1>3

(* device_register puts page p in front of the chain s. *)
Grown(t, s, page, name, dev, new) ==
    /\ IsChain(t, page, new) /\ Items(t) = Items(s) \cup {page}
    /\ Len(t) = Len(s) + 1 /\ t[1] = page /\ \A k \in 1 .. Len(s) : t[k + 1] = s[k]
    /\ new[page].name = name /\ \A k \in 1 .. Len(s) : new[s[k]] = dev[s[k]]

LEMMA ChainGrows ==
    ASSUME NEW s, NEW first, NEW dev \in [Page -> DeviceRecord], IsChain(s, first, dev),
           NEW page \in Page, page # 0, page \notin Items(s), NEW name \in Name,
           NEW new, new = [dev EXCEPT ![page] = [name |-> name, next |-> first]]
    PROVE  \E t : Grown(t, s, page, name, dev, new)
<1> DEFINE n == Len(s)
           t == <<page>> \o s
           e == [name |-> name, next |-> first]
<1>0. /\ s \in Seq(Page) /\ n \in Nat /\ \A k \in 1 .. n : s[k] # 0
      /\ \A j, k \in 1 .. n : s[j] = s[k] => j = k
      /\ first = IF n = 0 THEN 0 ELSE s[1]
      /\ \A k \in 1 .. n : dev[s[k]].next = IF k < n THEN s[k + 1] ELSE 0
  BY DEF IsChain
<1>1. e.name = name /\ e.next = first
  OBVIOUS
<1> HIDE DEF e
<1>2. new[page] = e /\ \A q \in Page : q # page => new[q] = dev[q]
  BY DEF e
<1>3. <<page>> \in Seq(Page) /\ Len(<<page>>) = 1 /\ <<page>>[1] = page
  OBVIOUS
<1>4. /\ t \in Seq(Page) /\ Len(t) = 1 + n
      /\ \A k \in 1 .. 1 + n : t[k] = IF k <= 1 THEN <<page>>[k] ELSE s[k - 1]
  BY <1>0, <1>3, ConcatFacts
<1> HIDE DEF t, n
<1>5. t[1] = page
  BY <1>0, <1>3, <1>4
<1>6. \A k \in 1 .. n : t[k + 1] = s[k]
  <2> SUFFICES ASSUME NEW k \in 1 .. n PROVE t[k + 1] = s[k]
    OBVIOUS
  <2>1. k + 1 \in 1 .. 1 + n /\ ~(k + 1 <= 1) /\ (k + 1) - 1 = k
    BY <1>0
  <2> QED
    BY <1>4, <2>1
<1>7. \A k \in 1 .. 1 + n : k = 1 \/ \E j \in 1 .. n : k = j + 1
  <2> SUFFICES ASSUME NEW k \in 1 .. 1 + n, k # 1 PROVE \E j \in 1 .. n : k = j + 1
    OBVIOUS
  <2>1. k - 1 \in 1 .. n /\ k = (k - 1) + 1
    BY <1>0
  <2> QED
    BY <2>1
<1>8. \A k \in 1 .. n : s[k] \in Page /\ s[k] # page /\ new[s[k]] = dev[s[k]]
  BY <1>0, <1>2 DEF Items, n
<1>9. \A k \in 1 .. 1 + n : t[k] # 0
  <2> SUFFICES ASSUME NEW k \in 1 .. 1 + n PROVE t[k] # 0
    OBVIOUS
  <2>1. CASE k = 1
    BY <1>5, <2>1
  <2>2. CASE k # 1
    <3>1. PICK j \in 1 .. n : k = j + 1
      BY <1>7, <2>2
    <3>2. t[k] = s[j]
      BY <1>6, <3>1
    <3>3. s[j] # 0
      BY <1>0
    <3> QED
      BY <3>2, <3>3
  <2> QED
    BY <2>1, <2>2
<1>10. \A j, k \in 1 .. 1 + n : t[j] = t[k] => j = k
  <2> SUFFICES ASSUME NEW j \in 1 .. 1 + n, NEW k \in 1 .. 1 + n, t[j] = t[k] PROVE j = k
    OBVIOUS
  <2>0. \A i \in 1 .. n : s[i] # page
    BY <1>8
  <2>1. CASE j = 1 /\ k = 1
    BY <2>1
  <2>2. CASE j = 1 /\ k # 1
    <3>1. PICK i \in 1 .. n : k = i + 1
      BY <1>7, <2>2
    <3>2. t[k] = s[i] /\ t[j] = page
      BY <1>5, <1>6, <2>2, <3>1
    <3> QED
      BY <2>0, <3>2
  <2>3. CASE j # 1 /\ k = 1
    <3>1. PICK i \in 1 .. n : j = i + 1
      BY <1>7, <2>3
    <3>2. t[j] = s[i] /\ t[k] = page
      BY <1>5, <1>6, <2>3, <3>1
    <3> QED
      BY <2>0, <3>2
  <2>4. CASE j # 1 /\ k # 1
    <3>1. PICK i \in 1 .. n : j = i + 1
      BY <1>7, <2>4
    <3>2. PICK l \in 1 .. n : k = l + 1
      BY <1>7, <2>4
    <3>3. s[i] = s[l]
      BY <1>6, <3>1, <3>2
    <3>4. i = l
      BY <1>0, <3>3
    <3> QED
      BY <3>1, <3>2, <3>4
  <2> QED
    BY <2>1, <2>2, <2>3, <2>4
<1>11. \A k \in 1 .. 1 + n : new[t[k]].next = IF k < 1 + n THEN t[k + 1] ELSE 0
  <2> SUFFICES ASSUME NEW k \in 1 .. 1 + n
               PROVE  new[t[k]].next = IF k < 1 + n THEN t[k + 1] ELSE 0
    OBVIOUS
  <2>1. CASE k = 1
    <3>1. new[t[k]].next = first
      BY <1>1, <1>2, <1>5, <2>1
    <3>2. CASE n = 0
      BY <1>0, <2>1, <3>1, <3>2
    <3>3. CASE n # 0
      <4>1. 1 \in 1 .. n /\ k < 1 + n
        BY <1>0, <2>1, <3>3
      <4>2. t[k + 1] = s[1]
        BY <1>6, <2>1, <4>1
      <4> QED
        BY <1>0, <3>1, <3>3, <4>1, <4>2
    <3> QED
      BY <3>2, <3>3
  <2>2. CASE k # 1
    <3>1. PICK j \in 1 .. n : k = j + 1
      BY <1>7, <2>2
    <3>2. new[t[k]].next = IF j < n THEN s[j + 1] ELSE 0
      <4>1. t[k] = s[j]
        BY <1>6, <3>1
      <4>2. new[s[j]] = dev[s[j]]
        BY <1>8
      <4>3. dev[s[j]].next = IF j < n THEN s[j + 1] ELSE 0
        BY <1>0
      <4> QED
        BY <4>1, <4>2, <4>3
    <3>3. (k < 1 + n) <=> (j < n)
      BY <1>0, <3>1
    <3>4. j < n => j + 1 \in 1 .. n
      BY <1>0
    <3>5. j < n => t[k + 1] = s[j + 1]
      BY <1>6, <3>1, <3>4
    <3> QED
      BY <3>2, <3>3, <3>5
  <2> QED
    BY <2>1, <2>2
<1>12. IsChain(t, page, new)
  <2>1. Len(t) # 0
    BY <1>0, <1>4
  <2> QED
    BY <1>4, <1>5, <1>9, <1>10, <1>11, <2>1 DEF IsChain
<1>13. Items(t) = Items(s) \cup {page}
  <2>1. Items(t) = {t[k] : k \in 1 .. 1 + n} /\ Items(s) = {s[k] : k \in 1 .. n}
    BY <1>4 DEF Items, n
  <2>2. 1 \in 1 .. 1 + n /\ \A k \in 1 .. n : k + 1 \in 1 .. 1 + n
    BY <1>0
  <2>3. Items(t) \subseteq Items(s) \cup {page}
    BY <1>5, <1>6, <1>7, <2>1
  <2>4. Items(s) \cup {page} \subseteq Items(t)
    BY <1>5, <1>6, <2>1, <2>2
  <2> QED
    BY <2>3, <2>4
<1>14. Len(t) = n + 1
  BY <1>0, <1>4
<1> QED
  BY <1>1, <1>2, <1>5, <1>6, <1>8, <1>12, <1>13, <1>14 DEF n, Grown

(* The pointers that device_unregister changes to take the i-th page out of the chain. *)
Unlinked(s, i, first, dev, rest, new) ==
    IF i = 1
    THEN rest = dev[s[1]].next /\ new = dev
    ELSE rest = first /\ new = [dev EXCEPT ![s[i - 1]].next = dev[s[i]].next]

LEMMA UnlinkedRecords ==
    ASSUME NEW s, NEW first, NEW dev \in [Page -> DeviceRecord], IsChain(s, first, dev),
           NEW i \in 1 .. Len(s), NEW rest, NEW new, Unlinked(s, i, first, dev, rest, new)
    PROVE  /\ new \in [Page -> DeviceRecord]
           /\ \A q \in Page : new[q].name = dev[q].name
           /\ \A q \in Page : (i = 1 \/ q # s[i - 1]) => new[q].next = dev[q].next
           /\ i # 1 => new[s[i - 1]].next = dev[s[i]].next
<1>1. CASE i = 1
  BY <1>1 DEF Unlinked
<1>2. CASE i # 1
  <2>1. i - 1 \in 1 .. Len(s) /\ s \in Seq(Page)
    BY <1>2 DEF IsChain
  <2>2. s[i - 1] \in Page /\ s[i] \in Page
    BY <2>1
  <2> DEFINE q == s[i - 1]
             x == dev[s[i]].next
             e == [dev[q] EXCEPT !.next = x]
  <2>3. new = [dev EXCEPT ![q] = e]
    BY <1>2 DEF Unlinked
  <2>4. x \in Page /\ dev[q] \in DeviceRecord
    BY <2>2 DEF DeviceRecord
  <2> HIDE DEF x
  <2>5. e \in DeviceRecord /\ e.next = x /\ e.name = dev[q].name
    BY <2>4 DEF DeviceRecord
  <2>6. q \in Page
    BY <2>2
  <2> HIDE DEF e, q
  <2>7. new \in [Page -> DeviceRecord] /\ new[q] = e /\ \A r \in Page : r # q => new[r] = dev[r]
    BY <2>3, <2>5, <2>6
  <2> QED
    BY <1>2, <2>5, <2>7 DEF q, x
<1> QED
  BY <1>1, <1>2

LEMMA ChainShrinks ==
    ASSUME NEW s, NEW first, NEW dev \in [Page -> DeviceRecord], IsChain(s, first, dev),
           NEW i \in 1 .. Len(s), NEW rest, NEW new, Unlinked(s, i, first, dev, rest, new)
    PROVE  IsChain(Removed(s, i), rest, new) /\ Items(Removed(s, i)) = Items(s) \ {s[i]}
<1> DEFINE n == Len(s)
           t == Removed(s, i)
<1>0. /\ s \in Seq(Page) /\ n \in Nat /\ \A k \in 1 .. n : s[k] # 0 /\ s[k] \in Page
      /\ \A j, k \in 1 .. n : s[j] = s[k] => j = k
      /\ first = IF n = 0 THEN 0 ELSE s[1]
      /\ \A k \in 1 .. n : dev[s[k]].next = IF k < n THEN s[k + 1] ELSE 0
  BY DEF IsChain
<1>1. /\ t \in Seq(Page) /\ Len(t) = n - 1
      /\ \A k \in 1 .. n - 1 : t[k] = s[IF k < i THEN k ELSE k + 1]
  BY <1>0, RemovedFacts
<1>2. i \in 1 .. n /\ i \in Int
  OBVIOUS
<1>3. /\ \A q \in Page : (i = 1 \/ q # s[i - 1]) => new[q].next = dev[q].next
      /\ i # 1 => new[s[i - 1]].next = dev[s[i]].next
  BY UnlinkedRecords
<1> HIDE DEF t, n
<1>4. \A k \in 1 .. n - 1 : k < i => k \in 1 .. n /\ t[k] = s[k]
  BY <1>0, <1>1
<1>5. \A k \in 1 .. n - 1 : ~(k < i) => k + 1 \in 1 .. n /\ t[k] = s[k + 1]
  BY <1>0, <1>1, <1>2
<1>6. \A k \in 1 .. n - 1 : \E j \in 1 .. n : j # i /\ t[k] = s[j] /\ j = IF k < i THEN k ELSE k + 1
  <2> SUFFICES ASSUME NEW k \in 1 .. n - 1
               PROVE  \E j \in 1 .. n : j # i /\ t[k] = s[j] /\ j = IF k < i THEN k ELSE k + 1
    OBVIOUS
  <2>1. CASE k < i
    BY <1>4, <2>1
  <2>2. CASE ~(k < i)
    <3>1. k + 1 \in 1 .. n /\ t[k] = s[k + 1] /\ k + 1 # i
      BY <1>2, <1>5, <2>2
    <3> QED
      BY <2>2, <3>1
  <2> QED
    BY <2>1, <2>2
<1>7. \A k \in 1 .. n - 1 : t[k] # 0
  BY <1>0, <1>6
<1>8. \A j, k \in 1 .. n - 1 : t[j] = t[k] => j = k
  <2> SUFFICES ASSUME NEW j \in 1 .. n - 1, NEW k \in 1 .. n - 1, t[j] = t[k] PROVE j = k
    OBVIOUS
  <2>1. PICK z \in 1 .. n : t[j] = s[z] /\ z = IF j < i THEN j ELSE j + 1
    BY <1>6
  <2>2. PICK b \in 1 .. n : t[k] = s[b] /\ b = IF k < i THEN k ELSE k + 1
    BY <1>6
  <2>3. z = b
    BY <1>0, <2>1, <2>2
  <2> QED
    BY <1>2, <2>1, <2>2, <2>3
<1>9. ASSUME NEW k \in 1 .. n - 1
      PROVE  new[t[k]].next = IF k < n - 1 THEN t[k + 1] ELSE 0
  <2>1. CASE k < i - 1
    <3>1. t[k] = s[k] /\ t[k + 1] = s[k + 1] /\ k < n - 1 /\ k < n
      <4>1. k < i /\ k + 1 < i /\ k + 1 \in 1 .. n - 1 /\ k < n - 1 /\ k < n
        BY <1>0, <1>2, <2>1
      <4> QED
        BY <1>4, <4>1
    <3>2. s[k] \in Page /\ s[k] # s[i - 1]
      <4>1. k \in 1 .. n /\ i - 1 \in 1 .. n /\ k # i - 1
        BY <1>0, <1>2, <2>1
      <4> QED
        BY <1>0, <4>1
    <3>3. new[s[k]].next = dev[s[k]].next
      BY <1>3, <3>2
    <3>4. dev[s[k]].next = s[k + 1]
      <4>1. k \in 1 .. n
        BY <1>0
      <4> QED
        BY <1>0, <3>1, <4>1
    <3> QED
      BY <3>1, <3>3, <3>4
  <2>2. CASE k = i - 1
    <3>1. i # 1 /\ k < i
      BY <1>2, <2>2
    <3>2. t[k] = s[i - 1]
      BY <1>4, <2>2, <3>1
    <3>3. new[t[k]].next = dev[s[i]].next
      BY <1>3, <3>1, <3>2
    <3>4. dev[s[i]].next = IF i < n THEN s[i + 1] ELSE 0
      BY <1>0, <1>2
    <3>5. (k < n - 1) <=> (i < n)
      BY <1>0, <1>2, <2>2
    <3>6. i < n => t[k + 1] = s[i + 1]
      <4> SUFFICES ASSUME i < n PROVE t[k + 1] = s[i + 1]
        OBVIOUS
      <4>1. i \in 1 .. n - 1 /\ ~(i < i) /\ k + 1 = i
        BY <1>0, <1>2, <2>2
      <4> QED
        BY <1>5, <4>1
    <3> QED
      BY <3>3, <3>4, <3>5, <3>6
  <2>3. CASE k > i - 1
    <3>1. ~(k < i) /\ k + 1 \in 1 .. n /\ ~(k + 1 < i)
      BY <1>0, <1>2, <2>3
    <3>2. t[k] = s[k + 1]
      BY <1>5, <3>1
    <3>3. i = 1 \/ s[k + 1] # s[i - 1]
      <4>1. i = 1 \/ (i - 1 \in 1 .. n /\ k + 1 # i - 1)
        BY <1>0, <1>2, <2>3
      <4> QED
        BY <1>0, <3>1, <4>1
    <3>4. s[k + 1] \in Page
      BY <1>0, <3>1
    <3>5. new[s[k + 1]].next = dev[s[k + 1]].next
      BY <1>3, <3>3, <3>4
    <3>6. dev[s[k + 1]].next = IF k + 1 < n THEN s[(k + 1) + 1] ELSE 0
      BY <1>0, <3>1
    <3>7. (k + 1 < n) <=> (k < n - 1)
      BY <1>0
    <3>8. k < n - 1 => t[k + 1] = s[(k + 1) + 1]
      <4>1. k < n - 1 => k + 1 \in 1 .. n - 1
        BY <1>0
      <4> QED
        BY <1>5, <3>1, <4>1
    <3> QED
      BY <3>2, <3>5, <3>6, <3>7, <3>8
  <2> QED
    BY <1>2, <2>1, <2>2, <2>3
<1>10. rest = IF n - 1 = 0 THEN 0 ELSE t[1]
  <2>1. CASE i = 1
    <3>1. rest = dev[s[1]].next /\ 1 \in 1 .. n
      BY <1>2, <2>1 DEF Unlinked
    <3>2. rest = IF 1 < n THEN s[2] ELSE 0
      <4>1. 1 + 1 = 2
        OBVIOUS
      <4> QED
        BY <1>0, <3>1, <4>1
    <3>3. (n - 1 = 0) <=> ~(1 < n)
      BY <1>0, <3>1
    <3>4. 1 < n => t[1] = s[2]
      <4>1. 1 < n => 1 \in 1 .. n - 1
        BY <1>0
      <4>2. ~(1 < i) /\ 1 + 1 = 2
        BY <2>1
      <4> QED
        BY <1>5, <4>1, <4>2
    <3> QED
      BY <3>2, <3>3, <3>4
  <2>2. CASE i # 1
    <3>1. 1 \in 1 .. n - 1 /\ 1 < i /\ n # 0 /\ n - 1 # 0
      BY <1>0, <1>2, <2>2
    <3>2. rest = s[1]
      BY <1>0, <2>2, <3>1 DEF Unlinked
    <3>3. t[1] = s[1]
      BY <1>4, <3>1
    <3> QED
      BY <3>1, <3>2, <3>3
  <2> QED
    BY <2>1, <2>2
<1>11. IsChain(t, rest, new)
  BY <1>1, <1>7, <1>8, <1>9, <1>10 DEF IsChain
<1>12. Items(t) = Items(s) \ {s[i]}
  <2>1. Items(t) = {t[k] : k \in 1 .. n - 1} /\ Items(s) = {s[k] : k \in 1 .. n}
    BY <1>1 DEF Items, n
  <2>2. \A j \in 1 .. n : j # i => s[j] # s[i]
    BY <1>0, <1>2
  <2>3. Items(t) \subseteq Items(s) \ {s[i]}
    BY <1>6, <2>1, <2>2
  <2>4. ASSUME NEW j \in 1 .. n, j # i PROVE \E k \in 1 .. n - 1 : t[k] = s[j]
    <3>1. CASE j < i
      <4>1. j \in 1 .. n - 1
        BY <1>0, <1>2, <3>1
      <4> QED
        BY <1>4, <3>1, <4>1
    <3>2. CASE j > i
      <4>1. j - 1 \in 1 .. n - 1 /\ ~(j - 1 < i) /\ (j - 1) + 1 = j
        BY <1>0, <1>2, <3>2
      <4>2. t[j - 1] = s[j]
        BY <1>5, <4>1
      <4> QED
        BY <4>1, <4>2
    <3> QED
      BY <1>0, <1>2, <2>4, <3>1, <3>2
  <2>5. Items(s) \ {s[i]} \subseteq Items(t)
    <3> SUFFICES ASSUME NEW x \in Items(s), x # s[i] PROVE x \in Items(t)
      OBVIOUS
    <3>1. PICK j \in 1 .. n : x = s[j]
      BY <2>1
    <3>2. j # i
      BY <3>1
    <3> QED
      BY <2>1, <2>4, <3>1, <3>2
  <2> QED
    BY <2>3, <2>5
<1> QED
  BY <1>11, <1>12 DEF t

NamesOf(s, dev) == [k \in 1 .. Len(s) |-> dev[s[k]].name]

(* Names is what a chain of the devices spells. *)
NamesShape == \A s : IsChain(s, device_list, device) => Names = NamesOf(s, device)

LEMMA NamesOfType ==
    ASSUME NEW s \in Seq(Page), NEW dev \in [Page -> DeviceRecord]
    PROVE  /\ NamesOf(s, dev) \in Seq(Name \cup {NoName}) /\ Len(NamesOf(s, dev)) = Len(s)
           /\ \A k \in 1 .. Len(s) : NamesOf(s, dev)[k] = dev[s[k]].name
<1>1. \A k \in 1 .. Len(s) : dev[s[k]].name \in Name \cup {NoName}
  <2>1. \A k \in 1 .. Len(s) : dev[s[k]] \in DeviceRecord
    OBVIOUS
  <2> QED
    BY <2>1 DEF DeviceRecord
<1>2. Len(s) \in Nat
  OBVIOUS
<1> QED
  BY <1>1, <1>2 DEF NamesOf

LEMMA NamesGrow ==
    ASSUME NEW s \in Seq(Page), NEW t \in Seq(Page), NEW dev \in [Page -> DeviceRecord],
           NEW new \in [Page -> DeviceRecord], NEW name \in Name, NEW page,
           Grown(t, s, page, name, dev, new)
    PROVE  NamesOf(t, new) = <<name>> \o NamesOf(s, dev)
<1> DEFINE n == Len(s)
           S == Name \cup {NoName}
           z == NamesOf(t, new)
           b == NamesOf(s, dev)
<1>1. n \in Nat /\ Len(t) = n + 1 /\ new[t[1]].name = name
  BY DEF Grown
<1>2. z \in Seq(S) /\ Len(z) = n + 1 /\ \A k \in 1 .. n + 1 : z[k] = new[t[k]].name
  BY <1>1, NamesOfType
<1>3. b \in Seq(S) /\ Len(b) = n /\ \A k \in 1 .. n : b[k] = dev[s[k]].name
  BY NamesOfType
<1>4. <<name>> \in Seq(S) /\ Len(<<name>>) = 1 /\ <<name>>[1] = name
  OBVIOUS
<1>5. \A k \in 1 .. n : t[k + 1] = s[k] /\ new[s[k]] = dev[s[k]]
  BY DEF Grown
<1> HIDE DEF z, b, n, S
<1>6. /\ <<name>> \o b \in Seq(S) /\ Len(<<name>> \o b) = 1 + n
      /\ \A k \in 1 .. 1 + n : (<<name>> \o b)[k] = IF k <= 1 THEN <<name>>[k] ELSE b[k - 1]
  BY <1>3, <1>4, ConcatFacts
<1>7. ASSUME NEW k \in 1 .. n + 1 PROVE z[k] = (<<name>> \o b)[k]
  <2>0. k \in 1 .. 1 + n
    BY <1>1
  <2>1. CASE k = 1
    BY <1>1, <1>2, <1>4, <1>6, <2>0, <2>1
  <2>2. CASE k # 1
    <3>1. k - 1 \in 1 .. n /\ (k - 1) + 1 = k /\ ~(k <= 1)
      BY <1>1, <2>2
    <3>2. (<<name>> \o b)[k] = b[k - 1]
      BY <1>6, <2>0, <3>1
    <3>3. t[k] = s[k - 1] /\ new[s[k - 1]] = dev[s[k - 1]]
      BY <1>5, <3>1
    <3>4. b[k - 1] = dev[s[k - 1]].name
      BY <1>3, <3>1
    <3>5. z[k] = new[t[k]].name
      BY <1>2
    <3> QED
      BY <3>2, <3>3, <3>4, <3>5
  <2> QED
    BY <2>1, <2>2
<1>8. Len(z) = Len(<<name>> \o b)
  BY <1>1, <1>2, <1>6
<1>9. z = <<name>> \o b
  BY <1>2, <1>6, <1>7, <1>8, SameSeq
<1> QED
  BY <1>9 DEF z, b

LEMMA NamesShrink ==
    ASSUME NEW s \in Seq(Page), NEW dev \in [Page -> DeviceRecord],
           NEW new \in [Page -> DeviceRecord], NEW i \in 1 .. Len(s),
           \A q \in Page : new[q].name = dev[q].name
    PROVE  NamesOf(Removed(s, i), new) = Removed(NamesOf(s, dev), i)
<1> DEFINE n == Len(s)
           S == Name \cup {NoName}
           t == Removed(s, i)
           z == NamesOf(t, new)
           b == NamesOf(s, dev)
           c == Removed(b, i)
<1>1. n \in Nat /\ i \in 1 .. n /\ \A k \in 1 .. n : s[k] \in Page
  OBVIOUS
<1>2. /\ t \in Seq(Page) /\ Len(t) = n - 1
      /\ \A k \in 1 .. n - 1 : t[k] = s[IF k < i THEN k ELSE k + 1]
  BY RemovedFacts
<1>3. b \in Seq(S) /\ Len(b) = n /\ \A k \in 1 .. n : b[k] = dev[s[k]].name
  BY NamesOfType
<1> HIDE DEF t, b, S, n
<1>4. z \in Seq(S) /\ Len(z) = n - 1 /\ \A k \in 1 .. n - 1 : z[k] = new[t[k]].name
  BY <1>2, NamesOfType DEF S
<1>5. /\ c \in Seq(S) /\ Len(c) = n - 1
      /\ \A k \in 1 .. n - 1 : c[k] = b[IF k < i THEN k ELSE k + 1]
  <2>1. i \in 1 .. Len(b)
    BY <1>1, <1>3
  <2> QED
    BY <1>3, <2>1, RemovedFacts
<1> HIDE DEF z, c
<1>6. ASSUME NEW k \in 1 .. n - 1 PROVE z[k] = c[k]
  <2> DEFINE j == IF k < i THEN k ELSE k + 1
  <2>1. j \in 1 .. n
    BY <1>1
  <2>2. t[k] = s[j] /\ c[k] = b[j] /\ z[k] = new[t[k]].name
    BY <1>2, <1>4, <1>5
  <2> HIDE DEF j
  <2>3. b[j] = dev[s[j]].name /\ s[j] \in Page
    BY <1>1, <1>3, <2>1
  <2> QED
    BY <2>2, <2>3
<1>7. Len(z) = Len(c) /\ \A k \in 1 .. Len(z) : z[k] = c[k]
  BY <1>4, <1>5, <1>6
<1>8. z = c
  BY <1>4, <1>5, <1>7, SameSeq
<1> QED
  BY <1>8 DEF z, b, c, t

(* The users of the pages for a chain s. *)
UsedBy(s) == Partition(page_bitmap, 0 .. Reserved - 1, Items(s), {block_data} \ {0}, held, user)

LEMMA DevicesInitInv == Init => DevicesInv /\ Names = <<>>
<1> SUFFICES ASSUME Init PROVE DevicesInv /\ Names = <<>>
  OBVIOUS
<1> DEFINE s == <<>>
<1>1. s \in Seq(Page) /\ Len(s) = 0 /\ Items(s) = {}
  BY DEF Items
<1>2. IsChain(s, device_list, device)
  BY <1>1 DEF IsChain, Init, NULL
<1>3. Partition(page_bitmap, 0 .. Reserved - 1, Items(s), {block_data} \ {0}, held, user)
  BY <1>1 DEF Partition, Init, NULL
<1>4. Cardinality(0 .. Reserved - 1) = Reserved
  <2> DEFINE m == Reserved - 1
  <2>1. m \in Int /\ ~(0 > m) /\ m - 0 + 1 = Reserved
    BY PageFacts
  <2> HIDE DEF m
  <2>2. Cardinality(0 .. m) = Reserved
    BY <2>1, FS_Interval
  <2> QED
    BY <2>2 DEF m
<1>5. device \in [Page -> DeviceRecord]
  <2>1. [name |-> NoName, next |-> NULL] \in DeviceRecord
    BY PageFacts DEF DeviceRecord, NULL
  <2> QED
    BY <2>1 DEF Init
<1>6. DevicesInv
  <2>1. page_bitmap \subseteq Page /\ used_pages = Cardinality(page_bitmap)
    BY <1>4, PageFacts DEF Init
  <2> QED
    BY <1>2, <1>3, <1>5, <2>1, PageFacts DEF DevicesInv, Init, NULL
<1>7. Names = [k \in 1 .. Len(s) |-> device[s[k]].name]
  BY <1>2, ListedIsChain
<1>8. Names = <<>>
  <2>1. 1 .. Len(s) = {}
    BY <1>1
  <2> HIDE DEF s
  <2>2. Names = [k \in {} |-> device[s[k]].name]
    BY <1>7, <2>1
  <2> QED
    BY <2>2
<1> QED
  BY <1>6, <1>8

(* Page 0 is in use, and what else a chain s says of the pages. *)
LEMMA ReservedInUse ==
    ASSUME NEW s, UsedBy(s)
    PROVE  0 \in page_bitmap
BY PageFacts DEF UsedBy, Partition

LEMMA RegisterStep ==
    ASSUME DevicesInv, NamesShape, NamesShape', NEW name \in Name, device_register(name)
    PROVE  DevicesInv' /\ Registry!Register(name)
<1>1. PICK s : IsChain(s, device_list, device) /\ UsedBy(s)
  BY DEF DevicesInv, UsedBy
<1>2. PICK page \in Page :
         /\ alloc_page(page)
         /\ device' = [device EXCEPT ![page] = [name |-> name, next |-> device_list]]
         /\ device_list' = page
  BY DEF device_register
<1>3. /\ page \in Page /\ page \notin page_bitmap /\ page # 0
      /\ page_bitmap' = page_bitmap \cup {page}
      /\ page_bitmap' \subseteq Page /\ used_pages' = Cardinality(page_bitmap')
  BY <1>1, <1>2, AllocPage, ReservedInUse DEF DevicesInv
<1>4. page \notin Items(s)
  BY <1>1, <1>3 DEF UsedBy, Partition
<1>5. device \in [Page -> DeviceRecord] /\ device_list \in Page
  BY DEF DevicesInv
<1>6. PICK t : Grown(t, s, page, name, device, device')
  BY <1>1, <1>2, <1>3, <1>4, <1>5, ChainGrows
<1>6a. IsChain(t, page, device') /\ Items(t) = Items(s) \cup {page}
  BY <1>6 DEF Grown
<1>7. device' \in [Page -> DeviceRecord]
  <2>1. [name |-> name, next |-> device_list] \in DeviceRecord
    BY <1>5 DEF DeviceRecord
  <2> QED
    BY <1>2, <1>5, <2>1
<1>8. UNCHANGED otherVars
  BY DEF device_register
<1>9. Partition(page_bitmap', 0 .. Reserved - 1, Items(t), {block_data'} \ {0}, held', user')
  <2>1. Partition(page_bitmap, 0 .. Reserved - 1, Items(s), {block_data} \ {0}, held, user)
    BY <1>1 DEF UsedBy
  <2>2. Partition(page_bitmap \cup {page}, 0 .. Reserved - 1, Items(s) \cup {page},
                  {block_data} \ {0}, held, user)
    BY <1>3, <2>1 DEF Partition
  <2> QED
    BY <1>3, <1>6a, <1>8, <2>2 DEF otherVars
<1>10. DevicesInv'
  BY <1>2, <1>3, <1>6a, <1>7, <1>8, <1>9 DEF DevicesInv, otherVars
<1>11. Names = NamesOf(s, device)
  BY <1>1 DEF NamesShape
<1>12. Names' = NamesOf(t, device')
  BY <1>2, <1>6a DEF NamesShape
<1>13. NamesOf(t, device') = <<name>> \o NamesOf(s, device)
  <2>1. s \in Seq(Page) /\ t \in Seq(Page)
    BY <1>1, <1>6a DEF IsChain
  <2> QED
    BY <1>5, <1>6, <1>7, <2>1, NamesGrow, SMTT(30)
<1>14. Registry!Register(name)
  BY <1>11, <1>12, <1>13 DEF Registry!Register
<1> QED
  BY <1>10, <1>14

(* The walk finds a device on the chain. *)
LEMMA FoundOnChain ==
    ASSUME NEW s, IsChain(s, device_list, device), NEW name,
           NEW i \in 0 .. MAX_PAGES, FoundAt(name, i)
    PROVE  /\ i + 1 \in 1 .. Len(s) /\ Walk[i] = s[i + 1]
           /\ device[s[i + 1]].name = name
           /\ \A j \in 1 .. i : Walk[j - 1] = s[j] /\ device[s[j]].name # name
<1>1. Walk = Path(s) /\ Len(s) \in Nat /\ MAX_PAGES \in Nat /\ i \in Nat /\ i <= MAX_PAGES
  <2>1. Walk = Path(s)
    BY WalkIsPath
  <2>2. MAX_PAGES \in Nat
    BY PageFacts
  <2>3. Len(s) \in Nat
    BY DEF IsChain
  <2> QED
    BY <2>1, <2>2, <2>3
<1>2. Walk[i] = IF i < Len(s) THEN s[i + 1] ELSE 0
  BY <1>1 DEF Path
<1>3. Walk[i] # 0 /\ device[Walk[i]].name = name
  BY DEF FoundAt, NULL
<1>4. i < Len(s) /\ Walk[i] = s[i + 1]
  BY <1>2, <1>3
<1>5. ASSUME NEW j \in 1 .. i PROVE Walk[j - 1] = s[j] /\ device[s[j]].name # name
  <2>1. j - 1 \in 0 .. MAX_PAGES /\ j - 1 \in 0 .. i - 1 /\ j - 1 < Len(s) /\ (j - 1) + 1 = j
    BY <1>1, <1>4
  <2>2. Walk[j - 1] = s[j]
    BY <1>1, <2>1 DEF Path
  <2>3. device[Walk[j - 1]].name # name
    BY <2>1 DEF FoundAt
  <2> QED
    BY <2>2, <2>3
<1>6. i + 1 \in 1 .. Len(s)
  BY <1>1, <1>4
<1> QED
  BY <1>3, <1>4, <1>5, <1>6

LEMMA UnregisterStep ==
    ASSUME DevicesInv, NamesShape, NamesShape', NEW name \in Name, device_unregister(name)
    PROVE  DevicesInv' /\ Registry!Unregister(name)
<1>1. PICK s : IsChain(s, device_list, device) /\ UsedBy(s)
  BY DEF DevicesInv, UsedBy
<1>2. PICK m \in 0 .. MAX_PAGES :
         /\ FoundAt(name, m)
         /\ IF m = 0
            THEN device_list' = device[Walk[m]].next /\ UNCHANGED device
            ELSE /\ device' = [device EXCEPT ![Walk[m - 1]].next = device[Walk[m]].next]
                 /\ UNCHANGED device_list
         /\ free_page(Walk[m])
  BY DEF device_unregister
<1> DEFINE i == m + 1
           t == Removed(s, i)
<1>3. /\ i \in 1 .. Len(s) /\ Walk[m] = s[i] /\ device[s[i]].name = name
      /\ \A j \in 1 .. m : Walk[j - 1] = s[j] /\ device[s[j]].name # name
  BY <1>1, <1>2, FoundOnChain
<1>4. m \in Nat /\ i - 1 = m /\ (i = 1 <=> m = 0)
  BY <1>2
<1>5. Unlinked(s, i, device_list, device, device_list', device')
  <2>1. CASE m = 0
    <3>1. i = 1 /\ Walk[m] = s[1]
      BY <1>3, <2>1
    <3>2. device_list' = device[s[1]].next /\ device' = device
      BY <1>2, <2>1, <3>1
    <3> QED
      BY <3>1, <3>2 DEF Unlinked
  <2>2. CASE m # 0
    <3>1. m \in 1 .. m /\ i # 1
      BY <1>4, <2>2
    <3>2. Walk[m - 1] = s[m] /\ Walk[m] = s[i]
      BY <1>3, <3>1
    <3>3. device' = [device EXCEPT ![s[m]].next = device[s[i]].next] /\ device_list' = device_list
      BY <1>2, <2>2, <3>2
    <3>4. s[m] = s[i - 1]
      BY <1>4
    <3> HIDE DEF i
    <3> QED
      BY <3>1, <3>3, <3>4 DEF Unlinked
  <2> QED
    BY <2>1, <2>2
<1> HIDE DEF i
<1>6. device \in [Page -> DeviceRecord] /\ device_list \in Page
  BY DEF DevicesInv
<1>7. IsChain(t, device_list', device') /\ Items(t) = Items(s) \ {s[i]}
  BY <1>1, <1>3, <1>5, <1>6, ChainShrinks
<1>8. device' \in [Page -> DeviceRecord] /\ \A q \in Page : device'[q].name = device[q].name
  BY <1>1, <1>3, <1>5, <1>6, UnlinkedRecords
<1>9. s \in Seq(Page) /\ s[i] \in Items(s)
  BY <1>1, <1>3 DEF IsChain, Items
<1>10. Partition(page_bitmap, 0 .. Reserved - 1, Items(s), {block_data} \ {0}, held, user)
  BY <1>1 DEF UsedBy
<1>11. s[i] \in page_bitmap
  BY <1>9, <1>10 DEF Partition
<1>12. /\ page_bitmap' = page_bitmap \ {s[i]}
       /\ page_bitmap' \subseteq Page /\ used_pages' = Cardinality(page_bitmap')
  <2>1. free_page(s[i])
    BY <1>2, <1>3
  <2> QED
    BY <1>11, <2>1, FreePage DEF DevicesInv
<1>13. UNCHANGED otherVars
  BY DEF device_unregister
<1>14. Partition(page_bitmap', 0 .. Reserved - 1, Items(t), {block_data'} \ {0}, held', user')
  <2> DEFINE x == s[i]
  <2>1. x \in Items(s)
    BY <1>9
  <2> HIDE DEF x
  <2>2. Partition(page_bitmap \ {x}, 0 .. Reserved - 1, Items(s) \ {x},
                  {block_data} \ {0}, held, user)
    BY <1>10, <2>1 DEF Partition
  <2> QED
    BY <1>7, <1>12, <1>13, <2>2 DEF otherVars, x
<1>15. device_list' \in Page
  <2>1. t \in Seq(Page) /\ device_list' = IF Len(t) = 0 THEN 0 ELSE t[1]
    BY <1>7 DEF IsChain
  <2>2. Len(t) \in Nat /\ (Len(t) # 0 => t[1] \in Page)
    BY <2>1
  <2> QED
    BY <2>1, <2>2, PageFacts
<1>16. DevicesInv'
  BY <1>7, <1>8, <1>12, <1>13, <1>14, <1>15 DEF DevicesInv, otherVars
<1>17. Names = NamesOf(s, device)
  BY <1>1 DEF NamesShape
<1>18. Names' = NamesOf(t, device')
  BY <1>7 DEF NamesShape
<1>19. NamesOf(t, device') = Removed(NamesOf(s, device), i)
  BY <1>3, <1>6, <1>8, <1>9, NamesShrink
<1>20. Names' = Registry!RemoveAt(Names, i)
  BY <1>17, <1>18, <1>19 DEF Removed, Registry!RemoveAt
<1>21. DOMAIN Names = 1 .. Len(s) /\ \A k \in 1 .. Len(s) : Names[k] = device[s[k]].name
  BY <1>17 DEF NamesOf
<1>22. i \in DOMAIN Names /\ Names[i] = name /\ \A j \in 1 .. i - 1 : Names[j] # name
  <2>1. Len(s) \in Nat /\ \A j \in 1 .. m : j \in 1 .. Len(s)
    BY <1>3, <1>4, <1>9
  <2> QED
    BY <1>3, <1>4, <1>21, <2>1
<1>23. Registry!Unregister(name)
  BY <1>20, <1>22 DEF Registry!Unregister
<1> QED
  BY <1>16, <1>23

(* The steps that leave the list of devices alone. *)
LEMMA OtherSteps ==
    ASSUME DevicesInv, block_open \/ kernel_alloc \/ kernel_free \/ create_user_process
    PROVE  DevicesInv' /\ UNCHANGED listVars
<1> DEFINE R == 0 .. Reserved - 1
<1>1. PICK s : IsChain(s, device_list, device) /\ UsedBy(s)
  BY DEF DevicesInv, UsedBy
<1>2. Partition(page_bitmap, R, Items(s), {block_data} \ {0}, held, user)
  BY <1>1 DEF UsedBy
<1>3. 0 \in page_bitmap
  BY <1>1, ReservedInUse
<1>4. ASSUME UNCHANGED listVars, page_bitmap' \subseteq Page, used_pages' = Cardinality(page_bitmap'),
             block_data' \in Page, held' \subseteq Page, user' \subseteq Page,
             user_entry' \in {0, user_base},
             Partition(page_bitmap', R, Items(s), {block_data'} \ {0}, held', user')
      PROVE  DevicesInv'
  BY <1>1, <1>4 DEF DevicesInv, listVars
<1> HIDE DEF R
<1>5. /\ page_bitmap \subseteq Page /\ used_pages = Cardinality(page_bitmap)
      /\ block_data \in Page /\ held \subseteq Page /\ user \subseteq Page
      /\ user_entry \in {0, user_base}
  BY DEF DevicesInv
<1>6. CASE block_open
  <2>1. PICK page \in Page : alloc_page(page) /\ block_data' = page
    BY <1>6 DEF block_open
  <2>2. /\ page \in Page /\ page \notin page_bitmap /\ page # 0
        /\ page_bitmap' = page_bitmap \cup {page}
        /\ page_bitmap' \subseteq Page /\ used_pages' = Cardinality(page_bitmap')
    BY <1>3, <1>5, <2>1, AllocPage
  <2>3. block_data = 0 /\ UNCHANGED <<held, user, user_entry, listVars>>
    BY <1>6 DEF block_open, NULL
  <2>4. Partition(page_bitmap \cup {page}, R, Items(s), {page} \ {0}, held, user)
    BY <1>2, <2>2, <2>3 DEF Partition
  <2> QED
    BY <1>4, <1>5, <2>1, <2>2, <2>3, <2>4
<1>7. CASE kernel_alloc
  <2>1. PICK page \in Page : alloc_page(page) /\ held' = held \cup {page}
    BY <1>7 DEF kernel_alloc
  <2>2. /\ page \in Page /\ page \notin page_bitmap /\ page # 0
        /\ page_bitmap' = page_bitmap \cup {page}
        /\ page_bitmap' \subseteq Page /\ used_pages' = Cardinality(page_bitmap')
    BY <1>3, <1>5, <2>1, AllocPage
  <2>3. UNCHANGED <<block_data, user, user_entry, listVars>>
    BY <1>7 DEF kernel_alloc
  <2>4. Partition(page_bitmap \cup {page}, R, Items(s), {block_data} \ {0}, held \cup {page}, user)
    BY <1>2, <2>2 DEF Partition
  <2> QED
    BY <1>4, <1>5, <2>1, <2>2, <2>3, <2>4
<1>8. CASE kernel_free
  <2>1. PICK page \in held : free_page(page) /\ held' = held \ {page}
    BY <1>8 DEF kernel_free
  <2>2. page \in page_bitmap
    BY <1>2, <2>1 DEF Partition
  <2>3. /\ page_bitmap' = page_bitmap \ {page}
        /\ page_bitmap' \subseteq Page /\ used_pages' = Cardinality(page_bitmap')
    BY <1>5, <2>1, <2>2, FreePage
  <2>4. UNCHANGED <<block_data, user, user_entry, listVars>>
    BY <1>8 DEF kernel_free
  <2>5. Partition(page_bitmap \ {page}, R, Items(s), {block_data} \ {0}, held \ {page}, user)
    BY <1>2, <2>1 DEF Partition
  <2> QED
    BY <1>4, <1>5, <2>1, <2>3, <2>4, <2>5
<1>9. CASE create_user_process
  <2> DEFINE L == Lowest(UserPages)
  <2>1. L \subseteq Page /\ L \cap page_bitmap = {}
    BY DEF Lowest, FreePages
  <2>2. /\ page_bitmap' = page_bitmap \cup L /\ used_pages' = used_pages + Cardinality(L)
        /\ user' = user \cup L /\ UNCHANGED <<listVars, block_data, held>>
        /\ user_entry' \in {0, user_base}
    BY <1>9 DEF create_user_process
  <2> HIDE DEF L
  <2>3. Cardinality(page_bitmap \cup L) = Cardinality(page_bitmap) + Cardinality(L)
    <3>1. IsFiniteSet(L) /\ IsFiniteSet(page_bitmap)
      BY <1>5, <2>1, PageFacts, FS_Subset
    <3>2. /\ Cardinality(page_bitmap \cup L)
                = Cardinality(page_bitmap) + Cardinality(L) - Cardinality(page_bitmap \cap L)
          /\ Cardinality(page_bitmap) \in Nat /\ Cardinality(L) \in Nat
      BY <3>1, FS_Union, FS_CardinalityType
    <3>3. Cardinality(page_bitmap \cap L) = 0
      <4>1. page_bitmap \cap L = {}
        BY <2>1
      <4> QED
        BY <4>1, FS_EmptySet
    <3> QED
      BY <3>2, <3>3
  <2>4. Partition(page_bitmap \cup L, R, Items(s), {block_data} \ {0}, held, user \cup L)
    BY <1>2, <2>1 DEF Partition
  <2>5. used_pages' = Cardinality(page_bitmap')
    BY <1>5, <2>2, <2>3
  <2> QED
    BY <1>4, <1>5, <2>1, <2>2, <2>4, <2>5
<1> QED
  BY <1>6, <1>7, <1>8, <1>9

LEMMA DevicesStep ==
    ASSUME DevicesInv, NamesShape, NamesShape', [Next]_vars
    PROVE  DevicesInv' /\ ((UNCHANGED listVars /\ UNCHANGED Names) \/ Registry!Next)
<1>1. CASE \E name \in Name : device_register(name)
  BY <1>1, RegisterStep DEF Registry!Next
<1>2. CASE \E name \in Name : device_unregister(name)
  BY <1>2, UnregisterStep DEF Registry!Next
<1>3. UNCHANGED vars => DevicesInv' /\ UNCHANGED listVars
  BY DEF vars, listVars, DevicesInv
<1>4. UNCHANGED listVars => UNCHANGED Names
  <2> SUFFICES ASSUME UNCHANGED listVars PROVE UNCHANGED Names
    OBVIOUS
  <2>1. PICK s : IsChain(s, device_list, device)
    BY DEF DevicesInv
  <2>2. Names = NamesOf(s, device)
    BY <2>1 DEF NamesShape
  <2>3. IsChain(s, device_list', device')
    BY <2>1 DEF listVars
  <2>4. Names' = NamesOf(s, device')
    BY <2>3 DEF NamesShape
  <2> QED
    BY <2>2, <2>4 DEF listVars
<1> QED
  BY <1>1, <1>2, <1>3, <1>4, OtherSteps DEF Next

LEMMA DevicesInvAlways == Spec => []DevicesInv /\ ImplementsDeviceList /\ Registry!Spec
<1>1. NamesShape
  BY ListedIsChain DEF NamesShape, NamesOf
<1>2. DevicesInv /\ NamesShape /\ NamesShape' /\ [Next]_vars
         => /\ DevicesInv' /\ [UNCHANGED listVars \/ Registry!Next]_Names
            /\ [Registry!Next]_Names
  BY DevicesStep
<1>3. Init => DevicesInv /\ Registry!Init
  BY DevicesInitInv DEF Registry!Init
<1> QED
  BY <1>1, <1>2, <1>3, PTL DEF Spec, ImplementsDeviceList, Registry!Spec

(* Every page that is in use has one user: the device list, the block device, a user
   process or a caller of alloc_page, whatever devices come and go and however often
   memory runs out. *)
THEOREM OneUserPerPageAlways == Spec => [](OneUserPerPage /\ TypeOK)
BY DevicesInvAlways, DevicesInvMeans, PTL

(* used_pages counts the pages in use, neither more nor fewer, through every allocation,
   release and failed creation of a user process. *)
THEOREM UsedPagesExactAlways == Spec => []UsedPagesExact
BY DevicesInvAlways, DevicesInvMeans, PTL

(* The linked list of devices is the list of names that device_register and
   device_unregister promise: each registration comes first, each removal takes the newest
   device of the name and leaves the others in order. *)
THEOREM DevicesImplementList == Spec => ImplementsDeviceList /\ Registry!Spec
BY DevicesInvAlways, PTL

-----------------------------------------------------------------------------
(* The shell on its screen. *)

(* A screen the driver can leave behind. *)
Display(G) == {s \in Screen(G) : OnScreen(s)}

LEMMA VgaSizes ==
    /\ VGA_WIDTH \in Nat \ {0} /\ VGA_HEIGHT \in Nat \ {0} /\ TabStop \in Nat \ {0}
BY VgaAssumption

(* The cursor after InBounds is on a cell. *)
LEMMA InBoundsDisplay ==
    ASSUME NEW G, NEW s \in Display(G)
    PROVE  /\ InBounds(s) \in Screen(G) /\ InBounds(s).cells = s.cells
           /\ InBounds(s).x \in Col /\ InBounds(s).y = s.y /\ s.y \in Row
           /\ s.x \in Col => InBounds(s).x = s.x
<1>1. s \in Screen(G) /\ s.x \in 0 .. VGA_WIDTH + TabStop /\ s.y \in Row
  BY DEF Display, OnScreen
<1>2. /\ InBounds(s) \in Screen(G) /\ InBounds(s).cells = s.cells
      /\ InBounds(s).x = IF s.x >= VGA_WIDTH THEN 0 ELSE s.x
      /\ InBounds(s).y = IF s.y >= VGA_HEIGHT THEN VGA_HEIGHT - 1 ELSE s.y
  BY <1>1, InBoundsCursor
<1>3. InBounds(s).x \in Col /\ (s.x \in Col => InBounds(s).x = s.x)
  BY <1>1, <1>2, VgaSizes DEF Col
<1>4. InBounds(s).y = s.y
  BY <1>1, <1>2, VgaSizes DEF Row
<1> QED
  BY <1>1, <1>2, <1>3, <1>4

(* One cell back and blank, not at the start of a row. *)
LEMMA BackWithinRow ==
    ASSUME NEW G, Blank \in G, NEW s \in Screen(G), s.x \in Col, s.y \in Row, s.x > 0
    PROVE  /\ Back(s) \in Screen(G) /\ Back(s).x = s.x - 1 /\ Back(s).y = s.y
           /\ \A v \in Row, u \in Col :
                 Back(s).cells[v][u] = IF v = s.y /\ u = s.x - 1 THEN Blank ELSE s.cells[v][u]
<1> DEFINE x == s.x - 1
           t == [s EXCEPT !.x = x]
<1>1. x \in Int /\ x \in Col
  BY VgaSizes DEF Col
<1>2. Back(s) = vga_putchar_at(t, Blank, t.x, t.y)
  BY DEF Back
<1> HIDE DEF x
<1>3. t \in Screen(G) /\ t.cells = s.cells /\ t.x = x /\ t.y = s.y
  BY <1>1, MoveColumn
<1> HIDE DEF t
<1>4. t.x \in Col /\ t.y \in Row
  BY <1>1, <1>3
<1>5. /\ Back(s) \in Screen(G) /\ Back(s).x = t.x /\ Back(s).y = t.y
      /\ \A v \in Row, u \in Col :
            Back(s).cells[v][u] = IF v = t.y /\ u = t.x THEN Blank ELSE t.cells[v][u]
  BY <1>2, <1>3, <1>4, PutcharAt, SMTT(30)
<1> QED
  BY <1>3, <1>5 DEF x

(* One cell back at the start of a row, over to the end of the one above. *)
LEMMA BackOverRow ==
    ASSUME NEW G, Blank \in G, NEW s \in Screen(G), s.x \in Col, s.y \in Row, ~(s.x > 0)
    PROVE  Back(s) \in Screen(G) /\ Back(s).x \in Col /\ Back(s).y \in Row
<1>1. CASE s.y > 0
  <2> DEFINE x == VGA_WIDTH - 1
             y == s.y - 1
             t == MovedTo(s, x, y)
  <2>1. x \in Int /\ x \in Col /\ y \in Int /\ y \in Row
    BY <1>1, VgaSizes DEF Col, Row
  <2>2. Back(s) = vga_putchar_at(t, Blank, t.x, t.y)
    BY <1>1 DEF Back, MovedTo, Screen
  <2> HIDE DEF x, y
  <2>3. t \in Screen(G) /\ t.x = x /\ t.y = y
    BY <2>1, MoveCursor
  <2> HIDE DEF t
  <2>4. t.x \in Col /\ t.y \in Row
    BY <2>1, <2>3
  <2> QED
    BY <2>2, <2>3, <2>4, PutcharAt
<1>2. CASE ~(s.y > 0)
  <2>1. Back(s) = vga_putchar_at(s, Blank, s.x, s.y)
    BY <1>2 DEF Back
  <2> QED
    BY <2>1, PutcharAt
<1> QED
  BY <1>1, <1>2

(* What Placed leaves: the cursor on the screen, past the end of its row or below it. *)
LEMMA PlacedCursor ==
    ASSUME NEW G, Blank \in G, NEW c \in G, NEW s \in Screen(G), s.x \in Col, s.y \in Row
    PROVE  /\ Placed(s, c) \in Screen(G)
           /\ Placed(s, c).x \in 0 .. VGA_WIDTH + TabStop
           /\ Placed(s, c).y \in 0 .. VGA_HEIGHT
           /\ c = "newline" => Placed(s, c).x = 0
<1>0. /\ s.x \in 0 .. VGA_WIDTH + TabStop /\ s.y \in 0 .. VGA_HEIGHT
      /\ \A x \in Col : x \in 0 .. VGA_WIDTH + TabStop
      /\ \A y \in Row : y \in 0 .. VGA_HEIGHT
  BY VgaSizes DEF Col, Row
<1>1. CASE c = "newline"
  <2> DEFINE y == s.y + 1
  <2>1. y \in Int /\ y \in 0 .. VGA_HEIGHT /\ 0 \in 0 .. VGA_WIDTH + TabStop
    BY VgaSizes DEF Row
  <2>2. Placed(s, c) = MovedTo(s, 0, y)
    BY <1>1 DEF Placed, MovedTo, Screen
  <2> HIDE DEF y
  <2>3. MovedTo(s, 0, y) \in Screen(G) /\ MovedTo(s, 0, y).x = 0 /\ MovedTo(s, 0, y).y = y
    BY <2>1, MoveCursor
  <2> QED
    BY <2>1, <2>2, <2>3
<1>2. CASE c = "backspace"
  <2>1. Placed(s, c) = Back(s)
    BY <1>2 DEF Placed
  <2>2. Back(s) \in Screen(G) /\ Back(s).x \in Col /\ Back(s).y \in Row
    <3>1. CASE s.x > 0
      <4>1. s.x - 1 \in Col
        BY <3>1, VgaSizes DEF Col
      <4> QED
        BY <3>1, <4>1, BackWithinRow
    <3>2. CASE ~(s.x > 0)
      BY <3>2, BackOverRow
    <3> QED
      BY <3>1, <3>2
  <2> QED
    BY <1>0, <1>2, <2>1, <2>2
<1>3. CASE c = "tab"
  <2> DEFINE x == ((s.x + TabStop) \div TabStop) * TabStop
  <2>1. s.x \in Nat /\ s.x < VGA_WIDTH
    BY VgaSizes DEF Col
  <2>2. x \in s.x + 1 .. s.x + TabStop
    BY <2>1, VgaSizes, TabColumn
  <2>3. Placed(s, c) = [s EXCEPT !.x = x]
    BY <1>3 DEF Placed, Screen
  <2> HIDE DEF x
  <2>4. x \in 0 .. VGA_WIDTH + TabStop /\ x \in Int
    BY <2>1, <2>2, VgaSizes
  <2>5. /\ [s EXCEPT !.x = x] \in Screen(G) /\ [s EXCEPT !.x = x].x = x
        /\ [s EXCEPT !.x = x].y = s.y
    BY <2>4, MoveColumn
  <2> QED
    BY <1>0, <1>3, <2>3, <2>4, <2>5
<1>4. CASE c = "control"
  <2>1. Placed(s, c) = s
    BY <1>4 DEF Placed
  <2> QED
    BY <1>0, <1>4, <2>1
<1>5. CASE c \notin Control
  <2> DEFINE t == vga_putchar_at(s, c, s.x, s.y)
             x == s.x + 1
  <2>1. t \in Screen(G) /\ t.x = s.x /\ t.y = s.y
    BY PutcharAt
  <2>2. Placed(s, c) = [t EXCEPT !.x = x]
    BY <1>5, <2>1 DEF Placed, Control, Screen
  <2>3. x \in Int /\ x \in 0 .. VGA_WIDTH + TabStop
    BY VgaSizes DEF Col
  <2> HIDE DEF t, x
  <2>4. /\ [t EXCEPT !.x = x] \in Screen(G) /\ [t EXCEPT !.x = x].x = x
        /\ [t EXCEPT !.x = x].y = t.y
    BY <2>1, <2>3, MoveColumn
  <2> QED
    BY <1>0, <1>5, <2>1, <2>2, <2>3, <2>4 DEF Control
<1> QED
  BY <1>1, <1>2, <1>3, <1>4, <1>5 DEF Control

(* Every character leaves a screen, and a newline the cursor at the start of a row. *)
LEMMA PutcharDisplay ==
    ASSUME NEW G, Blank \in G, NEW c \in G, NEW s \in Display(G)
    PROVE  vga_putchar(s, c) \in Display(G) /\ (c = "newline" => vga_putchar(s, c).x = 0)
<1> DEFINE b == InBounds(s)
           t == Placed(b, c)
           w == [vga_scroll(t) EXCEPT !.y = VGA_HEIGHT - 1]
<1>1. b \in Screen(G) /\ b.x \in Col /\ b.y \in Row
  BY InBoundsDisplay
<1>2. /\ t \in Screen(G) /\ t.x \in 0 .. VGA_WIDTH + TabStop /\ t.y \in 0 .. VGA_HEIGHT
      /\ c = "newline" => t.x = 0
  <2> HIDE DEF b
  <2> QED
    BY <1>1, PlacedCursor
<1>3. vga_putchar(s, c) = IF t.y >= VGA_HEIGHT THEN w ELSE t
  BY DEF vga_putchar
<1> HIDE DEF t
<1>4. w \in Screen(G) /\ w.x = t.x /\ w.y = VGA_HEIGHT - 1
  BY <1>2, ScrollScreen
<1> HIDE DEF w
<1>5. VGA_HEIGHT - 1 \in Row /\ (~(t.y >= VGA_HEIGHT) => t.y \in Row)
  BY <1>2, VgaSizes DEF Row
<1> QED
  BY <1>2, <1>3, <1>4, <1>5 DEF Display, OnScreen

LEMMA PrintSteps ==
    ASSUME NEW f, NEW s, NEW str, Len(str) \in Nat, PrintedTo(f, s, str, Len(str))
    PROVE  f[0] = s /\ \A n \in 0 .. Len(str) - 1 : f[n + 1] = vga_putchar(f[n], str[n + 1])
<1>1. \A k \in 0 .. Len(str) : f[k] = IF k = 0 THEN s ELSE vga_putchar(f[k - 1], str[k])
  BY DEF PrintedTo
<1>2. 0 \in 0 .. Len(str)
  OBVIOUS
<1>3. ASSUME NEW n \in 0 .. Len(str) - 1 PROVE f[n + 1] = vga_putchar(f[n], str[n + 1])
  <2>1. n + 1 \in 0 .. Len(str) /\ n + 1 # 0 /\ (n + 1) - 1 = n
    OBVIOUS
  <2> QED
    BY <1>1, <2>1
<1> QED
  BY <1>1, <1>2, <1>3

(* Printing any string leaves a screen, and one that ends with a newline the cursor at the
   start of a row. *)
LEMMA PrintDisplay ==
    ASSUME NEW G, Blank \in G, NEW s \in Display(G), NEW str \in Seq(G)
    PROVE  /\ vga_print(s, str) \in Display(G)
           /\ Len(str) > 0 /\ str[Len(str)] = "newline" => vga_print(s, str).x = 0
<1> DEFINE m == Len(str)
<1>0. m \in Nat /\ \A k \in 1 .. m : str[k] \in G
  OBVIOUS
<1>1. PICK f : PrintedTo(f, s, str, m) /\ vga_print(s, str) = f[m]
  BY PrintDefined
<1>2. f[0] = s /\ \A n \in 0 .. m - 1 : f[n + 1] = vga_putchar(f[n], str[n + 1])
  BY <1>1, PrintSteps
<1> HIDE DEF m
<1> DEFINE T == {n \in Nat : n <= m => f[n] \in Display(G)}
<1>3. 0 \in T
  BY <1>2
<1>4. ASSUME NEW n \in Nat, n \in T PROVE n + 1 \in T
  <2> SUFFICES ASSUME n + 1 <= m PROVE f[n + 1] \in Display(G)
    OBVIOUS
  <2>1. n \in 0 .. m - 1 /\ n + 1 \in 1 .. m /\ n <= m
    BY <1>0
  <2>2. f[n] \in Display(G) /\ str[n + 1] \in G /\ f[n + 1] = vga_putchar(f[n], str[n + 1])
    BY <1>0, <1>2, <1>4, <2>1
  <2> QED
    BY <2>2, PutcharDisplay
<1>5. Nat \subseteq T
  <2> HIDE DEF T
  <2> QED
    BY <1>3, <1>4, SetInduction
<1>6. \A n \in 0 .. m : f[n] \in Display(G)
  BY <1>0, <1>5
<1>7. ASSUME m > 0, str[m] = "newline" PROVE f[m].x = 0
  <2>1. m - 1 \in 0 .. m - 1 /\ (m - 1) + 1 = m /\ m - 1 \in 0 .. m /\ m \in 1 .. m
    BY <1>0, <1>7
  <2>2. f[m - 1] \in Display(G) /\ str[m] \in G /\ f[m] = vga_putchar(f[m - 1], str[m])
    BY <1>0, <1>2, <1>6, <2>1
  <2> QED
    BY <1>7, <2>2, PutcharDisplay
<1>8. m \in 0 .. m
  BY <1>0
<1> QED
  BY <1>1, <1>6, <1>7, <1>8 DEF m

(* The row of the cursor shows line, up to the cursor, but for the glyphs of M. *)
LineOn(s, line, M) ==
    /\ s.x = Len(line) /\ s.y \in Row
    /\ \A i \in 1 .. Len(line) : s.cells[s.y][i - 1] \in {line[i]} \cup M

(* What an echoed character does to the line. *)
LEMMA EchoGlyph ==
    ASSUME NEW G, NEW s \in Display(G), NEW c \in G, c \notin Control,
           NEW n \in Nat, n < VGA_WIDTH, s.x = n
    PROVE  /\ vga_putchar(s, c).x = n + 1 /\ vga_putchar(s, c).y = s.y
           /\ vga_putchar(s, c).cells[s.y][n] = c
           /\ \A u \in 0 .. n - 1 : vga_putchar(s, c).cells[s.y][u] = s.cells[s.y][u]
<1>1. s.x \in Col /\ n \in Col /\ \A u \in 0 .. n - 1 : u \in Col /\ u # n
  BY VgaSizes DEF Col
<1>2. s \in Screen(G) /\ s.y \in Row
  BY DEF Display, OnScreen
<1>3. /\ \A v \in Row, u \in Col :
            vga_putchar(s, c).cells[v][u] = IF v = s.y /\ u = s.x THEN c ELSE s.cells[v][u]
      /\ vga_putchar(s, c).x = s.x + 1 /\ vga_putchar(s, c).y = s.y
  BY <1>1, <1>2, PutGlyph
<1> QED
  BY <1>1, <1>2, <1>3

(* The prompt, printed at the start of a row that it does not fill. *)
LEMMA PrintPrompt ==
    ASSUME NEW G, Blank \in G, NEW s \in Display(G), s.x = 0, NEW str \in Seq(G),
           \A k \in 1 .. Len(str) : str[k] \notin Control, Len(str) < VGA_WIDTH
    PROVE  LineOn(vga_print(s, str), str, {})
<1> DEFINE m == Len(str)
<1>0. /\ m \in Nat /\ \A k \in 1 .. m : str[k] \in G /\ str[k] \notin Control
      /\ m < VGA_WIDTH
  OBVIOUS
<1>1. PICK f : PrintedTo(f, s, str, m) /\ vga_print(s, str) = f[m]
  BY PrintDefined
<1>2. f[0] = s /\ \A n \in 0 .. m - 1 : f[n + 1] = vga_putchar(f[n], str[n + 1])
  BY <1>1, PrintSteps
<1>3. s.y \in Row
  BY DEF Display, OnScreen
<1> HIDE DEF m
<1> DEFINE Shows(n) == /\ f[n] \in Display(G) /\ f[n].x = n /\ f[n].y = s.y
                       /\ \A i \in 1 .. n : f[n].cells[s.y][i - 1] = str[i]
           T == {n \in Nat : n <= m => Shows(n)}
<1>4. 0 \in T
  BY <1>2
<1>5. ASSUME NEW n \in Nat, n \in T PROVE n + 1 \in T
  <2> SUFFICES ASSUME n + 1 <= m PROVE Shows(n + 1)
    OBVIOUS
  <2>1. n \in 0 .. m - 1 /\ n + 1 \in 1 .. m /\ n <= m /\ n < VGA_WIDTH
    BY <1>0, VgaSizes
  <2>2. Shows(n)
    BY <1>5, <2>1
  <2>3. /\ f[n] \in Display(G) /\ f[n].x = n /\ f[n].y = s.y
        /\ \A i \in 1 .. n : f[n].cells[s.y][i - 1] = str[i]
    BY <2>2
  <2> DEFINE c == str[n + 1]
             g == f[n]
  <2>4. c \in G /\ c \notin Control /\ f[n + 1] = vga_putchar(g, c)
    BY <1>0, <1>2, <2>1
  <2> HIDE DEF c, g
  <2>5. g \in Display(G) /\ g.x = n /\ g.y = s.y
    BY <2>3 DEF g
  <2>6. /\ vga_putchar(g, c).x = n + 1 /\ vga_putchar(g, c).y = g.y
        /\ vga_putchar(g, c).cells[g.y][n] = c
        /\ \A u \in 0 .. n - 1 : vga_putchar(g, c).cells[g.y][u] = g.cells[g.y][u]
    BY <2>1, <2>4, <2>5, EchoGlyph
  <2>7. vga_putchar(g, c) \in Display(G)
    BY <2>4, <2>5, PutcharDisplay
  <2>8. ASSUME NEW i \in 1 .. n + 1 PROVE f[n + 1].cells[s.y][i - 1] = str[i]
    <3>1. CASE i = n + 1
      <4>1. i - 1 = n
        BY <3>1
      <4> QED
        BY <2>4, <2>5, <2>6, <3>1, <4>1 DEF c
    <3>2. CASE i # n + 1
      <4>1. i \in 1 .. n /\ i - 1 \in 0 .. n - 1
        BY <3>2
      <4>2. vga_putchar(g, c).cells[s.y][i - 1] = g.cells[s.y][i - 1]
        BY <2>5, <2>6, <4>1
      <4>3. g.cells[s.y][i - 1] = str[i]
        BY <2>3, <4>1 DEF g
      <4> QED
        BY <2>4, <4>2, <4>3
    <3> QED
      BY <3>1, <3>2
  <2> QED
    BY <2>4, <2>5, <2>6, <2>7, <2>8
<1>6. Nat \subseteq T
  <2> HIDE DEF T
  <2> QED
    BY <1>4, <1>5, SetInduction
<1>7. Shows(m)
  <2>1. m \in T /\ m <= m
    BY <1>0, <1>6
  <2> QED
    BY <2>1
<1>8. /\ f[m].x = m /\ f[m].y = s.y
      /\ \A i \in 1 .. m : f[m].cells[s.y][i - 1] = str[i]
  BY <1>7
<1> QED
  BY <1>1, <1>3, <1>8 DEF LineOn, m

ConsoleGlyph ==
    Printable \cup {Prompt[k] : k \in 1 .. Len(Prompt)} \cup Control \cup {Blank, "digit", "'", Pointer}

ConsoleInv ==
    /\ screen \in Display(ConsoleGlyph)
    /\ input_buffer \in Seq(Stored) /\ Len(input_buffer) < SHELL_BUFFER_SIZE
    /\ uart \in Seq(Received) /\ Len(uart) <= 1

(* The prompt and the line stand in the row of the cursor. *)
LineInv == plain => LineOn(screen, Line, marks)

LEMMA ConsoleConstants ==
    /\ SHELL_BUFFER_SIZE \in Nat \ {0} /\ DigitCol \in Col
    /\ Printable \subseteq ConsoleGlyph /\ Stored \subseteq ConsoleGlyph
    /\ Blank \in ConsoleGlyph /\ "digit" \in ConsoleGlyph /\ "newline" \in ConsoleGlyph
    /\ "backspace" \in ConsoleGlyph /\ "'" \in ConsoleGlyph /\ Pointer \in ConsoleGlyph
    /\ \A c \in Printable : c \notin Control
    /\ Prompt \in Seq(ConsoleGlyph) /\ \A k \in 1 .. Len(Prompt) : Prompt[k] \notin Control
<1>1. Prompt \in Seq(STRING \ Control)
  BY ConsoleAssumption
<1>2. Prompt \in Seq(ConsoleGlyph)
  <2>1. \A k \in 1 .. Len(Prompt) : Prompt[k] \in ConsoleGlyph
    BY DEF ConsoleGlyph
  <2> QED
    BY <1>1, <2>1
<1>3. \A k \in 1 .. Len(Prompt) : Prompt[k] \notin Control
  BY <1>1
<1>4. /\ SHELL_BUFFER_SIZE \in Nat \ {0} /\ DigitCol \in Col
      /\ \A c \in Printable : c \notin Control
  BY ConsoleAssumption
<1>5. Printable \subseteq ConsoleGlyph /\ Stored \subseteq ConsoleGlyph
  BY DEF ConsoleGlyph, Stored, Control
<1>6. /\ Blank \in ConsoleGlyph /\ "digit" \in ConsoleGlyph /\ "newline" \in ConsoleGlyph
      /\ "backspace" \in ConsoleGlyph /\ "'" \in ConsoleGlyph /\ Pointer \in ConsoleGlyph
  BY DEF ConsoleGlyph, Control
<1> QED
  BY <1>2, <1>3, <1>4, <1>5, <1>6

LEMMA ClearDisplay ==
    ASSUME NEW G, Blank \in G
    PROVE  vga_clear \in Display(G) /\ vga_clear.x = 0
<1>1. vga_clear \in Screen(G) /\ vga_clear.x = 0 /\ vga_clear.y = 0
  BY DEF vga_clear, Screen
<1>2. 0 \in 0 .. VGA_WIDTH + TabStop /\ 0 \in Row
  BY VgaSizes DEF Row
<1> QED
  BY <1>1, <1>2 DEF Display, OnScreen

LEMMA TrimmedLine ==
    ASSUME NEW S, NEW line \in Seq(S)
    PROVE  Trimmed(line) \in Seq(S)
<1> DEFINE keep == {n \in 1 .. Len(line) : line[n] \notin {Blank, "tab", "control"}}
           last == CHOOSE n \in keep : \A m \in keep : m <= n
<1>1. CASE keep = {}
  BY <1>1 DEF Trimmed
<1>2. CASE keep # {}
  <2>1. keep \subseteq 1 .. Len(line) /\ Len(line) \in Nat
    OBVIOUS
  <2> HIDE DEF keep
  <2> DEFINE T == {Len(line) - n : n \in keep}
  <2>2. T \subseteq Nat /\ T # {}
    <3>1. \A n \in keep : Len(line) - n \in Nat
      <4> SUFFICES ASSUME NEW n \in keep PROVE Len(line) - n \in Nat
        OBVIOUS
      <4>1. n \in 1 .. Len(line)
        BY <2>1
      <4> QED
        BY <2>1, <4>1
    <3> QED
      BY <1>2, <3>1
  <2>3. PICK d \in T : \A k \in T : d <= k
    <3> HIDE DEF T
    <3> QED
      BY <2>2, LeastNumber
  <2>4. PICK n \in keep : d = Len(line) - n
    BY <2>3
  <2>5. \A m \in keep : m <= n
    <3> SUFFICES ASSUME NEW m \in keep PROVE m <= n
      OBVIOUS
    <3>1. Len(line) - m \in T
      OBVIOUS
    <3>2. d <= Len(line) - m
      BY <2>3, <3>1
    <3> QED
      BY <2>1, <2>4, <3>2
  <2>6. last \in keep
    BY <2>5
  <2>7. last \in 1 .. Len(line)
    BY <2>1, <2>6
  <2>8. Trimmed(line) = SubSeq(line, 1, last)
    BY <1>2 DEF Trimmed, keep
  <2> HIDE DEF last
  <2>9. SubSeq(line, 1, last) \in Seq(S)
    BY <2>7
  <2> QED
    BY <2>8, <2>9
<1> QED
  BY <1>1, <1>2

(* After a command the cursor is at the start of a row. *)
LEMMA CommandDisplay ==
    ASSUME NEW s \in Display(ConsoleGlyph), NEW line \in Seq(Stored)
    PROVE  LET u == shell_execute_command(vga_putchar(s, "newline"), Trimmed(line))
           IN  u \in Display(ConsoleGlyph) /\ u.x = 0
<1> DEFINE G == ConsoleGlyph
           v == vga_putchar(s, "newline")
           command == Trimmed(line)
           str == <<"'">> \o command \o <<"newline">>
           u == shell_execute_command(v, command)
<1>1. v \in Display(G) /\ v.x = 0
  BY ConsoleConstants, PutcharDisplay
<1>2. command \in Seq(Stored)
  BY TrimmedLine
<1> HIDE DEF v, command
<1>3. command \in Seq(G) /\ Blank \in G
  BY <1>2, ConsoleConstants
<1>4. str \in Seq(G) /\ Len(str) > 0 /\ str[Len(str)] = "newline"
  <2> DEFINE z == <<"'">>
             b == <<"newline">>
             d == z \o command
  <2>1. z \in Seq(G) /\ b \in Seq(G) /\ Len(b) = 1 /\ b[1] = "newline"
    BY ConsoleConstants
  <2>2. d \in Seq(G)
    BY <1>3, <2>1, ConcatFacts
  <2>3. Len(d) \in Nat /\ str = d \o b
    BY <2>2
  <2> HIDE DEF z, b, d
  <2>4. /\ d \o b \in Seq(G) /\ Len(d \o b) = Len(d) + Len(b)
        /\ \A k \in 1 .. Len(d) + Len(b) :
              (d \o b)[k] = IF k <= Len(d) THEN d[k] ELSE b[k - Len(d)]
    BY <2>1, <2>2, ConcatFacts
  <2>5. Len(d) + 1 \in 1 .. Len(d) + Len(b) /\ ~(Len(d) + 1 <= Len(d))
        /\ (Len(d) + 1) - Len(d) = 1 /\ Len(d) + 1 > 0 /\ Len(d) + Len(b) = Len(d) + 1
    BY <2>1, <2>3
  <2>6. (d \o b)[Len(d) + 1] = "newline"
    BY <2>1, <2>4, <2>5
  <2> QED
    BY <2>3, <2>4, <2>5, <2>6
<1>5. vga_print(v, str) \in Display(G) /\ vga_print(v, str).x = 0
  <2> HIDE DEF str, G
  <2> QED
    BY <1>1, <1>3, <1>4, PrintDisplay
<1>6. u = v \/ u = vga_clear \/ u = vga_print(v, str)
  BY DEF shell_execute_command
<1>7. vga_clear \in Display(G) /\ vga_clear.x = 0
  BY <1>3, ClearDisplay
<1> QED
  BY <1>1, <1>5, <1>6, <1>7 DEF v, command

LEMMA EnterStep ==
    ASSUME ConsoleInv, shell_enter
    PROVE  /\ screen' \in Display(ConsoleGlyph) /\ input_buffer' = <<>>
           /\ Len(Prompt) < VGA_WIDTH => LineOn(screen', Prompt, marks')
<1> DEFINE u == shell_execute_command(vga_putchar(screen, "newline"), Trimmed(input_buffer))
<1>1. u \in Display(ConsoleGlyph) /\ u.x = 0
  BY CommandDisplay DEF ConsoleInv
<1>2. screen' = vga_print(u, Prompt) /\ input_buffer' = <<>> /\ marks' = {}
  BY DEF shell_enter, NextLine
<1> HIDE DEF u
<1>3. screen' \in Display(ConsoleGlyph)
  BY <1>1, <1>2, ConsoleConstants, PrintDisplay
<1>4. Len(Prompt) < VGA_WIDTH => LineOn(vga_print(u, Prompt), Prompt, {})
  BY <1>1, ConsoleConstants, PrintPrompt
<1> QED
  BY <1>2, <1>3, <1>4

LEMMA ConsoleInitial ==
    ASSUME ConsoleInit
    PROVE  ConsoleInv /\ (Len(Prompt) < VGA_WIDTH => LineOn(screen, Prompt, marks))
<1>1. vga_clear \in Display(ConsoleGlyph) /\ vga_clear.x = 0
  BY ConsoleConstants, ClearDisplay
<1>2. screen = vga_print(vga_clear, Prompt) /\ marks = {}
  BY DEF ConsoleInit, FirstScreen
<1>3. screen \in Display(ConsoleGlyph)
  BY <1>1, <1>2, ConsoleConstants, PrintDisplay
<1>4. Len(Prompt) < VGA_WIDTH => LineOn(vga_print(vga_clear, Prompt), Prompt, {})
  BY <1>1, ConsoleConstants, PrintPrompt
<1>5. /\ input_buffer \in Seq(Stored) /\ Len(input_buffer) < SHELL_BUFFER_SIZE
      /\ uart \in Seq(Received) /\ Len(uart) <= 1
  BY ConsoleConstants DEF ConsoleInit
<1> QED
  BY <1>2, <1>3, <1>4, <1>5 DEF ConsoleInv

(* A longer and a shorter line. *)
LEMMA LineGrows ==
    ASSUME NEW S, NEW z \in Seq(S), NEW b \in Seq(S), NEW c \in S
    PROVE  /\ Len(z \o Append(b, c)) = Len(z \o b) + 1
           /\ (z \o Append(b, c))[Len(z \o b) + 1] = c
           /\ \A i \in 1 .. Len(z \o b) : (z \o Append(b, c))[i] = (z \o b)[i]
OBVIOUS

LEMMA LineShrinks ==
    ASSUME NEW S, NEW z \in Seq(S), NEW b \in Seq(S), b # <<>>
    PROVE  /\ Len(z \o SubSeq(b, 1, Len(b) - 1)) = Len(z \o b) - 1
           /\ Len(z \o b) \in Nat \ {0}
           /\ \A i \in 1 .. Len(z \o b) - 1 :
                 (z \o SubSeq(b, 1, Len(b) - 1))[i] = (z \o b)[i]
OBVIOUS

LEMMA NothingTyped ==
    ASSUME NEW S, NEW z \in Seq(S)
    PROVE  z \o <<>> = z
OBVIOUS

(* No line reaches the last column of its row. *)
RowFits == Len(Line) < VGA_WIDTH

LEMMA LineIsSeq ==
    ASSUME ConsoleInv
    PROVE  /\ input_buffer \in Seq(ConsoleGlyph) /\ Prompt \in Seq(ConsoleGlyph)
           /\ Line \in Seq(ConsoleGlyph) /\ Len(Line) \in Nat
<1>1. input_buffer \in Seq(ConsoleGlyph) /\ Prompt \in Seq(ConsoleGlyph)
  BY ConsoleConstants DEF ConsoleInv
<1>2. Line \in Seq(ConsoleGlyph)
  BY <1>1, ConcatFacts DEF Line
<1> QED
  BY <1>1, <1>2

LEMMA StoreStep ==
    ASSUME ConsoleInv, NEW c \in Stored, shell_store(c)
    PROVE  /\ screen' \in Display(ConsoleGlyph)
           /\ input_buffer' \in Seq(Stored) /\ Len(input_buffer') < SHELL_BUFFER_SIZE
           /\ LineInv /\ RowFits /\ plain' => LineOn(screen', Line', marks')
<1>0. screen \in Display(ConsoleGlyph) /\ c \in ConsoleGlyph /\ Blank \in ConsoleGlyph
  BY ConsoleConstants DEF ConsoleInv
<1>1. CASE Len(input_buffer) < SHELL_BUFFER_SIZE - 1
  <2>1. /\ input_buffer' = Append(input_buffer, c) /\ screen' = vga_putchar(screen, c)
        /\ plain' = (plain /\ c \in Printable) /\ marks' = marks
    BY <1>1 DEF shell_store
  <2>2. screen' \in Display(ConsoleGlyph)
    BY <1>0, <2>1, PutcharDisplay
  <2>3. input_buffer' \in Seq(Stored) /\ Len(input_buffer') < SHELL_BUFFER_SIZE
    <3> DEFINE b == input_buffer
    <3>1. b \in Seq(Stored) /\ Len(b) < SHELL_BUFFER_SIZE - 1
      BY <1>1 DEF ConsoleInv
    <3> HIDE DEF b
    <3>2. Append(b, c) \in Seq(Stored) /\ Len(Append(b, c)) < SHELL_BUFFER_SIZE
      BY <3>1, ConsoleConstants
    <3> QED
      BY <2>1, <3>2 DEF b
  <2>4. ASSUME LineInv, RowFits, plain' PROVE LineOn(screen', Line', marks')
    <3> DEFINE old == Prompt \o input_buffer
               new == Prompt \o Append(input_buffer, c)
               n == Len(old)
    <3>1. plain /\ c \in Printable
      BY <2>1, <2>4
    <3>2. Line = old /\ Line' = new
      BY <2>1 DEF Line
    <3>3. LineOn(screen, old, marks) /\ n < VGA_WIDTH /\ n \in Nat
      BY <2>4, <3>1, <3>2, LineIsSeq DEF LineInv, RowFits
    <3>4. /\ Len(new) = n + 1 /\ new[n + 1] = c
          /\ \A i \in 1 .. n : new[i] = old[i]
      BY <1>0, LineIsSeq, LineGrows
    <3> HIDE DEF old, new, n
    <3>5. /\ screen.x = n /\ screen.y \in Row
          /\ \A i \in 1 .. n : screen.cells[screen.y][i - 1] \in {old[i]} \cup marks
      BY <3>3 DEF LineOn, n
    <3> DEFINE s == vga_putchar(screen, c)
    <3>6. c \notin Control
      BY <3>1, ConsoleConstants
    <3>7. /\ s.x = n + 1 /\ s.y = screen.y
          /\ s.cells[screen.y][n] = c
          /\ \A u \in 0 .. n - 1 : s.cells[screen.y][u] = screen.cells[screen.y][u]
      BY <1>0, <3>3, <3>5, <3>6, EchoGlyph
    <3> HIDE DEF s
    <3>8. ASSUME NEW i \in 1 .. n + 1 PROVE s.cells[s.y][i - 1] \in {new[i]} \cup marks
      <4>1. CASE i = n + 1
        <5>1. i - 1 = n
          BY <3>3, <4>1
        <5> QED
          BY <3>4, <3>7, <4>1, <5>1
      <4>2. CASE i # n + 1
        <5>1. i \in 1 .. n /\ i - 1 \in 0 .. n - 1
          BY <3>3, <4>2
        <5>2. s.cells[s.y][i - 1] = screen.cells[screen.y][i - 1] /\ new[i] = old[i]
          BY <3>4, <3>7, <5>1
        <5>3. screen.cells[screen.y][i - 1] \in {old[i]} \cup marks
          BY <3>5, <5>1
        <5> QED
          BY <5>2, <5>3
      <4> QED
        BY <4>1, <4>2
    <3>9. LineOn(s, new, marks)
      BY <3>4, <3>5, <3>7, <3>8 DEF LineOn
    <3> QED
      BY <2>1, <3>2, <3>9 DEF s
  <2> QED
    BY <2>2, <2>3, <2>4
<1>2. CASE ~(Len(input_buffer) < SHELL_BUFFER_SIZE - 1)
  <2>1. UNCHANGED <<screen, input_buffer, plain, marks>>
    BY <1>2 DEF shell_store
  <2>2. Line' = Line
    BY <2>1 DEF Line
  <2> QED
    BY <1>0, <2>1, <2>2 DEF ConsoleInv, LineInv
<1> QED
  BY <1>1, <1>2

LEMMA BackspaceStep ==
    ASSUME ConsoleInv, shell_backspace
    PROVE  /\ screen' \in Display(ConsoleGlyph)
           /\ input_buffer' \in Seq(Stored) /\ Len(input_buffer') < SHELL_BUFFER_SIZE
           /\ LineInv /\ RowFits /\ plain' => LineOn(screen', Line', marks')
<1> DEFINE G == ConsoleGlyph
<1>0. screen \in Display(G) /\ "backspace" \in G /\ Blank \in G
  BY ConsoleConstants DEF ConsoleInv
<1>1. CASE input_buffer # <<>>
  <2> DEFINE b == input_buffer
             d == SubSeq(b, 1, Len(b) - 1)
             s == vga_putchar(screen, "backspace")
  <2>1. input_buffer' = d /\ screen' = s /\ plain' = plain /\ marks' = marks
    BY <1>1 DEF shell_backspace
  <2>2. s \in Display(G)
    BY <1>0, PutcharDisplay
  <2>3. d \in Seq(Stored) /\ Len(d) < SHELL_BUFFER_SIZE
    <3>1. b \in Seq(Stored) /\ Len(b) < SHELL_BUFFER_SIZE /\ b # <<>>
      BY <1>1 DEF ConsoleInv
    <3> HIDE DEF b
    <3> QED
      BY <3>1, ConsoleConstants
  <2>4. ASSUME LineInv, RowFits, plain' PROVE LineOn(screen', Line', marks')
    <3> DEFINE old == Prompt \o b
               new == Prompt \o d
               n == Len(old)
    <3>2. Line = old /\ Line' = new
      BY <2>1 DEF Line
    <3>3. LineOn(screen, old, marks) /\ n < VGA_WIDTH
      BY <2>1, <2>4, <3>2 DEF LineInv, RowFits
    <3>4. Len(new) = n - 1 /\ n \in Nat \ {0} /\ \A i \in 1 .. n - 1 : new[i] = old[i]
      BY <1>1, LineIsSeq, LineShrinks
    <3> HIDE DEF old, new, n, b, d
    <3>5. /\ screen.x = n /\ screen.y \in Row
          /\ \A i \in 1 .. n : screen.cells[screen.y][i - 1] \in {old[i]} \cup marks
      BY <3>3 DEF LineOn, n
    <3> DEFINE z == InBounds(screen)
    <3>6. screen.x \in Col /\ n > 0
      BY <3>3, <3>4, <3>5, VgaSizes DEF Col
    <3>7. z \in Screen(G) /\ z.cells = screen.cells /\ z.x = n /\ z.y = screen.y
      BY <1>0, <3>5, <3>6, InBoundsDisplay
    <3>8. s = Back(z)
      <4>1. Placed(z, "backspace") = Back(z)
        BY DEF Placed
      <4> HIDE DEF z
      <4>2. z.x \in Col /\ z.y \in Row /\ z.x > 0
        BY <3>5, <3>6, <3>7
      <4>3. Back(z).y = z.y
        BY <1>0, <3>7, <4>2, BackWithinRow
      <4>4. ~(Back(z).y >= VGA_HEIGHT)
        BY <4>2, <4>3, VgaSizes DEF Row
      <4> QED
        BY <4>1, <4>4 DEF vga_putchar, z
    <3> HIDE DEF z, s
    <3>9. /\ s.x = n - 1 /\ s.y = screen.y
          /\ \A v \in Row, u \in Col :
                s.cells[v][u] = IF v = screen.y /\ u = n - 1 THEN Blank ELSE screen.cells[v][u]
      <4>1. z.x \in Col /\ z.y \in Row /\ z.x > 0
        BY <3>5, <3>6, <3>7
      <4>2. /\ Back(z).x = z.x - 1 /\ Back(z).y = z.y
            /\ \A v \in Row, u \in Col :
                  Back(z).cells[v][u] = IF v = z.y /\ u = z.x - 1 THEN Blank ELSE z.cells[v][u]
        BY <1>0, <3>7, <4>1, BackWithinRow
      <4> QED
        BY <3>7, <3>8, <4>2
    <3>10. ASSUME NEW i \in 1 .. n - 1 PROVE s.cells[s.y][i - 1] \in {new[i]} \cup marks
      <4>1. i \in 1 .. n /\ i - 1 \in Col /\ i - 1 # n - 1
        BY <3>3, <3>4, VgaSizes DEF Col
      <4>2. s.cells[s.y][i - 1] = screen.cells[screen.y][i - 1]
        BY <3>5, <3>9, <4>1
      <4>3. screen.cells[screen.y][i - 1] \in {old[i]} \cup marks /\ new[i] = old[i]
        BY <3>4, <3>5, <4>1
      <4> QED
        BY <4>2, <4>3
    <3>11. LineOn(s, new, marks)
      BY <3>4, <3>5, <3>9, <3>10 DEF LineOn
    <3> QED
      BY <2>1, <3>2, <3>11
  <2> QED
    BY <2>1, <2>2, <2>3, <2>4
<1>2. CASE input_buffer = <<>>
  <2>1. UNCHANGED <<screen, input_buffer, plain, marks>>
    BY <1>2 DEF shell_backspace
  <2>2. Line' = Line
    BY <2>1 DEF Line
  <2> QED
    BY <1>0, <2>1, <2>2 DEF ConsoleInv, LineInv
<1> QED
  BY <1>1, <1>2

(* A round of the shell, for a character from either side. *)
LEMMA CharStep ==
    ASSUME ConsoleInv, NEW c \in Stored \cup {"newline", "return", "backspace"}, shell_char(c)
    PROVE  /\ screen' \in Display(ConsoleGlyph)
           /\ input_buffer' \in Seq(Stored) /\ Len(input_buffer') < SHELL_BUFFER_SIZE
           /\ LineInv /\ RowFits /\ RowFits' /\ plain' => LineOn(screen', Line', marks')
<1>1. CASE c \in {"newline", "return"}
  <2>1. shell_enter
    BY <1>1 DEF shell_char
  <2>2. /\ screen' \in Display(ConsoleGlyph) /\ input_buffer' = <<>>
        /\ Len(Prompt) < VGA_WIDTH => LineOn(screen', Prompt, marks')
    BY <2>1, EnterStep
  <2>3. Line' = Prompt
    BY <2>2, ConsoleConstants, NothingTyped DEF Line
  <2>4. input_buffer' \in Seq(Stored) /\ Len(input_buffer') < SHELL_BUFFER_SIZE
    BY <2>2, ConsoleConstants
  <2> QED
    BY <2>2, <2>3, <2>4 DEF RowFits
<1>2. CASE c = "backspace"
  <2>1. shell_backspace
    BY <1>2 DEF shell_char
  <2> QED
    BY <2>1, BackspaceStep
<1>3. CASE c \notin {"newline", "return", "backspace"}
  <2>1. shell_store(c) /\ c \in Stored
    BY <1>3 DEF shell_char
  <2> QED
    BY <2>1, StoreStep
<1> QED
  BY <1>1, <1>2, <1>3

LEMMA DigitStep ==
    ASSUME ConsoleInv, timer_digit
    PROVE  /\ screen' \in Display(ConsoleGlyph)
           /\ LineInv /\ RowFits /\ plain => LineOn(screen', Line', marks')
<1> DEFINE G == ConsoleGlyph
           s == vga_putchar_at(screen, "digit", DigitCol, VGA_HEIGHT - 1)
           M == marks \cup {"digit"}
<1>1. screen' = s /\ marks' = M /\ UNCHANGED <<input_buffer, plain, uart>>
  BY DEF timer_digit
<1>2. screen \in Screen(G) /\ OnScreen(screen) /\ "digit" \in G /\ DigitCol \in Col
  BY ConsoleConstants DEF ConsoleInv, Display
<1>3. VGA_HEIGHT - 1 \in Row
  BY VgaSizes DEF Row
<1>4. /\ s \in Screen(G)
      /\ \A v \in Row, u \in Col :
            s.cells[v][u] = IF v = VGA_HEIGHT - 1 /\ u = DigitCol THEN "digit"
                            ELSE screen.cells[v][u]
      /\ s.x = screen.x /\ s.y = screen.y
  BY <1>2, <1>3, PutcharAt
<1> HIDE DEF s
<1>5. s \in Display(G)
  BY <1>2, <1>4 DEF Display, OnScreen
<1>6. ASSUME LineInv, RowFits, plain PROVE LineOn(s, Line, M)
  <2>1. LineOn(screen, Line, marks) /\ Len(Line) < VGA_WIDTH /\ Len(Line) \in Nat
    BY <1>6, LineIsSeq DEF LineInv, RowFits
  <2>2. ASSUME NEW i \in 1 .. Len(Line) PROVE s.cells[s.y][i - 1] \in {Line[i]} \cup M
    <3>1. i - 1 \in Col
      BY <2>1, VgaSizes DEF Col
    <3>2. screen.cells[screen.y][i - 1] \in {Line[i]} \cup marks /\ screen.y \in Row
      BY <2>1 DEF LineOn
    <3> QED
      BY <1>4, <3>1, <3>2
  <2> QED
    BY <1>4, <2>1, <2>2 DEF LineOn
<1>7. Line' = Line
  BY <1>1 DEF Line
<1> QED
  BY <1>1, <1>5, <1>6, <1>7

LEMMA ConsoleStep ==
    ASSUME ConsoleInv, [ConsoleNext]_consoleVars
    PROVE  ConsoleInv' /\ (LineInv /\ RowFits /\ RowFits' => LineInv')
<1>1. CASE key_typed
  <2>1. PICK c \in Stored \cup {"newline", "backspace"} : shell_char(c)
    BY <1>1 DEF key_typed
  <2>2. /\ screen' \in Display(ConsoleGlyph)
        /\ input_buffer' \in Seq(Stored) /\ Len(input_buffer') < SHELL_BUFFER_SIZE
        /\ LineInv /\ RowFits /\ RowFits' /\ plain' => LineOn(screen', Line', marks')
    BY <2>1, CharStep
  <2> QED
    BY <1>1, <2>2 DEF key_typed, ConsoleInv, LineInv
<1>2. CASE uart_receives
  <2>1. PICK c \in Received : uart' = <<c>>
    BY <1>2 DEF uart_receives
  <2>2. uart' \in Seq(Received) /\ Len(uart') <= 1
    BY <2>1
  <2>3. UNCHANGED <<screen, input_buffer, plain, marks>>
    BY <1>2 DEF uart_receives
  <2> QED
    BY <2>2, <2>3 DEF ConsoleInv, LineInv, Line
<1>3. CASE serial_char
  <2>1. uart \in Seq(Received) /\ uart # <<>>
    BY <1>3 DEF serial_char, ConsoleInv
  <2>2. uart[1] \in Received
    BY <2>1
  <2>3. uart[1] \in Stored \cup {"newline", "return", "backspace"} /\ shell_char(uart[1])
    BY <1>3, <2>2 DEF serial_char, Stored, Received
  <2>4. /\ screen' \in Display(ConsoleGlyph)
        /\ input_buffer' \in Seq(Stored) /\ Len(input_buffer') < SHELL_BUFFER_SIZE
        /\ LineInv /\ RowFits /\ RowFits' /\ plain' => LineOn(screen', Line', marks')
    BY <2>3, CharStep
  <2>5. uart' \in Seq(Received) /\ Len(uart') <= 1
    BY <1>3 DEF serial_char
  <2> QED
    BY <2>4, <2>5 DEF ConsoleInv, LineInv
<1>4. CASE timer_digit
  <2>1. UNCHANGED <<input_buffer, plain, uart>>
    BY <1>4 DEF timer_digit
  <2> QED
    BY <1>4, <2>1, DigitStep DEF ConsoleInv, LineInv
<1>5. CASE UNCHANGED consoleVars
  BY <1>5 DEF consoleVars, ConsoleInv, LineInv, Line
<1> QED
  BY <1>1, <1>2, <1>3, <1>4, <1>5 DEF ConsoleNext

LEMMA LineOnMeansShown ==
    ASSUME ConsoleInv, LineInv, RowFits
    PROVE  LineShown
<1> SUFFICES ASSUME plain, NEW i \in 1 .. Len(Line) PROVE Shown(i) \in {Line[i]} \cup marks
  BY DEF LineShown
<1> DEFINE n == Len(Line)
           place == screen.y * VGA_WIDTH + screen.x - n + i - 1
           r == i - 1
<1>1. /\ screen.x = n /\ screen.y \in Row /\ n < VGA_WIDTH /\ n \in Nat
      /\ \A k \in 1 .. n : screen.cells[screen.y][k - 1] \in {Line[k]} \cup marks
  BY LineIsSeq DEF LineInv, LineOn, RowFits
<1>2. screen.y \in Nat /\ r \in 0 .. VGA_WIDTH - 1
  BY <1>1, VgaSizes DEF Row
<1>3. /\ (screen.y * VGA_WIDTH + r) \div VGA_WIDTH = screen.y
      /\ (screen.y * VGA_WIDTH + r) % VGA_WIDTH = r /\ screen.y * VGA_WIDTH \in Nat
  <2> HIDE DEF r
  <2> QED
    BY <1>2, VgaSizes, CellOfPosition
<1>4. place = screen.y * VGA_WIDTH + r /\ ~(place < 0)
  <2> DEFINE z == screen.y * VGA_WIDTH
  <2>1. z \in Nat
    BY <1>3
  <2> HIDE DEF z
  <2>2. z + screen.x - n + i - 1 = z + r /\ ~(z + screen.x - n + i - 1 < 0)
    BY <1>1, <1>2, <2>1
  <2> QED
    BY <2>2 DEF z
<1>5. Shown(i) = screen.cells[screen.y][r]
  <2>1. Shown(i) = IF place < 0 THEN "off the screen" ELSE screen.cells[place \div VGA_WIDTH][place % VGA_WIDTH]
    BY DEF Shown
  <2> HIDE DEF place, r
  <2> QED
    BY <1>3, <1>4, <2>1
<1> QED
  BY <1>1, <1>5

LEMMA ClampInRange ==
    ASSUME NEW v \in Int, NEW size \in Nat \ {0}
    PROVE  Clamp(v, size) \in 0 .. size - 1
BY DEF Clamp

LEMMA MousePacket ==
    ASSUME ConsoleInv, MouseTypeOK, NEW data \in MouseBytes, mouse_packet(data)
    PROVE  /\ MouseTypeOK' /\ screen' \in Display(ConsoleGlyph) /\ OnlyPointerMoves
           /\ LineInv /\ RowFits => LineInv'
<1>0. VGA_WIDTH \in Nat \ {0} /\ VGA_HEIGHT \in Nat \ {0}
  BY VgaAssumption
<1>1. mouse_x \in Col /\ mouse_y \in Row
  BY DEF MouseTypeOK
<1>2. PICK n \in 0 .. 2 : packet \in [1 .. n -> MouseBytes]
  BY DEF MouseTypeOK
<1>3. packet \in [1 .. 2 -> MouseBytes]
  BY <1>2, SMTT(30) DEF mouse_packet
<1>4. packet[1] \in 0 .. 255 /\ packet[2] \in 0 .. 255 /\ data \in 0 .. 255
  <2>1. packet[1] \in MouseBytes /\ packet[2] \in MouseBytes
    BY <1>3
  <2> QED
    BY <2>1, MouseAssumption
<1>5. Int8(packet[2]) \in Int /\ Int8(data) \in Int
  BY <1>4 DEF Int8
<1>6. mouse_x' \in Col /\ mouse_y' \in Row
  <2>1. mouse_x + Int8(packet[2]) \in Int /\ mouse_y - Int8(data) \in Int
    BY <1>0, <1>1, <1>5 DEF Row, Col
  <2> QED
    BY <1>0, <2>1, ClampInRange DEF mouse_packet, Row, Col
<1>7. mouse_buttons' \in 0 .. 7
  <2>1. mouse_buttons' = packet[1] % 8
    BY DEF mouse_packet
  <2> QED
    BY <1>4, <2>1
<1>8. packet' \in UNION {[1 .. k -> MouseBytes] : k \in 0 .. 2}
  <2>1. packet' \in [1 .. 0 -> MouseBytes]
    BY DEF mouse_packet
  <2> QED
    BY <2>1
<1> DEFINE G == ConsoleGlyph
           t == clear_cursor(screen)
<1>9. Blank \in G /\ Blank \notin Control /\ Pointer \in G /\ Pointer \notin Control
  BY ConsoleConstants DEF Control, Blank, Pointer
<1>10. screen \in Screen(G) /\ OnScreen(screen)
  BY DEF ConsoleInv, Display
<1>11. /\ t \in Screen(G)
       /\ \A v \in Row, u \in Col :
             t.cells[v][u] = IF v = mouse_y /\ u = mouse_x THEN Blank ELSE screen.cells[v][u]
       /\ t.x = screen.x /\ t.y = screen.y
  BY <1>1, <1>9, <1>10, PrintGlyphAt DEF clear_cursor
<1>12. screen' = vga_print_at(t, <<Pointer>>, mouse_x', mouse_y')
  BY DEF mouse_packet, draw_cursor
<1> HIDE DEF t
<1>13. /\ screen' \in Screen(G)
       /\ \A v \in Row, u \in Col :
             screen'.cells[v][u] = IF v = mouse_y' /\ u = mouse_x' THEN Pointer ELSE t.cells[v][u]
       /\ screen'.x = t.x /\ screen'.y = t.y
  BY <1>6, <1>9, <1>11, <1>12, PrintGlyphAt
<1>14. screen'.x = screen.x /\ screen'.y = screen.y
  BY <1>11, <1>13
<1>15. screen' \in Display(G)
  BY <1>10, <1>13, <1>14 DEF Display, OnScreen
<1>16. OnlyPointerMoves
  BY <1>6, <1>11, <1>13, <1>14 DEF OnlyPointerMoves
<1>17. marks' = marks \cup {Pointer, Blank} /\ Line' = Line /\ plain' = plain
  BY DEF mouse_packet, Line
<1>18. ASSUME LineInv, RowFits, plain PROVE LineOn(screen', Line, marks')
  <2>1. LineOn(screen, Line, marks) /\ Len(Line) < VGA_WIDTH /\ Len(Line) \in Nat
    BY <1>18, LineIsSeq DEF LineInv, RowFits
  <2>2. ASSUME NEW i \in 1 .. Len(Line)
        PROVE  screen'.cells[screen'.y][i - 1] \in {Line[i]} \cup marks'
    <3>1. i - 1 \in Col
      BY <2>1, VgaSizes DEF Col
    <3>2. screen.cells[screen.y][i - 1] \in {Line[i]} \cup marks /\ screen.y \in Row
      BY <2>1 DEF LineOn
    <3>3. screen'.cells[screen.y][i - 1] \in {Pointer, Blank, screen.cells[screen.y][i - 1]}
      BY <1>11, <1>13, <3>1, <3>2
    <3> QED
      BY <1>14, <1>17, <3>2, <3>3
  <2> QED
    BY <1>14, <2>1, <2>2 DEF LineOn
<1> QED
  BY <1>6, <1>7, <1>8, <1>15, <1>16, <1>17, <1>18 DEF MouseTypeOK, LineInv

LEMMA MouseCollects ==
    ASSUME MouseTypeOK, NEW data \in MouseBytes, mouse_byte_collected(data)
    PROVE  MouseTypeOK' /\ UNCHANGED consoleVars /\ packet' # <<>>
<1>1. PICK n \in 0 .. 2 : packet \in [1 .. n -> MouseBytes]
  BY DEF MouseTypeOK
<1>2. packet \in Seq(MouseBytes) /\ Len(packet) = n /\ n < 2
  BY <1>1 DEF mouse_byte_collected
<1>3. packet' \in [1 .. n + 1 -> MouseBytes] /\ n + 1 \in 0 .. 2 /\ packet' # <<>>
  <2>1. packet' = Append(packet, data)
    BY DEF mouse_byte_collected
  <2>2. packet' \in Seq(MouseBytes) /\ Len(packet') = n + 1
    BY <1>2, <2>1
  <2> QED
    BY <1>2, <2>2
<1>4. packet' \in UNION {[1 .. k -> MouseBytes] : k \in 0 .. 2}
  BY <1>3
<1>5. UNCHANGED <<mouse_x, mouse_y, mouse_buttons>> /\ UNCHANGED consoleVars
  BY DEF mouse_byte_collected
<1> QED
  BY <1>3, <1>4, <1>5 DEF MouseTypeOK

(* The shell and the mouse on one screen. *)
ScreenInv == ConsoleInv /\ MouseTypeOK

LEMMA ScreenInitial == ScreenInit => ScreenInv
<1> SUFFICES ASSUME ScreenInit PROVE ScreenInv
  OBVIOUS
<1>1. ConsoleInv
  BY ConsoleInitial DEF ScreenInit
<1>2. packet \in UNION {[1 .. n -> MouseBytes] : n \in 0 .. 2}
  <2>1. packet \in [1 .. 0 -> MouseBytes]
    BY DEF ScreenInit, MouseInit
  <2> QED
    BY <2>1
<1>3. mouse_x \in Col /\ mouse_y \in Row /\ mouse_buttons \in 0 .. 7
  BY VgaSizes DEF ScreenInit, MouseInit, Row, Col
<1> QED
  BY <1>1, <1>2, <1>3 DEF ScreenInv, MouseTypeOK

LEMMA ScreenStep ==
    ASSUME ScreenInv, [ScreenNext]_screenVars
    PROVE  /\ ScreenInv'
           /\ LineInv /\ RowFits /\ RowFits' => LineInv'
           /\ [Len(packet) = 2 /\ packet' = <<>> => OnlyPointerMoves]_screenVars
<1>0. ConsoleInv /\ MouseTypeOK
  BY DEF ScreenInv
<1>1. CASE ConsoleNext /\ UNCHANGED mouseVars
  <2>1. MouseTypeOK'
    BY <1>0, <1>1 DEF mouseVars, MouseTypeOK
  <2>2. ConsoleInv' /\ (LineInv /\ RowFits /\ RowFits' => LineInv')
    BY <1>0, <1>1, ConsoleStep
  <2>3. ~(Len(packet) = 2 /\ packet' = <<>>)
    BY <1>1 DEF mouseVars
  <2> QED
    BY <2>1, <2>2, <2>3 DEF ScreenInv
<1>2. ASSUME NEW data \in MouseBytes, mouse_byte_collected(data)
      PROVE  /\ ScreenInv' /\ (LineInv => LineInv') /\ packet' # <<>>
  <2>1. MouseTypeOK' /\ UNCHANGED consoleVars /\ packet' # <<>>
    BY <1>0, <1>2, MouseCollects
  <2> QED
    BY <1>0, <2>1 DEF consoleVars, ConsoleInv, LineInv, Line, ScreenInv
<1>3. ASSUME NEW data \in MouseBytes, mouse_packet(data)
      PROVE  /\ ScreenInv' /\ (LineInv /\ RowFits => LineInv') /\ OnlyPointerMoves
  <2>1. /\ MouseTypeOK' /\ screen' \in Display(ConsoleGlyph) /\ OnlyPointerMoves
        /\ LineInv /\ RowFits => LineInv'
    BY <1>0, <1>3, MousePacket
  <2>2. UNCHANGED <<input_buffer, uart>>
    BY <1>3 DEF mouse_packet
  <2> QED
    BY <1>0, <2>1, <2>2 DEF ConsoleInv, ScreenInv
<1>4. CASE UNCHANGED screenVars
  BY <1>0, <1>4 DEF screenVars, consoleVars, mouseVars, ConsoleInv, LineInv, Line, MouseTypeOK,
                    ScreenInv
<1> QED
  BY <1>1, <1>2, <1>3, <1>4 DEF ScreenNext, MouseNext, mouse_byte_ignored

LEMMA ScreenInvAlways == ScreenSpec => []ScreenInv
<1>1. ScreenInv /\ [ScreenNext]_screenVars => ScreenInv'
  BY ScreenStep
<1> QED
  BY <1>1, ScreenInitial, PTL DEF ScreenSpec

(* The text cursor and the mouse position stay on the screen and the line in its buffer,
   whatever is typed and whatever bytes the mouse sends. *)
THEOREM ScreenTypeCorrect == ScreenSpec => [](ConsoleTypeOK /\ MouseTypeOK)
<1>1. ScreenInv => ConsoleTypeOK /\ MouseTypeOK
  BY DEF ScreenInv, ConsoleInv, ConsoleTypeOK, Display
<1> QED
  BY <1>1, ScreenInvAlways, PTL

(* What you see is what is executed, for every width and buffer size: as long as no line
   reaches the last column of its row, the prompt and the line stand before the cursor
   through typing, deleting, scrolling and clearing, but for what the timer and the mouse
   have drawn over them since the prompt. *)
THEOREM LineShownAlways == ScreenSpec /\ []RowFits => []LineShown
<1>1. ScreenInit /\ RowFits => LineInv
  <2> SUFFICES ASSUME ScreenInit, RowFits PROVE LineInv
    OBVIOUS
  <2>1. Line = Prompt
    BY ConsoleConstants, NothingTyped DEF ScreenInit, ConsoleInit, Line
  <2> QED
    BY <2>1, ConsoleInitial DEF ScreenInit, LineInv, RowFits
<1>2. ScreenInv /\ LineInv /\ RowFits /\ RowFits' /\ [ScreenNext]_screenVars => LineInv'
  BY ScreenStep
<1>3. ScreenInv /\ LineInv /\ RowFits => LineShown
  BY LineOnMeansShown DEF ScreenInv
<1> QED
  BY <1>1, <1>2, <1>3, ScreenInvAlways, PTL DEF ScreenSpec

(* Drawing the pointer changes the two cells it moves between and neither scrolls nor
   moves the text cursor, for screens of every size and bytes cut into packets anyhow. *)
THEOREM PointerSparesTextAlways == ScreenSpec => PointerSparesText
<1>1. ScreenInv /\ [ScreenNext]_screenVars =>
         [Len(packet) = 2 /\ packet' = <<>> => OnlyPointerMoves]_screenVars
  BY ScreenStep
<1> QED
  BY <1>1, ScreenInvAlways, PTL DEF ScreenSpec, PointerSparesText

-----------------------------------------------------------------------------
(* The services of the run: every step is a step of one of them. *)

LEMMA ServicesComponents ==
    ServicesSpec => /\ Spec /\ ScreenSpec /\ SecuritySpec /\ PowerSpec
                    /\ MonitorSpec /\ FormatSpec
<1>1. ServicesInit => /\ Init /\ ScreenInit /\ SecurityInit /\ PowerInit
                      /\ MonitorInit /\ FormatInit
  BY DEF ServicesInit
<1>2. [ServicesNext]_servicesVars =>
         /\ [Next]_vars /\ [ScreenNext]_screenVars
         /\ [SecurityNext]_securityVars /\ [PowerNext]_powerVars
         /\ [MonitorNext]_monitorVars /\ [FormatNext]_formatVars
  <2> SUFFICES ASSUME [ServicesNext]_servicesVars
               PROVE  /\ [Next]_vars /\ [ScreenNext]_screenVars
                      /\ [SecurityNext]_securityVars /\ [PowerNext]_powerVars
                      /\ [MonitorNext]_monitorVars /\ [FormatNext]_formatVars
    OBVIOUS
  <2>1. CASE page_steps
    BY <2>1 DEF page_steps, OthersRest, SecurityRests
  <2>2. CASE screen_steps
    BY <2>2 DEF screen_steps, OthersRest, SecurityRests
  <2>3. CASE security_steps
    BY <2>3 DEF security_steps, OthersRest
  <2>4. CASE power_steps
    BY <2>4 DEF power_steps, OthersRest, SecurityRests
  <2>5. CASE monitor_steps
    BY <2>5 DEF monitor_steps, OthersRest, SecurityRests
  <2>6. CASE format_steps
    BY <2>6 DEF format_steps, OthersRest, SecurityRests
  <2>7. CASE UNCHANGED servicesVars
    BY <2>7 DEF servicesVars
  <2> QED
    BY <2>1, <2>2, <2>3, <2>4, <2>5, <2>6, <2>7 DEF ServicesNext
<1> QED
  BY <1>1, <1>2, PTL DEF ServicesSpec, Spec, ScreenSpec, SecuritySpec, PowerSpec,
                         MonitorSpec, FormatSpec

(* Page counter, cursors, pointer, tables, frequencies, log positions and line lengths
   stay in their ranges, in every service. *)
THEOREM ServicesTypeCorrect == ServicesSpec => []ServicesTypeOK
<1>1. Spec => []TypeOK
  BY OneUserPerPageAlways, PTL
<1>2. ScreenSpec => []ConsoleTypeOK /\ []MouseTypeOK
  BY ScreenTypeCorrect, PTL
<1>3. SecuritySpec => []SecurityTypeOK
  BY KeysUniqueAlways, PTL
<1>4. PowerSpec => []PowerTypeOK
  BY StatsMirrorAlways, PTL
<1>5. TypeOK /\ ConsoleTypeOK /\ MouseTypeOK /\ SecurityTypeOK /\ PowerTypeOK
         /\ MonitorTypeOK /\ FormatTypeOK => ServicesTypeOK
  BY DEF ServicesTypeOK
<1> QED
  BY <1>1, <1>2, <1>3, <1>4, <1>5, MonitorTypeCorrect, FormatTypeCorrect,
     ServicesComponents, PTL
=============================================================================
