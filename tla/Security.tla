------------------------------ MODULE Security ------------------------------
(***************************************************************************)
(* kernel/security.c: the security context of the kernel, the user table   *)
(* and the access control list, with the system calls on them              *)
(* (kernel/syscall.c).  A call that is refused changes nothing and is not  *)
(* a step.  Permissions are sets of their bits.  Names, passwords and      *)
(* resources are stored cut to their fields and compared uncut.            *)
(*                                                                         *)
(* Nothing calls security_init: the kernel as it is has empty tables and a *)
(* context of zeros.  Both that state and the one security_init leaves are *)
(* initial states here.                                                    *)
(***************************************************************************)
EXTENDS Integers, Sequences

CONSTANTS
    MaxUsers,   \* entries of user_db (16)
    MaxAcl,     \* entries of acl_table (64)
    UserName,   \* the user names that calls pass
    Uid,        \* user and group identifiers; ROOT_UID is 0
    Password,   \* the passwords that calls pass; every account starts with ""
    Resource,   \* the resources that calls pass
    Permissions,  \* the permissions that are set
    NameKept, PasswordKept, ResourceKept  \* what strncpy keeps of each (31, 31, 63)

ASSUME SecurityAssumption ==
    /\ MaxUsers \in Nat \ {0}
    /\ MaxAcl \in Nat /\ MaxAcl >= 3   \* security_init sets three entries
    /\ 0 \in Uid

VARIABLES
    current_context,  \* the real ids and permissions; the effective ids equal them
    user_db,          \* the entries below user_count
    acl_table         \* the entries below acl_count

securityVars == <<current_context, user_db, acl_table>>

ROOT_UID == 0
All == {"read", "write", "execute", "delete", "admin"}

User(name, uid, gid) ==
    [name |-> name, uid |-> uid, gid |-> gid, password |-> "", active |-> TRUE]

Entry(resource, uid, gid, perm) ==
    [resource |-> resource, uid |-> uid, gid |-> gid, permissions |-> perm]

(* The tables as the loader leaves them: zeros, which make the context root's. *)
Zeroed ==
    /\ current_context = [uid |-> ROOT_UID, gid |-> ROOT_UID, permissions |-> {}]
    /\ user_db = <<>>
    /\ acl_table = <<>>

security_init ==
    /\ current_context = [uid |-> ROOT_UID, gid |-> ROOT_UID, permissions |-> All]
    /\ user_db = <<User("root", ROOT_UID, ROOT_UID)>>
    /\ acl_table = <<Entry("/dev", 0, 0, {"read", "write", "admin"}),
                     Entry("/proc", 0, 0, {"read", "admin"}),
                     Entry("/sys", 0, 0, {"read", "admin"})>>

SecurityInit == Zeroed \/ security_init

IsRoot == current_context.uid = ROOT_UID

Context(uid, gid) ==
    [uid |-> uid, gid |-> gid,
     permissions |-> IF uid = ROOT_UID THEN All ELSE {"read", "execute"}]

SetContext_by_anybody(uid, gid) == current_context' = Context(uid, gid)

(* security_set_context: only root can change the context, anybody else is refused. *)
SetContext(uid, gid) ==
    IF IsRoot THEN current_context' = Context(uid, gid) ELSE UNCHANGED current_context

(* sys_setuid and sys_setgid keep the other identifier. *)
sys_setuid(uid) ==
    SetContext(uid, current_context.gid) /\ UNCHANGED <<user_db, acl_table>>
sys_setgid(gid) ==
    SetContext(current_context.uid, gid) /\ UNCHANGED <<user_db, acl_table>>

LogsIn(u, name, password) == u.active /\ u.name = name /\ u.password = password

(* The first account of that name and password.  Success is reported also when the
   context may not be changed. *)
security_authenticate_user(name, password) ==
    /\ \E i \in DOMAIN user_db :
          /\ LogsIn(user_db[i], name, password)
          /\ \A j \in 1 .. i - 1 : ~LogsIn(user_db[j], name, password)
          /\ SetContext(user_db[i].uid, user_db[i].gid)
    /\ UNCHANGED <<user_db, acl_table>>

AclMatches(e, resource, uid, gid) == e.resource = resource /\ e.uid = uid /\ e.gid = gid

security_set_permission_appends(resource, uid, gid, perm) ==
    /\ IsRoot
    /\ Len(acl_table) < MaxAcl
    /\ acl_table' = Append(acl_table, Entry(ResourceKept[resource], uid, gid, perm))
    /\ UNCHANGED <<current_context, user_db>>

(* An entry is replaced or appended; a full table refuses both. *)
security_set_permission(resource, uid, gid, perm) ==
    LET same == {i \in DOMAIN acl_table : AclMatches(acl_table[i], resource, uid, gid)}
    IN  /\ IsRoot
        /\ Len(acl_table) < MaxAcl
        /\ acl_table' =
              IF same = {}
              THEN Append(acl_table, Entry(ResourceKept[resource], uid, gid, perm))
              ELSE [acl_table EXCEPT ![CHOOSE i \in same : \A j \in same : i <= j]
                                        .permissions = perm]
        /\ UNCHANGED <<current_context, user_db>>

sys_chmod(path, mode) ==
    security_set_permission(path, current_context.uid, current_context.gid, mode)
sys_chown(path, uid, gid) ==
    security_set_permission(path, uid, gid, {"read", "write", "execute"})

security_create_user(name, uid, gid) ==
    /\ IsRoot
    /\ Len(user_db) < MaxUsers
    /\ \A i \in DOMAIN user_db : user_db[i].name # name
    /\ user_db' = Append(user_db, User(NameKept[name], uid, gid))
    /\ UNCHANGED <<current_context, acl_table>>

(* The first entry with that uid is deactivated, active or not. *)
security_delete_user(uid) ==
    /\ IsRoot
    /\ uid # ROOT_UID
    /\ \E i \in DOMAIN user_db :
          /\ user_db[i].uid = uid
          /\ \A j \in 1 .. i - 1 : user_db[j].uid # uid
          /\ user_db' = [user_db EXCEPT ![i].active = FALSE]
    /\ UNCHANGED <<current_context, acl_table>>

security_set_user_password(uid, password) ==
    /\ IsRoot \/ current_context.uid = uid
    /\ \E i \in DOMAIN user_db :
          /\ user_db[i].uid = uid /\ user_db[i].active
          /\ \A j \in 1 .. i - 1 : ~(user_db[j].uid = uid /\ user_db[j].active)
          /\ user_db' = [user_db EXCEPT ![i].password = PasswordKept[password]]
    /\ UNCHANGED <<current_context, acl_table>>

SecurityNext ==
    \/ \E uid \in Uid : sys_setuid(uid) \/ sys_setgid(uid) \/ security_delete_user(uid)
    \/ \E name \in UserName, password \in Password :
          security_authenticate_user(name, password)
    \/ \E name \in UserName, uid, gid \in Uid : security_create_user(name, uid, gid)
    \/ \E uid \in Uid, password \in Password : security_set_user_password(uid, password)
    \/ \E path \in Resource :
          \/ \E mode \in Permissions : sys_chmod(path, mode)
          \/ \E uid, gid \in Uid : sys_chown(path, uid, gid)

SecuritySpec == SecurityInit /\ [][SecurityNext]_securityVars

-----------------------------------------------------------------------------
SecurityTypeOK ==
    /\ current_context.permissions \subseteq All
    /\ Len(user_db) <= MaxUsers /\ Len(acl_table) <= MaxAcl

(* A string that a longer one of S is cut to. *)
Clipped(k, S, kept) == \E n \in S : n # k /\ kept[n] = k

(* The tables keep their keys: one account per name and one entry per resource, user and
   group, so that a permission has one place where it is set and read, except under a
   name that fills its field, where the test with the longer name misses the entry that
   was cut; and no account of root's uid is ever deactivated ("Cannot delete root"). *)
KeysUnique ==
    /\ \A i, j \in DOMAIN user_db :
          user_db[i].name = user_db[j].name =>
             i = j \/ Clipped(user_db[i].name, UserName, NameKept)
    /\ \A i, j \in DOMAIN acl_table :
          LET e == acl_table[j]
          IN  AclMatches(acl_table[i], e.resource, e.uid, e.gid) =>
                 i = j \/ Clipped(e.resource, Resource, ResourceKept)
    /\ \A i \in DOMAIN user_db : user_db[i].uid = ROOT_UID => user_db[i].active

(* Privilege only drops ("Only root can change security context"): from the moment the
   context is not root's no call, authentication included, changes it, and the tables
   only change where a user sets the password of that user's uid.  So a context that
   security_test.c drops to user 1000 is not "switched back to root" by its next call of
   security_set_context, whatever it prints, and the comment "Set security context to
   authenticated user" of security_authenticate_user is true of root's context only. *)
PrivilegeOnlyDrops ==
    [][~IsRoot =>
          /\ UNCHANGED <<current_context, acl_table>>
          /\ DOMAIN user_db' = DOMAIN user_db
          /\ \A i \in DOMAIN user_db :
                user_db'[i] # user_db[i] => user_db[i].uid = current_context.uid]_securityVars
=============================================================================
