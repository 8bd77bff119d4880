------------------------------ MODULE Devices ------------------------------
(***************************************************************************)
(* The physical pages of kernel/memory.c and their users: the linked list  *)
(* of devices of kernel/device.c, which keeps one device_t in each page it *)
(* allocates; the block device of drivers/block_device.c, which allocates  *)
(* its page when it is opened first; kernel code that allocates pages and  *)
(* frees them again (the sequence of kernel/memory_test.c); and            *)
(* create_user_process of kernel/usermode.c.                               *)
(*                                                                         *)
(* A page is named by its number; page 0, which is never handed out, is    *)
(* also the NULL pointer.  A call that fails changes nothing, except for   *)
(* create_user_process.                                                    *)
(***************************************************************************)
EXTENDS Integers, FiniteSetsExt

CONSTANTS
    MAX_PAGES,   \* pages of physical memory (1024)
    Reserved,    \* pages that memory_init marks as used (256)
    UserPages,   \* pages that create_user_process asks for (1024)
    Name,        \* the names devices are registered under
    MaxHeld      \* bound on the pages other kernel code holds at a time

ASSUME DevicesAssumption ==
    /\ MAX_PAGES \in Nat /\ Reserved \in 1 .. MAX_PAGES
    /\ UserPages \in Nat \ {0}
    /\ "block0" \in Name
    /\ MaxHeld \in Nat

VARIABLES
    page_bitmap,  \* the pages whose bit is set
    used_pages,   \* the counter that memory_stats reports
    device_list,  \* the first device, or NULL
    device,       \* the name and next fields of the device_t in each page
    block_data,   \* block_dev.data: the page of the block device, or NULL
    held,         \* the pages that other kernel code holds
    user,         \* the pages create_user_process took
    user_entry    \* what create_user_process returned last (0 for failure); user_base before the first call

vars == <<page_bitmap, used_pages, device_list, device, block_data, held, user, user_entry>>
listVars == <<device_list, device>>
otherVars == <<block_data, held, user, user_entry>>

Page == 0 .. MAX_PAGES - 1
NULL == 0
NoName == "none"
user_base == 1  \* stands for 0x40000000

(* memory_init and device_init *)
Init ==
    /\ page_bitmap = 0 .. Reserved - 1
    /\ used_pages = Reserved
    /\ device_list = NULL
    /\ device = [p \in Page |-> [name |-> NoName, next |-> NULL]]
    /\ block_data = NULL
    /\ held = {}
    /\ user = {}
    /\ user_entry = user_base

FreePages == Page \ page_bitmap

(* alloc_page returns page p, the first one whose bit is clear. *)
alloc_page(p) ==
    /\ FreePages # {}
    /\ p = Min(FreePages)
    /\ page_bitmap' = page_bitmap \cup {p}
    /\ used_pages' = used_pages + 1

free_page_keeps_count(p) ==
    /\ page_bitmap' = page_bitmap \ {p}
    /\ UNCHANGED used_pages

(* free_page; the bit is cleared whether or not it was set. *)
free_page(p) ==
    /\ page_bitmap' = page_bitmap \ {p}
    /\ used_pages' = used_pages - 1

-----------------------------------------------------------------------------
After(p) == IF p = NULL THEN NULL ELSE device[p].next

(* The device a walk along the next pointers reaches after i of them. *)
Walk[i \in 0 .. MAX_PAGES] == IF i = 0 THEN device_list ELSE After(Walk[i - 1])

(* device_find, and the loop of device_unregister, stop after i pointers. *)
FoundAt(name, i) ==
    /\ Walk[i] # NULL
    /\ device[Walk[i]].name = name
    /\ \A j \in 0 .. i - 1 : device[Walk[j]].name # name

device_register(name) ==
    /\ \E p \in Page :
          /\ alloc_page(p)
          /\ device' = [device EXCEPT ![p] = [name |-> name, next |-> device_list]]
          /\ device_list' = p
    /\ UNCHANGED otherVars

device_unregister_head_only(name) ==
    /\ \E i \in 0 .. MAX_PAGES :
          /\ FoundAt(name, i)
          /\ device_list' = device[Walk[i]].next
          /\ UNCHANGED device
          /\ free_page(Walk[i])
    /\ UNCHANGED otherVars

device_unregister_stays_linked(name) ==
    /\ \E i \in 0 .. MAX_PAGES :
          /\ FoundAt(name, i)
          /\ IF i = 0 THEN device_list' = device[Walk[i]].next ELSE UNCHANGED device_list
          /\ UNCHANGED device
          /\ free_page(Walk[i])
    /\ UNCHANGED otherVars

device_unregister(name) ==
    /\ \E i \in 0 .. MAX_PAGES :
          /\ FoundAt(name, i)
          /\ IF i = 0
             THEN device_list' = device[Walk[i]].next /\ UNCHANGED device
             ELSE /\ device' = [device EXCEPT ![Walk[i - 1]].next = device[Walk[i]].next]
                  /\ UNCHANGED device_list
          /\ free_page(Walk[i])
    /\ UNCHANGED otherVars

(* device_open of the block device; block_close keeps the page. *)
block_open ==
    /\ \E i \in 0 .. MAX_PAGES : FoundAt("block0", i)
    /\ block_data = NULL
    /\ \E p \in Page : alloc_page(p) /\ block_data' = p
    /\ UNCHANGED <<held, user, user_entry, listVars>>

(* Kernel code allocates a page for itself, and frees one that it holds. *)
kernel_alloc ==
    /\ Cardinality(held) < MaxHeld
    /\ \E p \in Page : alloc_page(p) /\ held' = held \cup {p}
    /\ UNCHANGED <<block_data, user, user_entry, listVars>>

kernel_free ==
    /\ \E p \in held : free_page(p) /\ held' = held \ {p}
    /\ UNCHANGED <<block_data, user, user_entry, listVars>>

(* The first n free pages. *)
Lowest(n) ==
    {p \in FreePages : Cardinality({q \in FreePages : q < p}) < n}

create_user_process_restarts ==
    /\ page_bitmap' = page_bitmap \cup Lowest(UserPages)
    /\ used_pages' = used_pages + UserPages
    /\ user' = user \cup Lowest(UserPages)
    /\ user_entry' = IF Cardinality(FreePages) < UserPages THEN 0 ELSE user_base
    /\ UNCHANGED <<listVars, block_data, held>>

(* The loop of create_user_process takes a page at a time; it returns 0 when
   none is left and keeps what it has taken.  Nothing ever frees these pages. *)
create_user_process ==
    /\ page_bitmap' = page_bitmap \cup Lowest(UserPages)
    /\ used_pages' = used_pages + Cardinality(Lowest(UserPages))
    /\ user' = user \cup Lowest(UserPages)
    /\ user_entry' = IF Cardinality(FreePages) < UserPages THEN 0 ELSE user_base
    /\ UNCHANGED <<listVars, block_data, held>>

Next ==
    \/ \E name \in Name : device_register(name) \/ device_unregister(name)
    \/ block_open
    \/ kernel_alloc \/ kernel_free
    \/ create_user_process

Spec == Init /\ [][Next]_vars

-----------------------------------------------------------------------------
(* The devices a walk meets. *)
Listed == {Walk[i] : i \in 0 .. MAX_PAGES} \ {NULL}

TypeOK ==
    /\ page_bitmap \subseteq Page /\ used_pages \in 0 .. MAX_PAGES
    /\ device_list \in Page
    /\ device \in [Page -> [name : Name \cup {NoName}, next : Page]]
    /\ block_data \in Page
    /\ held \subseteq Page /\ user \subseteq Page
    /\ user_entry \in {0, user_base}
    /\ Walk[MAX_PAGES] = NULL   \* the list ends

(* Every page in use has exactly one user: the reserved pages, the devices on the
   list, the block device, other kernel code, user processes.  None is handed out
   twice, none is freed while in use and none is forgotten. *)
OneUserPerPage ==
    LET Users == <<0 .. Reserved - 1, Listed, {block_data} \ {NULL}, held, user>>
    IN  /\ page_bitmap = UNION {Users[k] : k \in DOMAIN Users}
        /\ \A k, l \in DOMAIN Users : k # l => Users[k] \cap Users[l] = {}

(* The counter memory_stats reports is the number of pages in use. *)
UsedPagesExact == used_pages = Cardinality(page_bitmap)

(* The names on the list, in order. *)
Names == [i \in 1 .. Cardinality(Listed) |-> device[Walk[i - 1]].name]

Registry == INSTANCE DeviceList WITH devices <- Names

(* The linked list implements the list of names: a registration is seen first, a
   removal takes the newest device of that name and leaves the others in order.
   (Registry!Spec; that a step off the list stutters is said first, to spare TLC the
   walk.) *)
ImplementsDeviceList == Registry!Init /\ [][UNCHANGED listVars \/ Registry!Next]_Names
=============================================================================
