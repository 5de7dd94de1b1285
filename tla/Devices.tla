------------------------------- MODULE Devices -------------------------------
(***************************************************************************)
(* The VM's devices (device.c, and vm.c's binding of them): a table whose  *)
(* index is the device's id, which the address translation keeps in its    *)
(* entries, and a list in the order of the addresses, which it searches.   *)
(* The list is one of pointers: next[f] is what the field f points to,     *)
(* ListHead being vm->dev_list, and pprev[d] the field that points to d.       *)
(***************************************************************************)
EXTENDS Naturals, FiniteSets

CONSTANTS
    Parts,     \* struct vdevice
    Ram,       \* the one dev_create_ram makes
    Sizes,     \* phys_len of each
    Addresses, \* physical addresses
    TableSize, \* VM_DEVICE_MAX
    ListHead, None

ASSUME DevicesAssumption ==
    /\ Ram \in Parts /\ None \notin Parts \cup {ListHead} /\ ListHead \notin Parts
    /\ Sizes \in [Parts -> Nat \ {0}] /\ Addresses \subseteq Nat /\ 0 \in Addresses
    /\ TableSize \in Nat \ {0}

VARIABLES
    table,     \* dev_array: the device of each id
    id, base,  \* a device's id and phys_addr
    next, pprev,
    status,    \* of the VM
    ramHolds,       \* what the RAM holds at the reset vector
    bound      \* the devices whose binding was answered 0

devVars == <<table, id, base, next, pprev, status, ramHolds, bound>>

Ids == 0..(TableSize - 1)

DevInit ==
    /\ table = [i \in Ids |-> None]
    /\ id = [d \in Parts |-> 0] /\ base = [d \in Parts |-> 0]
    /\ next = [f \in Parts \cup {ListHead} |-> None]
    /\ pprev = [d \in Parts |-> None]
    /\ status = "halted" /\ ramHolds = "nothing" /\ bound = {}

DevTypeOK ==
    /\ table \in [Ids -> Parts \cup {None}]
    /\ id \in [Parts -> Ids] /\ base \in [Parts -> Addresses]
    /\ next \in [Parts \cup {ListHead} -> Parts \cup {None}]
    /\ pprev \in [Parts -> Parts \cup {ListHead, None}]
    /\ bound \subseteq Parts

-----------------------------------------------------------------------------
(* A search follows the list from its head, past all that are not in T:    *)
(* Walked is the least set of fields it meets, and it stops at the one     *)
(* that points to one of T or to nothing.                                  *)
Walks(n, T, F) ==
    /\ ListHead \in F
    /\ \A f \in F : n[f] # None /\ n[f] \notin T => n[f] \in F
Walked(n, T) ==
    {f \in Parts \cup {ListHead} :
        \A F \in SUBSET (Parts \cup {ListHead}) : Walks(n, T, F) => f \in F}
StopsAt(n, T) == CHOOSE f \in Walked(n, T) : n[f] = None \/ n[f] \in T

(* dev_lookup.                                                             *)
Holds(d, a) == a >= base[d] /\ a - base[d] < Sizes[d]
Lookup(a) == next[StopsAt(next, {d \in Parts : Holds(d, a)})]

(* The field vm_bind_device stops at, and dev_lookup_next from the head.   *)
FieldFor(n, a) == StopsAt(n, {d \in Parts : base[d] > a})
LookupNext(a) == next[FieldFor(next, a)]

-----------------------------------------------------------------------------
Listed(d) == pprev[d] # None

(* Variant: a slot is not tested.                                          *)
FreeUntested(t) == Ids

Free(t)   == {i \in Ids : t[i] = None}
First(S)  == CHOOSE i \in S : \A j \in S : i <= j

(* vm_bind_device at address a, on the given table and links.  A full      *)
(* table is answered -1 and nothing else; no caller looks.                 *)
Bind(d, a, t, n, p) ==
    /\ base' = [base EXCEPT ![d] = a]
    /\ IF Free(t) = {}
       THEN /\ table' = t /\ next' = n /\ pprev' = p
            /\ bound' = bound \ {d} /\ UNCHANGED id
       ELSE LET f == FieldFor(n, a) IN
            /\ table' = [t EXCEPT ![First(Free(t))] = d]
            /\ id' = [id EXCEPT ![d] = First(Free(t))]
            /\ next' = [n EXCEPT ![d] = n[f], ![f] = d]
            /\ pprev' = [e \in Parts |-> IF e = d THEN f
                                         ELSE IF e = n[f] THEN d ELSE p[e]]
            /\ bound' = bound \cup {d}

(* vm_unbind_device.                                                       *)
UnlinkedBack(d) ==
    [e \in Parts |-> IF e = d THEN None
                     ELSE IF e = next[d] THEN pprev[d] ELSE pprev[e]]
Unlinked(d)  == [next EXCEPT ![pprev[d]] = next[d], ![d] = None]
Untabled(d)  == [i \in Ids |-> IF table[i] = d THEN None ELSE table[i]]

(* A device is created and bound.                                          *)
Binds(d, a) ==
    /\ ~Listed(d)
    /\ Bind(d, a, table, next, pprev)
    /\ UNCHANGED <<status, ramHolds>>

(* dev_remove: the device is unbound, and is a new one afterwards.         *)
Removes(d) ==
    /\ Listed(d)
    /\ table' = Untabled(d) /\ next' = Unlinked(d) /\ pprev' = UnlinkedBack(d)
    /\ base' = [base EXCEPT ![d] = 0] /\ id' = [id EXCEPT ![d] = 0]
    /\ bound' = bound \ {d}
    /\ UNCHANGED <<status, ramHolds>>

(* vm_map_device.                                                          *)
Maps(d, a) ==
    /\ IF Listed(d)
       THEN Bind(d, a, Untabled(d), Unlinked(d), UnlinkedBack(d))
       ELSE Bind(d, a, table, next, pprev)
    /\ UNCHANGED <<status, ramHolds>>

(* dev_reset_all clears the RAM with every other listed device, and then   *)
(* jz4740_boot_from_nandflash copies the first pages of the flash to what  *)
(* is at 0; it asserts that this is memory.                                *)
Resets ==
    /\ Lookup(0) = Ram
    /\ status' = "running" /\ ramHolds' = "boot code"
    /\ UNCHANGED <<table, id, base, next, pprev, bound>>

GuestStores ==
    /\ status = "running" /\ Listed(Ram)
    /\ ramHolds' = "guest data"
    /\ UNCHANGED <<table, id, base, next, pprev, status, bound>>

(* vm_suspend and vm_resume.                                               *)
Suspends ==
    /\ status = "running" /\ status' = "suspended"
    /\ UNCHANGED <<table, id, base, next, pprev, ramHolds, bound>>
Resumes ==
    /\ status = "suspended" /\ status' = "running"
    /\ UNCHANGED <<table, id, base, next, pprev, ramHolds, bound>>

DevNext ==
    \/ \E d \in Parts, a \in Addresses : Binds(d, a) \/ Maps(d, a)
    \/ \E d \in Parts : Removes(d)
    \/ Resets \/ GuestStores \/ Suspends \/ Resumes

DevSpec == DevInit /\ [][DevNext]_devVars

-----------------------------------------------------------------------------
(* Every address is looked up to a device that holds it, and to none only  *)
(* when none of the bound ones does; the id it is then reached through     *)
(* names the same device; and the next device above is the nearest.  No    *)
(* sequence of bindings, moves and removals breaks the list or the table.  *)
FindsItsDevice ==
    \A a \in Addresses :
        LET found == Lookup(a)
            above == LookupNext(a)
        IN  /\ found = None => \A d \in bound : ~Holds(d, a)
            /\ found # None => /\ found \in bound /\ Holds(found, a)
                               /\ table[id[found]] = found
            /\ \A d \in bound :
                  base[d] > a => above # None /\ base[above] <= base[d]
=============================================================================
