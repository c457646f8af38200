------------------------------ MODULE DnsPromise ------------------------------
(***************************************************************************)
(* What app/services/dns_service.py promises in its first line: "Safe      *)
(* Windows DNS changes with crash recovery and exact restoration".  The    *)
(* program may change the DNS setting of an adapter and may put back what  *)
(* it remembers of it; what it remembers of an adapter is always what the  *)
(* user configured there.  There are no files, no PowerShell and no calls  *)
(* at this level: DnsService implements it.                                *)
(***************************************************************************)
CONSTANTS Adapters,   \* the network adapters of the machine
          Settings    \* what an adapter's DNS can be: automatic, or servers

VARIABLES inEffect,   \* the setting Windows uses, per adapter
          remembered  \* the setting a restoration would put back, per adapter

vars == <<inEffect, remembered>>

Init ==
    /\ inEffect \in [Adapters -> Settings]
    /\ remembered = inEffect

\* The program points an adapter at other servers; it forgets nothing.
Change(a, s) ==
    /\ inEffect' = [inEffect EXCEPT ![a] = s]
    /\ UNCHANGED remembered

\* The program puts back exactly what it remembers.
Restore(a) ==
    /\ inEffect' = [inEffect EXCEPT ![a] = remembered[a]]
    /\ UNCHANGED remembered

\* The user configures an adapter the program has not changed.
UserEdit(a, s) ==
    /\ inEffect[a] = remembered[a]
    /\ inEffect' = [inEffect EXCEPT ![a] = s]
    /\ remembered' = [remembered EXCEPT ![a] = s]

Next ==
    \E a \in Adapters :
        \/ Restore(a)
        \/ \E s \in Settings : Change(a, s) \/ UserEdit(a, s)

Spec == Init /\ [][Next]_vars
===============================================================================
