---------------------------- MODULE DurableStore ----------------------------
(***************************************************************************)
(* What a client is promised of a database that crashes.  A write that     *)
(* returned is there until a machine crash, and after that if it is firm.  *)
(* A write that a crash met half-way, or that a machine crash took away,   *)
(* is in doubt until the database is opened again: then it is found, and   *)
(* firm, or it never comes back.  Recovery.tla implements this             *)
(* specification.                                                          *)
(***************************************************************************)
EXTENDS Naturals

VARIABLES
    open,       \* the database can be read and written
    begun,      \* writes so far, which are numbered
    pending,    \* the write that has not returned, if any
    contents,   \* writes a reader sees, or saw before the crash
    firm,       \* those that no crash takes away
    doubt       \* others that opening may find

storeVars == <<open, begun, pending, contents, firm, doubt>>

StoreInit ==
    /\ open = FALSE /\ begun = 0
    /\ pending = {} /\ contents = {} /\ firm = {} /\ doubt = {}

BeginWrite(sync) ==
    /\ open /\ pending = {}
    /\ begun' = begun + 1
    /\ pending' = {[id |-> begun', sync |-> sync]}
    /\ UNCHANGED <<open, contents, firm, doubt>>

\* A sync write is firm when it returns.
EndWrite(w) ==
    /\ w \in pending
    /\ contents' = contents \cup {w.id}
    /\ firm' = IF w.sync THEN firm \cup {w.id} ELSE firm
    /\ pending' = {}
    /\ UNCHANGED <<open, begun, doubt>>

\* Writes become firm while the database works; while it is being opened,
\* some that were in doubt turn out to be lost.
Settle ==
    /\ firm \subseteq firm' /\ firm' \subseteq contents
    /\ doubt' \subseteq doubt
    /\ UNCHANGED <<open, begun, pending, contents>>

CrashProcess ==
    /\ open' = FALSE /\ pending' = {}
    /\ doubt' \subseteq doubt \cup {w.id : w \in pending}
    /\ UNCHANGED <<begun, contents, firm>>

CrashMachine ==
    /\ open' = FALSE /\ pending' = {}
    /\ contents' = firm
    /\ doubt' \subseteq doubt \cup {w.id : w \in pending} \cup (contents \ firm)
    /\ UNCHANGED <<begun, firm>>

Open ==
    /\ ~open /\ open' = TRUE
    /\ contents \subseteq contents' /\ contents' \subseteq contents \cup doubt
    /\ firm' = contents' /\ doubt' = {}
    /\ UNCHANGED <<begun, pending>>

StoreNext ==
    \/ \E sync \in BOOLEAN : BeginWrite(sync)
    \/ \E w \in pending : EndWrite(w)
    \/ Settle \/ CrashProcess \/ CrashMachine \/ Open

StoreSpec == StoreInit /\ [][StoreNext]_storeVars
=============================================================================
