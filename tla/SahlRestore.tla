---------------------------- MODULE SahlRestore ----------------------------
(***************************************************************************)
(* SahlSync with tills whose disk may be put back to an earlier copy: the  *)
(* database file restored from a backup, with the device's identity.  The  *)
(* till then seals different events under sequence numbers it used before, *)
(* which is the fork that plan_batch looks for.                            *)
(***************************************************************************)
EXTENDS SahlSync

VARIABLE backup  \* the copy of each till's disk

Disk(d) == [log |-> log[d], synced |-> synced[d],
            remote |-> remote[d], cursor |-> cursor[d]]

rvars == <<vars, backup>>

InitR == Init /\ backup = [d \in Device |-> Disk(d)]

TakeBackup(d) ==
    /\ backup' = [backup EXCEPT ![d] = Disk(d)]
    /\ UNCHANGED vars

\* The till comes up on the copy, as Restart does on its own disk.
Restore(d) ==
    /\ faults < MaxFaults
    /\ faults' = faults + 1
    /\ LET disk == backup[d]
       IN /\ log' = [log EXCEPT ![d] = disk.log]
          /\ synced' = [synced EXCEPT ![d] = disk.synced]
          /\ remote' = [remote EXCEPT ![d] = disk.remote]
          /\ cursor' = [cursor EXCEPT ![d] = disk.cursor]
          /\ book' = [book EXCEPT ![d] = disk.remote]
    /\ thread' = [thread EXCEPT ![d] = Asleep(TRUE)]
    /\ IF Waiting(d) THEN Abandon(thread[d].conn) ELSE UNCHANGED conn
    /\ UNCHANGED <<held, pos, nextSeq, revoked, backup>>

NextR ==
    \/ Next /\ UNCHANGED backup
    \/ \E d \in Device : TakeBackup(d) \/ Restore(d)

SpecR == InitR /\ [][NextR]_rvars

FairSpecR == SpecR /\ Fairness

\* The till and the server hold different events under one sequence number.
Diverged(d) == ~IsPrefix(held[d], log[d]) /\ ~IsPrefix(log[d], held[d])

\* Whatever a restored till sends, the server never replaces an event it
\* accepted: its chain of a device is only ever extended.
ServerKeepsHistory ==
    [][\A d \in Device : IsPrefix(held[d], held'[d])]_rvars

\* A till on a fork that has sold past the server's tip is not left retrying
\* or believed in sync: its thread stops, for an operator to see, unless a
\* late request from before the restore takes the server past it again.
ForkStopsTill ==
    \A d \in Device :
        (Diverged(d) /\ Len(log[d]) > Len(held[d]))
            ~> \/ thread[d] = Stopped
               \/ ~Diverged(d)
               \/ Len(log[d]) <= Len(held[d])
=============================================================================
