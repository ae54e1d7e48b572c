------------------------------ MODULE MCServices ------------------------------
(* Instances of three parts of the server that share no state: the turns of a  *)
(* conversation with a discussion (Turns), the records of a team (Records) and  *)
(* the data directory (Storage).  As in MCParts a behaviour is of one of them.   *)
(* Of Turns it is two turns of a conversation with two interventions, the two   *)
(* steps of a discussion with one, or its first step with two.                  *)
EXTENDS Turns, Records, Storage, TLC

CONSTANTS p1, p2, p3, p4
Order == <<p1, p2, p3, p4>>

VARIABLE service     \* the part, and which instance of it

TurnModes == {"talk", "steps", "stops"}

ServicesInit ==
  /\ service \in TurnModes \cup {"records", "storage"}
  /\ TurnsInit /\ RecordsInit /\ StorageInit
  /\ service # "storage" => db.journal

TurnsRun ==
  /\ service \in TurnModes /\ TurnsNext
  /\ service = "talk" => talks'.is = "none"
  /\ service # "talk" => turn'[1] = NoRow
  /\ service = "steps" => acts' <= 1
  /\ service = "stops" => turn'[PlanTurn(1)] = NoRow
  /\ UNCHANGED <<service, recordVars, storageVars>>
RecordsRun ==
  /\ service = "records" /\ RecordsNext
  /\ UNCHANGED <<service, turnVars, storageVars>>
\* Executions of programs differ by what they run, not by their name: they are
\* numbered in the order in which they start.
StorageRuns ==
  /\ service = "storage" /\ StorageNext
  /\ \A i \in 2..Len(Order) : prog'[Order[i]].pc # "off" => prog'[Order[i - 1]].pc # "off"
  /\ UNCHANGED <<service, turnVars, recordVars>>

ServicesNext == TurnsRun \/ RecordsRun \/ StorageRuns

ServicesSpec ==
  ServicesInit /\ [][ServicesNext]_<<service, turnVars, recordVars, storageVars>>
===============================================================================
