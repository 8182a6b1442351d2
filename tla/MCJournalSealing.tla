--------------------------- MODULE MCJournalSealing ---------------------------
(* A service with its sealer, and an operator's command, on one journal.   *)
EXTENDS JournalSealing

CONSTANTS service, command, sealer, operator

MCLog == {service, command}
MCThread == {sealer, operator}
MCLogOf == [t \in MCThread |-> IF t = operator THEN command ELSE service]
=============================================================================
