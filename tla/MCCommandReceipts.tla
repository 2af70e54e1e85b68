------------------------- MODULE MCCommandReceipts -------------------------
(* Instances of CommandReceipts: duplicates, retries and a conflicting use of *)
(* the same key on two Schedules.                                            *)
EXTENDS CommandReceipts

Req(key, op, schedule) ==
    [key |-> key, op |-> op, schedule |-> schedule, fingerprint |-> <<op, schedule>>]

MCRequests ==
    {Req("export-1", "export", "A"), Req("export-1", "export", "B"),
     Req("export-2", "export", "A"), Req("import-1", "command", "A")}
=============================================================================
