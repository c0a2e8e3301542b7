------------------------------ MODULE DayLogs ------------------------------
(***************************************************************************)
(* The DataLogger of realtime_collector.py: one file per symbol, type and  *)
(* day, the handles open on them, the current file of each stream, and     *)
(* what the object store holds of every file, which an upload replaces as  *)
(* a whole.  unsaved are the files whose last upload failed.               *)
(***************************************************************************)
EXTENDS Lists

CONSTANT DayLength

Stream(p) == <<p.symbol, p.type>>

File(p) == <<p.symbol, p.type, p.ts \div DayLength>>

NewLogs ==
    [files |-> <<>>, handles |-> {}, current |-> <<>>, mirror |-> <<>>, unsaved |-> {}]

\* Closes a file and uploads it; the result of put_file() is not looked at.
Finalized(logs, file, up) ==
    [logs EXCEPT !.handles = @ \ {file},
                 !.mirror = IF up THEN With(@, file, logs.files[file]) ELSE @,
                 !.unsaved = IF up THEN @ \ {file} ELSE @ \cup {file}]

\* Mutant: a stream that changes its file leaves the other one open.
LeftLeaving(logs, p, up) == logs

\* A point of another day than the last finalizes the stream's file, also when
\* the point is the older one.
Left(logs, p, up) ==
    IF Stream(p) \in DOMAIN logs.current /\ logs.current[Stream(p)] # File(p)
    THEN Finalized(logs, logs.current[Stream(p)], up) ELSE logs

\* Every exception ends the call and is logged; what was done before it stays.
Outcomes == {"written", "not opened", "not written"}

Logged(logs, p, up, outcome) ==
    LET left   == Left(logs, p, up)
        opened == [left EXCEPT !.handles = @ \cup {File(p)},
                               !.current = With(@, Stream(p), File(p)),
                               !.files = IF File(p) \in DOMAIN @ THEN @ ELSE With(@, File(p), <<>>)]
    IN  CASE outcome = "not opened" /\ File(p) \notin left.handles -> left
          [] outcome = "written" -> [opened EXCEPT !.files[File(p)] = Append(@, p)]
          [] OTHER -> opened

\* failed are the files the object store refuses.
AllClosed(logs, failed) ==
    [logs EXCEPT !.handles = {}, !.current = <<>>,
                 !.mirror = [f \in DOMAIN @ \cup (logs.handles \ failed) |->
                                 IF f \in logs.handles \ failed THEN logs.files[f] ELSE @[f]],
                 !.unsaved = (@ \ logs.handles) \cup (logs.handles \cap failed)]
=============================================================================
