------------------------------ MODULE Database ------------------------------
(***************************************************************************)
(* backend/src/services/Database.ts: the graph, the off-chain auctions and *)
(* an audit log in memory, and the file a restarted backend reads. A write *)
(* is answered at once and arms a 200 ms timer; when no write has come for *)
(* that long, flushSync writes all of it to a temporary file and renames   *)
(* that over the old one. Nothing reads the temporary file, so it has no   *)
(* variable. While flushSync runs no other code of the process does.       *)
(***************************************************************************)
EXTENDS Integers, Sequences, FiniteSets

CONSTANTS
  NoFile,    \* no file, or one that cannot be parsed
  Seed,      \* DEFAULT_SEED
  MaxAudit,  \* audit events kept, 500 in the code
  MaxFaults  \* bound on flushes that fail and restarts

ASSUME DatabaseInputs == MaxAudit \in Nat \ {0} /\ MaxFaults \in Nat

VARIABLES
  data,         \* this.data: [nodes, edges, auctions, audit]
  file,         \* privatecredit-db.json
  timer,        \* flushTimer: off, armed, or flushSync between write and rename
  flushFailed,  \* the last flush failed, which is only logged
  faults        \* flushes that failed and restarts so far

databaseVars == <<data, file, timer, flushFailed, faults>>

\* What readFromDisk gives a starting backend.
Loaded(f) == IF f = NoFile \/ DOMAIN f.nodes = {} THEN Seed ELSE f

DatabaseInit ==
  /\ file = NoFile /\ data = Loaded(NoFile)
  /\ timer = "off" /\ flushFailed = FALSE /\ faults = 0

Put(map, id, value) == [i \in DOMAIN map \cup {id} |-> IF i = id THEN value ELSE map[i]]

SetNode(d, id, node) == [d EXCEPT !.nodes = Put(@, id, node)]
SetEdge(d, source, target) == [d EXCEPT !.edges = @ \cup {<<source, target>>}]
SetAuction(d, id, auction) == [d EXCEPT !.auctions = Put(@, id, auction)]

RecordAuditEvent(d, event) ==
  LET log == Append(d.audit, event)
  IN  [d EXCEPT !.audit = IF Len(log) > MaxAudit
                          THEN SubSeq(log, Len(log) - MaxAudit + 1, Len(log)) ELSE log]

\* Faulty variant: a write that does not schedule a flush.
CommitUnscheduled(d) ==
  /\ timer # "flushing"
  /\ data' = d
  /\ UNCHANGED <<file, timer, flushFailed, faults>>

\* What a handler wrote between two awaits; scheduleFlush arms the timer anew.
Commit(d) ==
  /\ timer # "flushing"
  /\ data' = d /\ timer' = "armed"
  /\ UNCHANGED <<file, flushFailed, faults>>

\* A handler that found nothing to write.
NoWrite == timer # "flushing" /\ UNCHANGED databaseVars
-----------------------------------------------------------------------------
(* flushSync, and what interrupts it.                                      *)

\* Faulty variant: the file itself is written, so for a while it is torn.
WriteInPlace ==
  /\ timer = "armed"
  /\ timer' = "flushing" /\ file' = NoFile
  /\ UNCHANGED <<data, flushFailed, faults>>

WriteTemp ==
  /\ timer = "armed"
  /\ timer' = "flushing"
  /\ UNCHANGED <<data, file, flushFailed, faults>>

\* Faulty variant: the file is not moved, and the flush is scheduled again.
RenameLater ==
  /\ timer = "flushing"
  /\ timer' = "armed"
  /\ UNCHANGED <<data, file, flushFailed, faults>>

RenameTemp ==
  /\ timer = "flushing"
  /\ timer' = "off" /\ flushFailed' = FALSE
  /\ file' = data
  /\ UNCHANGED <<data, faults>>

\* Either call throws: the error is logged and no flush is scheduled.
FailFlush ==
  /\ faults < MaxFaults /\ faults' = faults + 1
  /\ timer \in {"armed", "flushing"}
  /\ timer' = "off" /\ flushFailed' = TRUE
  /\ UNCHANGED <<data, file>>

\* The process dies at any point and is started again.
RestartDatabase ==
  /\ faults < MaxFaults /\ faults' = faults + 1
  /\ data' = Loaded(file)
  /\ timer' = "off" /\ flushFailed' = FALSE
  /\ UNCHANGED file

FlushSync == WriteTemp \/ RenameTemp
=============================================================================
