--------------------------------- MODULE Fdb ---------------------------------
(***************************************************************************)
(* The sensor database, fdb/fdb.c, across starts of the gateway.           *)
(* storage_mgr opens sensor.db when it starts; when that fails it makes    *)
(* .template.db by running the schema through SQLite, unless the file is   *)
(* there already, copies the template over sensor.db in blocks of 4096     *)
(* bytes, and opens again.  Then it inserts a record for every message.    *)
(*                                                                         *)
(* A file is the number of blocks it has, Chunks when it is complete; it   *)
(* has the table only then, and SQLite opens any file without looking.     *)
(* Faults says what may go wrong in an instance:                           *)
(*   open    sqlite3_open_v2 fails on a sensor.db that is there            *)
(*   schema  a statement of the schema, or the chmod after it, fails       *)
(*   read    fread fails, which the copy loop takes for the end of the file*)
(*   write   sensor.db cannot be opened for writing, written, or chmodded  *)
(*   close   fclose fails to write out the end of sensor.db                *)
(*   step    sqlite3_step fails on an insert, which changes nothing        *)
(*   crash   the gateway is killed at any place                            *)
(* MaxRecords bounds the inserts.                                          *)
(***************************************************************************)
EXTENDS Integers

CONSTANTS Chunks, Faults, MaxRecords

ASSUME FdbAssumption ==
  /\ Chunks \in Nat \ {0}
  /\ MaxRecords \in Nat
  /\ Faults \subseteq {"open", "schema", "read", "write", "close", "step", "crash"}

VARIABLES
  template,  \* the blocks of .template.db, or Absent
  sensor,    \* the blocks of sensor.db, or Absent
  records,   \* the records in sensor.db
  pc,        \* where storage_mgr is, "down" when the gateway does not run
  fdb,       \* storage_mgr has a handle (fdb # NULL)
  stored,    \* how many calls of fdb_data_insert have returned 0
  refused,   \* an open of a sensor.db that was there has failed
  spoiled    \* a crash, or a failure the code does not clean up after, may
             \* have left a file incomplete

fdbVars == <<template, sensor, records, pc, fdb, stored, refused, spoiled>>

Absent == -1

FdbInit ==
  /\ template = Absent
  /\ sensor = Absent
  /\ records = 0
  /\ pc = "down"
  /\ fdb = FALSE
  /\ stored = 0
  /\ refused = FALSE
  /\ spoiled = FALSE

Start ==
  /\ pc = "down"
  /\ pc' = "open"
  /\ UNCHANGED <<template, sensor, records, fdb, stored, refused, spoiled>>

-----------------------------------------------------------------------------
(* fdb_open_sensor_db *)

(* Mutant of OpenSensorDb: an existing database is made anew. *)
OpenSensorDb_always_creates ==
  /\ pc = "open"
  /\ pc' = "profile"
  /\ UNCHANGED <<template, sensor, records, fdb, stored, refused, spoiled>>

(* sqlite3_open_v2(path, &db, SQLITE_OPEN_READWRITE, NULL) *)
OpenSensorDb ==
  /\ pc = "open"
  /\ \/ /\ sensor # Absent
        /\ fdb' = TRUE
        /\ pc' = "run"
        /\ UNCHANGED refused
     \/ /\ sensor = Absent
        /\ pc' = "profile"
        /\ UNCHANGED <<fdb, refused>>
     \/ /\ sensor # Absent
        /\ "open" \in Faults
        /\ pc' = "profile"
        /\ refused' = TRUE
        /\ UNCHANGED fdb
  /\ UNCHANGED <<template, sensor, records, stored, spoiled>>

(* The open after fdb_create_sensor_db returned 0: one more try. *)
Reopen ==
  /\ pc = "retry"
  /\ \/ fdb' = TRUE
     \/ "open" \in Faults /\ UNCHANGED fdb
  /\ pc' = "run"
  /\ UNCHANGED <<template, sensor, records, stored, refused, spoiled>>

-----------------------------------------------------------------------------
(* fdb_create_file: the template *)

(* fopen(path, "r"); without a template SQLite creates an empty file. *)
CheckProfile ==
  /\ pc = "profile"
  /\ \/ /\ template # Absent
        /\ pc' = "create"
        /\ UNCHANGED template
     \/ /\ template = Absent
        /\ template' = 0
        /\ pc' = "schema"
     \/ /\ template = Absent /\ "schema" \in Faults    \* not even that
        /\ pc' = "run"
        /\ UNCHANGED template
  /\ UNCHANGED <<sensor, records, fdb, stored, refused, spoiled>>

(* Mutant of RunSchema: it goes on past the end of the schema. *)
RunSchema_goes_on ==
  /\ pc = "schema"
  /\ template' = template + 1
  /\ UNCHANGED <<sensor, records, pc, fdb, stored, refused, spoiled>>

(* The statements of the schema are one transaction, which END writes out  *)
(* block by block; a failure before that rolls it back.  An error makes    *)
(* fdb_open_sensor_db return NULL, but the template stays behind.          *)
RunSchema ==
  /\ pc = "schema"
  /\ \/ /\ template < Chunks
        /\ template' = template + 1
        /\ UNCHANGED <<pc, spoiled>>
     \/ /\ template < Chunks /\ "schema" \in Faults
        /\ template' = 0
        /\ pc' = "run"
        /\ spoiled' = TRUE
     \/ /\ template = Chunks
        /\ pc' = "create"
        /\ UNCHANGED <<template, spoiled>>
     \/ /\ template = Chunks /\ "schema" \in Faults    \* chmod
        /\ pc' = "run"
        /\ UNCHANGED <<template, spoiled>>
  /\ UNCHANGED <<sensor, records, fdb, stored, refused>>

-----------------------------------------------------------------------------
(* fdb_create_sensor_db: the copy *)

(* fopen(path, "w") truncates. *)
CreateSensorDb ==
  /\ pc = "create"
  /\ \/ /\ sensor' = 0
        /\ records' = 0
        /\ pc' = "copy"
     \/ /\ "write" \in Faults
        /\ pc' = "run"
        /\ UNCHANGED <<sensor, records>>
  /\ UNCHANGED <<template, fdb, stored, refused, spoiled>>

(* Mutant of Copy: sensor.db stays when a write failed. *)
Copy_no_unlink ==
  /\ pc = "copy"
  /\ \/ /\ sensor < template
        /\ sensor' = sensor + 1
        /\ UNCHANGED <<pc, spoiled>>
     \/ /\ "write" \in Faults
        /\ pc' = "run"
        /\ UNCHANGED <<sensor, spoiled>>
     \/ /\ sensor = template
        /\ pc' = "retry"
        /\ UNCHANGED <<sensor, spoiled>>
     \/ /\ "read" \in Faults
        /\ pc' = "retry"
        /\ spoiled' = TRUE
        /\ UNCHANGED sensor
     \/ /\ "close" \in Faults
        /\ pc' = "run"
        /\ spoiled' = TRUE
        /\ UNCHANGED sensor
  /\ UNCHANGED <<template, records, fdb, stored, refused>>

(* The loop of fread and fwrite, and what follows it: a block is copied; a *)
(* write or the chmod at the end fails and sensor.db is unlinked; the end  *)
(* of the template is met, or fread fails; fclose fails, with no unlink.   *)
Copy ==
  /\ pc = "copy"
  /\ \/ /\ sensor < template
        /\ sensor' = sensor + 1
        /\ UNCHANGED <<pc, spoiled>>
     \/ /\ "write" \in Faults
        /\ sensor' = Absent
        /\ pc' = "run"
        /\ UNCHANGED spoiled
     \/ /\ sensor = template
        /\ pc' = "retry"
        /\ UNCHANGED <<sensor, spoiled>>
     \/ /\ "read" \in Faults
        /\ pc' = "retry"
        /\ spoiled' = TRUE
        /\ UNCHANGED sensor
     \/ /\ "close" \in Faults
        /\ pc' = "run"
        /\ spoiled' = TRUE
        /\ UNCHANGED sensor
  /\ UNCHANGED <<template, records, fdb, stored, refused>>

-----------------------------------------------------------------------------
(* storage_mgr *)

(* fdb_data_insert, which dereferences fdb whatever it is (the process dies *)
(* of a null one); without the table the statement cannot be prepared.      *)
Insert ==
  /\ pc = "run"
  /\ stored < MaxRecords
  /\ \/ /\ ~fdb
        /\ pc' = "down"
        /\ UNCHANGED <<records, stored>>
     \/ /\ fdb /\ sensor = Chunks
        /\ records' = records + 1
        /\ stored' = stored + 1
        /\ UNCHANGED pc
     \/ /\ fdb /\ (sensor # Chunks \/ "step" \in Faults)
        /\ UNCHANGED <<pc, records, stored>>
  /\ UNCHANGED <<template, sensor, fdb, refused, spoiled>>

(* The gateway is killed, or stopped by its user: its loop never ends. *)
Killed ==
  /\ pc # "down"
  /\ pc = "run" \/ "crash" \in Faults
  /\ pc' = "down"
  /\ fdb' = FALSE
  /\ spoiled' = (spoiled \/ pc \in {"schema", "copy"})
  /\ UNCHANGED <<template, sensor, records, stored, refused>>

fdb_open_sensor_db ==
  \/ OpenSensorDb \/ CheckProfile \/ RunSchema \/ CreateSensorDb \/ Copy \/ Reopen

FdbNext == Start \/ fdb_open_sensor_db \/ Insert \/ Killed

FdbSpec == FdbInit /\ [][FdbNext]_fdbVars

-----------------------------------------------------------------------------
FdbTypeOK ==
  /\ template \in Absent..Chunks
  /\ sensor \in Absent..Chunks
  /\ records \in 0..MaxRecords
  /\ pc \in {"down", "open", "profile", "schema", "create", "copy", "retry", "run"}
  /\ fdb \in BOOLEAN
  /\ stored \in 0..MaxRecords
  /\ refused \in BOOLEAN
  /\ spoiled \in BOOLEAN

(* Every record whose insert returned 0 is still in sensor.db, whatever    *)
(* fails and however often the gateway is killed and started again: the    *)
(* file is made anew (fdb.c:115) only when there was none, or after an     *)
(* open of the one there was has failed (fdb.c:165).                       *)
RecordsKept == ~refused => records = stored
RecordsSurvive == FdbTypeOK /\ RecordsKept

(* A database that storage_mgr has open has the table, unless a crash or a  *)
(* failure that nothing cleans up after came between: a copy that could     *)
(* not be written is not left behind (fdb.c:123-151).                       *)
OpenedHasTable == fdb /\ ~spoiled => sensor = Chunks

(* fdb.h:36, "return 0 if success otherwise -1": when fdb_create_sensor_db *)
(* has returned 0, sensor.db has the table.                                *)
CreateReturnsZeroOnSuccess == pc = "retry" => sensor = Chunks
=============================================================================
