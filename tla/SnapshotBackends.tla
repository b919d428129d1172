--------------------------- MODULE SnapshotBackends ---------------------------
(***************************************************************************)
(* What one call of a snapshot store does to the object behind a           *)
(* reference, and what the caller learns: LocalSnapshotStore               *)
(* (local_snapshot_store.py), PostgresSnapshotStore (postgres_store.py)    *)
(* and MinioSnapshotStore (minio_store.py), under the reference a tiered   *)
(* store hands them.                                                       *)
(*                                                                         *)
(* An outcome is the object afterwards and the answer: "ok", "whole" or    *)
(* "torn" data, "missing" for KeyError, "error" for any other exception.   *)
(***************************************************************************)

CONSTANT Faults   \* BOOLEAN: the file system and the services may fail

Objects == {"none", "whole", "torn"}
Answers == {"ok", "whole", "torn", "missing", "error"}

Outcome(object, answer) == [object |-> object, answer |-> answer]
May(faulty) == IF Faults THEN faulty ELSE {}

(* The archive is written in place, then the sidecar beside it.             *)
LocalPut(was, data) ==
    {Outcome(data, "ok")} \cup
    May({Outcome(was, "error"), Outcome("torn", "error"), Outcome(data, "error")})

LocalGet(was) ==
    IF was = "none" THEN {Outcome(was, "missing")}
    ELSE {Outcome(was, was)} \cup May({Outcome(was, "error")})

(* The sidecar's removal may fail after the archive's.                      *)
LocalDelete(was) ==
    IF was = "none" THEN {Outcome(was, "missing")}
    ELSE {Outcome("none", "ok")} \cup
         May({Outcome(was, "error"), Outcome("none", "error")})

(* An INSERT of a reference that is there fails, and a connection lost      *)
(* after the commit looks like a failure.                                  *)
PostgresPut(was, data) ==
    IF was # "none" THEN {Outcome(was, "error")}
    ELSE {Outcome(data, "ok")} \cup May({Outcome(was, "error"), Outcome(data, "error")})

PostgresGet(was) ==
    {Outcome(was, IF was = "none" THEN "missing" ELSE was)} \cup May({Outcome(was, "error")})

PostgresDelete(was) ==
    {Outcome("none", IF was = "none" THEN "missing" ELSE "ok")} \cup
    May({Outcome(was, "error"), Outcome("none", "error")})

MinioPut(was, data) ==
    {Outcome(data, "ok")} \cup May({Outcome(was, "error"), Outcome(data, "error")})

(* Every failure of the call becomes KeyError, one of _ensure_client (no such *)
(* host, bucket_exists) does not; removing what is not there succeeds.      *)
MinioGet(was) ==
    {Outcome(was, IF was = "none" THEN "missing" ELSE was)} \cup
    May({Outcome(was, "missing"), Outcome(was, "error")})

MinioDelete(was) ==
    {Outcome("none", "ok")} \cup
    May({Outcome(was, "missing"), Outcome(was, "error"), Outcome("none", "missing")})

Puts(kind, was, data) ==
    CASE kind = "local"    -> LocalPut(was, data)
      [] kind = "postgres" -> PostgresPut(was, data)
      [] kind = "minio"    -> MinioPut(was, data)

Gets(kind, was) ==
    CASE kind = "local"    -> LocalGet(was)
      [] kind = "postgres" -> PostgresGet(was)
      [] kind = "minio"    -> MinioGet(was)

Deletes(kind, was) ==
    CASE kind = "local"    -> LocalDelete(was)
      [] kind = "postgres" -> PostgresDelete(was)
      [] kind = "minio"    -> MinioDelete(was)
=============================================================================
