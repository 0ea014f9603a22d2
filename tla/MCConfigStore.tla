--------------------------- MODULE MCConfigStore ----------------------------
(* One garmr process at a time, run again and again, over the storage      *)
(* section of the configuration: the driver, and the postgres subsection   *)
(* with its DSN, which is a secret and which validation asks for.          *)
EXTENDS ConfigStore, TLC

CONSTANTS p1

MCClis == {p1}

Storage == <<"storage">>
Postgres == <<"storage", "postgres">>
MCPaths == {Storage, Driver, Postgres, DSN}
MCScalars == {"", "memory", "postgres", "dsn"}

NoSection(driver) == (Storage :> "mapping") @@ (Driver :> driver)
NullSection(driver) == NoSection(driver) @@ (Postgres :> "null")
NoDSN(driver) == NoSection(driver) @@ (Postgres :> "mapping")
Text(driver, dsn) == NoDSN(driver) @@ (DSN :> dsn)

\* A service on postgres, one on memory whose DSN has no value yet, and one
\* whose postgres section was left without a value.
MCFiles == {Text("postgres", "dsn"), Text("memory", "null"), NullSection("memory")}

\* Switching to postgres and back with the DSN kept, clearing it, writing one,
\* removing its key, removing its section, and removing it on postgres, which
\* does not validate.
MCEdits == {Text("postgres", KEEP), Text("memory", CLEAR), Text("memory", "dsn"),
            NoDSN("memory"), NoSection("memory"), NoSection("postgres")}
=============================================================================
