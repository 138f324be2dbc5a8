------------------------------ MODULE MCStartup ------------------------------
(* Configuration files for Startup.                                        *)
EXTENDS Startup

\* The file of README.md:7-18, where every placeholder is a text, that of
\* "port" too.
ReadmeConfig(kind) == [f \in {"database_kind", "host", "port", "user", "password", "dbname"} |->
                           IF f = "database_kind" THEN kind ELSE "string"]

Complete(kind) == [ReadmeConfig(kind) EXCEPT !["port"] = "number"]

CompleteFiles == {Complete("postgres"), Complete("clickhouse")}

\* Complete files, and files that lack something or have a wrong type.
MCFiles == CompleteFiles \cup {ReadmeConfig("postgres"), Complete("oracle")}
               \cup {[Complete(kind) EXCEPT ![f] = "missing"] :
                         kind \in {"postgres", "clickhouse"},
                         f \in {"host", "password", "dbname"}}
=============================================================================
