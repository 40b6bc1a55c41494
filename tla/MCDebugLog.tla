------------------------------ MODULE MCDebugLog ------------------------------
(***************************************************************************)
(* TLC instance of DebugLog: a session whose log rotates by size and one   *)
(* whose log rotates by day, one request and other events, days of two     *)
(* seconds and a week of one.                                              *)
(***************************************************************************)
EXTENDS DebugLog

Config(level, format, destination, path, mode) ==
    [level |-> level, format |-> format, destination |-> destination, path |-> path, mode |-> mode]

MCConfigs == { Config(Full,  "console", "file",   "a", "size"),
               Config(Basic, "console", "stderr", "a", "size"),
               Config(Full,  "json",    "both",   "b", "daily"),
               Config(Off,   "json",    "file",   "b", "daily") }
=============================================================================
