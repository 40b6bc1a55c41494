------------------------------ MODULE ConfigStore ------------------------------
(***************************************************************************)
(* One config file and those who write it: the web UI of a running         *)
(* instance (src/proxy/webui/api.rs), which edits the copy of the file     *)
(* that the instance keeps in memory (src/config/store.rs) and saves all   *)
(* of it; the bridge of its terminal UI, which saves the settings of       *)
(* Claude Code; and `anycode passwd`, a process of its own                 *)
(* (src/main.rs).  They meet in src/config/loader.rs, under a file lock    *)
(* that save_config takes after it has truncated the file.                 *)
(*                                                                         *)
(* An edit is what it changes: which backends a profile has and in which   *)
(* order, which of them have an API key, and the default one.  Errors of   *)
(* the file system itself are left out; a crash is not.                    *)
(***************************************************************************)
EXTENDS BackendState, FiniteSets

CONSTANTS
    Handlers,       \* requests the web UI serves at a time
    Mode,           \* cli_mode of the running instance
    NeedsKey,       \* backends that are configured only with a key
    FirstConfig,    \* what the file holds at first
    Edits,          \* requests to the web UI
    Settings,       \* settings the user may apply
    Passwords,      \* passwords the user may set
    MaxJobs, MaxCrashes     \* bounds, for model checking only

Modes == {"claude", "copilot"}

CliProfile == [ backends : Seq(Backends), active : Backends,
                keys : SUBSET Backends, claude_settings : Nat ]

Config == [claude : CliProfile, copilot : CliProfile, webui : Nat]

\* The requests that edit: put_config, post_copy_backend, post_active_backend.
PutEdit == [ op : {"put"}, target : Modes, backends : Seq(Backends), active : Backends,
             given : SUBSET Backends, cleared : SUBSET Backends ]

CopyEdit == [ op : {"copy"}, source : Modes, name : Backends,
              target : Modes, new_name : Backends ]

ActiveEdit == [op : {"active"}, target : Modes, name : Backends]

EditType == PutEdit \cup CopyEdit \cup ActiveEdit

ASSUME StoreAssumption ==
    /\ Mode \in Modes
    /\ NeedsKey \subseteq Backends
    /\ FirstConfig \in Config
    /\ "claude" \in Backends
    /\ Edits \subseteq EditType
    /\ {"bridge", "passwd"} \cap Handlers = {}
    /\ Settings \subseteq Nat /\ Passwords \subseteq Nat
    /\ {MaxJobs, MaxCrashes} \subseteq Nat

VARIABLES
    file,       \* <<>> empty, <<c>> a config, <<c, d>> c and then the end of d
    lock,       \* who holds the exclusive lock across steps
    store,      \* ConfigStore.inner, the instance's copy
    task,       \* what each writer is doing
    up,         \* the instance runs
    jobs, crashes,  \* how many there have been
    serial,     \* history: the edits that were written, one after the other
    disturbed   \* history: two jobs overlapped, or a crash cut one off

storeVars == <<file, lock, store, task, up, jobs, crashes, serial, disturbed>>
configVars == <<backendVars, storeVars>>

Tasks == Handlers \cup {"bridge", "passwd"}

Idle == [at |-> "idle"]

Busy == {t \in Tasks : task[t].at # "idle"}

------------------------------------------------------------------------------
(* The file *)

NoProfile == [backends |-> <<>>, active |-> "claude", keys |-> {}, claude_settings |-> 0]

\* What an empty file is parsed as: every section is its default.
EmptyConfig == [claude |-> NoProfile, copilot |-> NoProfile, webui |-> 0]

\* Config::default(), which has a backend.
DefaultConfig == [EmptyConfig EXCEPT !.claude.backends = <<"claude">>]

Parses(contents) == Len(contents) <= 1

Parsed(contents) == IF contents = <<>> THEN EmptyConfig ELSE contents[1]

\* How long the file is; an entry more makes it longer.
LengthOf(c) ==
    LET Profile(p) == Len(p.backends) + Cardinality(p.keys)
                        + (IF p.claude_settings = 0 THEN 0 ELSE 1)
    IN  Profile(c.claude) + Profile(c.copilot) + (IF c.webui = 0 THEN 0 ELSE 1)

\* c is written at the start of contents, and what is longer stays.
Overwritten(contents, c) ==
    IF contents = <<>> \/ LengthOf(c) >= LengthOf(contents[Len(contents)])
    THEN <<c>>
    ELSE <<c, contents[Len(contents)]>>

------------------------------------------------------------------------------
(* What a request does to a config *)

\* validate_for: Copilot's profile may be empty.
ValidFor(mode, profile) ==
    IF profile.backends = <<>> THEN mode = "copilot"
    ELSE /\ HasBackend(profile, profile.active)
         /\ profile.active \in NeedsKey => profile.active \in profile.keys

\* Mutant of KeysAfter: a key that is not sent is cleared.
KeysGiven(old, edit) == {b \in Range(edit.backends) : b \in edit.given}

\* dto_to_backend: a key is set, cleared, or kept when the browser, which is
\* never shown it, says nothing of it.
KeysAfter(old, edit) ==
    {b \in Range(edit.backends) : b \in edit.given \/ (b \in old \ edit.cleared)}

PutProfile(profile, edit) ==
    SelfHealActive([profile EXCEPT !.backends = edit.backends, !.active = edit.active,
                                   !.keys = KeysAfter(profile.keys, edit)])

CopyInto(profile, source, edit) ==
    SelfHealActive([profile EXCEPT
        !.backends = Append(@, edit.new_name),
        !.keys = IF edit.name \in source.keys THEN @ \cup {edit.new_name} ELSE @])

Edited(c, edit) ==
    CASE edit.op = "put"      -> [c EXCEPT ![edit.target] = PutProfile(@, edit)]
      [] edit.op = "copy"     -> [c EXCEPT ![edit.target] = CopyInto(@, c[edit.source], edit)]
      [] edit.op = "active"   -> [c EXCEPT ![edit.target].active = edit.name]
      [] edit.op = "settings" -> [c EXCEPT !.claude.claude_settings = edit.value]
      [] edit.op = "passwd"   -> [c EXCEPT !.webui = edit.value]

\* The checks of the three handlers, made on their copy.
Accepted(c, edit) ==
    CASE edit.op = "put"    -> ValidFor(edit.target, Edited(c, edit)[edit.target])
      [] edit.op = "copy"   -> /\ HasBackend(c[edit.source], edit.name)
                               /\ ~HasBackend(c[edit.target], edit.new_name)
                               /\ ValidFor(edit.target, Edited(c, edit)[edit.target])
      [] edit.op = "active" -> HasBackend(c[edit.target], edit.name)

------------------------------------------------------------------------------
(* Beginning and ending a job *)

Begin(t, at, edit, c) ==
    /\ task[t] = Idle
    /\ jobs < MaxJobs
    /\ jobs' = jobs + 1
    /\ disturbed' = (disturbed \/ Busy # {})
    /\ task' = [u \in Tasks |->
                  CASE u = t    -> [at |-> at, edit |-> edit, config |-> c,
                                    read |-> c, alone |-> Busy = {}]
                    [] u \in Busy -> [task[u] EXCEPT !.alone = FALSE]
                    [] OTHER    -> task[u]]

Go(t, at) == task' = [task EXCEPT ![t].at = at]

End(t) == task' = [task EXCEPT ![t] = Idle]

------------------------------------------------------------------------------
(* save_config: the open truncates, and only then the lock is taken. *)

\* Mutant of Truncate: the file keeps its length.
OpenOnly(t) ==
    /\ task[t].at = "save"
    /\ Go(t, "opened")
    /\ UNCHANGED <<backendVars, file, lock, store, up, jobs, crashes, serial, disturbed>>

Truncate(t) ==
    /\ task[t].at = "save"
    /\ file' = <<>>
    /\ Go(t, "opened")
    /\ UNCHANGED <<backendVars, lock, store, up, jobs, crashes, serial, disturbed>>

\* Mutant of LockFree: the lock is not waited for.
NoLock == TRUE

LockFree == lock = "none"

Write(t) ==
    /\ task[t].at = "opened"
    /\ LockFree
    /\ file' = Overwritten(file, task[t].config)
    /\ serial' = Edited(serial, task[t].edit)
    /\ IF t = "passwd" THEN End(t) ELSE Go(t, "saved")
    /\ UNCHANGED <<backendVars, lock, store, up, jobs, crashes, disturbed>>

------------------------------------------------------------------------------
(* The web UI *)

\* post_active_backend switches the running instance before anything else.
Call(t, edit) ==
    /\ up
    /\ Begin(t, "called", edit, EmptyConfig)
    /\ IF edit.op = "active" /\ edit.target = Mode
       THEN HasBackend(config, edit.name) /\ SwitchBackend(edit.name)
       ELSE UNCHANGED backendVars
    /\ UNCHANGED <<file, lock, store, up, crashes, serial>>

\* The copy is read, edited and checked.
Get(t) ==
    /\ task[t].at = "called"
    /\ IF Accepted(store, task[t].edit)
       THEN task' = [task EXCEPT ![t].at = "save", ![t].config = Edited(store, task[t].edit)]
       ELSE End(t)
    /\ UNCHANGED <<backendVars, file, lock, store, up, jobs, crashes, serial, disturbed>>

\* Put and copy tell the running instance, if it is its profile they edit.
NeedsUpdate(edit) == edit.op # "active" /\ edit.target = Mode

AfterReload(t) == IF NeedsUpdate(task[t].edit) THEN Go(t, "update") ELSE End(t)

\* Mutant of ReloadRead: a file that does not parse is tried again.
ReloadReadAgain(t) ==
    /\ task[t].at = "saved"
    /\ LockFree
    /\ Parses(file)
    /\ task' = [task EXCEPT ![t].at = "read", ![t].read = Parsed(file)]
    /\ UNCHANGED <<backendVars, file, lock, store, up, jobs, crashes, serial, disturbed>>

\* reload reads the file; if it does not parse, the old copy stays.
ReloadRead(t) ==
    /\ task[t].at = "saved"
    /\ LockFree
    /\ IF Parses(file)
       THEN task' = [task EXCEPT ![t].at = "read", ![t].read = Parsed(file)]
       ELSE AfterReload(t)
    /\ UNCHANGED <<backendVars, file, lock, store, up, jobs, crashes, serial, disturbed>>

\* Mutant of ReloadInstall: what was read is not installed.
ReloadForgets(t) ==
    /\ task[t].at = "read"
    /\ AfterReload(t)
    /\ UNCHANGED <<backendVars, file, lock, store, up, jobs, crashes, serial, disturbed>>

ReloadInstall(t) ==
    /\ task[t].at = "read"
    /\ store' = task[t].read
    /\ AfterReload(t)
    /\ UNCHANGED <<backendVars, file, lock, up, jobs, crashes, serial, disturbed>>

\* Mutant of Update: the instance keeps its profile.
UpdateSkipped(t) ==
    /\ task[t].at = "update"
    /\ End(t)
    /\ UNCHANGED <<backendVars, file, lock, store, up, jobs, crashes, serial, disturbed>>

Running(profile) == [backends |-> profile.backends, active |-> profile.active]

Update(t) ==
    /\ task[t].at = "update"
    /\ UpdateConfig(Running(task[t].config[Mode]))
    /\ End(t)
    /\ UNCHANGED <<file, lock, store, up, jobs, crashes, serial, disturbed>>

------------------------------------------------------------------------------
(* save_claude_settings reads and writes under the lock, whatever the mode. *)

SettingsRead(value) ==
    LET base == IF file = <<>> THEN DefaultConfig ELSE file[1]
        edit == [op |-> "settings", value |-> value]
    IN  /\ up
        /\ LockFree
        /\ Parses(file)
        /\ Begin("bridge", "settings", edit, base)
        /\ lock' = "bridge"
        /\ UNCHANGED <<backendVars, file, store, up, crashes, serial>>

\* set_len(0).
SettingsTruncate ==
    /\ task["bridge"].at = "settings"
    /\ file' = <<>>
    /\ Go("bridge", "emptied")
    /\ UNCHANGED <<backendVars, lock, store, up, jobs, crashes, serial, disturbed>>

SettingsWrite ==
    /\ task["bridge"].at = "emptied"
    /\ file' = Overwritten(file, Edited(task["bridge"].config, task["bridge"].edit))
    /\ serial' = Edited(serial, task["bridge"].edit)
    /\ lock' = "none"
    /\ End("bridge")
    /\ UNCHANGED <<backendVars, store, up, jobs, crashes, disturbed>>

------------------------------------------------------------------------------
(* anycode passwd loads the file, asks the user, and saves all of it. *)

PasswdLoad(value) ==
    LET edit == [op |-> "passwd", value |-> value]
    IN  /\ LockFree
        /\ Parses(file)
        /\ Begin("passwd", "save", edit, Edited(Parsed(file), edit))
        /\ UNCHANGED <<backendVars, file, lock, store, up, crashes, serial>>

------------------------------------------------------------------------------
(* The instance *)

InstanceBusy == Busy \ {"passwd"}

Crash ==
    /\ up
    /\ crashes < MaxCrashes
    /\ crashes' = crashes + 1
    /\ up' = FALSE
    /\ task' = [t \in Tasks |-> IF t = "passwd" THEN task[t] ELSE Idle]
    /\ lock' = "none"
    /\ disturbed' = (disturbed \/ InstanceBusy # {})
    /\ UNCHANGED <<backendVars, file, store, jobs, serial>>

\* run_main and from_config refuse a profile without its backends.
Start ==
    /\ ~up
    /\ LockFree
    /\ Parses(file)
    /\ LET profile == Parsed(file)[Mode]
       IN  /\ HasBackend(profile, profile.active)
           /\ active_backend' = DefaultBackend(profile)
           /\ config' = Running(profile)
           /\ switch_log' = <<Switched(NoName, DefaultBackend(profile))>>
    /\ store' = Parsed(file)
    /\ up' = TRUE
    /\ UNCHANGED <<file, lock, task, jobs, crashes, serial, disturbed>>

StoreInit ==
    /\ FromConfig(Running(FirstConfig[Mode]))
    /\ file = <<FirstConfig>>
    /\ lock = "none"
    /\ store = FirstConfig
    /\ task = [t \in Tasks |-> Idle]
    /\ up = TRUE
    /\ jobs = 0 /\ crashes = 0
    /\ serial = FirstConfig
    /\ disturbed = FALSE

Proceed(t) ==
    \/ Get(t) \/ Truncate(t) \/ Write(t)
    \/ ReloadRead(t) \/ ReloadInstall(t) \/ Update(t)

StoreNext ==
    \/ \E t \in Handlers, edit \in Edits : Call(t, edit)
    \/ \E t \in Tasks : Proceed(t)
    \/ \E value \in Settings : SettingsRead(value)
    \/ SettingsTruncate
    \/ SettingsWrite
    \/ \E value \in Passwords : PasswdLoad(value)
    \/ Crash
    \/ Start

StoreSpec == StoreInit /\ [][StoreNext]_configVars

(* A job that has begun is run on, unless the instance crashes. *)
StoreFairSpec ==
    /\ StoreSpec
    /\ \A t \in Tasks : WF_configVars(Proceed(t))
    /\ WF_configVars(SettingsTruncate) /\ WF_configVars(SettingsWrite)

------------------------------------------------------------------------------
(* Properties *)

Points == {"called", "save", "opened", "saved", "read", "update", "settings", "emptied"}

(* Types; the lock is held across steps by the bridge in the middle of a   *)
(* save and by nobody else, and a torn file is never what was loaded.      *)
StoreTypeOK ==
    /\ file \in Seq(Config) /\ Len(file) <= 2
    /\ store \in Config /\ serial \in Config
    /\ \A t \in Busy : task[t].at \in Points /\ task[t].config \in Config
    /\ (lock = "bridge") <=> (task["bridge"].at \in {"settings", "emptied"})
    /\ up \/ InstanceBusy = {}
    /\ jobs <= MaxJobs /\ crashes <= MaxCrashes

ProfilePart(c) ==
    [m \in Modes |-> [c[m] EXCEPT !.claude_settings = 0]]

(* As long as jobs do not overlap and no crash cuts one off, the file and  *)
(* the copy in memory are those that the edits make one after the other:   *)
(* each handler edits a copy that has the edits before it.  (Settings and  *)
(* password are another matter, see SettingsSurviveEdits.)                 *)
EditsAreSerial ==
    (~disturbed /\ Busy = {}) =>
        /\ Len(file) = 1
        /\ ProfilePart(file[1]) = ProfilePart(serial)
        /\ up => ProfilePart(store) = ProfilePart(serial)

(* Then the running instance has the backends that the file gives its      *)
(* profile, unless the file gives it none, which the instance refuses; and *)
(* its active backend is one of those it has, even where jobs overlap.     *)
InstanceFollowsFile ==
    /\ StoreTypeOK
    /\ ActiveIsConfigured
    /\ ~disturbed /\ Busy = {} /\ up /\ serial[Mode].backends # <<>> =>
          config.backends = serial[Mode].backends

(* A save that no other job overlaps leaves a file that parses, whatever   *)
(* earlier races and crashes made of it.                                   *)
SoleSaveRepairs ==
    [][\A t \in Tasks : (/\ task[t].at = "opened" /\ task[t].alone
                         /\ task'[t].at # "opened" /\ up' = up)
            => file' = <<task[t].config>>]_configVars

(* From the moment the settings are read until they are written back, no   *)
(* other writer's edit gets into the file, where it would be undone; a     *)
(* truncation may.                                                         *)
SettingsUndoNoEdit ==
    [][/\ task["bridge"].at = "settings" /\ task'["bridge"].at = "emptied"
            => file \in {<<>>, <<task["bridge"].config>>}
       /\ task["bridge"].at = "emptied" /\ task'["bridge"].at = "idle" /\ up'
            => file = <<>>]_configVars

(* A key that the browser does not mention is kept: it is gone only if the *)
(* edit clears it or drops its backend.                                    *)
KeysKept ==
    [][\A t \in Handlers : (task[t].at = "opened" /\ task'[t].at = "saved" /\ ~disturbed)
            => \A m \in Modes : \A b \in serial[m].keys :
                  \/ b \in file'[1][m].keys
                  \/ ~HasBackend(file'[1][m], b)
                  \/ /\ task[t].edit.op = "put"
                     /\ m = task[t].edit.target
                     /\ b \in task[t].edit.cleared]_configVars

(* Every job ends: nobody keeps a lock that another waits for.             *)
JobsEnd == \A t \in Tasks : []<>(t \notin Busy)

(* put_config says that "claude_settings is preserved" (api.rs:255): as    *)
(* long as jobs do not overlap, the settings in the file are the last ones *)
(* that were saved.  The code does not keep this, and no run checks it.    *)
SettingsSurviveEdits ==
    (~disturbed /\ Busy = {}) =>
        file[1].claude.claude_settings = serial.claude.claude_settings
=============================================================================
