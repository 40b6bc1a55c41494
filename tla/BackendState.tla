------------------------------ MODULE BackendState ------------------------------
(***************************************************************************)
(* The running instance's backend table: src/backend/state.rs,             *)
(* BackendState.  All of it sits behind one RwLock, so every operation is  *)
(* one action.  A backend is its name: nothing here looks at its URL or    *)
(* key.  A profile is the part of a CliProfile the code decides on, the    *)
(* list of backends and defaults.active.                                   *)
(***************************************************************************)
EXTENDS BackendNames, Naturals, Sequences, Functions

CONSTANTS
    Profiles,       \* the profiles a config update may install
    MaxSwitches     \* bound on the switch log, for model checking only

ProfileType == [backends : Seq(Backends), active : Option(Backends)]

ASSUME ProfilesAssumption == Profiles \subseteq ProfileType

ASSUME MaxSwitchesAssumption == MaxSwitches \in Nat

VARIABLES
    active_backend, \* name of the active backend
    config,         \* the profile in force
    switch_log      \* every change of active_backend, oldest first

backendVars == <<active_backend, config, switch_log>>

HasBackend(profile, b) == b \in Range(profile.backends)

\* The backend a profile starts with when nothing says otherwise.
DefaultBackend(profile) ==
    IF profile.active = NoName THEN profile.backends[1] ELSE profile.active

\* A log entry; its timestamp is its position in the log.
Switched(from, to) == [old |-> from, new |-> to]

FromConfig(profile) ==
    /\ profile.backends # << >>
    /\ profile.active = NoName \/ HasBackend(profile, profile.active)
    /\ active_backend = DefaultBackend(profile)
    /\ config = profile
    /\ switch_log = <<Switched(NoName, DefaultBackend(profile))>>

BackendInit == \E profile \in Profiles : FromConfig(profile)

\* switch_backend: an unknown name is an error that changes nothing, the
\* active one is a success that changes nothing.
SwitchBackend(b) ==
    IF ~HasBackend(config, b) \/ active_backend = b
    THEN UNCHANGED backendVars
    ELSE /\ switch_log' = Append(switch_log, Switched(active_backend, b))
         /\ active_backend' = b
         /\ UNCHANGED config

\* Mutant of UpdateConfig: a dropped active backend stays active.
UpdateProfileOnly(profile) ==
    IF profile.backends = << >>
    THEN UNCHANGED backendVars
    ELSE config' = profile /\ UNCHANGED <<active_backend, switch_log>>

\* update_config: an empty profile is refused; the active backend survives
\* unless the new profile dropped it.
UpdateConfig(profile) ==
    IF profile.backends = << >>
    THEN UNCHANGED backendVars
    ELSE /\ config' = profile
         /\ IF HasBackend(profile, active_backend)
            THEN UNCHANGED <<active_backend, switch_log>>
            ELSE /\ active_backend' = DefaultBackend(profile)
                 /\ switch_log' = Append(switch_log,
                                      Switched(active_backend, DefaultBackend(profile)))

\* validate_for, as far as the names go: the command-line profile may be empty
\* (Copilot's is allowed to be), otherwise its active backend must exist.
Validated(profile) ==
    profile.backends = << >> \/ HasBackend(profile, profile.active)

\* self_heal_active: an active name that is not in the list becomes the first.
SelfHealActive(profile) ==
    IF profile.backends # << >> /\ ~HasBackend(profile, profile.active)
    THEN [profile EXCEPT !.active = profile.backends[1]]
    ELSE profile

\* What the web UI's put_config does to the running instance.
PutConfig(profile) ==
    /\ Validated(SelfHealActive(profile))
    /\ UpdateConfig(SelfHealActive(profile))

LogBounded == Len(switch_log') <= MaxSwitches + 1

BackendNext ==
    /\ \/ \E b \in Backends : SwitchBackend(b)
       \/ \E profile \in Profiles : PutConfig(profile)
    /\ LogBounded

BackendSpec == BackendInit /\ [][BackendNext]_backendVars

-----------------------------------------------------------------------------

BackendTypeOK ==
    /\ active_backend \in Backends
    /\ config \in ProfileType
    /\ switch_log \in Seq([old : Option(Backends), new : Backends])

\* The active backend is one of the configured ones, whatever mixture of
\* switches and config updates led here, so that get_active_backend_config
\* (which documents its error as "shouldn't happen") has an answer.
ActiveIsConfigured == HasBackend(config, active_backend)

\* The switch log replays to the active backend: it starts from nothing, each
\* entry takes over where the one before left off, none is a switch to itself,
\* and the last names the active backend.
SwitchLogReplays ==
    /\ switch_log # << >>
    /\ switch_log[1].old = NoName
    /\ \A i \in 1..(Len(switch_log) - 1) : switch_log[i + 1].old = switch_log[i].new
    /\ \A i \in 1..Len(switch_log) : switch_log[i].old # switch_log[i].new
    /\ switch_log[Len(switch_log)].new = active_backend
=============================================================================
