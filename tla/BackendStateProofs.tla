---------------------------- MODULE BackendStateProofs ----------------------------
(***************************************************************************)
(* BackendState, proved: the type of its state, and that the active        *)
(* backend is always a configured one, for every set of backends and of    *)
(* profiles.                                                               *)
(***************************************************************************)
EXTENDS BackendState, TLAPS

\* A name found in a profile is the name of a backend.
LEMMA HasBackendType ==
    ASSUME NEW profile \in ProfileType, NEW b, HasBackend(profile, b)
    PROVE  b \in Backends
BY DEF HasBackend, Range, ProfileType

\* A profile from_config or update_config accepts has a usable default as soon
\* as its default, if it names one, exists; and a default in any case.
LEMMA DefaultBackendType ==
    ASSUME NEW profile \in ProfileType, profile.backends # << >>
    PROVE  DefaultBackend(profile) \in Backends
BY DEF DefaultBackend, ProfileType, Option

LEMMA DefaultBackendConfigured ==
    ASSUME NEW profile \in ProfileType, profile.backends # << >>,
           profile.active = NoName \/ HasBackend(profile, profile.active)
    PROVE  HasBackend(profile, DefaultBackend(profile))
<1>1. profile.backends \in Seq(Backends)
    BY DEF ProfileType
<1>2. 1 \in DOMAIN profile.backends
    BY <1>1
<1> QED
    BY <1>2 DEF DefaultBackend, HasBackend, Range

\* self_heal_active leaves a profile whose default exists, if it has backends.
LEMMA SelfHealActiveHeals ==
    ASSUME NEW profile \in ProfileType
    PROVE  /\ SelfHealActive(profile) \in ProfileType
           /\ SelfHealActive(profile).backends # << >> =>
                HasBackend(SelfHealActive(profile), SelfHealActive(profile).active)
<1>1. CASE profile.backends # << >> /\ ~HasBackend(profile, profile.active)
    <2>1. profile.backends \in Seq(Backends) /\ 1 \in DOMAIN profile.backends
        BY <1>1 DEF ProfileType
    <2>2. profile.backends[1] \in Backends
        BY <2>1
    <2> QED
        BY <1>1, <2>1, <2>2 DEF SelfHealActive, ProfileType, Option, HasBackend, Range
<1>2. CASE ~(profile.backends # << >> /\ ~HasBackend(profile, profile.active))
    BY <1>2 DEF SelfHealActive
<1> QED
    BY <1>1, <1>2

-----------------------------------------------------------------------------
(* One lemma per operation, for the modules that use them as well. *)

BackendInv == BackendTypeOK /\ ActiveIsConfigured

LEMMA BackendInitInv == BackendInit => BackendInv
<1> SUFFICES ASSUME NEW profile \in Profiles, FromConfig(profile)
             PROVE  BackendInv
    BY DEF BackendInit
<1>1. profile \in ProfileType
    BY ProfilesAssumption
<1>2. DefaultBackend(profile) \in Backends /\ HasBackend(profile, DefaultBackend(profile))
    BY <1>1, DefaultBackendType, DefaultBackendConfigured DEF FromConfig
<1>3. Switched(NoName, DefaultBackend(profile)) \in [old : Option(Backends), new : Backends]
    BY <1>2 DEF Switched, Option
<1> QED
    BY <1>1, <1>2, <1>3 DEF FromConfig, BackendInv, BackendTypeOK, ActiveIsConfigured

\* switch_backend.
LEMMA SwitchBackendInv ==
    ASSUME BackendInv, NEW b, SwitchBackend(b)
    PROVE  BackendInv'
<1>1. CASE UNCHANGED backendVars
    BY <1>1 DEF BackendInv, BackendTypeOK, ActiveIsConfigured, HasBackend, backendVars
<1>2. CASE /\ HasBackend(config, b)
           /\ switch_log' = Append(switch_log, Switched(active_backend, b))
           /\ active_backend' = b
           /\ UNCHANGED config
    <2>1. b \in Backends
        BY <1>2, HasBackendType DEF BackendInv, BackendTypeOK
    <2>2. Switched(active_backend, b) \in [old : Option(Backends), new : Backends]
        BY <2>1 DEF BackendInv, BackendTypeOK, Switched, Option
    <2> QED
        BY <1>2, <2>1, <2>2 DEF BackendInv, BackendTypeOK, ActiveIsConfigured, HasBackend
<1> QED
    BY <1>1, <1>2 DEF SwitchBackend

\* update_config, of a profile whose default exists unless it has no backends.
LEMMA UpdateConfigInv ==
    ASSUME BackendInv, NEW profile \in ProfileType, UpdateConfig(profile),
           profile.backends # << >> => HasBackend(profile, profile.active)
    PROVE  BackendInv'
<1>1. CASE profile.backends = << >>
    BY <1>1 DEF UpdateConfig, BackendInv, BackendTypeOK, ActiveIsConfigured,
                HasBackend, backendVars
<1>2. CASE profile.backends # << >> /\ HasBackend(profile, active_backend)
    BY <1>2 DEF UpdateConfig, BackendInv, BackendTypeOK, ActiveIsConfigured, HasBackend
<1>3. CASE profile.backends # << >> /\ ~HasBackend(profile, active_backend)
    <2>1. /\ DefaultBackend(profile) \in Backends
          /\ HasBackend(profile, DefaultBackend(profile))
        BY <1>3, DefaultBackendType, DefaultBackendConfigured
    <2>2. Switched(active_backend, DefaultBackend(profile))
                \in [old : Option(Backends), new : Backends]
        BY <2>1 DEF BackendInv, BackendTypeOK, Switched, Option
    <2>3. /\ config' = profile
          /\ active_backend' = DefaultBackend(profile)
          /\ switch_log' = Append(switch_log,
                               Switched(active_backend, DefaultBackend(profile)))
        BY <1>3 DEF UpdateConfig
    <2>4. ActiveIsConfigured'
        BY <2>1, <2>3 DEF ActiveIsConfigured, HasBackend
    <2>5. BackendTypeOK'
        BY <2>1, <2>2, <2>3 DEF BackendInv, BackendTypeOK
    <2> QED
        BY <2>4, <2>5 DEF BackendInv
<1> QED
    BY <1>1, <1>2, <1>3

\* put_config.
LEMMA PutConfigInv ==
    ASSUME BackendInv, NEW profile \in Profiles, PutConfig(profile)
    PROVE  BackendInv'
<1>1. /\ SelfHealActive(profile) \in ProfileType
      /\ SelfHealActive(profile).backends # << >> =>
            HasBackend(SelfHealActive(profile), SelfHealActive(profile).active)
    BY ProfilesAssumption, SelfHealActiveHeals
<1>2. UpdateConfig(SelfHealActive(profile))
    BY DEF PutConfig
<1> QED
    BY <1>1, <1>2, UpdateConfigInv

-----------------------------------------------------------------------------
(* The switch log. *)

\* One more entry, from the active backend to another one.
LEMMA ReplayGrows ==
    ASSUME BackendTypeOK, SwitchLogReplays, NEW b \in Backends, b # active_backend,
           switch_log' = Append(switch_log, Switched(active_backend, b)),
           active_backend' = b
    PROVE  SwitchLogReplays'
<1> DEFINE e == Switched(active_backend, b)
           E == [old : Option(Backends), new : Backends]
           n == Len(switch_log)
<1>1. e \in E /\ e.old = active_backend /\ e.new = b
    BY DEF BackendTypeOK, Switched, Option
<1>2. switch_log \in Seq(E) /\ n \in Nat /\ n > 0
    BY DEF BackendTypeOK, SwitchLogReplays
<1>3. switch_log' = Append(switch_log, e)
    OBVIOUS
<1> HIDE DEF e, E
<1>4. /\ Len(switch_log') = n + 1
      /\ \A i \in 1..n : switch_log'[i] = switch_log[i]
      /\ switch_log'[n + 1] = e
    BY <1>1, <1>2, <1>3
<1>5. switch_log' # << >> /\ switch_log'[1].old = NoName
    BY <1>2, <1>3, <1>4 DEF SwitchLogReplays
<1>6. \A i \in 1..(Len(switch_log') - 1) : switch_log'[i + 1].old = switch_log'[i].new
    <2> TAKE i \in 1..(Len(switch_log') - 1)
    <2>1. CASE i = n
        BY <1>1, <1>2, <1>4, <2>1 DEF SwitchLogReplays
    <2>2. CASE i # n
        BY <1>2, <1>4, <2>2 DEF SwitchLogReplays
    <2> QED
        BY <2>1, <2>2
<1>7. \A i \in 1..Len(switch_log') : switch_log'[i].old # switch_log'[i].new
    BY <1>1, <1>2, <1>4 DEF SwitchLogReplays
<1>8. switch_log'[Len(switch_log')].new = active_backend'
    BY <1>1, <1>2, <1>4
<1> QED
    BY <1>5, <1>6, <1>7, <1>8 DEF SwitchLogReplays

LEMMA SwitchBackendReplays ==
    ASSUME BackendInv, SwitchLogReplays, NEW b, SwitchBackend(b)
    PROVE  SwitchLogReplays'
<1>1. CASE UNCHANGED backendVars
    BY <1>1 DEF SwitchLogReplays, backendVars
<1>2. CASE HasBackend(config, b) /\ active_backend # b
    BY <1>2, HasBackendType, ReplayGrows DEF SwitchBackend, BackendInv, BackendTypeOK
<1> QED
    BY <1>1, <1>2 DEF SwitchBackend

LEMMA PutConfigReplays ==
    ASSUME BackendInv, SwitchLogReplays, NEW profile \in Profiles, PutConfig(profile)
    PROVE  SwitchLogReplays'
<1> DEFINE healed == SelfHealActive(profile)
<1>1. /\ healed \in ProfileType
      /\ healed.backends # << >> => HasBackend(healed, healed.active)
    BY ProfilesAssumption, SelfHealActiveHeals
<1>2. UpdateConfig(healed)
    BY DEF PutConfig
<1> HIDE DEF healed
<1>3. CASE UNCHANGED <<active_backend, switch_log>>
    BY <1>3 DEF SwitchLogReplays
<1>4. CASE healed.backends # << >> /\ ~HasBackend(healed, active_backend)
    <2>1. DefaultBackend(healed) \in Backends /\ HasBackend(healed, DefaultBackend(healed))
        BY <1>1, <1>4, DefaultBackendType, DefaultBackendConfigured
    <2>2. DefaultBackend(healed) # active_backend
        BY <1>4, <2>1
    <2> QED
        BY <1>2, <1>4, <2>1, <2>2, ReplayGrows DEF UpdateConfig, BackendInv
<1> QED
    BY <1>2, <1>3, <1>4 DEF UpdateConfig, backendVars

-----------------------------------------------------------------------------

BackendSafety == BackendInv /\ SwitchLogReplays

LEMMA BackendInductive ==
    /\ BackendInit => BackendSafety
    /\ BackendSafety /\ [BackendNext]_backendVars => BackendSafety'
<1>1. ASSUME NEW profile \in Profiles, FromConfig(profile)
      PROVE  SwitchLogReplays
    <2>1. DefaultBackend(profile) # NoName
        BY <1>1, ProfilesAssumption, DefaultBackendType, NoNameAssumption DEF FromConfig
    <2> QED
        BY <1>1, <2>1 DEF FromConfig, SwitchLogReplays, Switched
<1>2. BackendInit => BackendSafety
    BY <1>1, BackendInitInv DEF BackendInit, BackendSafety
<1>3. ASSUME BackendSafety, [BackendNext]_backendVars
      PROVE  BackendSafety'
    <2>1. CASE UNCHANGED backendVars
        BY <1>3, <2>1 DEF BackendSafety, BackendInv, BackendTypeOK, ActiveIsConfigured,
                          SwitchLogReplays, HasBackend, backendVars
    <2>2. ASSUME NEW b \in Backends, SwitchBackend(b)
          PROVE  BackendSafety'
        BY <1>3, <2>2, SwitchBackendInv, SwitchBackendReplays DEF BackendSafety
    <2>3. ASSUME NEW profile \in Profiles, PutConfig(profile)
          PROVE  BackendSafety'
        BY <1>3, <2>3, PutConfigInv, PutConfigReplays DEF BackendSafety
    <2> QED
        BY <1>3, <2>1, <2>2, <2>3 DEF BackendNext
<1> QED
    BY <1>2, <1>3

\* Whatever sequence of switches and config updates the running instance goes
\* through, its active backend is one of the configured ones: the state
\* get_active_backend_config calls impossible is unreachable.
THEOREM ActiveBackendIsConfigured == BackendSpec => []ActiveIsConfigured
<1> QED
    BY BackendInductive, PTL DEF BackendSpec, BackendSafety, BackendInv

\* The switch log, started by from_config and grown by switch_backend and
\* update_config, always replays to the active backend.
THEOREM SwitchLogIsComplete == BackendSpec => []SwitchLogReplays
<1> QED
    BY BackendInductive, PTL DEF BackendSpec, BackendSafety
=============================================================================
