----------------------------- MODULE ControlProofs -----------------------------
(***************************************************************************)
(* The two ways to control a running proxy: ConfigStore, the file behind   *)
(* the web UI, and UiControl, the dialogs behind the terminal.             *)
(*                                                                         *)
(* ConfigStore is proved for any number of handlers, any edits and any     *)
(* bound on jobs and crashes: edits that do not overlap are serial, the    *)
(* running instance follows the file, a save that nobody overlaps repairs  *)
(* a torn file, the settings undo no edit, and a key nobody mentions is    *)
(* kept.                                                                   *)
(*                                                                         *)
(* UiControl is proved for any number of backends, keys, timeouts and      *)
(* queued commands, and for every capacity of the queues.                  *)
(***************************************************************************)
EXTENDS ConfigStore, UiControl, BackendStateProofs, SequenceLemmas

-----------------------------------------------------------------------------
(* ConfigStore. *)


(* What an edit makes of a profile and of a config.  Settings and password *)
(* are left out of the comparison, as in ProfilePart.                      *)

BridgeEdit == [op : {"settings"}, value : Nat]

PasswdEdit == [op : {"passwd"}, value : Nat]

AnyEdit == EditType \cup BridgeEdit \cup PasswdEdit

SameProfile(p, q) ==
    p.backends = q.backends /\ p.active = q.active /\ p.keys = q.keys

SameProfiles(c, d) == \A m \in Modes : SameProfile(c[m], d[m])

LEMMA ConfigHasProfiles ==
    ASSUME NEW c \in Config, NEW m \in Modes
    PROVE  c[m] \in CliProfile
<1>1. CASE m = "claude"
    BY <1>1 DEF Config
<1>2. CASE m = "copilot"
    BY <1>2 DEF Config
<1> QED
    BY <1>1, <1>2 DEF Modes

\* One profile of a config is replaced, and only that one.
LEMMA ConfigWith ==
    ASSUME NEW c \in Config, NEW m \in Modes, NEW p \in CliProfile
    PROVE  /\ [c EXCEPT ![m] = p] \in Config
           /\ \A n \in Modes : [c EXCEPT ![m] = p][n] = IF n = m THEN p ELSE c[n]
<1>1. CASE m = "claude"
    BY <1>1 DEF Config, Modes
<1>2. CASE m = "copilot"
    BY <1>2 DEF Config, Modes
<1> QED
    BY <1>1, <1>2 DEF Modes

\* Healing moves the default backend only, and into the list.
LEMMA HealKeepsType ==
    ASSUME NEW p \in CliProfile
    PROVE  /\ SelfHealActive(p) \in CliProfile
           /\ SelfHealActive(p).backends = p.backends
           /\ SelfHealActive(p).keys = p.keys
           /\ SelfHealActive(p).active =
                IF p.backends # <<>> /\ ~HasBackend(p, p.active) THEN p.backends[1] ELSE p.active
<1>1. CASE p.backends # <<>> /\ ~HasBackend(p, p.active)
    <2>1. p.backends \in Seq(Backends) /\ p.backends[1] \in Backends
        BY <1>1 DEF CliProfile
    <2>2. SelfHealActive(p) = [p EXCEPT !.active = p.backends[1]]
        BY <1>1 DEF SelfHealActive
    <2> QED
        BY <1>1, <2>1, <2>2 DEF CliProfile
<1>2. CASE ~(p.backends # <<>> /\ ~HasBackend(p, p.active))
    BY <1>2 DEF SelfHealActive
<1> QED
    BY <1>1, <1>2

LEMMA HealKeepsSame ==
    ASSUME NEW p \in CliProfile, NEW q \in CliProfile, SameProfile(p, q)
    PROVE  SameProfile(SelfHealActive(p), SelfHealActive(q))
<1>1. HasBackend(p, p.active) <=> HasBackend(q, q.active)
    BY DEF SameProfile, HasBackend
<1> QED
    BY <1>1, HealKeepsType DEF SameProfile

LEMMA PutProfileType ==
    ASSUME NEW p \in CliProfile, NEW e \in PutEdit
    PROVE  /\ PutProfile(p, e) \in CliProfile
           /\ PutProfile(p, e).backends = e.backends
           /\ PutProfile(p, e).keys = KeysAfter(p.keys, e)
           /\ \A q \in CliProfile : SameProfile(p, q) =>
                SameProfile(PutProfile(p, e), PutProfile(q, e))
<1> DEFINE Given(q) == [q EXCEPT !.backends = e.backends, !.active = e.active,
                                 !.keys = KeysAfter(q.keys, e)]
<1>1. \A q \in CliProfile : /\ Given(q) \in CliProfile
                            /\ Given(q).backends = e.backends
                            /\ Given(q).active = e.active
                            /\ Given(q).keys = KeysAfter(q.keys, e)
    <2> TAKE q \in CliProfile
    <2>1. e.backends \in Seq(Backends) /\ e.active \in Backends
        BY DEF PutEdit
    <2>2. KeysAfter(q.keys, e) \in SUBSET Backends
        BY <2>1 DEF KeysAfter, Range
    <2> QED
        BY <2>1, <2>2 DEF CliProfile
<1>2. \A q \in CliProfile : PutProfile(q, e) = SelfHealActive(Given(q))
    BY DEF PutProfile
<1> HIDE DEF Given
<1>3. ASSUME NEW q \in CliProfile, SameProfile(p, q)
      PROVE  SameProfile(Given(p), Given(q))
    BY <1>1, <1>3 DEF SameProfile
<1>4. /\ PutProfile(p, e) \in CliProfile
      /\ PutProfile(p, e).backends = e.backends
      /\ PutProfile(p, e).keys = KeysAfter(p.keys, e)
    BY <1>1, <1>2, HealKeepsType
<1>5. ASSUME NEW q \in CliProfile, SameProfile(p, q)
      PROVE  SameProfile(PutProfile(p, e), PutProfile(q, e))
    BY <1>1, <1>2, <1>3, <1>5, HealKeepsSame
<1> QED
    BY <1>4, <1>5

LEMMA CopyIntoType ==
    ASSUME NEW p \in CliProfile, NEW s \in CliProfile, NEW e \in CopyEdit
    PROVE  /\ CopyInto(p, s, e) \in CliProfile
           /\ CopyInto(p, s, e).backends = Append(p.backends, e.new_name)
           /\ p.keys \subseteq CopyInto(p, s, e).keys
           /\ \A q, r \in CliProfile : SameProfile(p, q) /\ SameProfile(s, r) =>
                SameProfile(CopyInto(p, s, e), CopyInto(q, r, e))
<1> DEFINE keys(q, r) == IF e.name \in r.keys THEN q.keys \cup {e.new_name} ELSE q.keys
           With(q, r) == [q EXCEPT !.backends = Append(q.backends, e.new_name),
                                   !.keys = keys(q, r)]
<1>1. \A q, r \in CliProfile : /\ With(q, r) \in CliProfile
                               /\ With(q, r).backends = Append(q.backends, e.new_name)
                               /\ With(q, r).active = q.active
                               /\ With(q, r).keys = keys(q, r)
    <2> TAKE q, r \in CliProfile
    <2>1. e.new_name \in Backends
        BY DEF CopyEdit
    <2>2. Append(q.backends, e.new_name) \in Seq(Backends)
        BY <2>1 DEF CliProfile
    <2>3. keys(q, r) \in SUBSET Backends
        BY <2>1 DEF CliProfile
    <2> QED
        BY <2>2, <2>3 DEF CliProfile
<1>2. \A q, r \in CliProfile : CopyInto(q, r, e) = SelfHealActive(With(q, r))
    BY DEF CopyInto
<1>3. p.keys \subseteq keys(p, s)
    OBVIOUS
<1>4. \A q, r \in CliProfile : SameProfile(p, q) /\ SameProfile(s, r) => keys(p, s) = keys(q, r)
    BY DEF SameProfile
<1> HIDE DEF With, keys
<1>5. /\ CopyInto(p, s, e) \in CliProfile
      /\ CopyInto(p, s, e).backends = Append(p.backends, e.new_name)
      /\ p.keys \subseteq CopyInto(p, s, e).keys
    <2>1. /\ With(p, s) \in CliProfile
          /\ With(p, s).backends = Append(p.backends, e.new_name)
          /\ With(p, s).keys = keys(p, s)
        BY <1>1
    <2>2. CopyInto(p, s, e) = SelfHealActive(With(p, s))
        BY <1>2
    <2>3. /\ SelfHealActive(With(p, s)) \in CliProfile
          /\ SelfHealActive(With(p, s)).backends = With(p, s).backends
          /\ SelfHealActive(With(p, s)).keys = With(p, s).keys
        BY <2>1, HealKeepsType
    <2> QED
        BY <1>3, <2>1, <2>2, <2>3
<1>6. ASSUME NEW q \in CliProfile, NEW r \in CliProfile, SameProfile(p, q), SameProfile(s, r)
      PROVE  SameProfile(CopyInto(p, s, e), CopyInto(q, r, e))
    <2>1. SameProfile(With(p, s), With(q, r))
        <3>1. /\ With(p, s).backends = Append(p.backends, e.new_name)
              /\ With(p, s).active = p.active
              /\ With(p, s).keys = keys(p, s)
            BY <1>1
        <3>2. /\ With(q, r).backends = Append(q.backends, e.new_name)
              /\ With(q, r).active = q.active
              /\ With(q, r).keys = keys(q, r)
            BY <1>1
        <3>3. keys(p, s) = keys(q, r)
            BY <1>4, <1>6
        <3> QED
            BY <1>6, <3>1, <3>2, <3>3 DEF SameProfile
    <2> QED
        BY <1>1, <1>2, <2>1, HealKeepsSame
<1> QED
    BY <1>5, <1>6

\* The profile a request to the web UI is about, after it.
LEMMA EditedTarget ==
    ASSUME NEW c \in Config, NEW e \in EditType
    PROVE  /\ e.target \in Modes
           /\ Edited(c, e) \in Config
           /\ \A m \in Modes : m # e.target => Edited(c, e)[m] = c[m]
           /\ e.op = "put" => /\ e \in PutEdit
                              /\ Edited(c, e)[e.target] = PutProfile(c[e.target], e)
           /\ e.op = "copy" => /\ e \in CopyEdit
                               /\ Edited(c, e)[e.target]
                                    = CopyInto(c[e.target], c[e.source], e)
           /\ e.op = "active" => /\ e \in ActiveEdit
                                 /\ Edited(c, e)[e.target]
                                      = [c[e.target] EXCEPT !.active = e.name]
<1>1. CASE e \in PutEdit
    <2> DEFINE p == PutProfile(c[e.target], e)
    <2>1. e.op = "put" /\ e.target \in Modes
        BY <1>1 DEF PutEdit
    <2>2. p \in CliProfile
        BY <1>1, <2>1, ConfigHasProfiles, PutProfileType
    <2>3. Edited(c, e) = [c EXCEPT ![e.target] = p]
        BY <2>1 DEF Edited
    <2> HIDE DEF p
    <2>4. /\ [c EXCEPT ![e.target] = p] \in Config
          /\ \A m \in Modes : [c EXCEPT ![e.target] = p][m] = IF m = e.target THEN p ELSE c[m]
        BY <2>1, <2>2, ConfigWith
    <2>5. Edited(c, e)[e.target] = p
        BY <2>1, <2>3, <2>4
    <2>6. Edited(c, e) \in Config /\ \A m \in Modes : m # e.target => Edited(c, e)[m] = c[m]
        BY <2>3, <2>4
    <2> QED
        BY <1>1, <2>1, <2>5, <2>6 DEF p
<1>2. CASE e \in CopyEdit
    <2> DEFINE p == CopyInto(c[e.target], c[e.source], e)
    <2>1. e.op = "copy" /\ e.target \in Modes /\ e.source \in Modes
        BY <1>2 DEF CopyEdit
    <2>2. p \in CliProfile
        BY <1>2, <2>1, ConfigHasProfiles, CopyIntoType
    <2>3. Edited(c, e) = [c EXCEPT ![e.target] = p]
        BY <2>1 DEF Edited
    <2> HIDE DEF p
    <2>4. /\ [c EXCEPT ![e.target] = p] \in Config
          /\ \A m \in Modes : [c EXCEPT ![e.target] = p][m] = IF m = e.target THEN p ELSE c[m]
        BY <2>1, <2>2, ConfigWith
    <2>5. Edited(c, e)[e.target] = p
        BY <2>1, <2>3, <2>4
    <2>6. Edited(c, e) \in Config /\ \A m \in Modes : m # e.target => Edited(c, e)[m] = c[m]
        BY <2>3, <2>4
    <2> QED
        BY <1>2, <2>1, <2>5, <2>6 DEF p
<1>3. CASE e \in ActiveEdit
    <2> DEFINE p == [c[e.target] EXCEPT !.active = e.name]
    <2>1. e.op = "active" /\ e.target \in Modes /\ e.name \in Backends
        BY <1>3 DEF ActiveEdit
    <2>2. p \in CliProfile
        BY <2>1, ConfigHasProfiles DEF CliProfile
    <2>3. Edited(c, e) = [c EXCEPT ![e.target] = p]
        BY <2>1 DEF Edited
    <2> HIDE DEF p
    <2>4. /\ [c EXCEPT ![e.target] = p] \in Config
          /\ \A m \in Modes : [c EXCEPT ![e.target] = p][m] = IF m = e.target THEN p ELSE c[m]
        BY <2>1, <2>2, ConfigWith
    <2>5. Edited(c, e)[e.target] = p
        BY <2>1, <2>3, <2>4
    <2>6. Edited(c, e) \in Config /\ \A m \in Modes : m # e.target => Edited(c, e)[m] = c[m]
        BY <2>3, <2>4
    <2> QED
        BY <1>3, <2>1, <2>5, <2>6 DEF p
<1> QED
    BY <1>1, <1>2, <1>3 DEF EditType

\* The settings and the password leave the profiles as they are.
LEMMA EditedElsewhere ==
    ASSUME NEW c \in Config, NEW e \in BridgeEdit \cup PasswdEdit
    PROVE  Edited(c, e) \in Config /\ SameProfiles(Edited(c, e), c)
<1>1. CASE e \in BridgeEdit
    <2> DEFINE p == [c.claude EXCEPT !.claude_settings = e.value]
    <2>1. e.op = "settings" /\ e.value \in Nat
        BY <1>1 DEF BridgeEdit
    <2>2. c["claude"] \in CliProfile
        BY ConfigHasProfiles DEF Modes
    <2>3. p \in CliProfile /\ SameProfile(p, c["claude"])
        BY <2>1, <2>2 DEF CliProfile, SameProfile
    <2>4. Edited(c, e) = [c EXCEPT !["claude"] = p]
        BY <2>1 DEF Edited
    <2> HIDE DEF p
    <2>5. /\ [c EXCEPT !["claude"] = p] \in Config
          /\ \A n \in Modes : [c EXCEPT !["claude"] = p][n] = IF n = "claude" THEN p ELSE c[n]
        BY <2>3, ConfigWith DEF Modes
    <2> QED
        BY <2>3, <2>4, <2>5 DEF SameProfiles, SameProfile
<1>2. CASE e \in PasswdEdit
    <2>1. e.op = "passwd" /\ e.value \in Nat
        BY <1>2 DEF PasswdEdit
    <2>2. Edited(c, e) = [c EXCEPT !.webui = e.value]
        BY <2>1 DEF Edited
    <2> QED
        BY <2>1, <2>2 DEF Config, SameProfiles, SameProfile, Modes
<1> QED
    BY <1>1, <1>2

\* An edit makes equal profiles of equal ones.
LEMMA EditedSame ==
    ASSUME NEW c \in Config, NEW d \in Config, NEW e \in EditType, SameProfiles(c, d)
    PROVE  SameProfiles(Edited(c, e), Edited(d, e))
<1> SUFFICES ASSUME NEW m \in Modes
             PROVE  SameProfile(Edited(c, e)[m], Edited(d, e)[m])
    BY DEF SameProfiles
<1>1. \A n \in Modes : c[n] \in CliProfile /\ d[n] \in CliProfile /\ SameProfile(c[n], d[n])
    BY ConfigHasProfiles DEF SameProfiles
<1>2. CASE m # e.target
    BY ZenonT(60), <1>1, <1>2, EditedTarget
<1>3. CASE m = e.target
    <2>1. CASE e.op = "put"
        <3>1. e \in PutEdit
            BY <2>1, EditedTarget
        <3>2. /\ Edited(c, e)[m] = PutProfile(c[m], e)
              /\ Edited(d, e)[m] = PutProfile(d[m], e)
            BY <1>3, <2>1, EditedTarget
        <3>3. SameProfile(PutProfile(c[m], e), PutProfile(d[m], e))
            BY <1>1, <3>1, PutProfileType
        <3> QED
            BY <3>2, <3>3
    <2>2. CASE e.op = "copy"
        <3>1. e \in CopyEdit /\ e.source \in Modes
            BY <2>2, EditedTarget DEF CopyEdit
        <3>2. /\ Edited(c, e)[m] = CopyInto(c[m], c[e.source], e)
              /\ Edited(d, e)[m] = CopyInto(d[m], d[e.source], e)
            BY <1>3, <2>2, EditedTarget
        <3>3. SameProfile(CopyInto(c[m], c[e.source], e), CopyInto(d[m], d[e.source], e))
            BY <1>1, <3>1, CopyIntoType
        <3> QED
            BY <3>2, <3>3
    <2>3. CASE e.op = "active"
        <3>1. /\ Edited(c, e)[m] = [c[m] EXCEPT !.active = e.name]
              /\ Edited(d, e)[m] = [d[m] EXCEPT !.active = e.name]
            BY <1>3, <2>3, EditedTarget
        <3>2. c[m] \in CliProfile /\ d[m] \in CliProfile /\ SameProfile(c[m], d[m])
            BY <1>1
        <3> QED
            BY <3>1, <3>2 DEF CliProfile, SameProfile
    <2> QED
        BY <2>1, <2>2, <2>3 DEF EditType, PutEdit, CopyEdit, ActiveEdit
<1> QED
    BY <1>2, <1>3

------------------------------------------------------------------------------
(* The invariant: types, who may be where, and what holds of each job. *)

PointsOf(t) ==
    CASE t = "bridge" -> {"settings", "emptied"}
      [] t = "passwd" -> {"save", "opened"}
      [] OTHER        -> {"called", "save", "opened", "saved", "read", "update"}

EditsOf(t) ==
    CASE t = "bridge" -> BridgeEdit
      [] t = "passwd" -> PasswdEdit
      [] OTHER        -> EditType

JobOf(t) == [ at : PointsOf(t), edit : EditsOf(t), config : Config, read : Config,
              alone : BOOLEAN ]

TaskType ==
    /\ task = [t \in Tasks |-> task[t]]
    /\ \A t \in Tasks : task[t] \in JobOf(t) \cup {Idle}

FileType ==
    /\ file \in Seq(Config) /\ Len(file) <= 2
    /\ store \in Config /\ serial \in Config
    /\ lock \in {"none", "bridge"}
    /\ up \in BOOLEAN /\ disturbed \in BOOLEAN
    /\ jobs \in Nat /\ jobs <= MaxJobs
    /\ crashes \in Nat /\ crashes <= MaxCrashes

\* The bridge holds the lock from reading the file to writing it, so that
\* what it read can only be truncated meanwhile.
LockInv ==
    /\ lock = "bridge" <=> task["bridge"].at \in {"settings", "emptied"}
    /\ up \/ InstanceBusy = {}
    /\ task["bridge"].at = "settings" => file = <<>> \/ file = <<task["bridge"].config>>
    /\ task["bridge"].at = "emptied" => file = <<>>

\* What a handler saves was validated, and so is what it tells the instance.
ValidInv ==
    \A t \in Handlers :
        /\ task[t].at = "update" => NeedsUpdate(task[t].edit)
        /\ /\ task[t].at \notin {"idle", "called"}
           /\ task[t].edit.op \in {"put", "copy"}
           => ValidFor(task[t].edit.target, task[t].config[task[t].edit.target])

\* A job that is alone is the only one, and nobody writes to the file that it
\* truncated.  As long as nothing was disturbed, every job is alone.
AloneInv ==
    \A t \in Busy :
        /\ task[t].alone => Busy = {t}
        /\ task[t].alone /\ task[t].at = "opened" => file = <<>>
        /\ task[t].alone \/ disturbed

FileCurrent == Len(file) = 1 /\ SameProfiles(file[1], serial)

StoreCurrent == up => SameProfiles(store, serial)

Follows ==
    up /\ serial[Mode].backends # <<>> => config.backends = serial[Mode].backends

\* How far the only job is with bringing its edit everywhere.
Stage(t) ==
    LET At(points) == task[t].at \in points
    IN  /\ At({"called", "save", "update", "settings"}) => FileCurrent
        /\ At({"called", "save", "opened", "update", "settings", "emptied"}) => StoreCurrent
        /\ At({"called", "save", "opened", "settings", "emptied"}) => Follows
        /\ At({"save", "opened"}) =>
              SameProfiles(task[t].config, Edited(serial, task[t].edit))
        /\ At({"saved", "read", "update", "emptied"}) => SameProfiles(task[t].config, serial)
        /\ At({"saved", "read"}) => NeedsUpdate(task[t].edit) \/ Follows
        /\ At({"saved", "read", "settings"}) => file = <<task[t].config>>
        /\ At({"read"}) => task[t].read = task[t].config

SerialInv ==
    ~disturbed =>
        /\ Busy = {} => FileCurrent /\ StoreCurrent /\ Follows
        /\ \A t \in Busy : Stage(t)

TypeInv == FileType /\ TaskType /\ BackendInv

StoreInv == TypeInv /\ LockInv /\ ValidInv /\ AloneInv /\ SerialInv

\* The invariant speaks of the variables only.
LEMMA StoreInvStutters == ASSUME StoreInv, UNCHANGED configVars PROVE StoreInv'
<1> USE DEF configVars, storeVars, backendVars
<1>1. TypeInv'
    BY DEF StoreInv, TypeInv, FileType, TaskType, BackendInv, BackendTypeOK,
           ActiveIsConfigured, HasBackend
<1>2. LockInv' /\ ValidInv' /\ AloneInv'
    BY DEF StoreInv, LockInv, ValidInv, AloneInv, InstanceBusy, Busy
<1>3. SerialInv'
    BY DEF StoreInv, SerialInv, Stage, FileCurrent, StoreCurrent, Follows, Busy
<1> QED
    BY <1>1, <1>2, <1>3 DEF StoreInv

\* A writer is idle or in the middle of its job.
LEMMA TaskIsJob ==
    ASSUME TaskType, NEW t \in Tasks, t \in Busy \/ task[t].at # "idle" \/ task[t] # Idle
    PROVE  /\ task[t] \in JobOf(t) /\ t \in Busy /\ task[t].at # "idle"
           /\ task[t].at \in PointsOf(t) /\ task[t].edit \in EditsOf(t)
           /\ task[t].config \in Config /\ task[t].read \in Config
           /\ task[t].alone \in BOOLEAN
<1>1. task[t] \in JobOf(t) \cup {Idle}
    BY DEF TaskType
<1>2. task[t] # Idle
    BY DEF Busy, Idle
<1>3. task[t] \in JobOf(t)
    BY <1>1, <1>2
<1>4. /\ task[t].at \in PointsOf(t) /\ task[t].edit \in EditsOf(t)
      /\ task[t].config \in Config /\ task[t].read \in Config
      /\ task[t].alone \in BOOLEAN
    BY <1>3 DEF JobOf
<1>5. task[t].at # "idle"
    BY <1>4 DEF PointsOf
<1> QED
    BY <1>3, <1>4, <1>5 DEF Busy

\* Which writers come to which point.
LEMMA TaskAtPoint ==
    ASSUME TaskType, NEW t \in Tasks, t \in Busy
    PROVE  /\ task[t].at \in {"called", "saved", "read", "update"} => t \in Handlers
           /\ task[t].at \in {"save", "opened"} => t \in Handlers \/ t = "passwd"
           /\ task[t].at \in {"settings", "emptied"} <=> t = "bridge"
           /\ t \in Handlers => /\ task[t].edit \in EditType
                               /\ t # "bridge" /\ t # "passwd"
                               /\ PointsOf(t) = {"called", "save", "opened", "saved",
                                                 "read", "update"}
           /\ t = "bridge" => task[t].edit \in BridgeEdit
           /\ t = "passwd" => task[t].edit \in PasswdEdit
<1>1. task[t].at \in PointsOf(t) /\ task[t].edit \in EditsOf(t)
    BY TaskIsJob
<1>2. t \in Handlers \/ t = "bridge" \/ t = "passwd"
    BY DEF Tasks
<1>3. CASE t \in Handlers
    <2>1. t # "bridge" /\ t # "passwd"
        BY <1>3, StoreAssumption
    <2> QED
        BY <1>1, <1>3, <2>1 DEF PointsOf, EditsOf
<1>4. CASE t = "bridge"
    BY <1>1, <1>4, StoreAssumption DEF PointsOf, EditsOf
<1>5. CASE t = "passwd"
    BY <1>1, <1>5, StoreAssumption DEF PointsOf, EditsOf
<1> QED
    BY <1>2, <1>3, <1>4, <1>5

------------------------------------------------------------------------------
(* What an action does to the writers: one goes on, one ends, or one more  *)
(* begins and takes from the others that they are alone.                   *)

Runs(t, at, c, r) ==
    /\ TaskType' /\ Busy' = Busy
    /\ task'[t].at = at /\ task'[t].config = c /\ task'[t].read = r
    /\ task'[t].edit = task[t].edit /\ task'[t].alone = task[t].alone
    /\ \A u \in Tasks \ {t} : task'[u] = task[u]

Ends(t) ==
    /\ TaskType' /\ Busy' = Busy \ {t}
    /\ task'[t] = Idle
    /\ \A u \in Tasks \ {t} : task'[u] = task[u]

Begins(t, at, edit, c) ==
    /\ TaskType' /\ Busy' = Busy \cup {t} /\ t \notin Busy
    /\ task'[t].at = at /\ task'[t].config = c
    /\ task'[t].edit = edit /\ task'[t].alone = (Busy = {})
    /\ \A u \in Tasks \ {t} :
          /\ task'[u].at = task[u].at
          /\ u \in Busy => /\ task'[u].edit = task[u].edit
                           /\ task'[u].config = task[u].config
                           /\ task'[u].read = task[u].read
                           /\ task'[u].alone = FALSE

LEMMA JobRuns ==
    ASSUME TaskType, NEW t \in Tasks, t \in Busy,
           NEW at \in PointsOf(t), NEW c \in Config, NEW r \in Config,
           task' = [task EXCEPT ![t] = [at |-> at, edit |-> task[t].edit, config |-> c,
                                        read |-> r, alone |-> task[t].alone]]
    PROVE  Runs(t, at, c, r)
<1> DEFINE j == [at |-> at, edit |-> task[t].edit, config |-> c, read |-> r,
                 alone |-> task[t].alone]
<1>1. /\ j \in JobOf(t) /\ j.at = at /\ j.edit = task[t].edit /\ j.config = c
      /\ j.read = r /\ j.alone = task[t].alone
    BY TaskIsJob DEF JobOf
<1>2. task' = [task EXCEPT ![t] = j]
    OBVIOUS
<1> HIDE DEF j
<1>3. /\ task' = [u \in Tasks |-> task'[u]] /\ task'[t] = j
      /\ \A u \in Tasks \ {t} : task'[u] = task[u]
    BY <1>2 DEF TaskType
<1>4. TaskType'
    BY <1>1, <1>3 DEF TaskType
<1>5. Busy' = Busy
    <2>1. t \in Busy'
        BY <1>1, <1>3 DEF Busy, PointsOf
    <2>2. \A u \in Tasks \ {t} : u \in Busy' <=> u \in Busy
        BY <1>3 DEF Busy
    <2> QED
        BY <2>1, <2>2 DEF Busy
<1> QED
    BY <1>1, <1>3, <1>4, <1>5 DEF Runs

LEMMA JobGoes ==
    ASSUME TaskType, NEW t \in Tasks, t \in Busy, NEW at \in PointsOf(t), Go(t, at)
    PROVE  Runs(t, at, task[t].config, task[t].read)
<1>1. task[t] \in JobOf(t) /\ task[t].config \in Config /\ task[t].read \in Config
    BY TaskIsJob
<1>2. [task[t] EXCEPT !.at = at]
        = [at |-> at, edit |-> task[t].edit, config |-> task[t].config,
           read |-> task[t].read, alone |-> task[t].alone]
    BY <1>1 DEF JobOf
<1>3. task' = [task EXCEPT ![t] = [task[t] EXCEPT !.at = at]]
    BY DEF Go
<1> QED
    BY <1>1, <1>2, <1>3, JobRuns

LEMMA JobEnds ==
    ASSUME TaskType, NEW t \in Tasks, t \in Busy, End(t)
    PROVE  Ends(t)
<1>1. /\ task' = [u \in Tasks |-> task'[u]] /\ task'[t] = Idle
      /\ \A u \in Tasks \ {t} : task'[u] = task[u]
    BY DEF TaskType, End
<1>2. TaskType'
    BY <1>1 DEF TaskType
<1>3. Busy' = Busy \ {t}
    BY <1>1 DEF Busy, Idle
<1> QED
    BY <1>1, <1>2, <1>3 DEF Ends

LEMMA JobBegins ==
    ASSUME TaskType, NEW t \in Tasks, NEW at \in PointsOf(t), NEW edit \in EditsOf(t),
           NEW c \in Config, Begin(t, at, edit, c)
    PROVE  Begins(t, at, edit, c)
<1> DEFINE j == [at |-> at, edit |-> edit, config |-> c, read |-> c, alone |-> Busy = {}]
           k(u) == [task[u] EXCEPT !.alone = FALSE]
<1>1. /\ j \in JobOf(t) /\ j.at = at /\ j.edit = edit /\ j.config = c
      /\ j.alone = (Busy = {})
    BY DEF JobOf
<1>2. t \notin Busy
    BY DEF Begin, Busy, Idle
<1>3. \A u \in Tasks : u \in Busy =>
        /\ k(u) \in JobOf(u) /\ k(u).at = task[u].at /\ k(u).edit = task[u].edit
        /\ k(u).config = task[u].config /\ k(u).read = task[u].read /\ k(u).alone = FALSE
    <2> SUFFICES ASSUME NEW u \in Tasks, u \in Busy
                 PROVE  /\ k(u) \in JobOf(u) /\ k(u).at = task[u].at
                        /\ k(u).edit = task[u].edit /\ k(u).config = task[u].config
                        /\ k(u).read = task[u].read /\ k(u).alone = FALSE
        OBVIOUS
    <2>1. task[u] \in JobOf(u)
        BY TaskIsJob
    <2> QED
        BY <2>1 DEF JobOf
<1>4. task' = [u \in Tasks |-> CASE u = t -> j [] u \in Busy -> k(u) [] OTHER -> task[u]]
    BY DEF Begin
<1> HIDE DEF j, k
<1>5. /\ task' = [u \in Tasks |-> task'[u]] /\ task'[t] = j
      /\ \A u \in Tasks \ {t} : task'[u] = IF u \in Busy THEN k(u) ELSE task[u]
    BY <1>2, <1>4
<1>6. TaskType'
    BY <1>1, <1>3, <1>5 DEF TaskType
<1>7. Busy' = Busy \cup {t}
    <2>1. t \in Busy'
        BY <1>1, <1>5 DEF Busy, PointsOf
    <2>2. \A u \in Tasks \ {t} : task'[u].at = task[u].at
        BY <1>3, <1>5
    <2> QED
        BY <2>1, <2>2 DEF Busy
<1> QED
    BY <1>1, <1>2, <1>3, <1>5, <1>6, <1>7 DEF Begins

------------------------------------------------------------------------------
(* What is left to show of an action when it lets a job run, end or begin. *)

Savers == Handlers \cup {"passwd"}

LEMMA SaverIsTask ==
    ASSUME NEW t \in Savers
    PROVE  t \in Tasks /\ t # "bridge" /\ (t \in Handlers => t # "passwd")
BY StoreAssumption DEF Savers, Tasks

LEMMA RunsKeepsInv ==
    ASSUME StoreInv, NEW t \in Savers, t \in Busy, NEW at, NEW c, NEW r, Runs(t, at, c, r),
           lock' = lock, up' = up, disturbed' = disturbed,
           file' = file \/ file' = <<>> \/ lock = "none",
           at = "opened" => file' = <<>>,
           at = "update" => NeedsUpdate(task[t].edit),
           /\ t \in Handlers /\ at # "called"
           /\ task[t].edit.op \in {"put", "copy"}
           => ValidFor(task[t].edit.target, c[task[t].edit.target]),
           ~disturbed => Stage(t)'
    PROVE  LockInv' /\ ValidInv' /\ AloneInv' /\ SerialInv'
<1>1. t \in Tasks /\ t # "bridge" /\ "bridge" \in Tasks
    BY SaverIsTask DEF Tasks
<1>2. LockInv'
    <2>1. task'["bridge"] = task["bridge"] /\ InstanceBusy' = InstanceBusy
        BY <1>1 DEF Runs, InstanceBusy
    <2> QED
        BY <2>1 DEF StoreInv, LockInv
<1>3. ValidInv'
    <2> SUFFICES ASSUME NEW u \in Handlers
                 PROVE  /\ task'[u].at = "update" => NeedsUpdate(task'[u].edit)
                        /\ /\ task'[u].at \notin {"idle", "called"}
                           /\ task'[u].edit.op \in {"put", "copy"}
                           => ValidFor(task'[u].edit.target, task'[u].config[task'[u].edit.target])
        BY DEF ValidInv
    <2>1. CASE u = t
        BY <2>1 DEF Runs
    <2>2. CASE u # t
        <3>1. task'[u] = task[u]
            BY <2>2 DEF Runs, Tasks
        <3> QED
            BY <3>1 DEF StoreInv, ValidInv
    <2> QED
        BY <2>1, <2>2
<1>4. AloneInv'
    <2> SUFFICES ASSUME NEW u \in Busy'
                 PROVE  /\ task'[u].alone => Busy' = {u}
                        /\ task'[u].alone /\ task'[u].at = "opened" => file' = <<>>
                        /\ task'[u].alone \/ disturbed'
        BY DEF AloneInv
    <2>1. u \in Busy /\ u \in Tasks /\ Busy' = Busy /\ task'[u].alone = task[u].alone
        BY DEF Runs, Busy
    <2>2. task[u].alone => Busy = {u} /\ u = t
        BY <2>1 DEF StoreInv, AloneInv
    <2>3. task[u].alone \/ disturbed
        BY <2>1 DEF StoreInv, AloneInv
    <2> QED
        BY <2>1, <2>2, <2>3 DEF Runs
<1>5. SerialInv'
    <2> SUFFICES ASSUME ~disturbed
                 PROVE  Busy' # {} /\ \A u \in Busy' : Stage(u)'
        BY DEF SerialInv
    <2>1. Busy' = {t}
        BY <1>1 DEF StoreInv, AloneInv, Runs
    <2> QED
        BY <2>1
<1> QED
    BY <1>2, <1>3, <1>4, <1>5

LEMMA EndsKeepsInv ==
    ASSUME StoreInv, NEW t \in Savers, t \in Busy, Ends(t),
           lock' = lock, up' = up, disturbed' = disturbed,
           file' = file \/ lock = "none",
           ~disturbed => FileCurrent' /\ StoreCurrent' /\ Follows'
    PROVE  LockInv' /\ ValidInv' /\ AloneInv' /\ SerialInv'
<1>1. t \in Tasks /\ t # "bridge" /\ "bridge" \in Tasks
    BY SaverIsTask DEF Tasks
<1>2. LockInv'
    <2>1. task'["bridge"] = task["bridge"] /\ InstanceBusy' \subseteq InstanceBusy
        BY <1>1 DEF Ends, InstanceBusy
    <2> QED
        BY <2>1 DEF StoreInv, LockInv
<1>3. ValidInv'
    <2> SUFFICES ASSUME NEW u \in Handlers
                 PROVE  /\ task'[u].at = "update" => NeedsUpdate(task'[u].edit)
                        /\ /\ task'[u].at \notin {"idle", "called"}
                           /\ task'[u].edit.op \in {"put", "copy"}
                           => ValidFor(task'[u].edit.target, task'[u].config[task'[u].edit.target])
        BY DEF ValidInv
    <2>1. CASE u = t
        BY <2>1 DEF Ends, Idle
    <2>2. CASE u # t
        <3>1. task'[u] = task[u]
            BY <2>2 DEF Ends, Tasks
        <3> QED
            BY <3>1 DEF StoreInv, ValidInv
    <2> QED
        BY <2>1, <2>2
<1>4. \A u \in Busy' : ~task'[u].alone /\ disturbed
    <2> TAKE u \in Busy'
    <2>1. u \in Busy /\ u \in Tasks /\ u # t /\ task'[u] = task[u]
        BY DEF Ends, Busy
    <2>2. ~task[u].alone
        BY <2>1 DEF StoreInv, AloneInv
    <2> QED
        BY <2>1, <2>2 DEF StoreInv, AloneInv
<1>5. AloneInv' /\ SerialInv'
    BY <1>4 DEF AloneInv, SerialInv
<1> QED
    BY <1>2, <1>3, <1>5

LEMMA BeginsKeepsInv ==
    ASSUME StoreInv, NEW t \in Tasks, NEW at, NEW edit, NEW c, Begins(t, at, edit, c),
           file' = file, up' = up, disturbed' = (disturbed \/ Busy # {}),
           t # "passwd" => up,
           t \in Handlers => at = "called",
           at # "opened",
           IF t = "bridge"
           THEN at = "settings" /\ lock' = "bridge" /\ (file = <<>> \/ file = <<c>>)
           ELSE lock' = lock,
           ~disturbed /\ Busy = {} => Stage(t)'
    PROVE  LockInv' /\ ValidInv' /\ AloneInv' /\ SerialInv'
<1>1. "bridge" \in Tasks /\ "passwd" \in Tasks
    BY DEF Tasks
<1>2. LockInv'
    <2>1. up' \/ InstanceBusy' = {}
        BY DEF StoreInv, LockInv, InstanceBusy, Begins
    <2>2. CASE t = "bridge"
        BY <2>1, <2>2 DEF LockInv, Begins
    <2>3. CASE t # "bridge"
        <3>1. task'["bridge"].at = task["bridge"].at
            BY <1>1, <2>3 DEF Begins
        <3>2. task["bridge"].at \in {"settings", "emptied"} =>
                task'["bridge"].config = task["bridge"].config
            BY <1>1, <2>3 DEF Begins, Busy
        <3> QED
            BY <2>1, <2>3, <3>1, <3>2 DEF StoreInv, LockInv
    <2> QED
        BY <2>2, <2>3
<1>3. ValidInv'
    <2> SUFFICES ASSUME NEW u \in Handlers
                 PROVE  /\ task'[u].at = "update" => NeedsUpdate(task'[u].edit)
                        /\ /\ task'[u].at \notin {"idle", "called"}
                           /\ task'[u].edit.op \in {"put", "copy"}
                           => ValidFor(task'[u].edit.target, task'[u].config[task'[u].edit.target])
        BY DEF ValidInv
    <2>1. CASE u = t
        BY <2>1 DEF Begins
    <2>2. CASE u # t
        <3>1. u \in Tasks \ {t} /\ task'[u].at = task[u].at
            BY <2>2 DEF Begins, Tasks
        <3>2. task[u].at # "idle" =>
                task'[u].edit = task[u].edit /\ task'[u].config = task[u].config
            BY <3>1 DEF Begins, Busy
        <3> QED
            BY <3>1, <3>2 DEF StoreInv, ValidInv
    <2> QED
        BY <2>1, <2>2
<1>4. \A u \in Busy' : u = t \/ (task'[u].alone = FALSE /\ Busy # {})
    BY DEF Begins, Busy
<1>5. task'[t].alone = (Busy = {}) /\ Busy' = Busy \cup {t} /\ task'[t].at = at
    BY DEF Begins
<1>6. AloneInv'
    BY <1>4, <1>5 DEF AloneInv
<1>7. SerialInv'
    <2> SUFFICES ASSUME ~disturbed, Busy = {}
                 PROVE  Busy' # {} /\ \A u \in Busy' : Stage(u)'
        BY DEF SerialInv
    <2> QED
        BY <1>5
<1> QED
    BY <1>2, <1>3, <1>6, <1>7

------------------------------------------------------------------------------
(* The actions, one by one. *)

LEMMA EmptyConfigType == EmptyConfig \in Config /\ DefaultConfig \in Config
<1>1. NoProfile \in CliProfile
    BY StoreAssumption DEF NoProfile, CliProfile
<1>2. EmptyConfig \in Config
    BY <1>1 DEF EmptyConfig, Config
<1>3. <<"claude">> \in Seq(Backends)
    BY StoreAssumption
<1>4. [NoProfile EXCEPT !.backends = <<"claude">>] \in CliProfile
    BY <1>1, <1>3 DEF CliProfile
<1>5. DefaultConfig = [EmptyConfig EXCEPT !.claude = [NoProfile EXCEPT !.backends = <<"claude">>]]
    BY DEF DefaultConfig, EmptyConfig
<1> QED
    BY <1>2, <1>4, <1>5 DEF Config

LEMMA BackendStays == ASSUME BackendInv, UNCHANGED backendVars PROVE BackendInv'
BY DEF BackendInv, BackendTypeOK, ActiveIsConfigured, HasBackend, backendVars

\* A handler works only while the instance runs.
LEMMA HandlerIsUp ==
    ASSUME StoreInv, NEW t \in Handlers, t \in Busy
    PROVE  up = TRUE
<1>1. t # "passwd"
    BY StoreAssumption
<1> QED
    BY <1>1 DEF StoreInv, LockInv, InstanceBusy, TypeInv, FileType

LEMMA ParsedType ==
    ASSUME FileType, Parses(file)
    PROVE  /\ Parsed(file) \in Config
           /\ file = <<>> \/ file = <<Parsed(file)>>
<1>1. file \in Seq(Config) /\ Len(file) <= 1 /\ Len(file) \in Nat
    BY DEF FileType, Parses
<1>2. CASE file = <<>>
    BY <1>2, EmptyConfigType DEF Parsed
<1>3. CASE file # <<>>
    <2>1. Len(file) = 1
        <3> DEFINE n == Len(file)
        <3>1. n \in Nat /\ n <= 1 /\ n # 0
            BY <1>1, <1>3
        <3> HIDE DEF n
        <3>2. n = 1
            BY <3>1
        <3> QED
            BY <3>2 DEF n
    <2>2. file[1] \in Config /\ file = <<file[1]>>
        BY <1>1, <2>1
    <2> QED
        BY <1>3, <2>2 DEF Parsed
<1> QED
    BY <1>2, <1>3

LEMMA OverwrittenType ==
    ASSUME FileType, NEW c \in Config
    PROVE  /\ Overwritten(file, c) \in Seq(Config) /\ Len(Overwritten(file, c)) <= 2
           /\ file = <<>> => Overwritten(file, c) = <<c>>
<1>1. CASE file = <<>>
    BY <1>1 DEF Overwritten
<1>2. CASE file # <<>>
    <2>1. file \in Seq(Config) /\ file[Len(file)] \in Config
        BY <1>2 DEF FileType
    <2> DEFINE o == Overwritten(file, c)
               one == <<c>>
               two == <<c, file[Len(file)]>>
    <2>2. one \in Seq(Config) /\ Len(one) = 1
        OBVIOUS
    <2>3. two \in Seq(Config)
        BY <2>1
    <2>4. Len(two) = 2
        OBVIOUS
    <2>5. o = one \/ o = two
        BY DEF Overwritten
    <2> HIDE DEF o, one, two
    <2>6. o \in Seq(Config)
        BY <2>2, <2>3, <2>5
    <2> DEFINE n == Len(o)
    <2>7. n = 1 \/ n = 2
        BY <2>2, <2>4, <2>5
    <2> HIDE DEF n
    <2>8. n <= 2
        BY <2>7
    <2> QED
        BY <1>2, <2>6, <2>8 DEF o, n
<1> QED
    BY <1>1, <1>2

LEMMA CallKeepsInv ==
    ASSUME StoreInv, NEW t \in Handlers, NEW edit \in Edits, Call(t, edit)
    PROVE  StoreInv'
<1>1. t \in Savers /\ t \in Tasks /\ t # "bridge" /\ t # "passwd"
    BY SaverIsTask DEF Savers
<1>2. "called" \in PointsOf(t) /\ edit \in EditsOf(t)
    BY <1>1, StoreAssumption DEF PointsOf, EditsOf
<1>3. Begins(t, "called", edit, EmptyConfig)
    BY <1>1, <1>2, EmptyConfigType, JobBegins DEF StoreInv, TypeInv, Call
<1>4. BackendInv' /\ UNCHANGED config.backends
    <2>1. CASE edit.op = "active" /\ edit.target = Mode
        <3>1. SwitchBackend(edit.name)
            BY <2>1 DEF Call
        <3>2. BackendInv'
            BY <3>1, SwitchBackendInv DEF StoreInv, TypeInv
        <3> QED
            BY <3>1, <3>2 DEF SwitchBackend, backendVars
    <2>2. CASE ~(edit.op = "active" /\ edit.target = Mode)
        <3>1. UNCHANGED backendVars
            BY <2>2 DEF Call
        <3> QED
            BY <3>1, BackendStays DEF StoreInv, TypeInv, backendVars
    <2> QED
        BY <2>1, <2>2
<1>5. TypeInv'
    <2>1. jobs' = jobs + 1 /\ jobs' <= MaxJobs /\ disturbed' = (disturbed \/ Busy # {})
        BY StoreAssumption DEF Call, Begin, StoreInv, TypeInv, FileType
    <2> QED
        BY <1>3, <1>4, <2>1 DEF Call, StoreInv, TypeInv, FileType, Begins
<1>6. ~disturbed /\ Busy = {} => Stage(t)'
    <2> SUFFICES ASSUME ~disturbed, Busy = {}
                 PROVE  Stage(t)'
        OBVIOUS
    <2>1. FileCurrent /\ StoreCurrent /\ Follows
        BY DEF StoreInv, SerialInv
    <2>2. FileCurrent' /\ StoreCurrent' /\ Follows'
        BY <1>4, <2>1 DEF Call, FileCurrent, StoreCurrent, Follows
    <2>3. task'[t].at = "called"
        BY <1>3 DEF Begins
    <2> QED
        BY <2>2, <2>3 DEF Stage
<1>7. LockInv' /\ ValidInv' /\ AloneInv' /\ SerialInv'
    BY <1>1, <1>3, <1>6, BeginsKeepsInv DEF Call, Begin
<1> QED
    BY <1>5, <1>7 DEF StoreInv

LEMMA GetKeepsInv ==
    ASSUME StoreInv, NEW t \in Tasks, Get(t)
    PROVE  StoreInv'
<1>1. t \in Busy /\ task[t].at = "called" /\ t \in Handlers /\ t \in Savers
    BY TaskIsJob, TaskAtPoint DEF Get, StoreInv, TypeInv, Savers
<1>2. /\ task[t] \in JobOf(t) /\ task[t].edit \in EditType /\ task[t].config \in Config
      /\ task[t].read \in Config /\ "save" \in PointsOf(t) /\ store \in Config /\ up
      /\ serial \in Config
    BY <1>1, TaskIsJob, TaskAtPoint, HandlerIsUp DEF StoreInv, TypeInv, FileType
<1>3. BackendInv'
    BY BackendStays DEF StoreInv, TypeInv, Get
<1>4. FileType'
    BY DEF StoreInv, TypeInv, FileType, Get
<1>5. ASSUME ~disturbed
      PROVE  /\ FileCurrent /\ StoreCurrent /\ Follows
             /\ FileCurrent' /\ StoreCurrent' /\ Follows'
    <2>1. FileCurrent /\ StoreCurrent /\ Follows
        BY <1>1, <1>5 DEF StoreInv, SerialInv, Stage
    <2> QED
        BY <2>1 DEF Get, backendVars, FileCurrent, StoreCurrent, Follows
<1>6. CASE Accepted(store, task[t].edit)
    <2> DEFINE c == Edited(store, task[t].edit)
    <2>1. c \in Config
        BY <1>2, EditedTarget
    <2>2. task' = [task EXCEPT ![t] = [at |-> "save", edit |-> task[t].edit, config |-> c,
                                       read |-> task[t].read, alone |-> task[t].alone]]
        BY <1>2, <1>6 DEF Get, JobOf, TaskType, StoreInv, TypeInv
    <2>3. Runs(t, "save", c, task[t].read)
        BY <1>1, <1>2, <2>1, <2>2, JobRuns DEF StoreInv, TypeInv
    <2>4. task[t].edit.op \in {"put", "copy"} =>
            ValidFor(task[t].edit.target, c[task[t].edit.target])
        BY <1>6 DEF Accepted
    <2>5. ASSUME ~disturbed
          PROVE  Stage(t)'
        <3>1. SameProfiles(store, serial)
            BY <1>2, <1>5, <2>5 DEF StoreCurrent
        <3>2. SameProfiles(c, Edited(serial, task[t].edit))
            BY <1>2, <3>1, EditedSame
        <3>3. /\ task'[t].at = "save" /\ task'[t].config = c
              /\ task'[t].edit = task[t].edit /\ serial' = serial
            BY <2>3 DEF Runs, Get
        <3>4. SameProfiles(task'[t].config, Edited(serial', task'[t].edit))
            BY <3>2, <3>3
        <3> QED
            BY <1>5, <2>5, <3>3, <3>4 DEF Stage
    <2> HIDE DEF c
    <2>6. LockInv' /\ ValidInv' /\ AloneInv' /\ SerialInv'
        BY <1>1, <2>3, <2>4, <2>5, RunsKeepsInv DEF Get
    <2> QED
        BY <1>3, <1>4, <2>3, <2>6 DEF StoreInv, TypeInv, Runs
<1>7. CASE ~Accepted(store, task[t].edit)
    <2>1. Ends(t)
        BY <1>1, <1>7, JobEnds DEF Get, StoreInv, TypeInv
    <2>2. LockInv' /\ ValidInv' /\ AloneInv' /\ SerialInv'
        BY <1>1, <1>5, <2>1, EndsKeepsInv DEF Get
    <2> QED
        BY <1>3, <1>4, <2>1, <2>2 DEF StoreInv, TypeInv, Ends
<1> QED
    BY <1>6, <1>7

LEMMA TruncateKeepsInv ==
    ASSUME StoreInv, NEW t \in Tasks, Truncate(t)
    PROVE  StoreInv'
<1>1. t \in Busy /\ task[t].at = "save" /\ t \in Savers
    BY TaskIsJob, TaskAtPoint DEF Truncate, StoreInv, TypeInv, Savers
<1>2. "opened" \in PointsOf(t)
    BY <1>1, SaverIsTask DEF PointsOf, Savers
<1>3. Runs(t, "opened", task[t].config, task[t].read)
    BY <1>1, <1>2, JobGoes DEF Truncate, StoreInv, TypeInv
<1>4. FileType' /\ BackendInv'
    <2>1. BackendInv'
        BY BackendStays DEF StoreInv, TypeInv, Truncate
    <2>2. <<>> \in Seq(Config) /\ Len(<<>>) <= 2
        OBVIOUS
    <2> QED
        BY <2>1, <2>2 DEF StoreInv, TypeInv, FileType, Truncate
<1>5. ASSUME ~disturbed
      PROVE  Stage(t)'
    <2>1. /\ StoreCurrent /\ Follows
          /\ SameProfiles(task[t].config, Edited(serial, task[t].edit))
        BY <1>1, <1>5 DEF StoreInv, SerialInv, Stage
    <2>2. StoreCurrent' /\ Follows'
        BY <2>1 DEF Truncate, backendVars, StoreCurrent, Follows
    <2>3. /\ task'[t].at = "opened" /\ task'[t].config = task[t].config
          /\ task'[t].edit = task[t].edit /\ serial' = serial
        BY <1>3 DEF Runs, Truncate
    <2>4. SameProfiles(task'[t].config, Edited(serial', task'[t].edit))
        BY <2>1, <2>3
    <2> QED
        BY <2>2, <2>3, <2>4 DEF Stage
<1>6. t \in Handlers /\ task[t].edit.op \in {"put", "copy"} =>
        ValidFor(task[t].edit.target, task[t].config[task[t].edit.target])
    BY <1>1 DEF StoreInv, ValidInv
<1>7. LockInv' /\ ValidInv' /\ AloneInv' /\ SerialInv'
    BY <1>1, <1>3, <1>5, <1>6, RunsKeepsInv DEF Truncate
<1> QED
    BY <1>3, <1>4, <1>7 DEF StoreInv, TypeInv, Runs

\* The profile of the running instance, after an edit it need not be told of.
LEMMA EditFollowed ==
    ASSUME NEW c \in Config, NEW e \in AnyEdit, e \in EditType => ~NeedsUpdate(e)
    PROVE  Edited(c, e)[Mode].backends = c[Mode].backends
<1>1. CASE e \in EditType
    <2>1. Mode = e.target => e.op = "active"
        BY <1>1 DEF NeedsUpdate
    <2>2. c[Mode] \in CliProfile /\ Mode \in Modes
        BY StoreAssumption, ConfigHasProfiles
    <2>3. CASE Mode = e.target
        <3>1. Edited(c, e)[Mode] = [c[Mode] EXCEPT !.active = e.name]
            BY <1>1, <2>1, <2>3, EditedTarget
        <3> QED
            BY <2>2, <3>1 DEF CliProfile
    <2>4. CASE Mode # e.target
        BY <1>1, <2>2, <2>4, EditedTarget
    <2> QED
        BY <2>3, <2>4
<1>2. CASE e \in BridgeEdit \cup PasswdEdit
    BY <1>2, EditedElsewhere, StoreAssumption DEF SameProfiles, SameProfile
<1> QED
    BY <1>1, <1>2 DEF AnyEdit

LEMMA EditedType ==
    ASSUME NEW c \in Config, NEW e \in AnyEdit
    PROVE  Edited(c, e) \in Config
BY EditedTarget, EditedElsewhere DEF AnyEdit

LEMMA SameTransitive ==
    ASSUME NEW c, NEW d, NEW e, SameProfiles(c, d), SameProfiles(d, e)
    PROVE  SameProfiles(c, e)
BY DEF SameProfiles, SameProfile

LEMMA SameSymmetric == ASSUME NEW c, NEW d, SameProfiles(c, d) PROVE SameProfiles(d, c)
BY DEF SameProfiles, SameProfile

LEMMA WriteKeepsInv ==
    ASSUME StoreInv, NEW t \in Tasks, Write(t)
    PROVE  StoreInv'
<1> DEFINE c == task[t].config
           e == task[t].edit
<1>1. t \in Busy /\ task[t].at = "opened" /\ t \in Savers
    BY TaskIsJob, TaskAtPoint DEF Write, StoreInv, TypeInv, Savers
<1>2. c \in Config /\ e \in AnyEdit /\ serial \in Config /\ FileType /\ TaskType
    BY <1>1, TaskIsJob, TaskAtPoint DEF StoreInv, TypeInv, FileType, AnyEdit, Savers
<1>3. serial' = Edited(serial, e) /\ serial' \in Config
    BY <1>2, EditedType DEF Write
<1>4. FileType' /\ BackendInv'
    <2>1. BackendInv'
        BY BackendStays DEF StoreInv, TypeInv, Write
    <2>2. file' \in Seq(Config) /\ Len(file') <= 2
        BY <1>2, OverwrittenType DEF Write
    <2> QED
        BY <1>2, <1>3, <2>1, <2>2 DEF FileType, Write
<1>5. ASSUME ~disturbed
      PROVE  /\ file = <<>> /\ file' = <<c>>
             /\ SameProfiles(c, serial')
             /\ StoreCurrent /\ Follows
    <2>1. file = <<>>
        BY <1>1, <1>5 DEF StoreInv, AloneInv
    <2>2. file' = <<c>>
        BY <1>2, <2>1, OverwrittenType DEF Write
    <2>3. SameProfiles(c, Edited(serial, e)) /\ StoreCurrent /\ Follows
        BY <1>1, <1>5 DEF StoreInv, SerialInv, Stage
    <2> QED
        BY <1>3, <2>1, <2>2, <2>3
<1>6. (e \in EditType => ~NeedsUpdate(e)) /\ Follows => Follows'
    <2>1. (e \in EditType => ~NeedsUpdate(e)) => serial'[Mode].backends = serial[Mode].backends
        BY <1>2, <1>3, EditFollowed
    <2>2. e \notin EditType => serial'[Mode].backends = serial[Mode].backends
        BY <1>2, <1>3, EditFollowed
    <2> QED
        BY <2>1, <2>2 DEF Follows, Write, backendVars
<1>7. CASE t = "passwd"
    <2>1. Ends(t)
        BY <1>1, <1>2, <1>7, JobEnds DEF Write
    <2>2. e \in PasswdEdit /\ e \notin EditType
        BY <1>1, <1>2, <1>7, TaskAtPoint DEF PasswdEdit, EditType, PutEdit, CopyEdit, ActiveEdit
    <2>3. ASSUME ~disturbed
          PROVE  FileCurrent' /\ StoreCurrent' /\ Follows'
        <3>1. FileCurrent'
            BY <1>2, <1>5, <2>3 DEF FileCurrent
        <3>2. SameProfiles(serial', serial)
            BY <1>2, <1>3, <2>2, EditedElsewhere
        <3>3. SameProfiles(serial, serial')
            BY <3>2, SameSymmetric
        <3>4. StoreCurrent'
            BY <1>5, <2>3, <3>3, SameTransitive DEF StoreCurrent, Write
        <3> QED
            BY <1>5, <1>6, <2>2, <2>3, <3>1, <3>4
    <2>4. LockInv' /\ ValidInv' /\ AloneInv' /\ SerialInv'
        BY <1>1, <2>1, <2>3, EndsKeepsInv DEF Write, LockFree
    <2> QED
        BY <1>4, <2>1, <2>4 DEF StoreInv, TypeInv, Ends
<1>8. CASE t # "passwd"
    <2>1. t \in Handlers /\ "saved" \in PointsOf(t) /\ e \in EditType
        BY <1>1, <1>2, <1>8, TaskAtPoint DEF Savers
    <2>2. Runs(t, "saved", c, task[t].read)
        BY <1>1, <1>2, <1>8, <2>1, JobGoes DEF Write
    <2>3. ASSUME ~disturbed
          PROVE  Stage(t)'
        <3>1. /\ task'[t].at = "saved" /\ task'[t].config = c /\ task'[t].edit = e
            BY <2>2 DEF Runs
        <3>2. SameProfiles(task'[t].config, serial') /\ file' = <<task'[t].config>>
            BY <1>5, <2>3, <3>1
        <3>3. NeedsUpdate(task'[t].edit) \/ Follows'
            BY <1>5, <1>6, <2>3, <3>1
        <3>4. NeedsUpdate(task[t].edit)' <=> NeedsUpdate(task'[t].edit)
            BY DEF NeedsUpdate
        <3> QED
            BY <3>1, <3>2, <3>3, <3>4 DEF Stage
    <2>4. e.op \in {"put", "copy"} => ValidFor(e.target, c[e.target])
        BY <1>1, <2>1 DEF StoreInv, ValidInv
    <2>5. LockInv' /\ ValidInv' /\ AloneInv' /\ SerialInv'
        BY <1>1, <2>2, <2>3, <2>4, RunsKeepsInv DEF Write, LockFree
    <2> QED
        BY <1>4, <2>2, <2>5 DEF StoreInv, TypeInv, Runs
<1> QED
    BY <1>7, <1>8

\* A reload that is over, whether it read the file or not.
LEMMA AfterReloadEffect ==
    ASSUME TaskType, NEW t \in Handlers, t \in Busy, AfterReload(t)
    PROVE  IF NeedsUpdate(task[t].edit)
           THEN Runs(t, "update", task[t].config, task[t].read)
           ELSE Ends(t)
<1>1. t \in Tasks /\ "update" \in PointsOf(t)
    BY TaskAtPoint DEF Tasks
<1> QED
    BY <1>1, JobGoes, JobEnds DEF AfterReload

LEMMA AfterReloadKeepsInv ==
    ASSUME StoreInv, NEW t \in Handlers, t \in Busy, task[t].at \in {"saved", "read"},
           AfterReload(t), UNCHANGED <<backendVars, file, lock, up, jobs, crashes, serial>>,
           disturbed' = disturbed, store' \in Config,
           ~disturbed => SameProfiles(store', serial)
    PROVE  StoreInv'
<1>1. t \in Savers /\ TaskType
    BY DEF Savers, StoreInv, TypeInv
<1>2. IF NeedsUpdate(task[t].edit)
      THEN Runs(t, "update", task[t].config, task[t].read)
      ELSE Ends(t)
    BY <1>1, AfterReloadEffect
<1>3. FileType' /\ BackendInv'
    BY BackendStays DEF StoreInv, TypeInv, FileType
<1>4. ASSUME ~disturbed
      PROVE  /\ file = <<task[t].config>> /\ SameProfiles(task[t].config, serial)
             /\ NeedsUpdate(task[t].edit) \/ Follows
    BY <1>4 DEF StoreInv, SerialInv, Stage
<1>5. ASSUME ~disturbed
      PROVE  FileCurrent' /\ StoreCurrent' /\ (NeedsUpdate(task[t].edit) \/ Follows')
    <2>1. FileCurrent'
        BY <1>4, <1>5 DEF FileCurrent
    <2>2. StoreCurrent'
        BY <1>5 DEF StoreCurrent
    <2>3. Follows => Follows'
        BY DEF Follows, backendVars
    <2> QED
        BY <1>4, <1>5, <2>1, <2>2, <2>3
<1>6. CASE NeedsUpdate(task[t].edit)
    <2>1. Runs(t, "update", task[t].config, task[t].read)
        BY <1>2, <1>6
    <2>2. ASSUME ~disturbed
          PROVE  Stage(t)'
        <3>1. /\ task'[t].at = "update" /\ task'[t].config = task[t].config
              /\ serial' = serial
            BY <2>1 DEF Runs
        <3>2. SameProfiles(task'[t].config, serial')
            BY <1>4, <2>2, <3>1
        <3> QED
            BY <1>5, <2>2, <3>1, <3>2 DEF Stage
    <2>3. task[t].edit.op \in {"put", "copy"} =>
            ValidFor(task[t].edit.target, task[t].config[task[t].edit.target])
        BY DEF StoreInv, ValidInv
    <2>4. LockInv' /\ ValidInv' /\ AloneInv' /\ SerialInv'
        BY <1>1, <1>6, <2>1, <2>2, <2>3, RunsKeepsInv
    <2> QED
        BY <1>3, <2>1, <2>4 DEF StoreInv, TypeInv, Runs
<1>7. CASE ~NeedsUpdate(task[t].edit)
    <2>1. Ends(t)
        BY <1>2, <1>7
    <2>2. LockInv' /\ ValidInv' /\ AloneInv' /\ SerialInv'
        BY <1>1, <1>5, <1>7, <2>1, EndsKeepsInv
    <2> QED
        BY <1>3, <2>1, <2>2 DEF StoreInv, TypeInv, Ends
<1> QED
    BY <1>6, <1>7

LEMMA ReloadReadKeepsInv ==
    ASSUME StoreInv, NEW t \in Tasks, ReloadRead(t)
    PROVE  StoreInv'
<1>1. /\ t \in Busy /\ task[t].at = "saved" /\ t \in Handlers /\ t \in Savers
      /\ "read" \in PointsOf(t) /\ TaskType /\ FileType
    BY TaskIsJob, TaskAtPoint DEF ReloadRead, StoreInv, TypeInv, Savers
<1>2. ASSUME ~disturbed
      PROVE  /\ file = <<task[t].config>> /\ SameProfiles(task[t].config, serial)
             /\ NeedsUpdate(task[t].edit) \/ Follows
    BY <1>1, <1>2 DEF StoreInv, SerialInv, Stage
<1>3. CASE Parses(file)
    <2>1. Parsed(file) \in Config /\ (~disturbed => Parsed(file) = task[t].config)
        <3>1. Parsed(file) \in Config
            BY <1>1, <1>3, ParsedType
        <3>2. ASSUME ~disturbed PROVE Parsed(file) = task[t].config
            <4>1. file = <<task[t].config>>
                BY <1>2, <3>2
            <4>2. file # <<>> /\ file[1] = task[t].config
                BY <4>1
            <4> QED
                BY <4>2 DEF Parsed
        <3> QED
            BY <3>1, <3>2
    <2>2. Runs(t, "read", task[t].config, Parsed(file))
        <3>1. task[t] \in JobOf(t) /\ task[t].config \in Config
            BY <1>1, TaskIsJob
        <3>2. task' = [task EXCEPT ![t] = [at |-> "read", edit |-> task[t].edit,
                                           config |-> task[t].config, read |-> Parsed(file),
                                           alone |-> task[t].alone]]
            BY <1>1, <1>3, <3>1 DEF ReloadRead, JobOf, TaskType
        <3> QED
            BY <1>1, <2>1, <3>1, <3>2, JobRuns
    <2>3. ASSUME ~disturbed
          PROVE  Stage(t)'
        <3>1. /\ task'[t].at = "read" /\ task'[t].config = task[t].config
              /\ task'[t].read = task[t].config /\ task'[t].edit = task[t].edit
              /\ serial' = serial /\ file' = file
            BY <2>1, <2>2, <2>3 DEF Runs, ReloadRead
        <3>2. SameProfiles(task'[t].config, serial') /\ file' = <<task'[t].config>>
            BY <1>2, <2>3, <3>1
        <3>3. Follows => Follows'
            BY DEF Follows, ReloadRead, backendVars
        <3>4. NeedsUpdate(task[t].edit)' <=> NeedsUpdate(task[t].edit)
            BY <3>1 DEF NeedsUpdate
        <3> QED
            BY <1>2, <2>3, <3>1, <3>2, <3>3, <3>4 DEF Stage
    <2>4. task[t].edit.op \in {"put", "copy"} =>
            ValidFor(task[t].edit.target, task[t].config[task[t].edit.target])
        BY <1>1 DEF StoreInv, ValidInv
    <2>5. LockInv' /\ ValidInv' /\ AloneInv' /\ SerialInv'
        BY <1>1, <2>2, <2>3, <2>4, RunsKeepsInv DEF ReloadRead
    <2>6. FileType' /\ BackendInv'
        BY BackendStays DEF StoreInv, TypeInv, FileType, ReloadRead
    <2> QED
        BY <2>2, <2>5, <2>6 DEF StoreInv, TypeInv, Runs
<1>4. CASE ~Parses(file)
    <2>1. disturbed
        <3> SUFFICES ASSUME ~disturbed
                     PROVE  Parses(file)
            BY <1>4
        <3>1. Len(file) = 1
            BY <1>2
        <3> QED
            BY <3>1 DEF Parses
    <2>2. store' \in Config /\ disturbed' = disturbed
        BY <1>1 DEF ReloadRead, FileType
    <2> QED
        BY <1>1, <1>4, <2>1, <2>2, AfterReloadKeepsInv DEF ReloadRead
<1> QED
    BY <1>3, <1>4

LEMMA ReloadInstallKeepsInv ==
    ASSUME StoreInv, NEW t \in Tasks, ReloadInstall(t)
    PROVE  StoreInv'
<1>1. /\ t \in Busy /\ task[t].at = "read" /\ t \in Handlers /\ task[t].read \in Config
    BY TaskIsJob, TaskAtPoint DEF ReloadInstall, StoreInv, TypeInv
<1>2. ~disturbed => SameProfiles(task[t].read, serial)
    BY <1>1 DEF StoreInv, SerialInv, Stage
<1>3. store' = task[t].read /\ disturbed' = disturbed
    BY DEF ReloadInstall
<1> QED
    BY <1>1, <1>2, <1>3, AfterReloadKeepsInv DEF ReloadInstall

LEMMA UpdateKeepsInv ==
    ASSUME StoreInv, NEW t \in Tasks, Update(t)
    PROVE  StoreInv'
<1> DEFINE p == task[t].config[Mode]
<1>1. /\ t \in Busy /\ task[t].at = "update" /\ t \in Handlers /\ t \in Savers
      /\ TaskType /\ FileType /\ BackendInv
    BY TaskIsJob, TaskAtPoint DEF Update, StoreInv, TypeInv, Savers
<1>2. p \in CliProfile /\ Mode \in Modes
    BY <1>1, TaskIsJob, StoreAssumption, ConfigHasProfiles
<1>3. p.backends = <<>> \/ HasBackend(p, p.active)
    <2>1. NeedsUpdate(task[t].edit) /\ task[t].edit \in EditType
        BY <1>1, TaskAtPoint DEF StoreInv, ValidInv
    <2>2. task[t].edit.target = Mode /\ task[t].edit.op \in {"put", "copy"}
        BY <2>1 DEF NeedsUpdate, EditType, PutEdit, CopyEdit, ActiveEdit
    <2>3. ValidFor(Mode, p)
        BY <1>1, <2>2 DEF StoreInv, ValidInv
    <2> QED
        BY <2>3 DEF ValidFor
<1>4. /\ Running(p) \in ProfileType /\ Running(p).backends = p.backends
      /\ Running(p).backends # <<>> => HasBackend(Running(p), Running(p).active)
    BY <1>2, <1>3 DEF Running, ProfileType, CliProfile, Option, HasBackend
<1>5. UpdateConfig(Running(p)) /\ Ends(t)
    BY <1>1, JobEnds DEF Update
<1>6. BackendInv'
    BY <1>1, <1>4, <1>5, UpdateConfigInv
<1>7. ASSUME ~disturbed
      PROVE  FileCurrent' /\ StoreCurrent' /\ Follows'
    <2>1. FileCurrent /\ StoreCurrent /\ SameProfiles(task[t].config, serial)
        BY <1>1, <1>7 DEF StoreInv, SerialInv, Stage
    <2>2. FileCurrent' /\ StoreCurrent'
        BY <2>1 DEF Update, FileCurrent, StoreCurrent
    <2>3. serial'[Mode].backends = p.backends
        BY <1>2, <2>1 DEF Update, SameProfiles, SameProfile
    <2>4. p.backends # <<>> => config'.backends = p.backends
        BY <1>4, <1>5 DEF UpdateConfig
    <2> QED
        BY <2>2, <2>3, <2>4 DEF Follows
<1>8. LockInv' /\ ValidInv' /\ AloneInv' /\ SerialInv'
    BY <1>1, <1>5, <1>7, EndsKeepsInv DEF Update
<1>9. FileType'
    BY <1>1 DEF FileType, Update
<1> QED
    BY <1>5, <1>6, <1>8, <1>9 DEF StoreInv, TypeInv, Ends

LEMMA SettingsReadKeepsInv ==
    ASSUME StoreInv, NEW value \in Settings, SettingsRead(value)
    PROVE  StoreInv'
<1> DEFINE base == IF file = <<>> THEN DefaultConfig ELSE file[1]
           edit == [op |-> "settings", value |-> value]
<1>1. "bridge" \in Tasks /\ "settings" \in PointsOf("bridge") /\ edit \in EditsOf("bridge")
    BY StoreAssumption DEF Tasks, PointsOf, EditsOf, BridgeEdit
<1>2. base \in Config /\ (file = <<>> \/ file = <<base>>)
    BY ParsedType, EmptyConfigType DEF SettingsRead, Parsed, StoreInv, TypeInv
<1>3. Begins("bridge", "settings", edit, base)
    BY <1>1, <1>2, JobBegins DEF SettingsRead, StoreInv, TypeInv
<1>4. TypeInv'
    <2>1. jobs' = jobs + 1 /\ jobs' <= MaxJobs /\ disturbed' = (disturbed \/ Busy # {})
        BY StoreAssumption DEF SettingsRead, Begin, StoreInv, TypeInv, FileType
    <2>2. BackendInv'
        BY BackendStays DEF SettingsRead, StoreInv, TypeInv
    <2> QED
        BY <1>3, <2>1, <2>2 DEF SettingsRead, StoreInv, TypeInv, FileType, Begins
<1>5. ASSUME ~disturbed, Busy = {}
      PROVE  Stage("bridge")'
    <2>1. FileCurrent /\ StoreCurrent /\ Follows
        BY <1>5 DEF StoreInv, SerialInv
    <2>2. FileCurrent' /\ StoreCurrent' /\ Follows' /\ file' = file
        BY <2>1 DEF SettingsRead, backendVars, FileCurrent, StoreCurrent, Follows
    <2>3. task'["bridge"].at = "settings" /\ task'["bridge"].config = base
        BY <1>3 DEF Begins
    <2>4. file = <<base>>
        BY <1>2, <2>1 DEF FileCurrent
    <2> QED
        BY <2>2, <2>3, <2>4 DEF Stage
<1>6. LockInv' /\ ValidInv' /\ AloneInv' /\ SerialInv'
    <2>1. /\ file' = file /\ up' = up /\ up /\ lock' = "bridge"
          /\ disturbed' = (disturbed \/ Busy # {})
        BY DEF SettingsRead, Begin
    <2>2. "bridge" \notin Handlers
        BY StoreAssumption
    <2> HIDE DEF base, edit
    <2> QED
        BY <1>1, <1>2, <1>3, <1>5, <2>1, <2>2, BeginsKeepsInv
<1> QED
    BY <1>4, <1>6 DEF StoreInv

LEMMA SettingsTruncateKeepsInv ==
    ASSUME StoreInv, SettingsTruncate
    PROVE  StoreInv'
<1>1. /\ "bridge" \in Tasks /\ "bridge" \in Busy /\ task["bridge"].at = "settings"
      /\ TaskType /\ "emptied" \in PointsOf("bridge")
    BY TaskIsJob DEF Tasks, PointsOf, SettingsTruncate, StoreInv, TypeInv
<1>2. Runs("bridge", "emptied", task["bridge"].config, task["bridge"].read)
    BY <1>1, JobGoes DEF SettingsTruncate
<1>3. FileType' /\ BackendInv'
    <2>1. BackendInv'
        BY BackendStays DEF StoreInv, TypeInv, SettingsTruncate
    <2>2. <<>> \in Seq(Config) /\ Len(<<>>) <= 2
        OBVIOUS
    <2> QED
        BY <2>1, <2>2 DEF StoreInv, TypeInv, FileType, SettingsTruncate
<1>4. LockInv'
    <2>1. task'["bridge"].at = "emptied" /\ file' = <<>> /\ lock' = "bridge" /\ up' = up
        BY <1>1, <1>2 DEF Runs, SettingsTruncate, StoreInv, LockInv
    <2>2. InstanceBusy' = InstanceBusy
        BY <1>2 DEF Runs, InstanceBusy
    <2> QED
        BY <2>1, <2>2 DEF LockInv, StoreInv
<1>5. ValidInv'
    <2>1. \A u \in Handlers : task'[u] = task[u]
        BY <1>2, StoreAssumption DEF Runs, Tasks
    <2> QED
        BY <2>1 DEF StoreInv, ValidInv
<1>6. AloneInv'
    <2> SUFFICES ASSUME NEW u \in Busy'
                 PROVE  /\ task'[u].alone => Busy' = {u}
                        /\ task'[u].alone /\ task'[u].at = "opened" => file' = <<>>
                        /\ task'[u].alone \/ disturbed'
        BY DEF AloneInv
    <2>1. u \in Busy /\ u \in Tasks /\ Busy' = Busy /\ task'[u].alone = task[u].alone
        BY <1>2 DEF Runs, Busy
    <2> QED
        BY <2>1 DEF StoreInv, AloneInv, SettingsTruncate
<1>7. SerialInv'
    <2> SUFFICES ASSUME ~disturbed
                 PROVE  Busy' = {"bridge"} /\ Stage("bridge")'
        BY DEF SerialInv, SettingsTruncate
    <2>1. Busy' = {"bridge"}
        BY <1>1, <1>2 DEF StoreInv, AloneInv, Runs
    <2>2. /\ StoreCurrent /\ Follows /\ FileCurrent /\ file = <<task["bridge"].config>>
        BY <1>1 DEF StoreInv, SerialInv, Stage
    <2>3. SameProfiles(task["bridge"].config, serial)
        BY <2>2 DEF FileCurrent
    <2>4. StoreCurrent' /\ Follows'
        BY <2>2 DEF SettingsTruncate, backendVars, StoreCurrent, Follows
    <2>5. /\ task'["bridge"].at = "emptied" /\ serial' = serial
          /\ task'["bridge"].config = task["bridge"].config
        BY <1>2 DEF Runs, SettingsTruncate
    <2>6. SameProfiles(task'["bridge"].config, serial')
        BY <2>3, <2>5
    <2> QED
        BY <2>1, <2>4, <2>5, <2>6 DEF Stage
<1> QED
    BY <1>2, <1>3, <1>4, <1>5, <1>6, <1>7 DEF StoreInv, TypeInv, Runs

LEMMA SettingsWriteKeepsInv ==
    ASSUME StoreInv, SettingsWrite
    PROVE  StoreInv'
<1> DEFINE c == task["bridge"].config
           e == task["bridge"].edit
<1>1. /\ "bridge" \in Tasks /\ "bridge" \in Busy /\ task["bridge"].at = "emptied"
      /\ TaskType /\ FileType
    BY TaskIsJob DEF Tasks, SettingsWrite, StoreInv, TypeInv
<1>2. c \in Config /\ e \in BridgeEdit /\ serial \in Config
    BY <1>1, TaskIsJob, TaskAtPoint DEF FileType
<1>3. /\ Edited(c, e) \in Config /\ SameProfiles(Edited(c, e), c)
      /\ serial' \in Config /\ SameProfiles(serial', serial)
    BY <1>2, EditedElsewhere DEF SettingsWrite
<1>4. Ends("bridge")
    BY <1>1, JobEnds DEF SettingsWrite
<1>5. file' = <<Edited(c, e)>> /\ file' \in Seq(Config) /\ Len(file') <= 2
    <2> DEFINE d == Edited(c, e)
               one == <<d>>
    <2>1. d \in Config
        BY <1>3
    <2> HIDE DEF d
    <2>2. one \in Seq(Config) /\ Len(one) = 1
        BY <2>1
    <2>3. file = <<>> /\ file' = one
        BY <1>1 DEF SettingsWrite, Overwritten, StoreInv, LockInv, d
    <2> HIDE DEF one
    <2> QED
        BY <2>2, <2>3 DEF one, d
<1>6. FileType' /\ BackendInv'
    BY <1>1, <1>3, <1>5, BackendStays DEF FileType, SettingsWrite, StoreInv, TypeInv
<1>7. LockInv'
    <2>1. task'["bridge"].at = "idle" /\ lock' = "none" /\ up' = up
        BY <1>4 DEF Ends, SettingsWrite, Idle
    <2>2. InstanceBusy' \subseteq InstanceBusy
        BY <1>4 DEF Ends, InstanceBusy
    <2> QED
        BY <2>1, <2>2 DEF LockInv, StoreInv
<1>8. ValidInv'
    <2>1. \A u \in Handlers : task'[u] = task[u]
        BY <1>4, StoreAssumption DEF Ends, Tasks
    <2> QED
        BY <2>1 DEF StoreInv, ValidInv
<1>9. \A u \in Busy' : ~task'[u].alone /\ disturbed
    <2> TAKE u \in Busy'
    <2>1. u \in Busy /\ u \in Tasks /\ u # "bridge" /\ task'[u] = task[u]
        BY <1>4 DEF Ends, Busy
    <2>2. ~task[u].alone
        BY <1>1, <2>1 DEF StoreInv, AloneInv
    <2> QED
        BY <2>1, <2>2 DEF StoreInv, AloneInv
<1>10. AloneInv'
    BY <1>9 DEF AloneInv, SettingsWrite
<1>11. SerialInv'
    <2> SUFFICES ASSUME ~disturbed
                 PROVE  FileCurrent' /\ StoreCurrent' /\ Follows'
        BY <1>9 DEF SerialInv, SettingsWrite
    <2>1. StoreCurrent /\ Follows /\ SameProfiles(c, serial)
        BY <1>1 DEF StoreInv, SerialInv, Stage
    <2>2. SameProfiles(c, serial) /\ SameProfiles(serial, serial')
        BY <1>3, <2>1, SameSymmetric
    <2>3. FileCurrent'
        <3>1. SameProfiles(Edited(c, e), serial')
            BY <1>3, <2>2, SameTransitive
        <3> QED
            BY <1>5, <3>1 DEF FileCurrent
    <2>4. StoreCurrent'
        BY <2>1, <2>2, SameTransitive DEF StoreCurrent, SettingsWrite
    <2>5. Follows'
        BY <1>3, <2>1, StoreAssumption
            DEF Follows, SettingsWrite, backendVars, SameProfiles, SameProfile
    <2> QED
        BY <2>3, <2>4, <2>5
<1> QED
    BY <1>4, <1>6, <1>7, <1>8, <1>10, <1>11 DEF StoreInv, TypeInv, Ends

LEMMA PasswdLoadKeepsInv ==
    ASSUME StoreInv, NEW value \in Passwords, PasswdLoad(value)
    PROVE  StoreInv'
<1> DEFINE edit == [op |-> "passwd", value |-> value]
           c == Edited(Parsed(file), edit)
<1>1. "passwd" \in Tasks /\ "save" \in PointsOf("passwd") /\ edit \in EditsOf("passwd")
    BY StoreAssumption DEF Tasks, PointsOf, EditsOf, PasswdEdit
<1>2. edit \in PasswdEdit
    BY StoreAssumption DEF PasswdEdit
<1>3. Parsed(file) \in Config /\ (file = <<>> \/ file = <<Parsed(file)>>)
    BY ParsedType DEF PasswdLoad, StoreInv, TypeInv
<1> HIDE DEF edit
<1>4. c \in Config /\ SameProfiles(c, Parsed(file))
    BY <1>2, <1>3, EditedElsewhere
<1>5. Begins("passwd", "save", edit, c)
    BY <1>1, <1>4, JobBegins DEF PasswdLoad, StoreInv, TypeInv, edit
<1>6. TypeInv'
    <2>1. jobs' = jobs + 1 /\ jobs' <= MaxJobs /\ disturbed' = (disturbed \/ Busy # {})
        BY StoreAssumption DEF PasswdLoad, Begin, StoreInv, TypeInv, FileType
    <2>2. BackendInv'
        BY BackendStays DEF PasswdLoad, StoreInv, TypeInv
    <2> QED
        BY <1>5, <2>1, <2>2 DEF PasswdLoad, StoreInv, TypeInv, FileType, Begins
<1>7. ASSUME ~disturbed, Busy = {}
      PROVE  Stage("passwd")'
    <2>1. FileCurrent /\ StoreCurrent /\ Follows
        BY <1>7 DEF StoreInv, SerialInv
    <2>2. FileCurrent' /\ StoreCurrent' /\ Follows' /\ serial' = serial
        BY <2>1 DEF PasswdLoad, backendVars, FileCurrent, StoreCurrent, Follows
    <2>3. /\ task'["passwd"].at = "save" /\ task'["passwd"].config = c
          /\ task'["passwd"].edit = edit
        BY <1>5 DEF Begins
    <2>4. SameProfiles(Parsed(file), serial)
        BY <1>3, <2>1 DEF FileCurrent
    <2>5. SameProfiles(serial, Edited(serial, edit))
        BY <1>2, EditedElsewhere, SameSymmetric DEF StoreInv, TypeInv, FileType
    <2>6. SameProfiles(c, Edited(serial, edit))
        BY <1>4, <2>4, <2>5, SameTransitive
    <2>7. SameProfiles(task'["passwd"].config, Edited(serial', task'["passwd"].edit))
        BY <2>2, <2>3, <2>6
    <2> QED
        BY <2>2, <2>3, <2>7 DEF Stage
<1>8. LockInv' /\ ValidInv' /\ AloneInv' /\ SerialInv'
    <2>1. file' = file /\ up' = up /\ lock' = lock /\ disturbed' = (disturbed \/ Busy # {})
        BY DEF PasswdLoad, Begin
    <2>2. "passwd" \notin Handlers
        BY StoreAssumption
    <2> HIDE DEF c
    <2> QED
        BY <1>1, <1>5, <1>7, <2>1, <2>2, BeginsKeepsInv
<1> QED
    BY <1>6, <1>8 DEF StoreInv

LEMMA CrashKeepsInv ==
    ASSUME StoreInv, Crash
    PROVE  StoreInv'
<1>1. "bridge" \in Tasks /\ "passwd" \in Tasks /\ "bridge" # "passwd"
    BY DEF Tasks
<1>2. /\ task' = [t \in Tasks |-> task'[t]]
      /\ task'["passwd"] = task["passwd"]
      /\ \A t \in Tasks \ {"passwd"} : task'[t] = Idle
    BY <1>1 DEF Crash
<1>3. TaskType'
    BY <1>2 DEF StoreInv, TypeInv, TaskType
<1>4. InstanceBusy' = {} /\ Busy' = Busy \cap {"passwd"}
    BY <1>1, <1>2 DEF InstanceBusy, Busy, Idle
<1>5. FileType' /\ BackendInv'
    <2>1. BackendInv'
        BY BackendStays DEF StoreInv, TypeInv, Crash
    <2>2. crashes' \in Nat /\ crashes' <= MaxCrashes
        BY StoreAssumption DEF StoreInv, TypeInv, FileType, Crash
    <2>3. disturbed' \in BOOLEAN
        BY DEF Crash
    <2> QED
        BY <2>1, <2>2, <2>3 DEF StoreInv, TypeInv, FileType, Crash
<1>6. LockInv'
    BY <1>1, <1>2, <1>4 DEF LockInv, Crash, Idle
<1>7. ValidInv'
    BY <1>2, StoreAssumption DEF ValidInv, Tasks, Idle
<1>8. AloneInv'
    <2> SUFFICES ASSUME "passwd" \in Busy
                 PROVE  /\ task["passwd"].alone => Busy' = {"passwd"}
                        /\ /\ task["passwd"].alone /\ task["passwd"].at = "opened"
                           => file' = <<>>
                        /\ task["passwd"].alone \/ disturbed'
        BY <1>2, <1>4 DEF AloneInv
    <2> QED
        BY <1>4 DEF StoreInv, AloneInv, Crash
<1>9. SerialInv'
    <2> SUFFICES ASSUME ~disturbed, InstanceBusy = {}
                 PROVE  /\ Busy' = {} => FileCurrent' /\ StoreCurrent' /\ Follows'
                        /\ \A t \in Busy' : Stage(t)'
        BY DEF SerialInv, Crash
    <2>1. Busy' = Busy
        BY <1>4 DEF InstanceBusy
    <2>2. StoreCurrent' /\ Follows' /\ (FileCurrent => FileCurrent')
        BY DEF StoreCurrent, Follows, FileCurrent, Crash
    <2>3. ASSUME "passwd" \in Busy
          PROVE  Stage("passwd")'
        <3>1. task["passwd"].at \in {"save", "opened"} /\ Stage("passwd")
            BY <1>1, <2>3, StoreAssumption, TaskIsJob DEF PointsOf, StoreInv, TypeInv, SerialInv
        <3>2. /\ task["passwd"].at = "save" => FileCurrent
              /\ SameProfiles(task["passwd"].config, Edited(serial, task["passwd"].edit))
            BY <3>1 DEF Stage
        <3>3. SameProfiles(task'["passwd"].config, Edited(serial', task'["passwd"].edit))
            BY <1>2, <3>2 DEF Crash
        <3> QED
            BY <1>2, <2>2, <3>1, <3>2, <3>3 DEF Stage
    <2> QED
        BY <1>4, <2>1, <2>2, <2>3 DEF StoreInv, SerialInv
<1> QED
    BY <1>3, <1>5, <1>6, <1>7, <1>8, <1>9 DEF StoreInv, TypeInv

LEMMA StartKeepsInv ==
    ASSUME StoreInv, Start
    PROVE  StoreInv'
<1> DEFINE p == Parsed(file)[Mode]
<1>1. /\ Parsed(file) \in Config /\ (file = <<>> \/ file = <<Parsed(file)>>)
      /\ p \in CliProfile
    BY ParsedType, ConfigHasProfiles, StoreAssumption DEF Start, StoreInv, TypeInv
<1>2. HasBackend(p, p.active) /\ p.active \in Backends /\ p.active # NoName
    BY <1>1, NoNameAssumption DEF Start, CliProfile
<1>3. /\ DefaultBackend(p) = p.active /\ Running(p) \in ProfileType
      /\ HasBackend(Running(p), p.active) /\ Running(p).backends = p.backends
    BY <1>1, <1>2 DEF DefaultBackend, Running, ProfileType, CliProfile, Option, HasBackend
<1>4. BackendInv'
    <2>1. Switched(NoName, p.active) \in [old : Option(Backends), new : Backends]
        BY <1>2 DEF Switched, Option
    <2>2. /\ active_backend' = p.active /\ config' = Running(p)
          /\ switch_log' = <<Switched(NoName, p.active)>>
        BY <1>3 DEF Start
    <2> QED
        BY <1>2, <1>3, <2>1, <2>2 DEF BackendInv, BackendTypeOK, ActiveIsConfigured, HasBackend
<1>5. FileType' /\ TaskType'
    BY <1>1 DEF StoreInv, TypeInv, FileType, TaskType, Start
<1>6. LockInv' /\ ValidInv' /\ AloneInv'
    BY DEF StoreInv, LockInv, ValidInv, AloneInv, Start, LockFree, Busy
<1>7. file # <<>> /\ file = <<Parsed(file)>>
    <2>1. ASSUME file = <<>>
          PROVE  FALSE
        <3>1. p = NoProfile
            BY <2>1, StoreAssumption DEF Parsed, EmptyConfig, Modes
        <3> QED
            BY <1>2, <3>1 DEF NoProfile, HasBackend, Range
    <2> QED
        BY <1>1, <2>1
<1>8. SerialInv'
    <2> SUFFICES ASSUME ~disturbed
                 PROVE  /\ Busy' = {} => FileCurrent' /\ StoreCurrent' /\ Follows'
                        /\ \A t \in Busy' : Stage(t)'
        BY DEF SerialInv, Start
    <2>1. Busy' = Busy /\ \A t \in Busy : t = "passwd"
        BY DEF StoreInv, LockInv, InstanceBusy, Start, Busy
    <2>2. \A t \in Busy : task[t].at = "save" /\ FileCurrent
        <3> SUFFICES ASSUME "passwd" \in Busy
                     PROVE  task["passwd"].at = "save" /\ FileCurrent
            BY <2>1
        <3>1. task["passwd"].at \in {"save", "opened"} /\ Stage("passwd")
            BY StoreAssumption, TaskIsJob DEF PointsOf, StoreInv, TypeInv, SerialInv, Tasks
        <3>2. task["passwd"].at # "opened"
            BY <1>7 DEF StoreInv, AloneInv
        <3> QED
            BY <3>1, <3>2 DEF Stage
    <2>3. FileCurrent
        BY <2>2 DEF StoreInv, SerialInv
    <2>4. SameProfiles(Parsed(file), serial)
        BY <1>7, <2>3 DEF FileCurrent, Parsed
    <2>5. FileCurrent' /\ StoreCurrent' /\ Follows'
        <3>1. FileCurrent' /\ StoreCurrent'
            BY <2>3, <2>4 DEF FileCurrent, StoreCurrent, Start
        <3>2. serial'[Mode].backends = p.backends
            BY <2>4, StoreAssumption DEF Start, SameProfiles, SameProfile
        <3>3. config'.backends = p.backends
            BY <1>3 DEF Start
        <3> QED
            BY <3>1, <3>2, <3>3 DEF Follows
    <2>6. ASSUME NEW t \in Busy
          PROVE  Stage(t)'
        <3>1. task[t].at = "save" /\ Stage(t)
            BY <2>2, <2>6 DEF StoreInv, SerialInv
        <3>2. SameProfiles(task[t].config, Edited(serial, task[t].edit))
            BY <3>1 DEF Stage
        <3>3. task' = task /\ serial' = serial
            BY DEF Start
        <3>4. SameProfiles(task'[t].config, Edited(serial', task'[t].edit))
            BY <3>2, <3>3
        <3> QED
            BY <2>5, <3>1, <3>3, <3>4 DEF Stage
    <2> QED
        BY <2>1, <2>5, <2>6
<1> QED
    BY <1>4, <1>5, <1>6, <1>8 DEF StoreInv, TypeInv

LEMMA StoreInitInv ==
    ASSUME StoreInit
    PROVE  StoreInv
<1> DEFINE p == FirstConfig[Mode]
<1>1. p \in CliProfile /\ Mode \in Modes /\ FirstConfig \in Config
    BY StoreAssumption, ConfigHasProfiles
<1>2. /\ Running(p) \in ProfileType /\ Running(p).backends = p.backends
      /\ Running(p).active \in Backends
    BY <1>1 DEF Running, ProfileType, CliProfile, Option
<1>3. BackendInv
    <2>1. FromConfig(Running(p))
        BY DEF StoreInit
    <2>2. /\ DefaultBackend(Running(p)) \in Backends
          /\ HasBackend(Running(p), DefaultBackend(Running(p)))
        BY <1>2, <2>1, DefaultBackendType, DefaultBackendConfigured DEF FromConfig
    <2>3. Switched(NoName, DefaultBackend(Running(p)))
            \in [old : Option(Backends), new : Backends]
        BY <2>2 DEF Switched, Option
    <2> QED
        BY <1>2, <2>1, <2>2, <2>3 DEF FromConfig, BackendInv, BackendTypeOK, ActiveIsConfigured
<1>4. FileType
    <2> DEFINE one == <<FirstConfig>>
    <2>1. one \in Seq(Config) /\ Len(one) = 1
        BY <1>1
    <2> HIDE DEF one
    <2>2. file \in Seq(Config) /\ Len(file) <= 2
        BY <2>1 DEF StoreInit, one
    <2>3. jobs <= MaxJobs /\ crashes <= MaxCrashes
        BY StoreAssumption DEF StoreInit
    <2> QED
        BY <1>1, <2>2, <2>3 DEF StoreInit, FileType
<1>5. Busy = {} /\ TaskType
    BY DEF StoreInit, Busy, Idle, TaskType
<1>6. LockInv /\ ValidInv /\ AloneInv
    BY <1>5, StoreAssumption
        DEF StoreInit, LockInv, ValidInv, AloneInv, Tasks, Idle, InstanceBusy
<1>7. SerialInv
    <2>1. SameProfiles(FirstConfig, FirstConfig)
        BY DEF SameProfiles, SameProfile
    <2>2. config.backends = serial[Mode].backends
        BY <1>2 DEF StoreInit, FromConfig
    <2> QED
        BY <1>5, <2>1, <2>2 DEF StoreInit, SerialInv, FileCurrent, StoreCurrent, Follows
<1> QED
    BY <1>3, <1>4, <1>5, <1>6, <1>7 DEF StoreInv, TypeInv

LEMMA StoreInductive == StoreInv /\ [StoreNext]_configVars => StoreInv'
<1> SUFFICES ASSUME StoreInv, [StoreNext]_configVars
             PROVE  StoreInv'
    OBVIOUS
<1>1. ASSUME NEW t \in Handlers, NEW edit \in Edits, Call(t, edit)
      PROVE  StoreInv'
    BY <1>1, CallKeepsInv
<1>2. ASSUME NEW t \in Tasks, Proceed(t)
      PROVE  StoreInv'
    BY <1>2, GetKeepsInv, TruncateKeepsInv, WriteKeepsInv, ReloadReadKeepsInv,
       ReloadInstallKeepsInv, UpdateKeepsInv DEF Proceed
<1>3. ASSUME NEW value \in Settings, SettingsRead(value)
      PROVE  StoreInv'
    BY <1>3, SettingsReadKeepsInv
<1>4. CASE SettingsTruncate \/ SettingsWrite
    BY <1>4, SettingsTruncateKeepsInv, SettingsWriteKeepsInv
<1>5. ASSUME NEW value \in Passwords, PasswdLoad(value)
      PROVE  StoreInv'
    BY <1>5, PasswdLoadKeepsInv
<1>6. CASE Crash
    BY <1>6, CrashKeepsInv
<1>7. CASE Start
    BY <1>7, StartKeepsInv
<1>8. CASE UNCHANGED configVars
    BY <1>8, StoreInvStutters
<1> QED
    BY <1>1, <1>2, <1>3, <1>4, <1>5, <1>6, <1>7, <1>8 DEF StoreNext

LEMMA StoreInvAlways == StoreSpec => []StoreInv
<1> QED
    BY StoreInitInv, StoreInductive, PTL DEF StoreSpec

------------------------------------------------------------------------------
(* The properties of the runs. *)

\* To have the same profiles is to be equal but for settings and password.
LEMMA SameProfilePart ==
    ASSUME NEW c \in Config, NEW d \in Config, SameProfiles(c, d)
    PROVE  ProfilePart(c) = ProfilePart(d)
<1>1. ASSUME NEW m \in Modes
      PROVE  [c[m] EXCEPT !.claude_settings = 0] = [d[m] EXCEPT !.claude_settings = 0]
    <2>1. c[m] \in CliProfile /\ d[m] \in CliProfile /\ SameProfile(c[m], d[m])
        BY ConfigHasProfiles DEF SameProfiles
    <2> QED
        BY <2>1 DEF CliProfile, SameProfile
<1> QED
    BY <1>1 DEF ProfilePart

LEMMA StoreInvTypes == StoreInv => StoreTypeOK
<1> SUFFICES ASSUME StoreInv
             PROVE  StoreTypeOK
    OBVIOUS
<1>1. \A t \in Busy : task[t].at \in Points /\ task[t].config \in Config
    <2> TAKE t \in Busy
    <2>1. t \in Tasks /\ task[t].at \in PointsOf(t) /\ task[t].config \in Config
        BY TaskIsJob DEF Busy, StoreInv, TypeInv
    <2> QED
        BY <2>1 DEF PointsOf, Points
<1> QED
    BY <1>1 DEF StoreInv, TypeInv, FileType, LockInv, StoreTypeOK

(* Edits that do not overlap and are not cut off are serial: the file and  *)
(* the instance's copy are what they make one after the other, as save and *)
(* reload in each handler of api.rs are to bring about.                    *)
THEOREM EditsAlwaysSerial == StoreSpec => []EditsAreSerial
<1>1. StoreInv => EditsAreSerial
    <2> SUFFICES ASSUME StoreInv, ~disturbed, Busy = {}
                 PROVE  /\ Len(file) = 1
                        /\ ProfilePart(file[1]) = ProfilePart(serial)
                        /\ up => ProfilePart(store) = ProfilePart(serial)
        BY DEF EditsAreSerial
    <2>1. FileCurrent /\ StoreCurrent
        BY DEF StoreInv, SerialInv
    <2>2. file \in Seq(Config) /\ store \in Config /\ serial \in Config
        BY DEF StoreInv, TypeInv, FileType
    <2>3. Len(file) = 1
        BY <2>1 DEF FileCurrent
    <2>4. file[1] \in Config
        BY <2>2, <2>3
    <2> QED
        BY <2>1, <2>2, <2>4, SameProfilePart DEF FileCurrent, StoreCurrent
<1> QED
    BY <1>1, StoreInvAlways, PTL

(* The running instance follows the file, and its active backend is always *)
(* one it has, whatever puts, copies, switches and restarts led there.     *)
THEOREM InstanceAlwaysFollowsFile == StoreSpec => []InstanceFollowsFile
<1>1. StoreInv => InstanceFollowsFile
    BY StoreInvTypes
        DEF StoreInv, TypeInv, BackendInv, SerialInv, Follows, InstanceFollowsFile
<1> QED
    BY <1>1, StoreInvAlways, PTL

\* Who takes a busy writer away from where it is.
LEMMA OnlyItselfOrCrash ==
    ASSUME StoreInv, StoreNext, NEW t \in Tasks, t \in Busy, task'[t].at # task[t].at
    PROVE  Proceed(t) \/ (t = "bridge" /\ (SettingsTruncate \/ SettingsWrite)) \/ Crash
<1> SUFFICES ASSUME ~Crash
             PROVE  Proceed(t) \/ (t = "bridge" /\ (SettingsTruncate \/ SettingsWrite))
    OBVIOUS
<1>1. TaskType
    BY DEF StoreInv, TypeInv
<1>2. ASSUME NEW u \in Tasks, NEW at, NEW e, NEW c, Begin(u, at, e, c)
      PROVE  FALSE
    <2>1. u \notin Busy
        BY <1>2 DEF Begin, Busy, Idle
    <2>2. task'[t] = [task[t] EXCEPT !.alone = FALSE]
        BY <1>2, <2>1 DEF Begin
    <2>3. task[t] \in JobOf(t)
        BY <1>1, TaskIsJob
    <2> QED
        BY <2>2, <2>3 DEF JobOf
<1>3. ASSUME NEW u \in Tasks, Proceed(u), u # t
      PROVE  FALSE
    <2>1. task'[t] = task[t]
        BY <1>1, <1>3 DEF Proceed, Get, Truncate, Write, ReloadRead, ReloadInstall, Update,
            Go, End, AfterReload, TaskType
    <2> QED
        BY <2>1
<1>4. CASE \E u \in Handlers, edit \in Edits : Call(u, edit)
    BY <1>2, <1>4 DEF Call, Tasks
<1>5. CASE \E u \in Tasks : Proceed(u)
    BY <1>3, <1>5
<1>6. CASE \E value \in Settings : SettingsRead(value)
    <2>1. PICK value \in Settings : SettingsRead(value)
        BY <1>6
    <2>2. "bridge" \in Tasks
        BY DEF Tasks
    <2> QED
        BY <1>2, <2>1, <2>2 DEF SettingsRead
<1>7. CASE SettingsTruncate \/ SettingsWrite
    BY <1>1, <1>7 DEF SettingsTruncate, SettingsWrite, Go, End, TaskType
<1>8. CASE \E value \in Passwords : PasswdLoad(value)
    <2>1. PICK value \in Passwords : PasswdLoad(value)
        BY <1>8
    <2>2. "passwd" \in Tasks
        BY DEF Tasks
    <2> QED
        BY <1>2, <2>1, <2>2 DEF PasswdLoad
<1>9. CASE Start
    BY <1>9 DEF Start
<1> QED
    BY <1>4, <1>5, <1>6, <1>7, <1>8, <1>9 DEF StoreNext

\* A writer leaves the opened file by writing it, or with the instance.
LEMMA OpenedIsWritten ==
    ASSUME StoreInv, StoreNext, NEW t \in Tasks, task[t].at = "opened",
           task'[t].at # "opened", up' = up
    PROVE  Write(t)
<1>1. t \in Busy
    BY DEF Busy
<1>2. ~Crash
    BY DEF Crash, StoreInv, TypeInv, FileType
<1>3. t # "bridge"
    BY <1>1, TaskAtPoint DEF StoreInv, TypeInv
<1>4. Proceed(t)
    BY <1>1, <1>2, <1>3, OnlyItselfOrCrash
<1> QED
    BY <1>4 DEF Proceed, Get, Truncate, ReloadRead, ReloadInstall, Update

(* A save that nobody overlaps leaves what it saved and nothing else: it   *)
(* truncates a torn file before it writes, see save_config.                *)
THEOREM SoleSaveAlwaysRepairs == StoreSpec => SoleSaveRepairs
<1> DEFINE Repaired(t) ==
      (/\ task[t].at = "opened" /\ task[t].alone
       /\ task'[t].at # "opened" /\ up' = up) => file' = <<task[t].config>>
<1>1. StoreInv /\ [StoreNext]_configVars => [\A t \in Tasks : Repaired(t)]_configVars
    <2> SUFFICES ASSUME StoreInv, StoreNext, NEW t \in Tasks, task[t].at = "opened",
                        task[t].alone, task'[t].at # "opened", up' = up
                 PROVE  file' = <<task[t].config>>
        OBVIOUS
    <2>1. t \in Busy
        BY DEF Busy
    <2>2. file = <<>>
        BY <2>1 DEF StoreInv, AloneInv
    <2>3. Write(t)
        BY OpenedIsWritten
    <2> QED
        BY <2>2, <2>3 DEF Write, Overwritten
<1>2. QED
    BY <1>1, StoreInvAlways, PTL DEF StoreSpec, SoleSaveRepairs

(* The lock of save_claude_settings is held from its read to its write, so *)
(* that what it writes back undoes nobody's edit.                          *)
THEOREM SettingsNeverUndoEdit == StoreSpec => SettingsUndoNoEdit
<1>1. StoreInv /\ [StoreNext]_configVars =>
        [/\ task["bridge"].at = "settings" /\ task'["bridge"].at = "emptied"
              => file \in {<<>>, <<task["bridge"].config>>}
         /\ task["bridge"].at = "emptied" /\ task'["bridge"].at = "idle" /\ up'
              => file = <<>>]_configVars
    BY DEF StoreInv, LockInv
<1>2. QED
    BY <1>1, StoreInvAlways, PTL DEF StoreSpec, SettingsUndoNoEdit

\* dto_to_backend keeps a key unless the edit clears it or drops its backend.
LEMMA EditedKeepsKeys ==
    ASSUME NEW c \in Config, NEW e \in EditType, NEW m \in Modes, NEW b \in c[m].keys
    PROVE  \/ b \in Edited(c, e)[m].keys
           \/ ~HasBackend(Edited(c, e)[m], b)
           \/ e.op = "put" /\ m = e.target /\ b \in e.cleared
<1>1. c[m] \in CliProfile
    BY ConfigHasProfiles
<1>2. CASE m # e.target
    BY <1>2, EditedTarget
<1>3. CASE m = e.target /\ e.op = "put"
    <2>1. e \in PutEdit /\ Edited(c, e)[m] = PutProfile(c[m], e)
        BY <1>3, EditedTarget
    <2>2. /\ Edited(c, e)[m].backends = e.backends
          /\ Edited(c, e)[m].keys = KeysAfter(c[m].keys, e)
        BY <1>1, <2>1, PutProfileType
    <2> QED
        BY <1>3, <2>2 DEF KeysAfter, HasBackend
<1>4. CASE m = e.target /\ e.op = "copy"
    <2>1. e \in CopyEdit /\ Edited(c, e)[m] = CopyInto(c[m], c[e.source], e)
        BY <1>4, EditedTarget
    <2>2. c[e.source] \in CliProfile
        BY <2>1, ConfigHasProfiles DEF CopyEdit
    <2> QED
        BY <1>1, <2>1, <2>2, CopyIntoType
<1>5. CASE m = e.target /\ e.op = "active"
    <2>1. Edited(c, e)[m] = [c[m] EXCEPT !.active = e.name]
        BY <1>5, EditedTarget
    <2> QED
        BY <1>1, <2>1 DEF CliProfile
<1> QED
    BY <1>2, <1>3, <1>4, <1>5 DEF EditType, PutEdit, CopyEdit, ActiveEdit

(* A key that the browser, which is never shown it, does not mention is    *)
(* still there when the edit is written, see put_config.                   *)
THEOREM KeysAlwaysKept == StoreSpec => KeysKept
<1> DEFINE Kept(t, m, b) ==
      \/ b \in file'[1][m].keys
      \/ ~HasBackend(file'[1][m], b)
      \/ /\ task[t].edit.op = "put"
         /\ m = task[t].edit.target
         /\ b \in task[t].edit.cleared
<1>1. ASSUME StoreInv, StoreNext, NEW t \in Handlers, task[t].at = "opened",
             task'[t].at = "saved", ~disturbed, NEW m \in Modes, NEW b \in serial[m].keys
      PROVE  Kept(t, m, b)
    <2> DEFINE c == task[t].config
               e == task[t].edit
    <2>1. t \in Tasks /\ t \in Busy
        BY <1>1 DEF Tasks, Busy
    <2>2. up' = up
        <3>1. t # "passwd"
            BY StoreAssumption
        <3>2. ~Crash
            BY <1>1, <2>1, <3>1 DEF Crash, Idle
        <3>3. ~Start
            BY <1>1, <2>1, HandlerIsUp DEF Start
        <3> QED
            BY <1>1, <3>2, <3>3 DEF StoreNext, Call, Proceed, Get, Truncate, Write, ReloadRead,
                ReloadInstall, Update, SettingsRead, SettingsTruncate, SettingsWrite, PasswdLoad
    <2>3. Write(t)
        BY <1>1, <2>1, <2>2, OpenedIsWritten
    <2>4. c \in Config /\ e \in EditType /\ serial \in Config
        BY <1>1, <2>1, TaskIsJob, TaskAtPoint DEF StoreInv, TypeInv, FileType
    <2>5. file = <<>> /\ SameProfiles(c, Edited(serial, e))
        BY <1>1, <2>1 DEF StoreInv, AloneInv, SerialInv, Stage
    <2>6. file'[1] = c
        BY <2>3, <2>5 DEF Write, Overwritten
    <2>7. /\ c[m].keys = Edited(serial, e)[m].keys
          /\ HasBackend(c[m], b) <=> HasBackend(Edited(serial, e)[m], b)
        BY <1>1, <2>5 DEF SameProfiles, SameProfile, HasBackend
    <2>8. \/ b \in Edited(serial, e)[m].keys
          \/ ~HasBackend(Edited(serial, e)[m], b)
          \/ e.op = "put" /\ m = e.target /\ b \in e.cleared
        BY <1>1, <2>4, EditedKeepsKeys
    <2> QED
        BY <2>6, <2>7, <2>8
<1>2. StoreInv /\ [StoreNext]_configVars =>
        [\A t \in Handlers : (task[t].at = "opened" /\ task'[t].at = "saved" /\ ~disturbed)
            => \A m \in Modes : \A b \in serial[m].keys : Kept(t, m, b)]_configVars
    <2> HIDE DEF Kept
    <2> QED
        BY <1>1
<1>3. QED
    BY <1>2, StoreInvAlways, PTL DEF StoreSpec, KeysKept

-----------------------------------------------------------------------------
(* UiControl. *)

-----------------------------------------------------------------------------
(* What Of returns. *)

\* f counts along s as the function inside Of does, up to the n-th message.
Step(f, kind, s, n) ==
    f[n] = IF n = 0 THEN <<>>
           ELSE IF s[n].kind = kind THEN Append(f[n - 1], s[n]) ELSE f[n - 1]

Keeps(f, kind, s, len) == \A n \in 0..len : Step(f, kind, s, n)

LEMMA KeepsUnique ==
    ASSUME NEW s, NEW kind, NEW len \in Nat, NEW f, NEW g,
           Keeps(f, kind, s, len), Keeps(g, kind, s, len)
    PROVE  f[len] = g[len]
<1> DEFINE S == {n \in Nat : n <= len => f[n] = g[n]}
<1>1. 0 \in S
    BY DEF Keeps, Step
<1>2. ASSUME NEW n \in Nat, n \in S PROVE n + 1 \in S
    <2> SUFFICES ASSUME n + 1 <= len PROVE f[n + 1] = g[n + 1]
        OBVIOUS
    <2>1. n + 1 \in 0..len /\ n + 1 # 0 /\ (n + 1) - 1 = n /\ f[n] = g[n]
        BY <1>2
    <2>2. Step(f, kind, s, n + 1) /\ Step(g, kind, s, n + 1)
        BY <2>1 DEF Keeps
    <2> QED
        BY <2>1, <2>2 DEF Step
<1> HIDE DEF S
<1>3. len \in S
    BY <1>1, <1>2, NatSetInduction
<1> QED
    BY <1>3 DEF S

LEMMA KeepsExists ==
    ASSUME NEW M, NEW s \in Seq(M), NEW kind, NEW m \in Nat, m <= Len(s)
    PROVE  \E f \in [0..m -> Seq(M)] : Keeps(f, kind, s, m)
<1> DEFINE P(i) == \E f \in [0..i -> Seq(M)] : Keeps(f, kind, s, i)
           S == {i \in Nat : i <= Len(s) => P(i)}
<1>1. 0 \in S
    <2> DEFINE f == [n \in 0..0 |-> <<>>]
    <2>1. f \in [0..0 -> Seq(M)] /\ Keeps(f, kind, s, 0)
        BY DEF Keeps, Step
    <2> HIDE DEF f
    <2> QED
        BY <2>1
<1>2. ASSUME NEW i \in Nat, i \in S PROVE i + 1 \in S
    <2> SUFFICES ASSUME i + 1 <= Len(s) PROVE P(i + 1)
        OBVIOUS
    <2>1. PICK f \in [0..i -> Seq(M)] : Keeps(f, kind, s, i)
        BY <1>2
    <2> DEFINE next == IF s[i + 1].kind = kind THEN Append(f[i], s[i + 1]) ELSE f[i]
               g == [n \in 0..(i + 1) |-> IF n = i + 1 THEN next ELSE f[n]]
    <2>2. next \in Seq(M)
        BY <2>1
    <2>3. g \in [0..(i + 1) -> Seq(M)]
        BY <2>1, <2>2
    <2>4. g[i + 1] = next /\ \A n \in 0..i : g[n] = f[n]
        BY <2>1
    <2> HIDE DEF g
    <2>5. ASSUME NEW n \in 0..(i + 1) PROVE Step(g, kind, s, n)
        <3>1. CASE n = i + 1
            BY <2>4, <3>1 DEF Step
        <3>2. CASE n \in 0..i
            <4>1. Step(f, kind, s, n) /\ g[n] = f[n]
                BY <2>1, <2>4, <3>2 DEF Keeps
            <4>2. n # 0 => n - 1 \in 0..i
                BY <3>2
            <4> QED
                BY <2>4, <4>1, <4>2 DEF Step
        <3> QED
            BY <3>1, <3>2
    <2>6. Keeps(g, kind, s, i + 1)
        BY <2>5 DEF Keeps
    <2> QED
        BY <2>3, <2>6
<1> HIDE DEF P
<1>3. m \in S
    <2> HIDE DEF S
    <2> QED
        BY <1>1, <1>2, NatSetInduction
<1> QED
    BY <1>3 DEF P

\* Whatever counts along the whole of s ends with what Of returns.
LEMMA OfKeeps ==
    ASSUME NEW M, NEW s \in Seq(M), NEW kind
    PROVE  /\ \E f \in [0..Len(s) -> Seq(M)] : Keeps(f, kind, s, Len(s))
           /\ Of(kind, s) \in Seq(M)
           /\ \A f : Keeps(f, kind, s, Len(s)) => Of(kind, s) = f[Len(s)]
<1> DEFINE Def(f) ==
               f = [n \in 0..Len(s) |->
                      IF n = 0 THEN <<>>
                      ELSE IF s[n].kind = kind THEN Append(f[n - 1], s[n]) ELSE f[n - 1]]
           h == CHOOSE f : Def(f)
<1>1. Of(kind, s) = h[Len(s)]
    BY DEF Of
<1>2. Len(s) \in Nat /\ Len(s) <= Len(s)
    OBVIOUS
<1>3. PICK g \in [0..Len(s) -> Seq(M)] : Keeps(g, kind, s, Len(s))
    <2> HIDE DEF h, Def
    <2> QED
        BY <1>2, KeepsExists
<1>4. Def(g)
    <2>1. g = [n \in 0..Len(s) |-> g[n]]
        OBVIOUS
    <2> QED
        BY <1>3, <2>1 DEF Keeps, Step
<1>5. Def(h)
    <2> HIDE DEF Def
    <2> QED
        BY <1>4
<1> HIDE DEF h
<1>6. Keeps(h, kind, s, Len(s))
    BY <1>5 DEF Keeps, Step
<1> HIDE DEF Def
<1>7. ASSUME NEW f, Keeps(f, kind, s, Len(s))
      PROVE  h[Len(s)] = f[Len(s)]
    BY <1>2, <1>6, <1>7, KeepsUnique
<1>8. h[Len(s)] = g[Len(s)]
    BY <1>3, <1>7
<1> QED
    BY <1>1, <1>2, <1>3, <1>7, <1>8

LEMMA OfEmpty == ASSUME NEW kind PROVE Of(kind, <<>>) = <<>>
<1> DEFINE f == [n \in 0..0 |-> <<>>]
<1>1. <<>> \in Seq({}) /\ Len(<<>>) = 0
    OBVIOUS
<1>2. f[0] = <<>> /\ Keeps(f, kind, <<>>, 0)
    BY DEF Keeps, Step
<1> HIDE DEF f
<1> QED
    BY <1>1, <1>2, OfKeeps

LEMMA OfOne ==
    ASSUME NEW M, NEW m \in M, NEW kind
    PROVE  Of(kind, <<m>>) = IF m.kind = kind THEN <<m>> ELSE <<>>
<1> DEFINE kept == IF m.kind = kind THEN <<m>> ELSE <<>>
           f == [n \in 0..1 |-> IF n = 0 THEN <<>> ELSE kept]
<1>1. <<m>> \in Seq(M) /\ Len(<<m>>) = 1
    OBVIOUS
<1>2. f[0] = <<>> /\ f[1] = kept /\ kept = IF m.kind = kind THEN Append(<<>>, m) ELSE <<>>
    OBVIOUS
<1> HIDE DEF f
<1>3. Keeps(f, kind, <<m>>, 1)
    <2>1. 1 - 1 = 0 /\ <<m>>[1] = m /\ 0..1 = {0, 1}
        OBVIOUS
    <2> QED
        BY <1>2, <2>1 DEF Keeps, Step
<1>4. Of(kind, <<m>>) = f[1]
    BY <1>1, <1>3, OfKeeps
<1> QED
    BY <1>2, <1>4

LEMMA OfNone ==
    ASSUME NEW M, NEW s \in Seq(M), NEW kind, \A m \in M : m.kind # kind
    PROVE  Of(kind, s) = <<>>
<1> DEFINE f == [n \in 0..Len(s) |-> <<>>]
<1>1. Len(s) \in Nat /\ f[Len(s)] = <<>>
    OBVIOUS
<1>2. Keeps(f, kind, s, Len(s))
    BY DEF Keeps, Step
<1> HIDE DEF f
<1> QED
    BY <1>1, <1>2, OfKeeps

LEMMA OfConcat ==
    ASSUME NEW M, NEW s \in Seq(M), NEW t \in Seq(M), NEW kind
    PROVE  Of(kind, s \o t) = Of(kind, s) \o Of(kind, t)
<1> DEFINE a == Len(s)
           b == Len(t)
<1>1. a \in Nat /\ b \in Nat /\ s \o t \in Seq(M) /\ Len(s \o t) = a + b
    OBVIOUS
<1>2. PICK f \in [0..a -> Seq(M)] : Keeps(f, kind, s, a)
    BY OfKeeps
<1>3. PICK g \in [0..b -> Seq(M)] : Keeps(g, kind, t, b)
    BY OfKeeps
<1> DEFINE C(x) == f[a] \o x
           h == [n \in 0..(a + b) |-> IF n <= a THEN f[n] ELSE C(g[n - a])]
<1>4. C(<<>>) = f[a] /\ \A v \in Seq(M), m \in M : C(Append(v, m)) = Append(C(v), m)
    <2>1. f[a] \in Seq(M)
        BY <1>1, <1>2
    <2>2. C(<<>>) = f[a]
        BY <2>1
    <2>3. ASSUME NEW v \in Seq(M), NEW m \in M PROVE C(Append(v, m)) = Append(C(v), m)
        <3> DEFINE u == f[a]
        <3>1. u \in Seq(M)
            BY <2>1
        <3> HIDE DEF u, h
        <3>2. u \o Append(v, m) = Append(u \o v, m)
            BY <3>1
        <3> QED
            BY <3>2 DEF u
    <2> QED
        BY <2>2, <2>3
<1> HIDE DEF C
<1>5. /\ \A n \in 0..a : h[n] = f[n]
      /\ \A n \in 0..b : h[a + n] = C(g[n])
    <2>1. ASSUME NEW n \in 0..a PROVE h[n] = f[n]
        BY <1>1
    <2>2. ASSUME NEW n \in 0..b PROVE h[a + n] = C(g[n])
        <3>1. CASE n = 0
            BY <1>1, <1>3, <1>4, <3>1 DEF Keeps, Step
        <3>2. CASE n > 0
            BY <1>1, <3>2
        <3> QED
            BY <3>1, <3>2
    <2> QED
        BY <2>1, <2>2
<1> HIDE DEF h
<1>6. ASSUME NEW n \in 0..(a + b) PROVE Step(h, kind, s \o t, n)
    <2>1. CASE n <= a
        <3>1. n \in 0..a /\ Step(f, kind, s, n) /\ h[n] = f[n]
            BY <1>1, <1>2, <1>5, <2>1 DEF Keeps
        <3>2. n # 0 => h[n - 1] = f[n - 1] /\ (s \o t)[n] = s[n]
            BY <1>1, <1>5, <2>1
        <3> QED
            BY <3>1, <3>2 DEF Keeps, Step
    <2>2. CASE n > a
        <3> DEFINE i == n - a
        <3>1. i \in 1..b /\ i - 1 \in 0..b /\ n = a + i /\ n - 1 = a + (i - 1) /\ n # 0
            BY <1>1, <2>2
        <3>2. (s \o t)[n] = t[i] /\ t[i] \in M
            BY <1>1, <3>1
        <3> HIDE DEF i, a, b
        <3>3. h[n] = C(g[i]) /\ h[n - 1] = C(g[i - 1])
            BY <1>5, <3>1
        <3>4. i \in 0..b /\ i # 0
            BY <1>1, <3>1
        <3>5. Step(g, kind, t, i) /\ g[i - 1] \in Seq(M)
            BY <1>3, <3>1, <3>4 DEF Keeps
        <3>6. g[i] = IF t[i].kind = kind THEN Append(g[i - 1], t[i]) ELSE g[i - 1]
            BY <3>4, <3>5 DEF Step
        <3>7. C(g[i]) = IF t[i].kind = kind THEN Append(C(g[i - 1]), t[i]) ELSE C(g[i - 1])
            BY <1>4, <3>2, <3>5, <3>6
        <3> QED
            BY <3>1, <3>2, <3>3, <3>7 DEF Step
    <2> QED
        BY <1>1, <2>1, <2>2
<1>7. Of(kind, s \o t) = h[a + b]
    <2>1. Keeps(h, kind, s \o t, Len(s \o t))
        BY <1>1, <1>6 DEF Keeps
    <2>2. Of(kind, s \o t) = h[Len(s \o t)]
        BY <1>1, <2>1, OfKeeps
    <2> QED
        BY <1>1, <2>2
<1>8. Of(kind, s) = f[a] /\ Of(kind, t) = g[b]
    BY <1>2, <1>3, OfKeeps
<1>9. h[a + b] = C(g[b])
    BY <1>1, <1>5
<1> QED
    BY <1>7, <1>8, <1>9 DEF C

-----------------------------------------------------------------------------
(* Types, and the rows of the switch dialog. *)

CommandKinds == {"status", "list", "restart_pty"} \cup ChoiceKinds

CommandType == [kind : CommandKinds, value : Option(Backends)]

CallType == [kind : {"switch", "get_status", "list_backends"}, value : Option(Backends)]

EventType ==
    [kind : {"list"}, value : Rows] \cup
    [kind : {"status", "error"} \cup Overrides, value : Option(Backends)]

ResponseType ==
    [kind : {"list"}, value : Rows] \cup
    [kind : {"none", "ok", "refused", "status"}, value : Option(Backends)]

\* What may be left of the calls of a command.
CallsLeft ==
    {<<>>, <<"switch", "get_status", "list_backends">>, <<"get_status", "list_backends">>,
     <<"list_backends">>, <<"get_status">>}

BridgeType ==
    {NoCommand} \cup
    [kind : CommandKinds, value : Option(Backends), calls : CallsLeft \ {<<>>}, sent : BOOLEAN]

QueuesOK ==
    /\ commands \in Seq(CommandType)
    /\ events \in Seq(EventType)
    /\ ipc \in Seq(CallType)
    /\ bridge \in BridgeType
    /\ response \in ResponseType
    /\ owed \in [ChoiceKinds -> Seq(CommandType)]

ControlInv ==
    /\ BackendInv
    /\ KeysGoToDialog
    /\ QueuesOK

\* The parts of the invariant that the loop, and those that the bridge and the
\* server, can change.
LoopOK ==
    /\ focus \in {"terminal", "backend_switch", "settings", "history"}
    /\ backend_switch \in SwitchDialogType
    /\ settings_dialog \in SettingsDialogType
    /\ history_dialog \in HistoryDialogType
    /\ settings \in {0, 1}
    /\ focus = "backend_switch" <=> backend_switch # Hidden
    /\ focus = "settings" <=> settings_dialog # Hidden
    /\ focus = "history" <=> history_dialog # Hidden

ShownOK ==
    /\ backends \in Rows
    /\ proxy_status \in Option(Backends)
    /\ overrides \in [Overrides -> Option(Backends)]
    /\ last_ipc_error \in BOOLEAN

BridgeOK ==
    /\ QueuesOK
    /\ Len(commands) <= CommandBuffer /\ Len(ipc) <= IpcBuffer
    /\ (bridge = NoCommand) <=> (bridge.calls = <<>>)
    /\ response # NoResponse => bridge.sent /\ ipc = <<>>

LEMMA ControlInvParts == ControlInv <=> BackendInv /\ LoopOK /\ ShownOK /\ BridgeOK
BY DEF ControlInv, LoopOK, ShownOK, BridgeOK, KeysGoToDialog, ControlTypeOK, BackendInv

LEMMA ControlInvFromParts == BackendInv' /\ LoopOK' /\ ShownOK' /\ BridgeOK' => ControlInv'
BY DEF ControlInv, LoopOK, ShownOK, BridgeOK, KeysGoToDialog, ControlTypeOK, BackendInv

\* What does not touch a part keeps it.
LEMMA PartsUnchanged ==
    /\ BackendInv /\ UNCHANGED backendVars => BackendInv'
    /\ LoopOK /\ UNCHANGED dialogVars => LoopOK'
<1>1. BackendInv /\ UNCHANGED backendVars => BackendInv'
    BY DEF BackendInv, BackendTypeOK, ActiveIsConfigured, HasBackend, backendVars
<1>2. LoopOK /\ UNCHANGED dialogVars => LoopOK'
    BY DEF LoopOK, dialogVars
<1> QED
    BY <1>1, <1>2

LEMMA ControlInitInv == ControlInit => ControlInv
<1> SUFFICES ASSUME ControlInit PROVE ControlInv
    OBVIOUS
<1>1. BackendInv
    BY BackendInitInv DEF ControlInit
<1>2. LoopOK
    BY DEF ControlInit, LoopOK, SwitchDialogType, SettingsDialogType, HistoryDialogType
<1>3. ShownOK
    <2>1. <<>> \in Rows
        BY DEF Rows
    <2>2. overrides \in [Overrides -> Option(Backends)]
        BY OverridesAssumption DEF ControlInit
    <2> QED
        BY <2>1, <2>2 DEF ControlInit, ShownOK, Option
<1>4. BridgeOK
    <2>1. Msg("status", NoName) \in CommandType /\ Msg("list", NoName) \in CommandType
        BY DEF Msg, CommandType, CommandKinds, Option
    <2>2. NoCommand \in BridgeType /\ NoCommand.calls = <<>> /\ NoCommand.sent = FALSE
        BY DEF NoCommand, BridgeType, CallsLeft, Option
    <2>3. NoResponse \in ResponseType
        BY DEF NoResponse, Msg, ResponseType, Option
    <2>4. /\ commands \in Seq(CommandType) /\ Len(commands) <= CommandBuffer
          /\ ipc \in Seq(CallType) /\ Len(ipc) <= IpcBuffer
        BY <2>1, BuffersAssumption DEF ControlInit
    <2> QED
        BY <2>1, <2>2, <2>3, <2>4 DEF ControlInit, BridgeOK, QueuesOK
<1> QED
    BY <1>1, <1>2, <1>3, <1>4, ControlInvParts

-----------------------------------------------------------------------------
(* The loop. *)

\* What a key sends is one command, or nothing.
SendsOne ==
    \/ NothingSent
    \/ \E kind \in CommandKinds, value \in Option(Backends) : TrySend(kind, value)

\* The rows of the present list are found in it.
LEMMA RowsFound ==
    ASSUME backends \in Rows
    PROVE  /\ \A i \in DOMAIN backends : backends[i].id \in Backends
           /\ RowOfActive \in Nat
           /\ \A b : RowOfName(b) \in Nat
<1>1. Len(backends) \in Nat /\ DOMAIN backends = 1..Len(backends)
    BY DEF Rows
<1>2. ASSUME NEW i \in DOMAIN backends PROVE backends[i].id \in Backends
    <2> DEFINE Row == [id : Backends, is_active : BOOLEAN]
    <2>1. backends \in Seq(Row)
        BY DEF Rows
    <2> HIDE DEF Row
    <2>2. backends[i] \in Row
        BY <1>1, <2>1
    <2> QED
        BY <2>2 DEF Row
<1>3. RowOfActive \in Nat
    BY <1>1 DEF RowOfActive
<1>4. ASSUME NEW b PROVE RowOfName(b) \in Nat
    <2> DEFINE Named(i) == backends[i].id = b
               First(i) == Named(i) /\ \A j \in 1..(i - 1) : ~Named(j)
               S == {i \in Nat : \A j \in 1..i : j \in DOMAIN backends => ~Named(j)}
    <2>1. CASE ~\E i \in DOMAIN backends : Named(i)
        BY <2>1 DEF RowOfName
    <2>2. CASE \E i \in DOMAIN backends : Named(i)
        <3>1. \E i \in DOMAIN backends : First(i)
            <4> SUFFICES ASSUME \A i \in DOMAIN backends : ~First(i) PROVE FALSE
                OBVIOUS
            <4>1. 0 \in S
                OBVIOUS
            <4>2. ASSUME NEW n \in Nat, n \in S PROVE n + 1 \in S
                BY <1>1, <4>2
            <4> HIDE DEF S
            <4>3. Nat \subseteq S
                BY <4>1, <4>2, NatSetInduction
            <4> QED
                BY <1>1, <2>2, <4>3 DEF S
        <3>2. RowOfName(b) \in DOMAIN backends
            BY <2>2, <3>1 DEF RowOfName
        <3> QED
            BY <1>1, <3>2
    <2> QED
        BY <2>1, <2>2
<1> QED
    BY <1>2, <1>3, <1>4

\* Navigate moves the row of one section.
LEMMA NavigateType ==
    ASSUME backend_switch \in SwitchDialogType, backend_switch # Hidden,
           NEW step \in {1, -1}, backend_switch' = Navigate(backend_switch, step)
    PROVE  backend_switch' \in SwitchDialogType /\ backend_switch' # Hidden
<1> DEFINE d == backend_switch
           rows == RowsOf(d)
           new == WrapAround(d.row[d.section], step, rows)
<1>1. d \in [visible : {TRUE}, section : Sections, count : Nat, row : [Sections -> Nat]]
    BY DEF SwitchDialogType
<1>2. new \in Nat
    <2>1. d.row[d.section] \in Nat /\ d.count \in Nat
        BY <1>1
    <2>2. rows \in Nat
        BY <2>1 DEF RowsOf
    <2> HIDE DEF rows
    <2>3. CASE rows = 0
        BY <2>3 DEF WrapAround
    <2>4. CASE rows > 0
        <3> DEFINE n == LesserOf(d.row[d.section], rows - 1) + rows + step
        <3>1. n \in Int
            BY <2>1, <2>2, <2>4 DEF LesserOf
        <3> HIDE DEF n
        <3>2. n % rows \in 0..(rows - 1)
            BY <2>2, <2>4, <3>1
        <3> QED
            BY <2>2, <2>4, <3>2 DEF WrapAround, n
    <2> QED
        BY <2>2, <2>3, <2>4
<1> HIDE DEF new
<1>3. backend_switch' = [d EXCEPT !.row = [d.row EXCEPT ![d.section] = new]]
    BY DEF Navigate, new
<1>4. backend_switch' \in [visible : {TRUE}, section : Sections, count : Nat, row : [Sections -> Nat]]
    BY <1>1, <1>2, <1>3
<1>5. backend_switch' # Hidden
    BY <1>4 DEF Hidden
<1> QED
    BY <1>4, <1>5 DEF SwitchDialogType

\* The dialogs as they are opened, and as the keys within one leave them.
LEMMA OpenSwitchDialogOK ==
    ASSUME LoopOK, backends \in Rows, OpenBackendSwitch
    PROVE  LoopOK' /\ SendsOne
<1> DEFINE row == [s \in Sections |->
                     IF s = "active" THEN RowOfActive ELSE RowOfName(overrides[s])]
<1>1. row \in [Sections -> Nat]
    BY RowsFound DEF Sections, Overrides
<1>2. Len(backends) \in Nat
    BY DEF Rows
<1> HIDE DEF row
<1>3. backend_switch' = [visible |-> TRUE, section |-> "active",
                         count |-> Len(backends), row |-> row]
    BY DEF OpenBackendSwitch, OpenSwitchDialog, row
<1>4. backend_switch' \in [visible : {TRUE}, section : Sections, count : Nat, row : [Sections -> Nat]]
    BY <1>1, <1>2, <1>3 DEF Sections
<1>5. backend_switch' # Hidden
    BY <1>4 DEF Hidden
<1>6. LoopOK'
    BY <1>4, <1>5 DEF LoopOK, OpenBackendSwitch, SwitchDialogType
<1>7. SendsOne
    BY DEF OpenBackendSwitch, SendsOne, CommandKinds, Option
<1> QED
    BY <1>6, <1>7

LEMMA NextSectionType ==
    ASSUME backend_switch \in SwitchDialogType, backend_switch # Hidden,
           backend_switch' = NextSection(backend_switch)
    PROVE  backend_switch' \in SwitchDialogType /\ backend_switch' # Hidden
<1>1. backend_switch \in [visible : {TRUE}, section : Sections, count : Nat, row : [Sections -> Nat]]
    BY DEF SwitchDialogType
<1>2. PICK next \in Sections : backend_switch' = [backend_switch EXCEPT !.section = next]
    <2>1. backend_switch.section \in Sections
        BY <1>1
    <2> QED
        BY <2>1 DEF NextSection, Sections, Overrides
<1>3. backend_switch' \in [visible : {TRUE}, section : Sections, count : Nat, row : [Sections -> Nat]]
    BY <1>1, <1>2
<1>4. backend_switch' # Hidden
    BY <1>3 DEF Hidden
<1> QED
    BY <1>3, <1>4 DEF SwitchDialogType

LEMMA SwitchDialogMovesOK ==
    ASSUME LoopOK, SwitchDialogMoves
    PROVE  LoopOK'
<1>1. backend_switch \in SwitchDialogType /\ backend_switch # Hidden
    BY DEF LoopOK, SwitchDialogMoves, InSwitchDialog
<1>2. backend_switch' \in SwitchDialogType /\ backend_switch' # Hidden
    BY <1>1, NextSectionType, NavigateType DEF SwitchDialogMoves
<1> QED
    BY <1>1, <1>2 DEF LoopOK, SwitchDialogMoves

\* The switch dialog closes, or stays as it is.
LEMMA SwitchDialogClosedOK ==
    ASSUME LoopOK, InSwitchDialog, CloseSwitchDialog \/ UNCHANGED <<backend_switch, focus>>,
           UNCHANGED <<settings_dialog, history_dialog, settings>>
    PROVE  LoopOK'
BY DEF LoopOK, InSwitchDialog, CloseSwitchDialog, SwitchDialogType, Hidden

LEMMA ConfirmActiveOK ==
    ASSUME backends \in Rows, NEW i, ConfirmActive(i)
    PROVE  /\ CloseSwitchDialog \/ UNCHANGED <<backend_switch, focus>>
           /\ SendsOne
<1>1. CASE i \notin DOMAIN backends
    BY <1>1 DEF ConfirmActive, SendsOne
<1>2. CASE i \in DOMAIN backends
    <2>1. backends[i].id \in Option(Backends) /\ "switch" \in CommandKinds
        BY <1>2, RowsFound DEF Option, CommandKinds, ChoiceKinds
    <2> QED
        BY <1>2, <2>1 DEF ConfirmActive, SendsOne, TrySend
<1> QED
    BY <1>1, <1>2

LEMMA ConfirmOverrideOK ==
    ASSUME backends \in Rows, NEW s \in Overrides, NEW row, ConfirmOverride(s, row)
    PROVE  CloseSwitchDialog /\ SendsOne
<1>1. s \in CommandKinds /\ NoName \in Option(Backends)
    BY DEF Option, CommandKinds, ChoiceKinds
<1>2. row \in DOMAIN backends => backends[row].id \in Option(Backends)
    BY RowsFound DEF Option
<1> QED
    BY <1>1, <1>2 DEF ConfirmOverride, SendsOne

LEMMA SwitchDialogKeysOK ==
    ASSUME LoopOK, backends \in Rows,
           SwitchDialogCloses \/ SwitchDialogEnter \/ SwitchDialogDelete \/ SwitchDialogDigit
    PROVE  LoopOK' /\ SendsOne
<1>1. /\ InSwitchDialog
      /\ UNCHANGED <<settings_dialog, history_dialog, settings>>
    BY DEF SwitchDialogCloses, SwitchDialogEnter, SwitchDialogDelete, SwitchDialogDigit
<1>2. backend_switch.section \in Sections
    <2>1. backend_switch \in [visible : {TRUE}, section : Sections, count : Nat, row : [Sections -> Nat]]
        BY <1>1 DEF LoopOK, SwitchDialogType, InSwitchDialog
    <2> QED
        BY <2>1
<1>3. /\ CloseSwitchDialog \/ UNCHANGED <<backend_switch, focus>>
      /\ SendsOne
    <2>1. CASE SwitchDialogCloses
        BY <2>1 DEF SwitchDialogCloses, SendsOne
    <2>2. CASE SwitchDialogEnter
        BY <1>2, <2>2, ConfirmActiveOK, ConfirmOverrideOK DEF SwitchDialogEnter, Sections
    <2>3. CASE SwitchDialogDelete
        BY <2>3 DEF SwitchDialogDelete, SendsOne, CommandKinds, ChoiceKinds, Option
    <2>4. CASE SwitchDialogDigit
        <3>1. PICK i \in DOMAIN backends :
                IF backend_switch.section = "active" THEN ConfirmActive(i)
                ELSE /\ CloseSwitchDialog
                     /\ TrySend(backend_switch.section, backends[i].id)
            BY <2>4 DEF SwitchDialogDigit
        <3>2. backends[i].id \in Option(Backends)
            BY RowsFound DEF Option
        <3>3. CASE backend_switch.section = "active"
            BY <3>1, <3>3, ConfirmActiveOK
        <3>4. CASE backend_switch.section # "active"
            BY <1>2, <3>1, <3>2, <3>4 DEF SendsOne, Sections, CommandKinds, ChoiceKinds
        <3> QED
            BY <3>3, <3>4
    <2> QED
        BY <2>1, <2>2, <2>3, <2>4
<1> QED
    BY <1>1, <1>3, SwitchDialogClosedOK

\* The reducers of the other two dialogs.
LEMMA SettingsReducer ==
    ASSUME NEW d \in [visible : {TRUE}, value : {0, 1}, dirty : BOOLEAN, confirm_discard : BOOLEAN]
    PROVE  {ToggleSetting(d), MoveInSettings(d), RequestCloseSettings(d)} \subseteq SettingsDialogType
<1>1. 1 - d.value \in {0, 1}
    OBVIOUS
<1>2. ToggleSetting(d) \in SettingsDialogType
    <2> DEFINE v == 1 - d.value
    <2> HIDE DEF v
    <2>1. v \in {0, 1}
        BY <1>1 DEF v
    <2>2. ToggleSetting(d) = [d EXCEPT !.value = v, !.dirty = TRUE, !.confirm_discard = FALSE]
        BY DEF ToggleSetting, v
    <2> QED
        BY <2>1, <2>2 DEF SettingsDialogType
<1>3. MoveInSettings(d) \in SettingsDialogType
    BY DEF MoveInSettings, SettingsDialogType
<1>4. RequestCloseSettings(d) \in SettingsDialogType
    BY DEF RequestCloseSettings, SettingsDialogType
<1> QED
    BY <1>2, <1>3, <1>4

LEMMA HistoryReducer ==
    ASSUME NEW d \in [visible : {TRUE}, entries : Nat, offset : Nat]
    PROVE  {ScrollUp(d), ScrollDown(d)} \subseteq HistoryDialogType
<1>1. PICK upper \in Nat : ScrollUp(d) = [d EXCEPT !.offset = upper]
    <2>1. (IF d.offset = 0 THEN 0 ELSE d.offset - 1) \in Nat
        OBVIOUS
    <2> QED
        BY <2>1 DEF ScrollUp
<1>2. PICK lower \in Nat : ScrollDown(d) = [d EXCEPT !.offset = lower]
    <2>1. LesserOf(d.offset + 1, LastOffset(d.entries)) \in Nat
        BY VisibleRowsAssumption DEF LesserOf, LastOffset
    <2> QED
        BY <2>1 DEF ScrollDown
<1> QED
    BY <1>1, <1>2 DEF HistoryDialogType

LEMMA SettingsKeysOK ==
    ASSUME LoopOK, OpenSettings \/ SettingsKey \/ ApplySettings
    PROVE  LoopOK' /\ SendsOne
<1> DEFINE Open == [visible : {TRUE}, value : {0, 1}, dirty : BOOLEAN, confirm_discard : BOOLEAN]
<1>1. Hidden \notin Open /\ SettingsDialogType = {Hidden} \cup Open
    BY DEF Hidden, SettingsDialogType
<1>2. focus = "settings" => settings_dialog \in Open
    BY <1>1 DEF LoopOK
<1>3. UNCHANGED <<backend_switch, history_dialog>>
    BY DEF OpenSettings, SettingsKey, ApplySettings, LoopOK
<1>4. CASE OpenSettings
    <2>1. settings_dialog' \in Open
        BY <1>4 DEF OpenSettings, LoadSettings, LoopOK
    <2> HIDE DEF Open
    <2> QED
        BY <1>1, <1>3, <1>4, <2>1 DEF OpenSettings, LoopOK, SendsOne
<1>5. CASE SettingsKey
    <2>1. settings_dialog \in Open
        BY <1>2, <1>5 DEF SettingsKey
    <2>2. settings_dialog' \in SettingsDialogType
        BY <1>5, <2>1, SettingsReducer DEF SettingsKey, SettingsDialogType
    <2> HIDE DEF Open
    <2> QED
        BY <1>3, <1>5, <2>2 DEF SettingsKey, LoopOK, SendsOne
<1>6. CASE ApplySettings
    <2>1. settings' \in {0, 1}
        BY <1>2, <1>6 DEF ApplySettings
    <2>2. SendsOne
        BY <1>6 DEF ApplySettings, SendsOne, CommandKinds, Option
    <2> HIDE DEF Open
    <2> QED
        BY <1>1, <1>3, <1>6, <2>1, <2>2 DEF ApplySettings, LoopOK
<1> QED
    BY <1>4, <1>5, <1>6

LEMMA HistoryKeysOK ==
    ASSUME LoopOK, BackendTypeOK, OpenHistory \/ HistoryKey
    PROVE  LoopOK' /\ SendsOne
<1> DEFINE Open == [visible : {TRUE}, entries : Nat, offset : Nat]
<1>1. Hidden \notin Open /\ HistoryDialogType = {Hidden} \cup Open
    BY DEF Hidden, HistoryDialogType
<1>2. \A n \in Nat : LastOffset(n) \in Nat
    BY VisibleRowsAssumption DEF LastOffset
<1>3. UNCHANGED <<backend_switch, settings_dialog, settings>>
    BY DEF OpenHistory, HistoryKey, LoopOK
<1>4. CASE OpenHistory
    <2>1. Len(switch_log) \in Nat
        BY DEF BackendTypeOK
    <2>2. history_dialog' \in Open
        BY <1>2, <1>4, <2>1 DEF OpenHistory, LoadHistory
    <2> HIDE DEF Open
    <2> QED
        BY <1>1, <1>3, <1>4, <2>2 DEF OpenHistory, LoopOK, SendsOne
<1>5. CASE HistoryKey
    <2>1. history_dialog \in Open
        BY <1>1, <1>5 DEF HistoryKey, LoopOK
    <2>2. history_dialog' \in HistoryDialogType
        BY <1>5, <2>1, HistoryReducer DEF HistoryKey, HistoryDialogType
    <2> HIDE DEF Open
    <2> QED
        BY <1>3, <1>5, <2>2 DEF HistoryKey, LoopOK, SendsOne
<1> QED
    BY <1>4, <1>5

\* A command, if there is room for it, and the error it clears or leaves.
LEMMA SendsOneOK ==
    ASSUME ShownOK, BridgeOK, SendsOne, UNCHANGED <<shownVars, ipcVars, events>>
    PROVE  ShownOK' /\ BridgeOK'
<1>1. /\ last_ipc_error' \in BOOLEAN
      /\ commands' \in Seq(CommandType) /\ Len(commands') <= CommandBuffer
      /\ owed' \in [ChoiceKinds -> Seq(CommandType)]
    <2>1. CASE UNCHANGED <<commands, owed>> /\ last_ipc_error' \in BOOLEAN
        BY <2>1 DEF BridgeOK, QueuesOK
    <2>2. ASSUME NEW kind \in CommandKinds, NEW value \in Option(Backends), Send(kind, value)
          PROVE  /\ last_ipc_error' \in BOOLEAN
                 /\ commands' \in Seq(CommandType) /\ Len(commands') <= CommandBuffer
                 /\ owed' \in [ChoiceKinds -> Seq(CommandType)]
        <3> DEFINE m == Msg(kind, value)
        <3>1. m \in CommandType
            BY DEF Msg, CommandType
        <3> HIDE DEF m
        <3>2. commands' \in Seq(CommandType) /\ Len(commands') <= CommandBuffer
            BY <2>2, <3>1, BuffersAssumption DEF Send, CanSend, BridgeOK, QueuesOK, m
        <3>3. owed' \in [ChoiceKinds -> Seq(CommandType)]
            BY <2>2, <3>1 DEF Send, BridgeOK, QueuesOK, m
        <3> QED
            BY <2>2, <3>2, <3>3 DEF Send
    <2> QED
        BY <2>1, <2>2 DEF SendsOne, NothingSent, TrySend, SendFails, ShownOK
<1> QED
    BY <1>1 DEF ShownOK, BridgeOK, QueuesOK, shownVars, ipcVars

LEMMA KeyKeepsInv ==
    ASSUME ControlInv, Key
    PROVE  ControlInv' /\ SendsOne
<1>1. BackendInv /\ LoopOK /\ ShownOK /\ BridgeOK
    BY ControlInvParts
<1>2. backends \in Rows /\ BackendTypeOK
    BY <1>1 DEF ShownOK, BackendInv
<1>3. LoopOK' /\ SendsOne
    <2>1. CASE OpenBackendSwitch
        BY <1>1, <1>2, <2>1, OpenSwitchDialogOK
    <2>2. CASE SwitchDialogMoves
        BY <1>1, <2>2, SwitchDialogMovesOK DEF SwitchDialogMoves, SendsOne
    <2>3. CASE SwitchDialogCloses \/ SwitchDialogEnter \/ SwitchDialogDelete \/ SwitchDialogDigit
        BY <1>1, <1>2, <2>3, SwitchDialogKeysOK
    <2>4. CASE OpenSettings \/ SettingsKey \/ ApplySettings
        BY <1>1, <2>4, SettingsKeysOK
    <2>5. CASE OpenHistory \/ HistoryKey
        BY <1>1, <1>2, <2>5, HistoryKeysOK
    <2> QED
        BY <2>1, <2>2, <2>3, <2>4, <2>5 DEF Key
<1>4. ShownOK' /\ BridgeOK'
    BY <1>1, <1>3, SendsOneOK DEF Key
<1>5. BackendInv'
    BY <1>1, PartsUnchanged DEF Key
<1> QED
    BY <1>3, <1>4, <1>5, ControlInvFromParts

LEMMA TickKeepsInv ==
    ASSUME ControlInv, Tick
    PROVE  ControlInv' /\ SendsOne
<1>1. BackendInv /\ LoopOK /\ ShownOK /\ BridgeOK
    BY ControlInvParts
<1>2. SendsOne
    BY DEF Tick, SendsOne, CommandKinds, Option
<1>3. ShownOK' /\ BridgeOK'
    BY <1>1, <1>2, SendsOneOK DEF Tick
<1> QED
    BY <1>1, <1>2, <1>3, PartsUnchanged, ControlInvFromParts DEF Tick

LEMMA HandleEventKeepsInv ==
    ASSUME ControlInv, HandleEvent
    PROVE  ControlInv'
<1>1. BackendInv /\ LoopOK /\ ShownOK /\ BridgeOK
    BY ControlInvParts
<1> DEFINE e == Head(events)
<1>2. e \in EventType /\ events' \in Seq(EventType)
    BY <1>1 DEF HandleEvent, BridgeOK, QueuesOK
<1>3. /\ e.kind = "list" => e.value \in Rows
      /\ e.kind # "list" => e.value \in Option(Backends)
    BY <1>2 DEF EventType, Overrides
<1> HIDE DEF e
<1>4. ShownOK'
    <2>1. /\ backends' = IF e.kind = "list" THEN e.value ELSE backends
          /\ proxy_status' = IF e.kind = "status" THEN e.value ELSE proxy_status
          /\ last_ipc_error' = (e.kind = "error" \/ last_ipc_error)
          /\ overrides' = IF e.kind \in Overrides
                          THEN [overrides EXCEPT ![e.kind] = e.value] ELSE overrides
        BY DEF HandleEvent, e
    <2>2. overrides' \in [Overrides -> Option(Backends)]
        BY <1>1, <1>3, <2>1 DEF ShownOK, Overrides
    <2>3. backends' \in Rows /\ proxy_status' \in Option(Backends)
        BY <1>1, <1>3, <2>1 DEF ShownOK
    <2>4. last_ipc_error' \in BOOLEAN
        BY <2>1
    <2> QED
        BY <2>2, <2>3, <2>4 DEF ShownOK
<1>5. owed' \in [ChoiceKinds -> Seq(CommandType)]
    <2>1. owed' = owed \/ \E k \in ChoiceKinds : owed' = Carried(k)
        BY DEF HandleEvent, ChoiceKinds
    <2>2. ASSUME NEW k \in ChoiceKinds PROVE Carried(k) \in [ChoiceKinds -> Seq(CommandType)]
        <3>1. SubSeq(owed[k], 2, Len(owed[k])) \in Seq(CommandType)
            BY <1>1 DEF BridgeOK, QueuesOK
        <3> QED
            BY <1>1, <3>1 DEF Carried, BridgeOK, QueuesOK
    <2> QED
        BY <1>1, <2>1, <2>2 DEF BridgeOK, QueuesOK
<1>6. BridgeOK'
    BY <1>1, <1>2, <1>5 DEF HandleEvent, BridgeOK, QueuesOK, ipcVars
<1> QED
    BY <1>1, <1>4, <1>6, PartsUnchanged, ControlInvFromParts DEF HandleEvent

-----------------------------------------------------------------------------
(* The bridge and the server. *)

\* Queueing the next call of a command, or being done with it.
LEMMA CallsOK ==
    ASSUME BridgeOK, NEW kind \in CommandKinds, NEW value \in Option(Backends),
           NEW calls \in CallsLeft, Calls(kind, value, calls)
    PROVE  /\ bridge' \in BridgeType
           /\ bridge' = NoCommand <=> bridge'.calls = <<>>
           /\ ipc' \in Seq(CallType) /\ Len(ipc') <= IpcBuffer
<1>1. NoCommand \in BridgeType /\ NoCommand.calls = <<>> /\ ~NoCommand.sent
    BY DEF NoCommand, BridgeType, CallsLeft, Option
<1>2. CASE calls = <<>>
    BY <1>1, <1>2 DEF Calls, BridgeOK, QueuesOK
<1>3. CASE calls # <<>>
    <2>1. Head(calls) \in {"switch", "get_status", "list_backends"}
        BY <1>3 DEF CallsLeft
    <2>2. Msg(Head(calls), value) \in CallType
        BY <2>1 DEF Msg, CallType
    <2> DEFINE m == Msg(Head(calls), value)
               room == Len(ipc) < IpcBuffer
    <2>3. /\ bridge' = [kind |-> kind, value |-> value, calls |-> calls, sent |-> room]
          /\ ipc' = IF room THEN Append(ipc, m) ELSE ipc
        BY <1>3 DEF Calls
    <2> HIDE DEF m
    <2>4. ipc \in Seq(CallType) /\ Len(ipc) <= IpcBuffer /\ m \in CallType
        BY <2>2 DEF BridgeOK, QueuesOK, m
    <2>5. ipc' \in Seq(CallType) /\ Len(ipc') <= IpcBuffer
        BY <2>3, <2>4, BuffersAssumption
    <2>6. bridge' \in BridgeType /\ bridge'.calls = calls
        <3> HIDE DEF room
        <3>1. room \in BOOLEAN
            BY DEF room
        <3> QED
            BY <1>3, <2>3, <3>1 DEF BridgeType
    <2>7. bridge' # NoCommand
        BY <1>1, <1>3, <2>6
    <2> QED
        BY <1>3, <2>5, <2>6, <2>7
<1> QED
    BY <1>2, <1>3

\* The calls a command begins with, and those that are left after one.
LEMMA CallsLeftType ==
    /\ \A kind : CallsOf(kind) \in CallsLeft
    /\ \A calls \in CallsLeft : calls # <<>> => Tail(calls) \in CallsLeft
<1>1. \A kind : CallsOf(kind) \in CallsLeft
    BY DEF CallsOf, CallsLeft
<1>2. /\ Tail(<<"switch", "get_status", "list_backends">>) = <<"get_status", "list_backends">>
      /\ Tail(<<"get_status", "list_backends">>) = <<"list_backends">>
      /\ Tail(<<"list_backends">>) = <<>>
      /\ Tail(<<"get_status">>) = <<>>
    OBVIOUS
<1> QED
    BY <1>1, <1>2 DEF CallsLeft

LEMMA TailIsNoSwitch ==
    /\ <<>> # CallsOf("switch")
    /\ \A calls \in CallsLeft : calls # <<>> => Tail(calls) # CallsOf("switch")
<1> DEFINE full == <<"switch", "get_status", "list_backends">>
           rest == <<"get_status", "list_backends">>
           last == <<"list_backends">>
<1>1. Tail(full) = rest /\ Tail(rest) = last /\ Tail(last) = <<>> /\ Tail(<<"get_status">>) = <<>>
    OBVIOUS
<1>2. Len(full) = 3 /\ Len(rest) = 2 /\ Len(last) = 1 /\ Len(<<>>) = 0
    OBVIOUS
<1>3. CallsLeft = {<<>>, full, rest, last, <<"get_status">>} /\ CallsOf("switch") = full
    BY DEF CallsLeft, CallsOf
<1> HIDE DEF full, rest, last
<1>4. rest # full /\ last # full /\ <<>> # full
    BY <1>2
<1> QED
    BY <1>1, <1>3, <1>4

\* The rest of the queues stays what it is when the bridge moves.
LEMMA BridgeMoves ==
    ASSUME BridgeOK,
           bridge' \in BridgeType,
           bridge' = NoCommand <=> bridge'.calls = <<>>,
           ipc' \in Seq(CallType), Len(ipc') <= IpcBuffer,
           commands' \in Seq(CommandType), Len(commands') <= CommandBuffer,
           events' \in Seq(EventType),
           response' = NoResponse, UNCHANGED owed
    PROVE  BridgeOK'
<1>1. NoResponse \in ResponseType
    BY DEF NoResponse, Msg, ResponseType, Option
<1> QED
    BY <1>1 DEF BridgeOK, QueuesOK

LEMMA PostType ==
    ASSUME BridgeOK, NEW e \in EventType, Post(e)
    PROVE  events' \in Seq(EventType)
BY DEF Post, BridgeOK, QueuesOK

LEMMA ErrorType == Msg("error", NoName) \in EventType
BY DEF Msg, EventType, Option

LEMMA BridgeTakesOK ==
    ASSUME BridgeOK, BridgeTakes, UNCHANGED owed
    PROVE  BridgeOK'
<1> DEFINE c == Head(commands)
<1>1. /\ c \in CommandType /\ commands' \in Seq(CommandType)
      /\ Len(commands') <= CommandBuffer
    <2>1. commands \in Seq(CommandType) /\ commands # <<>> /\ commands' = Tail(commands)
        BY DEF BridgeTakes, BridgeOK, QueuesOK
    <2>2. Len(commands') = Len(commands) - 1 /\ Len(commands) \in Nat
        BY <2>1
    <2> QED
        BY <2>1, <2>2, BuffersAssumption DEF BridgeOK
<1>2. c.kind \in CommandKinds /\ c.value \in Option(Backends)
    BY <1>1 DEF CommandType
<1>3. c.kind \in Overrides => c \in EventType
    BY <1>1 DEF CommandType, EventType
<1>4. /\ bridge = NoCommand
      /\ Calls(c.kind, c.value, CallsOf(c.kind))
      /\ \/ UNCHANGED events
         \/ c.kind \in Overrides /\ Post(c)
         \/ Post(Msg("error", NoName))
      /\ UNCHANGED response
    BY DEF BridgeTakes
<1> HIDE DEF c
<1>5. events' \in Seq(EventType)
    BY <1>3, <1>4, PostType, ErrorType DEF BridgeOK, QueuesOK
<1>6. response = NoResponse
    BY <1>4 DEF BridgeOK, NoCommand
<1>7. /\ bridge' \in BridgeType
      /\ bridge' = NoCommand <=> bridge'.calls = <<>>
      /\ ipc' \in Seq(CallType) /\ Len(ipc') <= IpcBuffer
    BY <1>2, <1>4, CallsLeftType, CallsOK
<1> QED
    BY <1>1, <1>4, <1>5, <1>6, <1>7, BridgeMoves

\* The command the bridge is at, when it is at one.
LEMMA BridgeCommand ==
    ASSUME BridgeOK, bridge.calls # <<>>
    PROVE  /\ bridge.kind \in CommandKinds /\ bridge.value \in Option(Backends)
           /\ bridge.calls \in CallsLeft /\ Tail(bridge.calls) \in CallsLeft
           /\ <<>> \in CallsLeft
<1>1. bridge \in BridgeType
    BY DEF BridgeOK, QueuesOK
<1>2. bridge \in [kind : CommandKinds, value : Option(Backends), calls : CallsLeft \ {<<>>},
                 sent : BOOLEAN]
    BY <1>1 DEF BridgeType, NoCommand
<1>3. <<>> \in CallsLeft
    BY DEF CallsLeft
<1> QED
    BY <1>2, <1>3, CallsLeftType

LEMMA BridgeCallsOK ==
    ASSUME BridgeOK, BridgeCalls, UNCHANGED owed
    PROVE  BridgeOK'
<1>1. bridge.calls # <<>> /\ response = NoResponse
    BY DEF BridgeCalls, BridgeOK
<1>2. /\ bridge' \in BridgeType
      /\ bridge' = NoCommand <=> bridge'.calls = <<>>
      /\ ipc' \in Seq(CallType) /\ Len(ipc') <= IpcBuffer
    BY <1>1, BridgeCommand, CallsOK DEF BridgeCalls
<1> QED
    BY <1>1, <1>2, BridgeMoves DEF BridgeCalls, BridgeOK, QueuesOK

\* An answer, or the end of the wait for one.
LEMMA BridgeGoesOnOK ==
    ASSUME BridgeOK, bridge.sent, response' = NoResponse, UNCHANGED <<commands, owed>>,
           NextCall \/ Calls(bridge.kind, bridge.value, <<>>),
           UNCHANGED events \/ \E e \in EventType : Post(e)
    PROVE  BridgeOK'
<1>1. bridge.calls # <<>>
    BY DEF BridgeOK, NoCommand
<1>2. /\ bridge' \in BridgeType
      /\ bridge' = NoCommand <=> bridge'.calls = <<>>
      /\ ipc' \in Seq(CallType) /\ Len(ipc') <= IpcBuffer
    BY <1>1, BridgeCommand, CallsOK DEF NextCall
<1>3. events' \in Seq(EventType)
    BY PostType DEF BridgeOK, QueuesOK
<1> QED
    BY <1>2, <1>3, BridgeMoves DEF BridgeOK, QueuesOK

LEMMA BridgeHearsOK ==
    ASSUME BridgeOK, BridgeHears, UNCHANGED owed
    PROVE  BridgeOK'
<1>1. response.kind \in {"status", "list"} => response \in EventType
    BY DEF BridgeOK, QueuesOK, ResponseType, EventType
<1>2. /\ NextCall \/ Calls(bridge.kind, bridge.value, <<>>)
      /\ UNCHANGED events \/ \E e \in EventType : Post(e)
    BY <1>1, ErrorType DEF BridgeHears, Fails
<1> QED
    BY <1>2, BridgeGoesOnOK DEF BridgeHears

LEMMA BridgeGivesUpOK ==
    ASSUME BridgeOK, BridgeGivesUp, UNCHANGED owed
    PROVE  BridgeOK'
<1>1. /\ NextCall \/ Calls(bridge.kind, bridge.value, <<>>)
      /\ UNCHANGED events \/ \E e \in EventType : Post(e)
    BY ErrorType DEF BridgeGivesUp, Fails
<1> QED
    BY <1>1, BridgeGoesOnOK DEF BridgeGivesUp

LEMMA BridgeKeepsInv ==
    ASSUME ControlInv, BridgeTakes \/ BridgeCalls \/ BridgeHears \/ BridgeGivesUp, BridgeFrame
    PROVE  ControlInv'
<1>1. BackendInv /\ LoopOK /\ ShownOK /\ BridgeOK
    BY ControlInvParts
<1>2. BridgeOK'
    BY <1>1, BridgeTakesOK, BridgeCallsOK, BridgeHearsOK, BridgeGivesUpOK DEF BridgeFrame
<1>3. ShownOK'
    BY <1>1 DEF BridgeFrame, ShownOK, shownVars
<1> QED
    BY <1>1, <1>2, <1>3, PartsUnchanged, ControlInvFromParts DEF BridgeFrame

\* ListBackends: the rows of the configured backends.
LEMMA ListedType ==
    ASSUME BackendTypeOK
    PROVE  Listed \in Rows
<1>1. config.backends \in Seq(Backends)
    BY DEF BackendTypeOK, ProfileType
<1>2. PICK n \in Nat : DOMAIN config.backends = 1..n /\ \A i \in 1..n : config.backends[i] \in Backends
    BY <1>1
<1> DEFINE Row == [id : Backends, is_active : BOOLEAN]
<1>3. Listed \in [1..n -> Row]
    BY <1>2 DEF Listed
<1> HIDE DEF Row
<1>4. Listed \in Seq(Row)
    BY <1>3
<1> QED
    BY <1>4 DEF Rows, Row

LEMMA ServerStepKeepsInv ==
    ASSUME ControlInv, ServerStep
    PROVE  ControlInv'
<1>1. BackendInv /\ LoopOK /\ ShownOK /\ BridgeOK
    BY ControlInvParts
<1> DEFINE c == Head(ipc)
<1>2. /\ ipc' \in Seq(CallType) /\ Len(ipc') = Len(ipc) - 1 /\ Len(ipc) \in Nat
      /\ ipc # <<>>
    BY <1>1 DEF ServerStep, BridgeOK, QueuesOK
<1>3. PICK r \in ResponseType : Respond(r)
    <2>1. /\ Msg("ok", NoName) \in ResponseType /\ Msg("refused", NoName) \in ResponseType
          /\ Msg("status", active_backend) \in ResponseType
        BY <1>1 DEF Msg, ResponseType, Option, BackendInv, BackendTypeOK
    <2>2. Msg("list", Listed) \in ResponseType
        BY <1>1, ListedType DEF Msg, ResponseType, BackendInv
    <2> QED
        BY <2>1, <2>2 DEF ServerStep
<1>4. BackendInv'
    BY <1>1, PartsUnchanged, SwitchBackendInv DEF ServerStep
<1>5. owed' \in [ChoiceKinds -> Seq(CommandType)]
    <2>1. owed \in [ChoiceKinds -> Seq(CommandType)] /\ "switch" \in ChoiceKinds
        BY <1>1 DEF BridgeOK, QueuesOK, ChoiceKinds
    <2>2. SubSeq(owed["switch"], 2, Len(owed["switch"])) \in Seq(CommandType)
        BY <2>1
    <2>3. Carried("switch") \in [ChoiceKinds -> Seq(CommandType)]
        BY <2>1, <2>2 DEF Carried
    <2> QED
        BY <2>1, <2>3 DEF ServerStep
<1>6. response' \in ResponseType /\ (response' # NoResponse => bridge.sent /\ ipc' = <<>>)
    <2>1. CASE Awaited
        BY <1>2, <1>3, <2>1 DEF Respond, Awaited
    <2>2. CASE ~Awaited
        BY <1>1, <1>2, <1>3, <2>2 DEF Respond, BridgeOK, QueuesOK
    <2> QED
        BY <2>1, <2>2
<1>7. BridgeOK' /\ ShownOK' /\ UNCHANGED dialogVars
    <2>1. Len(ipc') <= IpcBuffer
        BY <1>1, <1>2, BuffersAssumption DEF BridgeOK
    <2> QED
        BY <1>1, <1>2, <1>5, <1>6, <2>1 DEF ServerStep, BridgeOK, QueuesOK, ShownOK, shownVars
<1> QED
    BY <1>1, <1>4, <1>7, PartsUnchanged, ControlInvFromParts

LEMMA WebUiKeepsInv ==
    ASSUME ControlInv, WebUi
    PROVE  ControlInv'
<1>1. BackendInv /\ LoopOK /\ ShownOK /\ BridgeOK
    BY ControlInvParts
<1>2. BackendInv'
    BY <1>1, SwitchBackendInv, PutConfigInv DEF WebUi, BackendNext
<1>3. BridgeOK' /\ ShownOK' /\ UNCHANGED dialogVars
    BY <1>1 DEF WebUi, BridgeOK, QueuesOK, ShownOK, shownVars, ipcVars
<1> QED
    BY <1>1, <1>2, <1>3, PartsUnchanged, ControlInvFromParts

LEMMA StutterKeepsInv ==
    ASSUME ControlInv, UNCHANGED controlVars
    PROVE  ControlInv'
<1>1. BackendInv /\ LoopOK /\ ShownOK /\ BridgeOK
    BY ControlInvParts
<1>2. BridgeOK' /\ ShownOK'
    BY <1>1 DEF controlVars, shownVars, ipcVars, BridgeOK, QueuesOK, ShownOK
<1> QED
    BY <1>1, <1>2, PartsUnchanged, ControlInvFromParts DEF controlVars

LEMMA ControlInductive ==
    ASSUME ControlInv, [ControlNext]_controlVars
    PROVE  ControlInv'
BY KeyKeepsInv, TickKeepsInv, HandleEventKeepsInv, BridgeKeepsInv, ServerStepKeepsInv,
   WebUiKeepsInv, StutterKeepsInv DEF ControlNext, BridgeStep

\* From docs/design/backend-selector-popup.md and src/ui/app.rs:189: keys reach the
\* dialog that is shown and none is shown without them, with the types of the
\* whole state and the bounds of its queues.
THEOREM KeysAlwaysGoToDialog == ControlSpec => []KeysGoToDialog
<1>1. ControlInv => KeysGoToDialog
    BY DEF ControlInv
<1> QED
    BY <1>1, ControlInitInv, ControlInductive, PTL DEF ControlSpec

-----------------------------------------------------------------------------
(* The order of the choices. *)

\* One message more, and one message less.
LEMMA OfAppend ==
    ASSUME NEW M, NEW s \in Seq(M), NEW m \in M, NEW kind
    PROVE  Of(kind, Append(s, m)) =
               IF m.kind = kind THEN Append(Of(kind, s), m) ELSE Of(kind, s)
<1>1. Append(s, m) = s \o <<m>> /\ <<m>> \in Seq(M) /\ Of(kind, s) \in Seq(M)
    BY OfKeeps
<1>2. Of(kind, Append(s, m)) = Of(kind, s) \o Of(kind, <<m>>)
    BY ZenonT(60), <1>1, OfConcat
<1>3. Of(kind, <<m>>) = IF m.kind = kind THEN <<m>> ELSE <<>>
    BY OfOne
<1> DEFINE o == Of(kind, s)
<1>4. o \in Seq(M)
    BY <1>1
<1> HIDE DEF o
<1>5. o \o <<m>> = Append(o, m) /\ o \o <<>> = o
    BY <1>4
<1> QED
    BY <1>2, <1>3, <1>5 DEF o

LEMMA OfHead ==
    ASSUME NEW M, NEW s \in Seq(M), s # <<>>, NEW kind
    PROVE  Of(kind, s) = IF Head(s).kind = kind THEN <<Head(s)>> \o Of(kind, Tail(s))
                         ELSE Of(kind, Tail(s))
<1>1. /\ s = <<Head(s)>> \o Tail(s) /\ Head(s) \in M
      /\ <<Head(s)>> \in Seq(M) /\ Tail(s) \in Seq(M)
    OBVIOUS
<1>2. Of(kind, s) = Of(kind, <<Head(s)>>) \o Of(kind, Tail(s))
    BY ZenonT(60), <1>1, OfConcat
<1>3. Of(kind, <<Head(s)>>) = IF Head(s).kind = kind THEN <<Head(s)>> ELSE <<>>
    BY <1>1, OfOne
<1> DEFINE o == Of(kind, Tail(s))
<1>4. o \in Seq(M)
    BY <1>1, OfKeeps
<1> HIDE DEF o
<1>5. <<>> \o o = o
    BY <1>4
<1> QED
    BY <1>2, <1>3, <1>5 DEF o

\* Where the choices of each kind can be.
MessageType == EventType \cup CallType \cup CommandType

LEMMA WhereChoicesAre ==
    ASSUME NEW ev \in Seq(EventType), NEW ca \in Seq(CallType), NEW ny \in Seq(CallType),
           NEW co \in Seq(CommandType)
    PROVE  /\ Of("switch", ev \o ca \o ny \o co) =
                  (Of("switch", ca) \o Of("switch", ny)) \o Of("switch", co)
           /\ \A k \in Overrides : Of(k, ev \o ca \o ny \o co) = Of(k, ev) \o Of(k, co)
<1>1. /\ ev \in Seq(MessageType) /\ ca \in Seq(MessageType) /\ ny \in Seq(MessageType)
      /\ co \in Seq(MessageType)
    BY DEF MessageType
<1>2. /\ ev \o ca \in Seq(MessageType) /\ ev \o ca \o ny \in Seq(MessageType)
    BY <1>1
<1>3. ASSUME NEW k
      PROVE  Of(k, ev \o ca \o ny \o co) = ((Of(k, ev) \o Of(k, ca)) \o Of(k, ny)) \o Of(k, co)
    <2>1. Of(k, ev \o ca \o ny \o co) = Of(k, ev \o ca \o ny) \o Of(k, co)
        BY <1>1, <1>2, OfConcat
    <2>2. Of(k, ev \o ca \o ny) = Of(k, ev \o ca) \o Of(k, ny)
        BY <1>1, <1>2, OfConcat
    <2>3. Of(k, ev \o ca) = Of(k, ev) \o Of(k, ca)
        BY <1>1, OfConcat
    <2> QED
        BY <2>1, <2>2, <2>3
<1>4. Of("switch", ev) = <<>>
    <2>1. \A m \in EventType : m.kind # "switch"
        BY DEF EventType, Overrides
    <2> QED
        BY <2>1, OfNone
<1>5. \A k \in Overrides : Of(k, ca) = <<>> /\ Of(k, ny) = <<>>
    <2>1. \A k \in Overrides : \A m \in CallType : m.kind # k
        BY DEF CallType, Overrides
    <2> QED
        BY <2>1, OfNone
<1>6. \A k : \A s \in {ev, ca, ny, co} : Of(k, s) \in Seq(MessageType)
    BY <1>1, OfKeeps
<1>7. \A s \in Seq(MessageType) : s \o <<>> = s /\ <<>> \o s = s
    OBVIOUS
<1>8. Of("switch", ev \o ca \o ny \o co) = (Of("switch", ca) \o Of("switch", ny)) \o Of("switch", co)
    BY <1>3, <1>4, <1>6, <1>7
<1>9. ASSUME NEW k \in Overrides PROVE Of(k, ev \o ca \o ny \o co) = Of(k, ev) \o Of(k, co)
    <2>1. (Of(k, ev) \o Of(k, ca)) \o Of(k, ny) = Of(k, ev)
        BY <1>5, <1>6, <1>7
    <2> QED
        BY <1>3, <2>1
<1> QED
    BY <1>8, <1>9

\* The choices of a backend are at the server, or about to be called, or in the
\* commands; those of an override are among the events or in the commands.
SwitchesOnTheWay == (Of("switch", ipc) \o NotYetCalled) \o Of("switch", commands)

OverridesOnTheWay(k) == Of(k, events) \o Of(k, commands)

OrderInv ==
    /\ owed["switch"] = SwitchesOnTheWay
    /\ \A k \in Overrides : owed[k] = OverridesOnTheWay(k)

\* A call that is not queued is of a type that Of leaves alone.
LEMMA NotYetCalledType ==
    ASSUME bridge \in BridgeType
    PROVE  NotYetCalled \in Seq(CallType) /\ Of("switch", NotYetCalled) = NotYetCalled
<1> DEFINE m == Msg("switch", bridge.value)
<1>1. CASE NotYetCalled = <<>>
    BY <1>1, OfEmpty
<1>2. CASE NotYetCalled # <<>>
    <2>1. NotYetCalled = <<m>> /\ bridge.calls = <<"switch", "get_status", "list_backends">>
        BY <1>2 DEF NotYetCalled, CallsOf
    <2>2. bridge.value \in Option(Backends)
        BY <2>1 DEF BridgeType, NoCommand
    <2>3. m \in CallType /\ m.kind = "switch"
        BY <2>2 DEF Msg, CallType
    <2> HIDE DEF m
    <2> QED
        BY <2>1, <2>3, OfOne
<1> QED
    BY <1>1, <1>2

LEMMA OrderIsChoicesInOrder ==
    ASSUME QueuesOK
    PROVE  OrderInv <=> ChoicesInOrder
<1>1. NotYetCalled \in Seq(CallType) /\ Of("switch", NotYetCalled) = NotYetCalled
    BY NotYetCalledType DEF QueuesOK
<1>2. /\ Of("switch", events \o ipc \o NotYetCalled \o commands) = SwitchesOnTheWay
      /\ \A k \in Overrides :
            Of(k, events \o ipc \o NotYetCalled \o commands) = OverridesOnTheWay(k)
    <2>1. events \in Seq(EventType) /\ ipc \in Seq(CallType) /\ commands \in Seq(CommandType)
        BY DEF QueuesOK
    <2>2. Of("switch", events \o ipc \o NotYetCalled \o commands) =
              (Of("switch", ipc) \o Of("switch", NotYetCalled)) \o Of("switch", commands)
        BY <1>1, <2>1, WhereChoicesAre
    <2>3. \A k \in Overrides : Of(k, events \o ipc \o NotYetCalled \o commands) =
                                   Of(k, events) \o Of(k, commands)
        BY <1>1, <2>1, WhereChoicesAre
    <2> QED
        BY <1>1, <2>2, <2>3 DEF SwitchesOnTheWay, OverridesOnTheWay
<1> QED
    BY <1>2 DEF OrderInv, ChoicesInOrder, ChoiceKinds

LEMMA OrderInitInv == ControlInit => OrderInv
<1> SUFFICES ASSUME ControlInit PROVE OrderInv
    OBVIOUS
<1>1. events = <<>> /\ ipc = <<>> /\ NotYetCalled = <<>>
    BY DEF ControlInit, NotYetCalled, NoCommand, CallsOf
<1>2. ASSUME NEW k \in ChoiceKinds PROVE Of(k, commands) = <<>> /\ Of(k, <<>>) = <<>>
    <2> DEFINE S == [kind : {"status", "list"}, value : Option(Backends)]
    <2>1. commands \in Seq(S)
        <3>1. Msg("status", NoName) \in S /\ Msg("list", NoName) \in S
            BY DEF Msg, Option
        <3> HIDE DEF S
        <3> QED
            BY <3>1 DEF ControlInit
    <2>2. \A m \in S : m.kind # k
        BY DEF ChoiceKinds, Overrides
    <2> HIDE DEF S
    <2> QED
        BY <2>1, <2>2, OfNone, OfEmpty
<1>3. \A k \in ChoiceKinds : owed[k] = <<>>
    BY DEF ControlInit
<1>4. <<>> \o <<>> = <<>>
    OBVIOUS
<1> QED
    BY <1>1, <1>2, <1>3, <1>4 DEF OrderInv, SwitchesOnTheWay, OverridesOnTheWay, ChoiceKinds

\* A choice that is accepted is the last one, both owed and on the way.
LEMMA SendsOneOrder ==
    ASSUME QueuesOK, OrderInv, SendsOne, UNCHANGED <<events, ipc, bridge>>
    PROVE  OrderInv'
<1>1. UNCHANGED NotYetCalled
    BY DEF NotYetCalled
<1>2. CASE UNCHANGED <<commands, owed>>
    BY <1>1, <1>2 DEF OrderInv, SwitchesOnTheWay, OverridesOnTheWay
<1>3. ASSUME NEW kind \in CommandKinds, NEW value \in Option(Backends), Send(kind, value)
      PROVE  OrderInv'
    <2> DEFINE m == Msg(kind, value)
    <2>1. m \in CommandType /\ m.kind = kind
        BY DEF Msg, CommandType
    <2>2. commands' = Append(commands, m) /\ commands \in Seq(CommandType)
        BY <1>3 DEF Send, QueuesOK
    <2>3. /\ kind \in ChoiceKinds => owed' = [owed EXCEPT ![kind] = Append(@, m)]
          /\ kind \notin ChoiceKinds => owed' = owed
        BY <1>3 DEF Send
    <2> HIDE DEF m
    <2>4. ASSUME NEW k \in ChoiceKinds
          PROVE  /\ Of(k, commands') = IF k = kind THEN Append(Of(k, commands), m)
                                       ELSE Of(k, commands)
                 /\ owed'[k] = IF k = kind THEN Append(owed[k], m) ELSE owed[k]
        <3>1. Of(k, commands') = IF k = kind THEN Append(Of(k, commands), m)
                                 ELSE Of(k, commands)
            BY <2>1, <2>2, OfAppend
        <3>2. owed'[k] = IF k = kind THEN Append(owed[k], m) ELSE owed[k]
            BY <2>3 DEF QueuesOK
        <3> QED
            BY <3>1, <3>2
    <2>5. ASSUME NEW s \in Seq(MessageType), NEW t \in Seq(MessageType)
          PROVE  Append(s \o t, m) = s \o Append(t, m)
        <3>1. m \in MessageType
            BY <2>1 DEF MessageType
        <3> QED
            BY <3>1
    <2>6. /\ \A k : Of(k, commands) \in Seq(MessageType) /\ Of(k, events) \in Seq(MessageType)
          /\ Of("switch", ipc) \o NotYetCalled \in Seq(MessageType)
        <3>1. /\ commands \in Seq(MessageType) /\ events \in Seq(MessageType)
              /\ ipc \in Seq(MessageType) /\ NotYetCalled \in Seq(MessageType)
            BY NotYetCalledType DEF QueuesOK, MessageType
        <3>2. Of("switch", ipc) \in Seq(MessageType)
            BY <3>1, OfKeeps
        <3> QED
            BY <3>1, <3>2, OfKeeps
    <2>7. owed'["switch"] = SwitchesOnTheWay'
        BY <1>1, <2>4, <2>5, <2>6 DEF OrderInv, SwitchesOnTheWay, ChoiceKinds
    <2>8. ASSUME NEW k \in Overrides PROVE owed'[k] = OverridesOnTheWay(k)'
        <3>1. k \in ChoiceKinds /\ events' = events /\ owed[k] = Of(k, events) \o Of(k, commands)
            BY DEF ChoiceKinds, OrderInv, OverridesOnTheWay
        <3>2. Of(k, events) \o Append(Of(k, commands), m) = Append(Of(k, events) \o Of(k, commands), m)
            BY <2>5, <2>6
        <3>3. owed'[k] = Of(k, events) \o Of(k, commands')
            BY <2>4, <3>1, <3>2
        <3> QED
            BY <3>1, <3>3 DEF OverridesOnTheWay
    <2> QED
        BY <2>7, <2>8 DEF OrderInv
<1> QED
    BY <1>2, <1>3 DEF SendsOne, NothingSent, TrySend, SendFails

\* Carrying out the oldest choice takes the first one away.
LEMMA RestOfConcat ==
    ASSUME NEW M, NEW e \in M, NEW s \in Seq(M), NEW t \in Seq(M)
    PROVE  SubSeq((<<e>> \o s) \o t, 2, Len((<<e>> \o s) \o t)) = s \o t
<1> DEFINE u == s \o t
<1>1. u \in Seq(M) /\ (<<e>> \o s) \o t = <<e>> \o u
    OBVIOUS
<1> HIDE DEF u
<1>2. SubSeq(<<e>> \o u, 2, Len(<<e>> \o u)) = u
    BY <1>1
<1> QED
    BY <1>1, <1>2 DEF u

LEMMA HandleEventOrder ==
    ASSUME QueuesOK, OrderInv, HandleEvent
    PROVE  OrderInv'
<1> DEFINE e == Head(events)
<1>1. /\ events \in Seq(EventType) /\ events # <<>> /\ events' = Tail(events)
      /\ e \in EventType
    BY DEF HandleEvent, QueuesOK
<1>2. /\ UNCHANGED <<ipc, bridge, commands>>
      /\ e.kind \in Overrides => owed' = Carried(e.kind)
      /\ e.kind \notin Overrides => owed' = owed
    BY DEF HandleEvent, ipcVars
<1>3. \A k : Of(k, events) = IF e.kind = k THEN <<e>> \o Of(k, events') ELSE Of(k, events')
    BY <1>1, OfHead
<1>4. \A k : Of(k, events') \in Seq(MessageType) /\ Of(k, commands) \in Seq(MessageType)
    <2>1. events' \in Seq(MessageType) /\ commands \in Seq(MessageType)
        BY <1>1 DEF QueuesOK, MessageType
    <2> QED
        BY <2>1, OfKeeps
<1>5. e \in MessageType
    BY <1>1 DEF MessageType
<1> HIDE DEF e
<1>6. owed'["switch"] = SwitchesOnTheWay'
    <2>1. owed'["switch"] = owed["switch"]
        BY <1>2 DEF Carried, QueuesOK, Overrides, ChoiceKinds
    <2> QED
        BY <1>2, <2>1 DEF OrderInv, SwitchesOnTheWay, NotYetCalled
<1>7. ASSUME NEW k \in Overrides PROVE owed'[k] = OverridesOnTheWay(k)'
    <2>1. owed[k] = Of(k, events) \o Of(k, commands) /\ k \in ChoiceKinds
        BY DEF OrderInv, OverridesOnTheWay, ChoiceKinds
    <2>2. CASE e.kind = k
        <3>1. owed[k] = (<<e>> \o Of(k, events')) \o Of(k, commands)
            BY <1>3, <2>1, <2>2
        <3>2. owed'[k] = SubSeq(owed[k], 2, Len(owed[k]))
            BY <1>2, <2>1, <2>2 DEF Carried, QueuesOK
        <3>3. owed'[k] = Of(k, events') \o Of(k, commands)
            BY <1>4, <1>5, <3>1, <3>2, RestOfConcat
        <3> QED
            BY <1>2, <3>3 DEF OverridesOnTheWay
    <2>3. CASE e.kind # k
        <3>1. owed'[k] = owed[k]
            BY <1>2, <2>1, <2>3 DEF Carried, QueuesOK
        <3>2. owed'[k] = Of(k, events') \o Of(k, commands)
            BY <1>3, <2>1, <2>3, <3>1
        <3> QED
            BY <1>2, <3>2 DEF OverridesOnTheWay
    <2> QED
        BY <2>2, <2>3
<1> QED
    BY <1>6, <1>7 DEF OrderInv

\* A switch is called once, when it is queued or when it has to wait for room.
LEMMA CallsOrder ==
    ASSUME QueuesOK, NEW kind \in CommandKinds, NEW value \in Option(Backends),
           NEW calls \in CallsLeft, Calls(kind, value, calls)
    PROVE  Of("switch", ipc') \o NotYetCalled' =
               IF calls = CallsOf("switch") THEN Append(Of("switch", ipc), Msg("switch", value))
               ELSE Of("switch", ipc)
<1> DEFINE full == <<"switch", "get_status", "list_backends">>
           o == Of("switch", ipc)
<1>1. CallsOf("switch") = full /\ full # <<>> /\ Head(full) = "switch"
    BY DEF CallsOf
<1>2. ipc \in Seq(CallType) /\ o \in Seq(CallType)
    BY OfKeeps DEF QueuesOK
<1>3. calls # full /\ calls # <<>> => Head(calls) # "switch" /\ Head(calls) \in {"get_status", "list_backends"}
    BY DEF CallsLeft
<1> HIDE DEF full, o
<1>4. o \o <<>> = o /\ \A m \in CallType : o \o <<m>> = Append(o, m)
    BY <1>2
<1>5. CASE calls = <<>>
    <2>1. NotYetCalled' = <<>> /\ ipc' = ipc
        BY <1>1, <1>5 DEF Calls, NotYetCalled, NoCommand
    <2> QED
        BY <1>1, <1>4, <1>5, <2>1 DEF o
<1>6. CASE calls # <<>>
    <2> DEFINE m == Msg(Head(calls), value)
               room == Len(ipc) < IpcBuffer
    <2>1. /\ bridge' = [kind |-> kind, value |-> value, calls |-> calls, sent |-> room]
          /\ ipc' = IF room THEN Append(ipc, m) ELSE ipc
        BY <1>6 DEF Calls
    <2>2. m.kind = Head(calls) /\ m \in CallType
        <3>1. Head(calls) \in {"switch", "get_status", "list_backends"}
            BY <1>1, <1>3, <1>6
        <3> QED
            BY <3>1 DEF Msg, CallType
    <2>3. calls = full => m = Msg("switch", value)
        BY <1>1
    <2>4. NotYetCalled' = IF calls = full /\ ~room THEN <<Msg("switch", value)>> ELSE <<>>
        <3>1. CallsOf("switch")' = full
            BY <1>1
        <3>2. bridge'.calls = calls /\ bridge'.sent = room /\ bridge'.value = value
            BY <2>1
        <3> QED
            BY <3>1, <3>2 DEF NotYetCalled
    <2> HIDE DEF m, room
    <2>5. Of("switch", Append(ipc, m)) = IF m.kind = "switch" THEN Append(o, m) ELSE o
        BY <1>2, <2>2, OfAppend DEF o
    <2>6. CASE calls = full
        BY SMTT(30), <1>1, <1>4, <2>1, <2>2, <2>3, <2>4, <2>5, <2>6 DEF o
    <2>7. CASE calls # full
        BY <1>1, <1>3, <1>4, <1>6, <2>1, <2>2, <2>4, <2>5, <2>7 DEF o
    <2> QED
        BY <2>6, <2>7
<1> QED
    BY <1>5, <1>6

\* An event that is not a choice leaves their order alone.
LEMMA PostOrder ==
    ASSUME QueuesOK, NEW e \in EventType, Post(e), NEW k
    PROVE  Of(k, events') = IF e.kind = k THEN Append(Of(k, events), e) ELSE Of(k, events)
<1>1. events \in Seq(EventType) /\ events' = Append(events, e)
    BY DEF Post, QueuesOK
<1> QED
    BY <1>1, OfAppend

LEMMA BridgeTakesOrder ==
    ASSUME QueuesOK, OrderInv, BridgeTakes, UNCHANGED owed
    PROVE  OrderInv'
<1> DEFINE c == Head(commands)
<1>1. /\ commands \in Seq(CommandType) /\ commands # <<>> /\ commands' = Tail(commands)
      /\ c \in CommandType
    BY DEF BridgeTakes, QueuesOK
<1>2. /\ bridge = NoCommand
      /\ Calls(c.kind, c.value, CallsOf(c.kind))
      /\ \/ c.kind \notin Overrides /\ UNCHANGED events
         \/ c.kind \in Overrides /\ Post(c)
         \/ c.kind = "restart_pty" /\ Post(Msg("error", NoName))
    BY DEF BridgeTakes
<1>3. c.kind \in CommandKinds /\ c.value \in Option(Backends) /\ c = Msg(c.kind, c.value)
    BY <1>1 DEF CommandType, Msg
<1>4. \A k : Of(k, commands) = IF c.kind = k THEN <<c>> \o Of(k, commands') ELSE Of(k, commands')
    BY <1>1, OfHead
<1>5. c \in MessageType /\ (c.kind \in Overrides => c \in EventType)
    BY <1>1 DEF MessageType, CommandType, EventType
<1> HIDE DEF c
<1>6. \A k : /\ Of(k, events) \in Seq(MessageType) /\ Of(k, ipc) \in Seq(MessageType)
             /\ Of(k, commands') \in Seq(MessageType)
    <2>1. events \in Seq(MessageType) /\ ipc \in Seq(MessageType) /\ commands' \in Seq(MessageType)
        BY <1>1 DEF QueuesOK, MessageType
    <2> QED
        BY <2>1, OfKeeps
<1>7. ASSUME NEW s \in Seq(MessageType), NEW t \in Seq(MessageType)
      PROVE  Append(s, c) \o t = s \o (<<c>> \o t)
    BY <1>5
<1>8. owed'["switch"] = SwitchesOnTheWay'
    <2>1. owed["switch"] = Of("switch", ipc) \o Of("switch", commands)
        <3>1. NotYetCalled = <<>>
            BY <1>2 DEF NotYetCalled, NoCommand, CallsOf
        <3>2. Of("switch", ipc) \o <<>> = Of("switch", ipc)
            BY <1>6
        <3> QED
            BY <3>1, <3>2 DEF OrderInv, SwitchesOnTheWay
    <2>2. CallsOf(c.kind) = CallsOf("switch") <=> c.kind = "switch"
        BY DEF CallsOf
    <2>3. Of("switch", ipc') \o NotYetCalled' =
              IF c.kind = "switch" THEN Append(Of("switch", ipc), c) ELSE Of("switch", ipc)
        BY <1>2, <1>3, <2>2, CallsLeftType, CallsOrder
    <2>4. owed["switch"] = (Of("switch", ipc') \o NotYetCalled') \o Of("switch", commands')
        <3>1. CASE c.kind = "switch"
            <4>1. owed["switch"] = Of("switch", ipc) \o (<<c>> \o Of("switch", commands'))
                BY <1>4, <2>1, <3>1
            <4>2. owed["switch"] = Append(Of("switch", ipc), c) \o Of("switch", commands')
                BY <1>6, <1>7, <4>1
            <4> QED
                BY <2>3, <3>1, <4>2
        <3>2. CASE c.kind # "switch"
            BY <1>4, <2>1, <2>3, <3>2
        <3> QED
            BY <3>1, <3>2
    <2> QED
        BY <2>4 DEF SwitchesOnTheWay
<1>9. ASSUME NEW k \in Overrides PROVE owed'[k] = OverridesOnTheWay(k)'
    <2>1. owed[k] = Of(k, events) \o Of(k, commands)
        BY DEF OrderInv, OverridesOnTheWay
    <2>2. Of(k, events') = IF c.kind = k THEN Append(Of(k, events), c) ELSE Of(k, events)
        <3>1. CASE c.kind \notin Overrides /\ UNCHANGED events
            BY <3>1
        <3>2. CASE c.kind \in Overrides /\ Post(c)
            BY <1>5, <3>2, PostOrder
        <3>3. CASE c.kind = "restart_pty" /\ Post(Msg("error", NoName))
            <4>1. Msg("error", NoName).kind # k /\ c.kind # k
                BY <3>3 DEF Msg, Overrides
            <4> QED
                BY <3>3, <4>1, ErrorType, PostOrder
        <3> QED
            BY <1>2, <3>1, <3>2, <3>3
    <2>3. owed[k] = Of(k, events') \o Of(k, commands')
        <3>1. CASE c.kind = k
            <4>1. owed[k] = Of(k, events) \o (<<c>> \o Of(k, commands'))
                BY <1>4, <2>1, <3>1
            <4>2. owed[k] = Append(Of(k, events), c) \o Of(k, commands')
                BY <1>6, <1>7, <4>1
            <4> QED
                BY <2>2, <3>1, <4>2
        <3>2. CASE c.kind # k
            BY <1>4, <2>1, <2>2, <3>2
        <3> QED
            BY <3>1, <3>2
    <2> QED
        BY <2>3 DEF OverridesOnTheWay
<1> QED
    BY <1>8, <1>9 DEF OrderInv

\* Going on with a command that is under way moves no choice.
LEMMA CallsKeepOrder ==
    ASSUME QueuesOK, OrderInv, UNCHANGED <<commands, owed>>,
           Of("switch", ipc') \o NotYetCalled' = Of("switch", ipc) \o NotYetCalled,
           \A k \in Overrides : Of(k, events') = Of(k, events)
    PROVE  OrderInv'
<1>1. owed'["switch"] = SwitchesOnTheWay'
    BY DEF OrderInv, SwitchesOnTheWay
<1>2. ASSUME NEW k \in Overrides PROVE owed'[k] = OverridesOnTheWay(k)'
    <2>1. owed[k] = Of(k, events') \o Of(k, commands')
        BY DEF OrderInv, OverridesOnTheWay
    <2> QED
        BY <2>1 DEF OverridesOnTheWay
<1> QED
    BY <1>1, <1>2 DEF OrderInv

LEMMA BridgeCallsOrder ==
    ASSUME BridgeOK, OrderInv, BridgeCalls, UNCHANGED owed
    PROVE  OrderInv'
<1>1. bridge.calls # <<>> /\ QueuesOK
    BY DEF BridgeCalls, BridgeOK
<1>2. Of("switch", ipc') \o NotYetCalled' =
          IF bridge.calls = CallsOf("switch")
          THEN Append(Of("switch", ipc), Msg("switch", bridge.value)) ELSE Of("switch", ipc)
    BY <1>1, BridgeCommand, CallsOrder DEF BridgeCalls
<1>3. NotYetCalled = IF bridge.calls = CallsOf("switch")
                     THEN <<Msg("switch", bridge.value)>> ELSE <<>>
    BY DEF BridgeCalls, NotYetCalled
<1>4. Of("switch", ipc') \o NotYetCalled' = Of("switch", ipc) \o NotYetCalled
    <2> DEFINE m == Msg("switch", bridge.value)
               o == Of("switch", ipc)
    <2>1. o \in Seq(CallType)
        BY <1>1, OfKeeps DEF QueuesOK
    <2>2. m \in CallType
        BY <1>1, BridgeCommand DEF Msg, CallType
    <2> HIDE DEF m, o
    <2>3. o \o <<m>> = Append(o, m) /\ o \o <<>> = o
        BY <2>1, <2>2
    <2> QED
        BY <1>2, <1>3, <2>3 DEF m, o
<1> QED
    BY <1>1, <1>4, CallsKeepOrder DEF BridgeCalls

LEMMA BridgeGoesOnOrder ==
    ASSUME BridgeOK, OrderInv, bridge.sent, UNCHANGED <<commands, owed>>,
           NextCall \/ Calls(bridge.kind, bridge.value, <<>>),
           UNCHANGED events \/ \E e \in EventType : Post(e) /\ e.kind \notin Overrides
    PROVE  OrderInv'
<1>1. bridge.calls # <<>> /\ QueuesOK
    BY DEF BridgeOK, NoCommand
<1>2. PICK calls \in CallsLeft : /\ Calls(bridge.kind, bridge.value, calls)
                                 /\ calls \in {Tail(bridge.calls), <<>>}
    BY <1>1, BridgeCommand DEF NextCall
<1>3. calls # CallsOf("switch")
    BY <1>1, <1>2, BridgeCommand, TailIsNoSwitch
<1>4. Of("switch", ipc') \o NotYetCalled' = Of("switch", ipc)
    BY <1>1, <1>2, <1>3, BridgeCommand, CallsOrder
<1>5. NotYetCalled = <<>> /\ Of("switch", ipc) \o <<>> = Of("switch", ipc)
    <2>1. Of("switch", ipc) \in Seq(CallType)
        BY <1>1, OfKeeps DEF QueuesOK
    <2> QED
        BY <2>1 DEF NotYetCalled
<1>6. \A k \in Overrides : Of(k, events') = Of(k, events)
    BY <1>1, PostOrder
<1> QED
    BY <1>1, <1>4, <1>5, <1>6, CallsKeepOrder

LEMMA BridgeHearsOrder ==
    ASSUME BridgeOK, OrderInv, BridgeHears \/ BridgeGivesUp, UNCHANGED owed
    PROVE  OrderInv'
<1>1. /\ Msg("error", NoName) \in EventType /\ Msg("error", NoName).kind \notin Overrides
      /\ response.kind \in {"status", "list"} =>
             response \in EventType /\ response.kind \notin Overrides
    BY ErrorType DEF Msg, Overrides, BridgeOK, QueuesOK, ResponseType, EventType
<1>2. /\ bridge.sent /\ UNCHANGED commands
      /\ NextCall \/ Calls(bridge.kind, bridge.value, <<>>)
      /\ UNCHANGED events \/ \E e \in EventType : Post(e) /\ e.kind \notin Overrides
    BY <1>1 DEF BridgeHears, BridgeGivesUp, Fails
<1> QED
    BY <1>2, BridgeGoesOnOrder

LEMMA ServerStepOrder ==
    ASSUME QueuesOK, OrderInv, ServerStep
    PROVE  OrderInv'
<1> DEFINE c == Head(ipc)
<1>1. /\ ipc \in Seq(CallType) /\ ipc # <<>> /\ ipc' = Tail(ipc) /\ c \in CallType
      /\ UNCHANGED <<events, bridge, commands>>
      /\ c.kind = "switch" => owed' = Carried("switch")
      /\ c.kind # "switch" => owed' = owed
    BY DEF ServerStep, QueuesOK
<1>2. UNCHANGED NotYetCalled
    BY <1>1 DEF NotYetCalled
<1>3. Of("switch", ipc) = IF c.kind = "switch" THEN <<c>> \o Of("switch", ipc')
                          ELSE Of("switch", ipc')
    BY <1>1, OfHead
<1> HIDE DEF c
<1>4. ASSUME NEW k \in Overrides PROVE owed'[k] = OverridesOnTheWay(k)'
    <2>1. owed'[k] = owed[k]
        BY <1>1 DEF Carried, QueuesOK, Overrides, ChoiceKinds
    <2>2. owed[k] = Of(k, events') \o Of(k, commands')
        BY <1>1 DEF OrderInv, OverridesOnTheWay
    <2> QED
        BY <2>1, <2>2 DEF OverridesOnTheWay
<1>5. owed'["switch"] = SwitchesOnTheWay'
    <2> DEFINE a == Of("switch", ipc')
               t == NotYetCalled \o Of("switch", commands)
    <2>1. /\ a \in Seq(MessageType) /\ NotYetCalled \in Seq(MessageType)
          /\ Of("switch", commands) \in Seq(MessageType) /\ c \in MessageType
        <3>1. /\ ipc' \in Seq(MessageType) /\ NotYetCalled \in Seq(MessageType)
              /\ commands \in Seq(MessageType) /\ c \in MessageType
            BY <1>1, NotYetCalledType DEF QueuesOK, MessageType
        <3> QED
            BY <3>1, OfKeeps
    <2>2. (a \o NotYetCalled) \o Of("switch", commands) = a \o t /\ t \in Seq(MessageType)
        BY <2>1
    <2>3. SwitchesOnTheWay' = a \o t
        BY <1>1, <1>2, <2>2 DEF SwitchesOnTheWay
    <2>4. CASE c.kind # "switch"
        BY <1>1, <1>3, <2>2, <2>3, <2>4 DEF OrderInv, SwitchesOnTheWay
    <2>5. CASE c.kind = "switch"
        <3> HIDE DEF a, t
        <3>1. ((<<c>> \o a) \o NotYetCalled) \o Of("switch", commands) = (<<c>> \o a) \o t
            BY <2>1 DEF t
        <3>2. owed["switch"] = (<<c>> \o a) \o t
            BY <1>3, <2>5, <3>1 DEF OrderInv, SwitchesOnTheWay, a
        <3>3. owed'["switch"] = SubSeq(owed["switch"], 2, Len(owed["switch"]))
            BY <1>1, <2>5 DEF Carried, QueuesOK, ChoiceKinds
        <3>4. owed'["switch"] = a \o t
            BY SMTT(60), <2>1, <2>2, <3>2, <3>3, RestOfConcat
        <3> QED
            BY <2>3, <3>4
    <2> QED
        BY <2>4, <2>5
<1> QED
    BY <1>4, <1>5 DEF OrderInv

LEMMA OrderUnchanged ==
    ASSUME OrderInv, UNCHANGED <<events, ipc, bridge, commands, owed>>
    PROVE  OrderInv'
BY DEF OrderInv, SwitchesOnTheWay, OverridesOnTheWay, NotYetCalled

LEMMA OrderInductive ==
    ASSUME ControlInv, OrderInv, [ControlNext]_controlVars
    PROVE  OrderInv'
<1>1. QueuesOK /\ BridgeOK
    BY ControlInvParts DEF ControlInv
<1>2. CASE Key \/ Tick
    <2>1. SendsOne /\ UNCHANGED <<events, ipc, bridge>>
        BY <1>2, KeyKeepsInv, TickKeepsInv DEF Key, Tick, ipcVars
    <2> QED
        BY <1>1, <2>1, SendsOneOrder
<1>3. CASE HandleEvent
    BY <1>1, <1>3, HandleEventOrder
<1>4. CASE BridgeStep \/ (BridgeGivesUp /\ BridgeFrame)
    BY <1>1, <1>4, BridgeTakesOrder, BridgeCallsOrder, BridgeHearsOrder DEF BridgeStep, BridgeFrame
<1>5. CASE ServerStep
    BY <1>1, <1>5, ServerStepOrder
<1>6. CASE WebUi \/ UNCHANGED controlVars
    BY <1>6, OrderUnchanged DEF WebUi, controlVars, ipcVars
<1> QED
    BY <1>2, <1>3, <1>4, <1>5, <1>6 DEF ControlNext

\* From src/ipc/client.rs:83: every choice the UI accepted is carried out once and
\* in order, however many are under way, whoever gives up waiting, and however
\* small the queues are.
THEOREM ChoicesAlwaysInOrder == ControlSpec => []ChoicesInOrder
<1>1. ControlInit => ControlInv /\ OrderInv
    BY ControlInitInv, OrderInitInv
<1>2. ControlInv /\ OrderInv /\ [ControlNext]_controlVars => (ControlInv /\ OrderInv)'
    BY ControlInductive, OrderInductive
<1>3. ControlInv /\ OrderInv => ChoicesInOrder
    BY OrderIsChoicesInOrder DEF ControlInv
<1> QED
    BY <1>1, <1>2, <1>3, PTL DEF ControlSpec
================================================================================
