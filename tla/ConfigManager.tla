---------------------------- MODULE ConfigManager ----------------------------
(***************************************************************************)
(* The last-known-good configuration manager (internal/config), the SIGHUP *)
(* goroutine of cmd/server with its AssetReloader, the layout editor's     *)
(* requests (internal/server) and the dispatch of a new snapshot to the    *)
(* coordinators (internal/events/dispatcher.go).                           *)
(*                                                                         *)
(* The manager's mutex protects its fields, not the dispatch that follows. *)
(* A package is known by the content of its files: a custom directory may  *)
(* get back a content that it had before.                                  *)
(* A configuration text is a record of what the pipeline and the dispatch  *)
(* can tell apart; a layout override is known by the texts it fits.        *)
(***************************************************************************)
EXTENDS Naturals, FiniteSets

CONSTANTS
    Types,        \* widget types
    Builtin,      \* those that come with the server; their package never changes
    Contents,     \* contents a complete custom package may have
    Installed,    \* what the custom directories may hold at first
    Yamls,        \* texts the operator may put into the configuration file
    Overrides,    \* layout overrides the editor may send
    Requests,     \* requests of the layout editor
    MaxChanges,   \* bound on the changes the operator makes on disk
    SHIPPED,      \* the content of a package that comes with the server
    BROKEN,       \* a custom directory that does not hold a complete package
    ABSENT,       \* no directory of that type
    NONE

\* The goroutine that handles SIGHUP.
HUP == "hup"
Procs == Requests \cup {HUP}

ASSUME ConfigAssumption ==
    /\ Yamls \subseteq [name: STRING, wellFormed: BOOLEAN, allowEdit: BOOLEAN,
                        types: SUBSET Types, shell: STRING]
    /\ Overrides \subseteq [name: STRING, fits: SUBSET STRING]
    /\ Installed \subseteq [Types -> Contents \cup {BROKEN, ABSENT}]
    /\ Builtin \subseteq Types /\ MaxChanges \in Nat
    /\ {SHIPPED, BROKEN, ABSENT, NONE} \cap Contents = {}
    /\ SHIPPED \notin {BROKEN, ABSENT, NONE} /\ BROKEN \notin {ABSENT, NONE} /\ ABSENT # NONE
    /\ HUP \notin Requests /\ NONE \notin Yamls \cup Overrides \cup Requests

VARIABLES
    configFile, overrideFile,    \* on disk; NONE: not there
    packages,                    \* on disk: what a type's custom directory holds
    webChanged,                  \* the web assets differ from lastWebHash
    changes,                     \* number of changes by the operator
    lock,                        \* reloadMu: its holder, NONE when free
    base, current,               \* baseYAML and the running snapshot
    configErr, packageErrs,      \* configReloadErr, packageErrors
    rotation, provider,          \* snapshots of the two coordinators
    shell,                       \* the shell the displays' pages were built for
    shownStatus,                 \* the status last dispatched
    pkgHashes, incompletePkgs,   \* AssetReloader
    templates,                   \* render.Engine's cache of compiled views
    hupPending,                  \* hupChan, which holds one signal
    pc, held,                    \* where a process is and the value it carries
    alone, resetFailed, unscanned, \* history, see the properties
    unhashed                       \* history: types whose view was compiled from
                                   \* a content the reloader has not noticed

disk == <<configFile, overrideFile, packages, webChanged, changes>>
manager == <<base, current, configErr, packageErrs>>
consumers == <<rotation, provider, shell, shownStatus>>
reloader == <<pkgHashes, incompletePkgs, templates>>
history == <<alone, resetFailed, unscanned, unhashed>>
vars == <<disk, lock, manager, consumers, reloader, hupPending, pc, held, history>>

Complete(v) == v \notin {BROKEN, ABSENT, NONE}

\* LoadPackage: a custom directory takes precedence, complete or not.
Found(t) == IF packages[t] # ABSENT THEN packages[t]
            ELSE IF t \in Builtin THEN SHIPPED ELSE ABSENT

\* A snapshot knows which of its types were found in the custom directory.
Snapshots == [yaml: Yamls, override: Overrides \cup {NONE}, custom: SUBSET Types]

----------------------------------------------------------------------------
(* The pipeline *)

\* Stages 1 to 6: syntax, instance schemas, packages, config schemas, domain
\* rules and the layout solver. Only the third looks at what is on disk.
ValidatePipeline(y) ==
    y.wellFormed /\ \A t \in y.types: Complete(Found(t))

\* The snapshot of a text that has just passed.
Validated(y, o) ==
    [yaml |-> y, override |-> o, custom |-> {t \in y.types: packages[t] # ABSENT}]

Fits(o, y) == y.name \in o.fits

\* An override that cannot be read or does not fit any more is left alone.
ApplyDiskOverride(y, o) ==
    Validated(y, IF o # NONE /\ Fits(o, y) THEN o ELSE NONE)

Status(ce, pe) == IF ce \/ pe # {} THEN "error" ELSE "ok"

----------------------------------------------------------------------------
(* NewManager and the components of the server after a start *)

\* seedInitialState: packages that cannot be loaded are skipped.
SeedHashes == [t \in Types |-> IF Complete(Found(t)) THEN Found(t) ELSE NONE]

Started(y) ==
    LET s == ApplyDiskOverride(y, overrideFile) IN
    /\ base' = y /\ current' = s
    /\ configErr' = FALSE /\ packageErrs' = {}
    /\ rotation' = s /\ provider' = s /\ shownStatus' = "ok"
    /\ pkgHashes' = SeedHashes
    /\ incompletePkgs' = {}
    /\ templates' = [t \in Types |-> NONE]
    /\ lock' = NONE /\ hupPending' = FALSE
    /\ pc' = [p \in Procs |-> "idle"] /\ held' = [p \in Procs |-> NONE]
    /\ alone' = TRUE /\ resetFailed' = FALSE /\ unscanned' = FALSE /\ unhashed' = {}

Init ==
    /\ configFile \in Yamls /\ overrideFile = NONE
    /\ packages \in Installed
    /\ ValidatePipeline(configFile) /\ webChanged = FALSE /\ changes = 0
    /\ lock = NONE /\ base = configFile
    /\ current = Validated(configFile, NONE)
    /\ configErr = FALSE /\ packageErrs = {}
    /\ rotation = current /\ provider = current
    /\ shell = configFile.shell /\ shownStatus = "ok"
    /\ pkgHashes = SeedHashes /\ incompletePkgs = {}
    /\ templates = [t \in Types |-> NONE]
    /\ hupPending = FALSE
    /\ pc = [p \in Procs |-> "idle"] /\ held = [p \in Procs |-> NONE]
    /\ alone = TRUE /\ resetFailed = FALSE /\ unscanned = FALSE /\ unhashed = {}

\* The server dies at any point and is started again. It does not come up
\* with a configuration it rejects. A page that was open stays open.
Restart ==
    /\ configFile # NONE /\ ValidatePipeline(configFile)
    /\ Started(configFile)
    /\ shell' = NONE /\ webChanged' = FALSE
    /\ UNCHANGED <<configFile, overrideFile, packages, changes>>

----------------------------------------------------------------------------
(* The operator *)

Change ==
    /\ changes < MaxChanges /\ changes' = changes + 1
    /\ unscanned' = TRUE
    /\ UNCHANGED <<overrideFile, lock, manager, consumers, reloader, hupPending,
                   pc, held, alone, resetFailed, unhashed>>

EditConfig(y) ==
    Change /\ y # configFile /\ configFile' = y /\ UNCHANGED <<packages, webChanged>>
EditPackage(t, v) ==
    /\ Change /\ packages[t] # v
    /\ packages' = [packages EXCEPT ![t] = v]
    /\ UNCHANGED <<configFile, webChanged>>
EditWeb ==
    Change /\ webChanged' = TRUE /\ UNCHANGED <<configFile, packages>>

SendSighup ==
    /\ ~hupPending /\ hupPending' = TRUE
    /\ UNCHANGED <<disk, lock, manager, consumers, reloader, pc, held, history>>

----------------------------------------------------------------------------
(* render.Engine *)

\* The view of a type of the running configuration, at the path at which its
\* validation found the package.
ViewPath(t) == IF t \in current.custom THEN packages[t] ELSE SHIPPED

\* A request for a widget compiles the view, unless the template is in the
\* cache. Without the file it fails.
Render(t) ==
    /\ t \in current.yaml.types /\ templates[t] = NONE /\ ViewPath(t) # ABSENT
    /\ templates' = [templates EXCEPT ![t] = ViewPath(t)]
    /\ unhashed' = IF ViewPath(t) = pkgHashes[t] THEN unhashed \ {t} ELSE unhashed \cup {t}
    /\ UNCHANGED <<disk, lock, manager, consumers, pkgHashes, incompletePkgs,
                   hupPending, pc, held, alone, resetFailed, unscanned>>

----------------------------------------------------------------------------
(* Dispatch, by the SIGHUP goroutine and by requests *)

Goto(p, l) == pc' = [pc EXCEPT ![p] = l]

\* A snapshot was stored and its dispatch is not over.
Dispatching(p) == pc[p] \in {"rotation", "provider", "diff"}

\* The snapshot s replaces the running one; held says what the diff with the
\* previous one asks the displays to do.
StoreSnapshot(p, s) ==
    /\ current' = s
    /\ held' = [held EXCEPT ![p] =
                  [snap |-> s, shellChanged |-> s.yaml.shell # current.yaml.shell]]
    /\ alone' = \A q \in Procs \ {p}: ~Dispatching(q)
    /\ Goto(p, "rotation")

DispatchRotation(p) ==
    /\ pc[p] = "rotation" /\ rotation' = held[p].snap /\ Goto(p, "provider")
    /\ UNCHANGED <<disk, lock, manager, provider, shell, shownStatus, reloader,
                   hupPending, held, history>>

\* Fault: the provider coordinator is not told.
DispatchProvider_Skipped(p) ==
    /\ pc[p] = "provider" /\ Goto(p, "diff")
    /\ UNCHANGED <<disk, lock, manager, consumers, reloader, hupPending, held, history>>

DispatchProvider(p) ==
    /\ pc[p] = "provider" /\ provider' = held[p].snap /\ Goto(p, "diff")
    /\ UNCHANGED <<disk, lock, manager, rotation, shell, shownStatus, reloader,
                   hupPending, held, history>>

\* A page that reloads itself is built from the snapshot that runs by then.
DispatchDiff(p) ==
    /\ pc[p] = "diff"
    /\ shell' = IF held[p].shellChanged THEN current.yaml.shell ELSE shell
    /\ held' = [held EXCEPT ![p] = NONE]
    /\ Goto(p, IF p = HUP THEN "status" ELSE "idle")
    /\ UNCHANGED <<disk, lock, manager, rotation, provider, shownStatus, reloader,
                   hupPending, history>>

----------------------------------------------------------------------------
(* Requests of the layout editor *)

\* PutLayoutEditor: the permission is checked without the lock, and again
\* by ApplyLayoutOverride with it.
PutLayoutEditor(r, o) ==
    /\ pc[r] = "idle" /\ current.yaml.allowEdit
    /\ Goto(r, "apply") /\ held' = [held EXCEPT ![r] = o]
    /\ UNCHANGED <<disk, lock, manager, consumers, reloader, hupPending, history>>

Refused(r) ==
    /\ Goto(r, "idle") /\ held' = [held EXCEPT ![r] = NONE]
    /\ UNCHANGED <<disk, lock, manager, consumers, reloader, hupPending, history>>

\* The override is checked against the base configuration, which is
\* validated again, and then written to disk.
ApplyLayoutOverride(r) ==
    /\ pc[r] = "apply" /\ lock = NONE
    /\ current.yaml.allowEdit /\ ValidatePipeline(base) /\ Fits(held[r], base)
    /\ overrideFile' = held[r] /\ lock' = r
    /\ Goto(r, "stored") /\ held' = [held EXCEPT ![r] = Validated(base, held[r])]
    /\ UNCHANGED <<configFile, packages, webChanged, changes, manager, consumers,
                   reloader, hupPending, history>>

\* Not allowed any more, not valid, not fitting, or the file not written.
RefuseLayoutOverride(r) == pc[r] = "apply" /\ lock = NONE /\ Refused(r)

\* The second part of ApplyLayoutOverride, still under the lock.
StoreOverride(r) ==
    /\ pc[r] = "stored"
    /\ StoreSnapshot(r, held[r])
    /\ lock' = NONE /\ resetFailed' = FALSE
    /\ UNCHANGED <<disk, base, configErr, packageErrs, consumers, reloader,
                   hupPending, unscanned, unhashed>>

DeleteLayoutEditor(r) ==
    /\ pc[r] = "idle" /\ current.yaml.allowEdit /\ Goto(r, "reset")
    /\ UNCHANGED <<disk, lock, manager, consumers, reloader, hupPending, held, history>>

\* ResetLayoutOverride removes the file first; a base configuration that has
\* become invalid leaves the running snapshot as it is.
ResetLayoutOverride(r) ==
    /\ pc[r] = "reset" /\ lock = NONE /\ current.yaml.allowEdit
    /\ overrideFile' = NONE
    /\ IF ValidatePipeline(base)
       THEN /\ StoreSnapshot(r, Validated(base, NONE))
            /\ resetFailed' = FALSE
       ELSE /\ Goto(r, "idle") /\ resetFailed' = TRUE
            /\ UNCHANGED <<current, held, alone>>
    /\ UNCHANGED <<configFile, packages, webChanged, changes, lock, base, configErr,
                   packageErrs, consumers, reloader, hupPending, unscanned, unhashed>>

\* Not allowed any more, or the file not removed.
RefuseReset(r) == pc[r] = "reset" /\ lock = NONE /\ Refused(r)

----------------------------------------------------------------------------
(* handleSIGHUP *)

\* reloadConfigOnSIGHUP reads the file before it takes the lock.
ReceiveSighup ==
    /\ pc[HUP] = "idle" /\ hupPending /\ hupPending' = FALSE
    /\ held' = [held EXCEPT ![HUP] = configFile]
    /\ Goto(HUP, IF configFile = NONE THEN "unread" ELSE "reload")
    /\ unscanned' = FALSE
    /\ UNCHANGED <<disk, lock, manager, consumers, reloader, alone, resetFailed, unhashed>>

SetErrorStatus ==
    /\ pc[HUP] = "unread" /\ lock = NONE /\ configErr' = TRUE /\ Goto(HUP, "status")
    /\ UNCHANGED <<disk, lock, base, current, packageErrs, consumers, reloader,
                   hupPending, held, history>>

\* Fault: the rejected text becomes the base of later layout edits.
ReloadRejected_Taken ==
    /\ pc[HUP] = "reload" /\ lock = NONE /\ ~ValidatePipeline(held[HUP])
    /\ configErr' = TRUE /\ base' = held[HUP]
    /\ Goto(HUP, "status") /\ held' = [held EXCEPT ![HUP] = NONE]
    /\ UNCHANGED <<disk, lock, current, packageErrs, consumers, reloader, hupPending, history>>

\* Manager.Reload with a text that is rejected: the running configuration stays.
ReloadRejected ==
    /\ pc[HUP] = "reload" /\ lock = NONE /\ ~ValidatePipeline(held[HUP])
    /\ configErr' = TRUE
    /\ Goto(HUP, "status") /\ held' = [held EXCEPT ![HUP] = NONE]
    /\ UNCHANGED <<disk, lock, base, current, packageErrs, consumers, reloader,
                   hupPending, history>>

Reload ==
    /\ pc[HUP] = "reload" /\ lock = NONE /\ ValidatePipeline(held[HUP])
    /\ base' = held[HUP] /\ configErr' = FALSE /\ packageErrs' = {}
    /\ StoreSnapshot(HUP, ApplyDiskOverride(held[HUP], overrideFile))
    /\ resetFailed' = FALSE
    /\ UNCHANGED <<disk, lock, consumers, reloader, hupPending, unscanned, unhashed>>

\* dispatchStatus; discoverWidgetTypesLocked then lists the types to scan.
DispatchStatus ==
    /\ pc[HUP] = "status"
    /\ shownStatus' = Status(configErr, packageErrs)
    /\ held' = [held EXCEPT ![HUP] =
                  [todo |-> {t \in Types: \/ Found(t) # ABSENT
                                          \/ pkgHashes[t] # NONE
                                          \/ t \in incompletePkgs},
                   statusChanged |-> FALSE]]
    /\ Goto(HUP, "scan")
    /\ UNCHANGED <<disk, lock, manager, rotation, provider, shell, reloader,
                   hupPending, history>>

\* The branches of ReloadWidgets for one type.
EvictDeletedWidget(t) ==
    /\ Found(t) = ABSENT
    /\ packageErrs' = packageErrs \ {t} /\ incompletePkgs' = incompletePkgs \ {t}
    /\ pkgHashes' = [pkgHashes EXCEPT ![t] = NONE]
    /\ templates' = [templates EXCEPT ![t] = NONE] /\ unhashed' = unhashed \ {t}

\* The error is passed on only when the reloader did not know it.
RecordWidgetLoadError(t) ==
    /\ packages[t] = BROKEN
    /\ packageErrs' = IF t \in incompletePkgs THEN packageErrs ELSE packageErrs \cup {t}
    /\ incompletePkgs' = incompletePkgs \cup {t}
    /\ pkgHashes' = [pkgHashes EXCEPT ![t] = NONE]
    /\ templates' = [templates EXCEPT ![t] = IF pkgHashes[t] # NONE THEN NONE ELSE @]
    /\ unhashed' = IF pkgHashes[t] # NONE THEN unhashed \ {t} ELSE unhashed

\* Fault: the view of a changed package stays in the cache.
UpdateLoadedWidget_NotInvalidated(t) ==
    /\ Complete(Found(t))
    /\ packageErrs' = packageErrs \ {t} /\ incompletePkgs' = incompletePkgs \ {t}
    /\ pkgHashes' = [pkgHashes EXCEPT ![t] = Found(t)]
    /\ templates' = [templates EXCEPT ![t] = IF pkgHashes[t] = NONE THEN NONE ELSE @]
    /\ unhashed' = IF pkgHashes[t] # Found(t) THEN unhashed \ {t} ELSE unhashed

\* The view is only dropped when the hash differs from that of the last scan.
UpdateLoadedWidget(t) ==
    /\ Complete(Found(t))
    /\ packageErrs' = packageErrs \ {t} /\ incompletePkgs' = incompletePkgs \ {t}
    /\ pkgHashes' = [pkgHashes EXCEPT ![t] = Found(t)]
    /\ templates' = [templates EXCEPT ![t] = IF pkgHashes[t] # Found(t) THEN NONE ELSE @]
    /\ unhashed' = IF pkgHashes[t] # Found(t) THEN unhashed \ {t} ELSE unhashed

\* Fault: a type is not taken off the list.
ScanWidget_Rescan(t) ==
    /\ pc[HUP] = "scan" /\ lock = NONE /\ t \in held[HUP].todo
    /\ EvictDeletedWidget(t) \/ RecordWidgetLoadError(t) \/ UpdateLoadedWidget(t)
    /\ held' = [held EXCEPT ![HUP] =
                  [todo |-> @.todo,
                   statusChanged |-> @.statusChanged \/ packageErrs' # packageErrs
                                       \/ incompletePkgs' # incompletePkgs]]
    /\ UNCHANGED <<disk, lock, base, current, configErr, consumers, hupPending, pc,
                   alone, resetFailed, unscanned>>

ScanWidget(t) ==
    /\ pc[HUP] = "scan" /\ lock = NONE /\ t \in held[HUP].todo
    /\ EvictDeletedWidget(t) \/ RecordWidgetLoadError(t) \/ UpdateLoadedWidget(t)
    /\ held' = [held EXCEPT ![HUP] =
                  [todo |-> @.todo \ {t},
                   statusChanged |-> @.statusChanged \/ packageErrs' # packageErrs
                                       \/ incompletePkgs' # incompletePkgs]]
    /\ UNCHANGED <<disk, lock, base, current, configErr, consumers, hupPending, pc,
                   alone, resetFailed, unscanned>>

FinishWidgets ==
    /\ pc[HUP] = "scan" /\ held[HUP].todo = {}
    /\ shownStatus' = IF held[HUP].statusChanged THEN Status(configErr, packageErrs)
                      ELSE shownStatus
    /\ held' = [held EXCEPT ![HUP] = NONE] /\ Goto(HUP, "web")
    /\ UNCHANGED <<disk, lock, manager, rotation, provider, shell, reloader,
                   hupPending, history>>

\* ReloadWeb: other assets make every page reload itself.
ReloadWeb ==
    /\ pc[HUP] = "web" /\ webChanged' = FALSE
    /\ shell' = IF webChanged THEN current.yaml.shell ELSE shell
    /\ Goto(HUP, "idle")
    /\ UNCHANGED <<configFile, overrideFile, packages, changes, lock, manager, rotation,
                   provider, shownStatus, reloader, hupPending, held, history>>

----------------------------------------------------------------------------
HupStep ==
    \/ ReceiveSighup \/ SetErrorStatus \/ ReloadRejected \/ Reload
    \/ DispatchRotation(HUP) \/ DispatchProvider(HUP) \/ DispatchDiff(HUP)
    \/ DispatchStatus \/ FinishWidgets \/ ReloadWeb
    \/ \E t \in Types: ScanWidget(t)

RequestStep(r) ==
    \/ ApplyLayoutOverride(r) \/ RefuseLayoutOverride(r) \/ StoreOverride(r)
    \/ ResetLayoutOverride(r) \/ RefuseReset(r)
    \/ DispatchRotation(r) \/ DispatchProvider(r) \/ DispatchDiff(r)

Next ==
    \/ \E y \in Yamls \cup {NONE}: EditConfig(y)
    \/ \E t \in Types, v \in Contents \cup {BROKEN, ABSENT}: EditPackage(t, v)
    \/ EditWeb \/ SendSighup \/ Restart
    \/ \E t \in Types: Render(t)
    \/ \E r \in Requests, o \in Overrides: PutLayoutEditor(r, o)
    \/ \E r \in Requests: DeleteLayoutEditor(r) \/ RequestStep(r)
    \/ HupStep

\* Goroutines run when they can; a mutex is handed on in order.
Fairness == SF_vars(HupStep) /\ \A r \in Requests: SF_vars(RequestStep(r))

Spec == Init /\ [][Next]_vars /\ Fairness

----------------------------------------------------------------------------
(* Properties *)

\* The fields have their types.
TypeOK ==
    /\ configFile \in Yamls \cup {NONE} /\ overrideFile \in Overrides \cup {NONE}
    /\ packages \in [Types -> Contents \cup {BROKEN, ABSENT}]
    /\ webChanged \in BOOLEAN /\ changes \in 0..MaxChanges
    /\ lock \in Requests \cup {NONE}
    /\ base \in Yamls /\ {current, rotation, provider} \subseteq Snapshots
    /\ configErr \in BOOLEAN /\ packageErrs \subseteq Types /\ incompletePkgs \subseteq Types
    /\ shell \in {y.shell: y \in Yamls} \cup {NONE} /\ shownStatus \in {"ok", "error"}
    /\ pkgHashes \in [Types -> Contents \cup {SHIPPED, NONE}]
    /\ templates \in [Types -> Contents \cup {SHIPPED, BROKEN, NONE}]
    /\ hupPending \in BOOLEAN /\ unhashed \subseteq Types
    /\ pc \in [Procs -> {"idle", "apply", "stored", "reset", "rotation", "provider",
                         "diff", "unread", "reload", "status", "scan", "web"}]

\* The last known good configuration: whatever sequence of rejected reloads,
\* layout edits and resets, the snapshot that runs was made from the text that
\* was last accepted, and is one the pipeline accepts but for packages.  An
\* override that is on the screen is also on disk, to survive a restart, unless
\* a reset removed the file and then failed (ResetLayoutOverride).
LastKnownGood ==
    /\ current.yaml = base /\ base.wellFormed
    /\ lock = NONE /\ current.override # NONE /\ ~resetFailed
         => overrideFile = current.override

\* Once nothing is being dispatched, the rotation and the provider coordinator
\* run the manager's snapshot, provided the last dispatch did not overlap with
\* another one: the manager's lock does not order dispatches.  Once the goroutine
\* that reloads is done, displays show the manager's status and their pages were
\* built for the shell that is configured, also when layout edits were
\* dispatched meanwhile.
ConsumersInStep ==
    /\ alone /\ (\A p \in Procs: ~Dispatching(p))
         => rotation = current /\ provider = current
    /\ pc[HUP] = "idle" =>
         /\ shownStatus = Status(configErr, packageErrs)
         /\ shell \in {NONE, current.yaml.shell}

\* A reload during which nothing changed on disk leaves no view compiled from
\* another content of a package and no stale package error. The reloader
\* compares a package with what it saw at its last scan, so it misses a view
\* compiled in between from a content that is gone by the next one: a package
\* changed and changed back, or one found elsewhere than in a configuration that
\* still runs because the new text was rejected.
AssetsFresh ==
    pc[HUP] = "idle" /\ ~unscanned =>
        /\ \A t \in Types: Complete(Found(t)) =>
             templates[t] \in {NONE, Found(t)} \/ t \in unhashed
        /\ packageErrs \subseteq {t \in Types: packages[t] = BROKEN}

\* A signal that was taken is dealt with, although the goroutine and the requests
\* take turns with the manager's lock.
ReloadCompletes == pc[HUP] # "idle" ~> pc[HUP] = "idle"
=============================================================================
