------------------------ MODULE ConfigManagerProofs -------------------------
(***************************************************************************)
(* Proofs about the configuration manager, the goroutine that reloads and  *)
(* the dispatch, for every set of texts, overrides, widget types and       *)
(* requests and every number of changes on disk.                           *)
(*                                                                         *)
(* The invariant comes in layers, each of them inductive given the ones    *)
(* before it: what a process carries at each of its steps; that the disk   *)
(* and the snapshot differ only while a request holds the lock; that a     *)
(* dispatch nobody overlapped carries the running snapshot; what is yet to *)
(* be shown while the goroutine is between two signals; and which contents *)
(* of a package a compiled view can come from.                             *)
(***************************************************************************)
EXTENDS ConfigManager, TLAPS

-----------------------------------------------------------------------------
(* The invariant.                                                          *)

RequestSteps == {"idle", "apply", "stored", "reset", "rotation", "provider", "diff"}
HupSteps == {"idle", "unread", "reload", "rotation", "provider", "diff", "status", "scan", "web"}

\* What a process carries depends on where it is.
Carries(p) ==
    /\ pc[p] = "apply" => held[p] \in Overrides
    /\ pc[p] = "stored" => held[p] \in Snapshots
    /\ Dispatching(p) => held[p].snap \in Snapshots
    /\ pc[p] = "reload" => held[p] \in Yamls
    /\ pc[p] = "scan" => held[p].todo \subseteq Types

Shape ==
    /\ TypeOK
    /\ pc[HUP] \in HupSteps
    /\ \A r \in Requests : pc[r] \in RequestSteps
    /\ held = [p \in Procs |-> held[p]]
    /\ \A p \in Procs : Carries(p)

\* Between the two parts of ApplyLayoutOverride the file is ahead of the running
\* snapshot: it belongs to the one the request carries, which has the lock.
GoodInv ==
    /\ LastKnownGood
    /\ \A r \in Requests : pc[r] = "stored" =>
         lock = r /\ held[r].yaml = base /\ overrideFile = held[r].override

\* A dispatch that overlaps with no other carries the running snapshot.
AloneInv ==
    alone =>
      /\ \A p, q \in Procs : Dispatching(p) /\ Dispatching(q) => p = q
      /\ \A p \in Procs : Dispatching(p) => held[p].snap = current
      /\ \A p \in Procs : pc[p] \in {"provider", "diff"} => rotation = current
      /\ \A p \in Procs : pc[p] = "diff" => provider = current
      /\ (\A p \in Procs : ~Dispatching(p)) => rotation = current /\ provider = current

\* What displays are still to be told, by where the goroutine is.
ShownInv ==
    /\ pc[HUP] \in {"idle", "web"} => shownStatus = Status(configErr, packageErrs)
    /\ pc[HUP] = "scan" => held[HUP].statusChanged \/ shownStatus = Status(configErr, packageErrs)
    /\ \/ Dispatching(HUP) /\ held[HUP].shellChanged
       \/ shell \in {NONE, current.yaml.shell}

\* The reloader knows a complete package as it is, and no error is out of date.
Fresh(t) ==
    /\ Complete(Found(t)) => pkgHashes[t] = Found(t)
    /\ t \in packageErrs => packages[t] = BROKEN

\* A view is of the content that the reloader saw at its last scan, unless it is
\* one the reloader never noticed.
AssetsInv ==
    /\ packageErrs \subseteq incompletePkgs
    /\ \A t \in Types :
         /\ templates[t] \in {NONE, pkgHashes[t]} \/ t \in unhashed
         /\ ~unscanned /\ (pc[HUP] \in {"idle", "web"} \/ (pc[HUP] = "scan" /\ t \notin held[HUP].todo))
              => Fresh(t)

Inv == Shape /\ GoodInv /\ AloneInv /\ ShownInv /\ AssetsInv

-----------------------------------------------------------------------------
(* What a step leaves alone.                                               *)

\* The goroutine is none of the requests.
LEMMA ProcsSplit ==
    ASSUME NEW p \in Procs
    PROVE  /\ p \in Requests => p # HUP
           /\ p \notin Requests => p = HUP
           /\ HUP \in Procs /\ Requests \subseteq Procs
  BY ConfigAssumption DEF Procs

\* One process moves to step l with value h, which is one for that step.
LEMMA ProcMoves ==
    ASSUME Shape, NEW p \in Procs, NEW l, NEW h,
           pc' = [pc EXCEPT ![p] = l], held' = [held EXCEPT ![p] = h],
           p = HUP => l \in HupSteps, p # HUP => l \in RequestSteps,
           l = "apply" => h \in Overrides, l = "stored" => h \in Snapshots,
           l \in {"rotation", "provider", "diff"} => h.snap \in Snapshots,
           l = "reload" => h \in Yamls,
           l = "scan" => h.todo \subseteq Types
    PROVE  /\ pc'[p] = l /\ held'[p] = h
           /\ \A q \in Procs : q # p => pc'[q] = pc[q] /\ held'[q] = held[q]
           /\ pc' \in [Procs -> RequestSteps \cup HupSteps]
           /\ pc'[HUP] \in HupSteps
           /\ \A r \in Requests : pc'[r] \in RequestSteps
           /\ held' = [q \in Procs |-> held'[q]]
           /\ \A q \in Procs : Carries(q)'
<1>1. pc'[p] = l /\ \A q \in Procs : q # p => pc'[q] = pc[q]
  BY DEF Shape, TypeOK
<1>2. held'[p] = h /\ (\A q \in Procs : q # p => held'[q] = held[q]) /\ held' = [q \in Procs |-> held'[q]]
  BY DEF Shape
<1>3. pc'[HUP] \in HupSteps /\ \A r \in Requests : pc'[r] \in RequestSteps
  BY <1>1, ProcsSplit DEF Shape
<1>4. \A q \in Procs : pc'[q] \in RequestSteps \cup HupSteps
  BY <1>3, ProcsSplit
<1>5. pc' \in [Procs -> RequestSteps \cup HupSteps]
  BY <1>4 DEF Shape, TypeOK
<1>6. \A q \in Procs : q # p => Carries(q)'
  BY <1>1, <1>2 DEF Shape, Carries, Dispatching
<1>7. Carries(p)'
  BY <1>1, <1>2 DEF Carries, Dispatching
<1> QED
  BY <1>1, <1>2, <1>3, <1>5, <1>6, <1>7

\* Between the other processes' steps nobody moves.
LEMMA NobodyMoves ==
    ASSUME Shape, UNCHANGED <<pc, held>>
    PROVE  /\ pc' \in [Procs -> RequestSteps \cup HupSteps]
           /\ pc'[HUP] \in HupSteps
           /\ \A r \in Requests : pc'[r] \in RequestSteps
           /\ held' = [q \in Procs |-> held'[q]]
           /\ \A q \in Procs : Carries(q)'
<1>1. \A q \in Procs : pc[q] \in RequestSteps \cup HupSteps
  BY ProcsSplit DEF Shape
<1>2. pc \in [Procs -> RequestSteps \cup HupSteps]
  BY <1>1 DEF Shape, TypeOK
<1> QED
  BY <1>2 DEF Shape, Carries, Dispatching

\* Disk and snapshot are not touched, nor is a request that has the lock.
LEMMA GoodFrame ==
    ASSUME GoodInv, UNCHANGED <<base, current, lock, overrideFile, resetFailed>>,
           \A r \in Requests : pc'[r] = "stored" => pc[r] = "stored" /\ held'[r] = held[r]
    PROVE  GoodInv'
  BY DEF GoodInv, LastKnownGood

\* What a validation makes of a text and an override that fits it.
LEMMA ValidatedSnapshot ==
    ASSUME Shape, NEW y \in Yamls, NEW o \in Overrides \cup {NONE}
    PROVE  /\ Validated(y, o) \in Snapshots
           /\ Validated(y, o).yaml = y /\ Validated(y, o).override = o
<1>1. {t \in y.types : packages[t] # ABSENT} \in SUBSET Types
  BY ConfigAssumption
<1> QED
  BY <1>1 DEF Validated, Snapshots

\* No dispatch begins, proceeds or ends.
LEMMA AloneFrame ==
    ASSUME AloneInv, UNCHANGED <<alone, current, rotation, provider>>,
           \A q \in Procs : \/ pc'[q] = pc[q] /\ held'[q] = held[q]
                            \/ ~Dispatching(q) /\ ~Dispatching(q)'
    PROVE  AloneInv'
<1>1. \A q \in Procs : /\ Dispatching(q)' <=> Dispatching(q)
                       /\ Dispatching(q) => pc'[q] = pc[q] /\ held'[q] = held[q]
  BY DEF Dispatching
<1>2. \A q \in Procs : pc'[q] \in {"provider", "diff"} => Dispatching(q)
  BY <1>1 DEF Dispatching
<1> QED
  BY <1>1, <1>2 DEF AloneInv

\* The goroutine does not move and nothing it shows changes.
LEMMA ShownFrame ==
    ASSUME ShownInv, pc'[HUP] = pc[HUP], held'[HUP] = held[HUP], current'.yaml = current.yaml,
           UNCHANGED <<configErr, packageErrs, shownStatus, shell>>
    PROVE  ShownInv'
  BY DEF ShownInv, Dispatching

\* Packages and views are not touched, and no scan begins, proceeds or ends.
LEMMA AssetsFrame ==
    ASSUME AssetsInv,
           UNCHANGED <<packageErrs, incompletePkgs, pkgHashes, packages, templates, unhashed>>,
           ~unscanned' /\ pc'[HUP] \in {"idle", "web"} => ~unscanned /\ pc[HUP] \in {"idle", "web"},
           ~unscanned' /\ pc'[HUP] = "scan" =>
               ~unscanned /\ pc[HUP] = "scan" /\ held'[HUP].todo = held[HUP].todo
    PROVE  AssetsInv'
  BY DEF AssetsInv, Fresh, Found

\* A snapshot is stored: the dispatch that begins carries it.
LEMMA StoredAlone ==
    ASSUME Shape, NEW p \in Procs, NEW s, StoreSnapshot(p, s),
           \A q \in Procs : q # p => pc'[q] = pc[q], pc'[p] = "rotation",
           held'[p].snap = s
    PROVE  AloneInv'
<1> SUFFICES ASSUME alone' PROVE AloneInv'
  BY DEF AloneInv
<1>1. \A q \in Procs : q # p => ~Dispatching(q)
  BY DEF StoreSnapshot
<1>2. \A q \in Procs : q # p => ~Dispatching(q)'
  BY <1>1 DEF Dispatching
<1>3. current' = s /\ Dispatching(p)'
  BY DEF StoreSnapshot, Dispatching
<1>4. \A q \in Procs : pc'[q] \notin {"provider", "diff"}
  BY <1>2 DEF Dispatching
<1> QED
  BY <1>2, <1>3, <1>4 DEF AloneInv

-----------------------------------------------------------------------------
(* The operator, and render.Engine.                                        *)

\* A change on disk, which the reloader has yet to see.
LEMMA OperatorInv ==
    ASSUME Inv,
           \/ \E y \in Yamls \cup {NONE} : EditConfig(y)
           \/ \E t \in Types, v \in Contents \cup {BROKEN, ABSENT} : EditPackage(t, v)
           \/ EditWeb
    PROVE  Inv'
<1>0. Shape /\ TypeOK /\ GoodInv /\ AloneInv /\ ShownInv /\ AssetsInv
  BY DEF Inv, Shape
<1>1. /\ changes < MaxChanges /\ changes' = changes + 1 /\ unscanned'
      /\ UNCHANGED <<overrideFile, lock, manager, consumers, reloader, hupPending, pc, held,
                     alone, resetFailed, unhashed>>
  BY DEF EditConfig, EditPackage, EditWeb, Change
<1>2. changes' \in 0..MaxChanges
  BY <1>0, <1>1, ConfigAssumption DEF TypeOK
<1>3. /\ configFile' \in Yamls \cup {NONE}
      /\ packages' \in [Types -> Contents \cup {BROKEN, ABSENT}]
  BY <1>0, <1>1 DEF EditConfig, EditPackage, EditWeb, TypeOK
<1>4. webChanged' \in BOOLEAN
  BY <1>0 DEF EditConfig, EditPackage, EditWeb, TypeOK
<1>6. TypeOK'
  BY <1>0, <1>1, <1>2, <1>3, <1>4 DEF TypeOK, manager, consumers, reloader
<1>7. Shape'
  BY <1>0, <1>1, <1>6, NobodyMoves DEF Shape
<1>8. GoodInv'
  BY <1>0, <1>1, GoodFrame DEF manager
<1>9. AloneInv'
  BY <1>0, <1>1, AloneFrame DEF manager, consumers
<1>10. ShownInv'
  BY <1>0, <1>1, ShownFrame DEF manager, consumers
<1>11. AssetsInv'
  BY <1>0, <1>1 DEF AssetsInv, manager, reloader
<1> QED
  BY <1>7, <1>8, <1>9, <1>10, <1>11 DEF Inv

\* A signal is queued.
LEMMA SendSighupInv ==
    ASSUME Inv, SendSighup
    PROVE  Inv'
<1>0. Shape /\ TypeOK /\ GoodInv /\ AloneInv /\ ShownInv /\ AssetsInv
  BY DEF Inv, Shape
<1>1. UNCHANGED <<disk, lock, manager, consumers, reloader, pc, held, history>>
  BY DEF SendSighup
<1>2. hupPending' \in BOOLEAN
  BY Zenon DEF SendSighup
<1>3. TypeOK'
  BY <1>0, <1>1, <1>2 DEF TypeOK, disk, manager, consumers, reloader, history
<1>4. Shape'
  BY <1>0, <1>1, <1>3, NobodyMoves DEF Shape
<1>5. GoodInv'
  BY <1>0, <1>1, GoodFrame DEF disk, manager, history
<1>6. AloneInv'
  BY <1>0, <1>1, AloneFrame DEF manager, consumers, history
<1>7. ShownInv'
  BY <1>0, <1>1, ShownFrame DEF manager, consumers
<1>8. AssetsInv'
  BY <1>0, <1>1, AssetsFrame DEF disk, manager, reloader, history
<1> QED
  BY <1>4, <1>5, <1>6, <1>7, <1>8 DEF Inv

\* A view is compiled from what is on disk: if that is not what the reloader saw,
\* it goes unnoticed.
LEMMA RenderInv ==
    ASSUME Inv, NEW t \in Types, Render(t)
    PROVE  Inv'
<1>0. Shape /\ TypeOK /\ GoodInv /\ AloneInv /\ ShownInv /\ AssetsInv
  BY DEF Inv, Shape
<1>1. /\ templates' = [templates EXCEPT ![t] = ViewPath(t)] /\ ViewPath(t) # ABSENT
      /\ unhashed' = IF ViewPath(t) = pkgHashes[t] THEN unhashed \ {t} ELSE unhashed \cup {t}
      /\ UNCHANGED <<disk, lock, manager, consumers, pkgHashes, incompletePkgs, hupPending, pc, held,
                     alone, resetFailed, unscanned>>
  BY DEF Render
<1>2. /\ templates' \in [Types -> Contents \cup {SHIPPED, BROKEN, NONE}]
      /\ \A u \in Types : templates'[u] = IF u = t THEN ViewPath(t) ELSE templates[u]
  BY <1>0, <1>1 DEF TypeOK, ViewPath
<1>9. /\ unhashed' \subseteq Types
      /\ t \in unhashed' \/ templates'[t] = pkgHashes[t]
      /\ \A u \in Types : u # t => (u \in unhashed' <=> u \in unhashed)
  BY <1>0, <1>1, <1>2 DEF TypeOK
<1>3. TypeOK'
  BY <1>0, <1>1, <1>2, <1>9 DEF TypeOK, disk, manager, consumers
<1>4. Shape'
  BY <1>0, <1>1, <1>3, NobodyMoves DEF Shape
<1>5. GoodInv'
  BY <1>0, <1>1, GoodFrame DEF disk, manager
<1>6. AloneInv'
  BY <1>0, <1>1, AloneFrame DEF manager, consumers
<1>7. ShownInv'
  BY <1>0, <1>1, ShownFrame DEF manager, consumers
<1>8. AssetsInv'
  BY <1>0, <1>1, <1>2, <1>9 DEF AssetsInv, Fresh, Found, disk, manager
<1> QED
  BY <1>4, <1>5, <1>6, <1>7, <1>8 DEF Inv

-----------------------------------------------------------------------------
(* Dispatch.                                                               *)

\* One step of a dispatch.
LEMMA DispatchInv ==
    ASSUME Inv, NEW p \in Procs, DispatchRotation(p) \/ DispatchProvider(p) \/ DispatchDiff(p)
    PROVE  Inv'
<1> DEFINE l == IF pc[p] = "rotation" THEN "provider" ELSE IF pc[p] = "provider" THEN "diff"
                ELSE IF p = HUP THEN "status" ELSE "idle"
           h == IF pc[p] = "diff" THEN NONE ELSE held[p]
<1>0. Shape /\ TypeOK /\ GoodInv /\ AloneInv /\ ShownInv /\ AssetsInv
  BY DEF Inv, Shape
<1>1. /\ pc[p] \in {"rotation", "provider", "diff"}
      /\ pc' = [pc EXCEPT ![p] = l] /\ held' = [held EXCEPT ![p] = h]
      /\ rotation' = IF pc[p] = "rotation" THEN held[p].snap ELSE rotation
      /\ provider' = IF pc[p] = "provider" THEN held[p].snap ELSE provider
      /\ shell' = IF pc[p] = "diff" /\ held[p].shellChanged THEN current.yaml.shell ELSE shell
      /\ UNCHANGED <<disk, lock, manager, shownStatus, reloader, hupPending, history>>
  <2>1. held = [held EXCEPT ![p] = held[p]]
    BY <1>0 DEF Shape
  <2> QED
    BY <2>1 DEF DispatchRotation, DispatchProvider, DispatchDiff, Goto
<1>2. held[p].snap \in Snapshots
  BY <1>0, <1>1 DEF Shape, Carries, Dispatching
<1>3. /\ p = HUP => l \in HupSteps
      /\ p # HUP => l \in RequestSteps
      /\ l \notin {"apply", "stored", "reload", "scan", "rotation", "web"}
      /\ l \in {"provider", "diff"} => h.snap \in Snapshots
      /\ p = HUP => l # "idle"
      /\ pc[p] = "rotation" => l = "provider" /\ h = held[p]
      /\ pc[p] = "provider" => l = "diff" /\ h = held[p]
      /\ pc[p] = "diff" => l \in {"status", "idle"}
  BY <1>1, <1>2 DEF HupSteps, RequestSteps
<1> HIDE DEF l, h
<1>4. /\ pc'[p] = l /\ held'[p] = h
      /\ \A q \in Procs : q # p => pc'[q] = pc[q] /\ held'[q] = held[q]
      /\ pc' \in [Procs -> RequestSteps \cup HupSteps]
      /\ pc'[HUP] \in HupSteps
      /\ \A r \in Requests : pc'[r] \in RequestSteps
      /\ held' = [q \in Procs |-> held'[q]]
      /\ \A q \in Procs : Carries(q)'
  BY <1>0, <1>1, <1>3, ProcMoves
<1>5. shell' \in {y.shell : y \in Yamls} \cup {NONE}
  BY <1>0, <1>1 DEF TypeOK, Snapshots
<1>6. TypeOK'
  BY <1>0, <1>1, <1>2, <1>4, <1>5 DEF TypeOK, disk, manager, reloader, RequestSteps, HupSteps, history
<1>7. Shape'
  BY <1>4, <1>6 DEF Shape
<1>8. GoodInv'
  <2>1. \A r \in Requests : pc'[r] = "stored" => pc[r] = "stored" /\ held'[r] = held[r]
    BY <1>3, <1>4, ProcsSplit DEF Procs
  <2> QED
    BY <1>0, <1>1, <2>1, GoodFrame DEF disk, manager, history
<1>9. AloneInv'
  <2> SUFFICES ASSUME alone' PROVE AloneInv'
    BY DEF AloneInv
  <2>1. alone /\ current' = current
    BY <1>1 DEF history, manager
  <2>2. /\ \A q \in Procs : Dispatching(q) => q = p
        /\ held[p].snap = current
        /\ pc[p] \in {"provider", "diff"} => rotation = current
        /\ pc[p] = "diff" => provider = current
    BY <1>0, <1>1, <2>1 DEF AloneInv, Dispatching
  <2>3. \A q \in Procs : q # p => ~Dispatching(q)'
    BY <1>4, <2>2 DEF Dispatching
  <2>4. rotation' = current /\ (pc'[p] # "provider" => provider' = current)
    BY <1>1, <1>3, <1>4, <2>2
  <2>5. Dispatching(p)' => held'[p].snap = current
    BY <1>1, <1>3, <1>4, <2>2 DEF Dispatching
  <2>6. \A q \in Procs : pc'[q] \in {"provider", "diff"} => q = p
    BY <2>3 DEF Dispatching
  <2>7. ~Dispatching(p)' => pc'[p] # "provider"
    BY DEF Dispatching
  <2> QED
    BY <2>1, <2>3, <2>4, <2>5, <2>6, <2>7 DEF AloneInv
<1>10. ShownInv'
  <2>1. pc'[HUP] \in {"idle", "web", "scan"} => pc'[HUP] = pc[HUP] /\ held'[HUP] = held[HUP]
    BY <1>3, <1>4, ProcsSplit
  <2>2. \/ Dispatching(HUP)' /\ held'[HUP].shellChanged
        \/ shell' \in {NONE, current.yaml.shell}
    <3>1. CASE shell' \in {NONE, current.yaml.shell}
      BY <3>1
    <3>2. CASE shell' \notin {NONE, current.yaml.shell}
      <4>1. shell' = shell /\ Dispatching(HUP) /\ held[HUP].shellChanged
        BY <1>0, <1>1, <3>2 DEF ShownInv
      <4>2. p = HUP => pc[p] # "diff"
        BY <1>1, <3>2, <4>1
      <4>3. Dispatching(HUP)' /\ held'[HUP] = held[HUP]
        BY <1>1, <1>3, <1>4, <4>1, <4>2, ProcsSplit DEF Dispatching
      <4> QED
        BY <4>1, <4>3
    <3> QED
      BY <3>1, <3>2
  <2> QED
    BY <1>0, <1>1, <2>1, <2>2 DEF ShownInv, manager
<1>11. AssetsInv'
  <2>1. pc'[HUP] \in {"idle", "web", "scan"} => pc'[HUP] = pc[HUP] /\ held'[HUP] = held[HUP]
    BY <1>3, <1>4, ProcsSplit
  <2> QED
    BY <1>0, <1>1, <2>1, AssetsFrame DEF disk, manager, reloader, history
<1> QED
  BY <1>7, <1>8, <1>9, <1>10, <1>11 DEF Inv

-----------------------------------------------------------------------------
(* Requests of the layout editor.                                          *)

\* A request begins, is refused, or has written its override.
LEMMA RequestInv ==
    ASSUME Inv, NEW r \in Requests,
           \/ \E o \in Overrides : PutLayoutEditor(r, o)
           \/ DeleteLayoutEditor(r) \/ ApplyLayoutOverride(r)
           \/ RefuseLayoutOverride(r) \/ RefuseReset(r)
    PROVE  Inv'
<1>0. Shape /\ TypeOK /\ GoodInv /\ AloneInv /\ ShownInv /\ AssetsInv
  BY DEF Inv, Shape
<1>1. r \in Procs /\ r # HUP /\ HUP \in Procs /\ r # NONE /\ held = [held EXCEPT ![r] = held[r]]
  BY <1>0, ConfigAssumption DEF Procs, Shape
<1>2. PICK l \in {"idle", "apply", "reset", "stored"}, h \in Overrides \cup Snapshots \cup {NONE, held[r]} :
        /\ pc[r] \in {"idle", "apply", "reset"}
        /\ pc' = [pc EXCEPT ![r] = l] /\ held' = [held EXCEPT ![r] = h]
        /\ l = "apply" => h \in Overrides
        /\ \/ l # "stored" /\ UNCHANGED <<overrideFile, lock>>
           \/ /\ l = "stored" /\ lock = NONE /\ lock' = r /\ overrideFile' = h.override
              /\ h \in Snapshots /\ h.yaml = base /\ h.override \in Overrides
        /\ UNCHANGED <<configFile, packages, webChanged, changes, manager, consumers, reloader,
                       hupPending, history>>
  <2>1. CASE \E o \in Overrides : PutLayoutEditor(r, o)
    BY <2>1 DEF PutLayoutEditor, Goto, disk
  <2>2. CASE DeleteLayoutEditor(r)
    BY <1>1, <2>2 DEF DeleteLayoutEditor, Goto, disk
  <2>3. CASE ApplyLayoutOverride(r)
    <3>1. held[r] \in Overrides
      BY <1>0, <1>1, <2>3 DEF ApplyLayoutOverride, Shape, Carries
    <3>2. Validated(base, held[r]) \in Snapshots
      BY <1>0, <3>1, ValidatedSnapshot DEF TypeOK
    <3>3. PICK h \in Snapshots : h = Validated(base, held[r])
      BY <3>2
    <3>4. h \in Snapshots /\ h.yaml = base /\ h.override = held[r]
      BY <1>0, <3>1, <3>3, ValidatedSnapshot DEF TypeOK
    <3>5. /\ pc[r] = "apply" /\ lock = NONE /\ lock' = r /\ overrideFile' = held[r]
          /\ pc' = [pc EXCEPT ![r] = "stored"] /\ held' = [held EXCEPT ![r] = h]
          /\ UNCHANGED <<configFile, packages, webChanged, changes, manager, consumers, reloader,
                         hupPending, history>>
      BY <2>3, <3>3 DEF ApplyLayoutOverride, Goto
    <3> QED
      BY <3>1, <3>4, <3>5
  <2>4. CASE RefuseLayoutOverride(r) \/ RefuseReset(r)
    BY <2>4 DEF RefuseLayoutOverride, RefuseReset, Refused, Goto, disk
  <2> QED
    BY <2>1, <2>2, <2>3, <2>4
<1>3. l \in RequestSteps /\ l \notin {"rotation", "provider", "diff", "reload", "scan"}
  BY DEF RequestSteps
<1>4. /\ pc'[r] = l /\ held'[r] = h
      /\ \A q \in Procs : q # r => pc'[q] = pc[q] /\ held'[q] = held[q]
      /\ pc' \in [Procs -> RequestSteps \cup HupSteps]
      /\ pc'[HUP] \in HupSteps
      /\ \A q \in Requests : pc'[q] \in RequestSteps
      /\ held' = [q \in Procs |-> held'[q]]
      /\ \A q \in Procs : Carries(q)'
  BY <1>0, <1>1, <1>2, <1>3, ProcMoves
<1>5. TypeOK'
  BY <1>0, <1>2, <1>4 DEF TypeOK, manager, consumers, reloader, RequestSteps, HupSteps, history
<1>6. Shape'
  BY <1>4, <1>5 DEF Shape
<1>7. GoodInv'
  <2>1. CASE l # "stored"
    <3>1. \A q \in Requests : pc'[q] = "stored" => pc[q] = "stored" /\ held'[q] = held[q]
      BY <1>4, <2>1 DEF Procs
    <3> QED
      BY <1>0, <1>2, <2>1, <3>1, GoodFrame DEF manager, history
  <2>2. CASE l = "stored"
    <3>1. lock = NONE /\ lock' = r /\ overrideFile' = held'[r].override /\ held'[r].yaml = base
      BY <1>2, <1>4, <2>2
    <3>2. \A q \in Requests : q # r => pc'[q] # "stored"
      BY <1>0, <1>4, <3>1, ConfigAssumption DEF GoodInv, Procs
    <3> QED
      BY <1>0, <1>1, <1>2, <3>1, <3>2 DEF GoodInv, LastKnownGood, manager, history
  <2> QED
    BY <2>1, <2>2
<1>8. AloneInv'
  <2>1. ~Dispatching(r) /\ ~Dispatching(r)'
    BY <1>2, <1>4 DEF Dispatching
  <2> QED
    BY <1>0, <1>2, <1>4, <2>1, AloneFrame DEF manager, consumers, history
<1>9. ShownInv'
  BY <1>0, <1>1, <1>2, <1>4, ShownFrame DEF manager, consumers
<1>10. AssetsInv'
  BY <1>0, <1>1, <1>2, <1>4, AssetsFrame DEF manager, reloader, history
<1> QED
  BY <1>6, <1>7, <1>8, <1>9, <1>10 DEF Inv

\* A request stores a snapshot: with the override that it wrote, or without one
\* once it has removed the file.
LEMMA RequestStoresInv ==
    ASSUME Inv, NEW r \in Requests, NEW s \in Snapshots, s.yaml = base, pc[r] \in {"stored", "reset"},
           lock \in {NONE, r}, overrideFile' = s.override, lock' = NONE, StoreSnapshot(r, s),
           UNCHANGED <<configFile, packages, webChanged, changes, base, configErr, packageErrs, consumers,
                       reloader, hupPending, unscanned, unhashed>>
    PROVE  Inv'
<1> DEFINE h == [snap |-> s, shellChanged |-> s.yaml.shell # current.yaml.shell]
<1>0. Shape /\ TypeOK /\ GoodInv /\ AloneInv /\ ShownInv /\ AssetsInv
  BY DEF Inv, Shape
<1>1. r \in Procs /\ r # HUP /\ HUP \in Procs /\ r # NONE
  BY ConfigAssumption DEF Procs
<1>2. s.override \in Overrides \cup {NONE}
  BY DEF Snapshots
<1>3. h.snap = s
  OBVIOUS
<1>4. current' = s /\ pc' = [pc EXCEPT ![r] = "rotation"] /\ held' = [held EXCEPT ![r] = h]
  BY DEF StoreSnapshot, Goto
<1>5. StoreSnapshot(r, s)
  OBVIOUS
<1> HIDE DEF h
<1>6. /\ pc'[r] = "rotation" /\ held'[r] = h
      /\ \A q \in Procs : q # r => pc'[q] = pc[q] /\ held'[q] = held[q]
      /\ pc' \in [Procs -> RequestSteps \cup HupSteps]
      /\ pc'[HUP] \in HupSteps
      /\ \A q \in Requests : pc'[q] \in RequestSteps
      /\ held' = [q \in Procs |-> held'[q]]
      /\ \A q \in Procs : Carries(q)'
  <2>1. "rotation" \in RequestSteps
    BY DEF RequestSteps
  <2> QED
    BY <1>0, <1>1, <1>2, <1>3, <1>4, <2>1, ProcMoves
<1>7. TypeOK'
  BY <1>0, <1>2, <1>4, <1>6 DEF TypeOK, consumers, reloader, RequestSteps, HupSteps
<1>8. Shape'
  BY <1>6, <1>7 DEF Shape
<1>9. GoodInv'
  <2>1. \A q \in Requests : pc'[q] # "stored"
    BY <1>0, <1>1, <1>6, ConfigAssumption DEF GoodInv, Procs
  <2> QED
    BY <1>0, <1>2, <1>4, <2>1 DEF GoodInv, LastKnownGood
<1>10. AloneInv'
  BY <1>0, <1>1, <1>3, <1>5, <1>6, StoredAlone
<1>11. ShownInv'
  <2>1. current'.yaml = current.yaml
    BY <1>0, <1>2, <1>4 DEF GoodInv, LastKnownGood
  <2> QED
    BY <1>0, <1>1, <1>6, <2>1, ShownFrame DEF consumers
<1>12. AssetsInv'
  BY <1>0, <1>1, <1>6, AssetsFrame DEF reloader
<1> QED
  BY <1>8, <1>9, <1>10, <1>11, <1>12 DEF Inv

\* The second part of ApplyLayoutOverride.
LEMMA StoreOverrideInv ==
    ASSUME Inv, NEW r \in Requests, StoreOverride(r)
    PROVE  Inv'
<1>1. pc[r] = "stored" /\ lock = r /\ overrideFile = held[r].override
  BY DEF StoreOverride, Inv, GoodInv
<1>2. held[r] \in Snapshots /\ held[r].yaml = base
  BY <1>1 DEF Inv, Shape, Carries, Procs, GoodInv
<1>3. /\ overrideFile' = held[r].override /\ lock' = NONE
      /\ UNCHANGED <<configFile, packages, webChanged, changes, base, configErr, packageErrs, consumers,
                     reloader, hupPending, unscanned, unhashed>>
      /\ StoreSnapshot(r, held[r])
  BY <1>1 DEF StoreOverride, disk
<1> QED
  BY <1>1, <1>2, <1>3, RequestStoresInv

\* ResetLayoutOverride, with and without a base configuration that is valid.
LEMMA ResetInv ==
    ASSUME Inv, NEW r \in Requests, ResetLayoutOverride(r)
    PROVE  Inv'
<1>0. Shape /\ TypeOK /\ GoodInv /\ AloneInv /\ ShownInv /\ AssetsInv
  BY DEF Inv, Shape
<1>1. /\ pc[r] = "reset" /\ lock = NONE /\ overrideFile' = NONE
      /\ UNCHANGED <<configFile, packages, webChanged, changes, lock, base, configErr,
                     packageErrs, consumers, reloader, hupPending, unscanned, unhashed>>
  BY DEF ResetLayoutOverride
<1>2. CASE ValidatePipeline(base)
  <2>1. StoreSnapshot(r, Validated(base, NONE))
    BY <1>2 DEF ResetLayoutOverride
  <2>2. lock' = NONE
    BY <1>1
  <2>3. /\ Validated(base, NONE) \in Snapshots /\ Validated(base, NONE).yaml = base
        /\ Validated(base, NONE).override = NONE
    BY <1>0, ValidatedSnapshot DEF TypeOK
  <2> QED
    BY <1>1, <2>1, <2>2, <2>3, RequestStoresInv
<1>3. CASE ~ValidatePipeline(base)
  <2>1. pc' = [pc EXCEPT ![r] = "idle"] /\ resetFailed' /\ UNCHANGED <<current, held, alone>>
    BY <1>3 DEF ResetLayoutOverride, Goto
  <2>2. r \in Procs /\ r # HUP /\ HUP \in Procs /\ held' = [held EXCEPT ![r] = held[r]]
    BY <1>0, <2>1, ConfigAssumption DEF Procs, Shape
  <2>3. /\ pc'[r] = "idle"
        /\ \A q \in Procs : q # r => pc'[q] = pc[q] /\ held'[q] = held[q]
        /\ pc' \in [Procs -> RequestSteps \cup HupSteps]
        /\ pc'[HUP] \in HupSteps
        /\ \A q \in Requests : pc'[q] \in RequestSteps
        /\ held' = [q \in Procs |-> held'[q]]
        /\ \A q \in Procs : Carries(q)'
    <3>1. "idle" \in RequestSteps
      BY DEF RequestSteps
    <3> QED
      BY <1>0, <2>1, <2>2, <3>1, ProcMoves
  <2>4. TypeOK'
    BY <1>0, <1>1, <2>1, <2>3 DEF TypeOK, consumers, reloader, RequestSteps, HupSteps
  <2>5. Shape'
    BY <2>3, <2>4 DEF Shape
  <2>6. GoodInv'
    <3>1. \A q \in Requests : pc'[q] # "stored"
      BY <1>0, <1>1, <2>3, ConfigAssumption DEF GoodInv, Procs
    <3> QED
      BY <1>0, <1>1, <2>1, <3>1 DEF GoodInv, LastKnownGood
  <2>7. AloneInv'
    <3>1. ~Dispatching(r) /\ ~Dispatching(r)'
      BY <1>1, <2>3 DEF Dispatching
    <3> QED
      BY <1>0, <1>1, <2>1, <2>3, <3>1, AloneFrame DEF consumers
  <2>8. ShownInv'
    BY <1>0, <1>1, <2>1, <2>2, <2>3, ShownFrame DEF consumers
  <2>9. AssetsInv'
    BY <1>0, <1>1, <2>2, <2>3, AssetsFrame DEF reloader
  <2> QED
    BY <2>5, <2>6, <2>7, <2>8, <2>9 DEF Inv
<1> QED
  BY <1>2, <1>3

-----------------------------------------------------------------------------
(* handleSIGHUP.                                                           *)

\* The goroutine moves on to a step at which no dispatch is under way; of the
\* manager only its errors change.
LEMMA HupMoves ==
    ASSUME Inv, NEW l \in HupSteps \ {"rotation", "provider", "diff"}, NEW h,
           pc' = [pc EXCEPT ![HUP] = l], held' = [held EXCEPT ![HUP] = h],
           l = "reload" => h \in Yamls, l = "scan" => h.todo \subseteq Types, ~Dispatching(HUP),
           UNCHANGED <<base, current, lock, overrideFile, resetFailed, alone, rotation, provider>>
    PROVE  /\ TypeOK' => Shape'
           /\ pc' \in [Procs -> RequestSteps \cup HupSteps]
           /\ pc'[HUP] = l /\ held'[HUP] = h
           /\ GoodInv' /\ AloneInv'
<1>0. Shape /\ GoodInv /\ AloneInv /\ HUP \in Procs
  BY DEF Inv, Procs
<1>1. l \notin {"apply", "stored", "rotation", "provider", "diff"}
  BY DEF HupSteps
<1>2. /\ pc'[HUP] = l /\ held'[HUP] = h
      /\ \A q \in Procs : q # HUP => pc'[q] = pc[q] /\ held'[q] = held[q]
      /\ pc' \in [Procs -> RequestSteps \cup HupSteps]
      /\ pc'[HUP] \in HupSteps
      /\ \A r \in Requests : pc'[r] \in RequestSteps
      /\ held' = [q \in Procs |-> held'[q]]
      /\ \A q \in Procs : Carries(q)'
  BY <1>0, <1>1, ProcMoves
<1>3. \A r \in Requests : pc'[r] = pc[r] /\ held'[r] = held[r]
  BY <1>2, ConfigAssumption DEF Procs
<1>4. GoodInv'
  BY <1>0, <1>3, GoodFrame
<1>5. ~Dispatching(HUP)'
  BY <1>1, <1>2 DEF Dispatching
<1>6. AloneInv'
  BY <1>0, <1>2, <1>5, AloneFrame
<1> QED
  BY <1>2, <1>4, <1>6 DEF Shape

\* A signal is taken and the file read.
LEMMA ReceiveSighupInv ==
    ASSUME Inv, ReceiveSighup
    PROVE  Inv'
<1> DEFINE l == IF configFile = NONE THEN "unread" ELSE "reload"
<1>0. Shape /\ TypeOK /\ ShownInv /\ AssetsInv
  BY DEF Inv, Shape
<1>1. /\ pc[HUP] = "idle" /\ pc' = [pc EXCEPT ![HUP] = l] /\ held' = [held EXCEPT ![HUP] = configFile]
      /\ UNCHANGED <<disk, lock, manager, consumers, reloader, alone, resetFailed, unhashed>>
  BY DEF ReceiveSighup, Goto
<1>2. hupPending' \in BOOLEAN
  BY Zenon DEF ReceiveSighup
<1>3. l \in HupSteps \ {"rotation", "provider", "diff", "idle", "web", "scan"}
      /\ (l = "reload" => configFile \in Yamls) /\ ~Dispatching(HUP)
  BY <1>0, <1>1 DEF HupSteps, TypeOK, Dispatching
<1> HIDE DEF l
<1>4. /\ TypeOK' => Shape'
      /\ pc' \in [Procs -> RequestSteps \cup HupSteps]
      /\ pc'[HUP] = l
      /\ GoodInv' /\ AloneInv'
  <2>1. UNCHANGED <<base, current, lock, overrideFile, resetFailed, alone, rotation, provider>>
    BY <1>1 DEF disk, manager, consumers
  <2> QED
    BY <1>1, <1>3, <2>1, HupMoves
<1>5. TypeOK'
  BY <1>0, <1>1, <1>2, <1>4 DEF TypeOK, disk, manager, consumers, reloader, RequestSteps, HupSteps
<1>6. ShownInv'
  BY <1>0, <1>1, <1>3, <1>4 DEF ShownInv, manager, consumers
<1>7. AssetsInv'
  BY <1>0, <1>1, <1>3, <1>4, AssetsFrame DEF disk, manager, reloader
<1> QED
  BY <1>4, <1>5, <1>6, <1>7 DEF Inv

\* A file that could not be read, or a text that is rejected.
LEMMA RejectedInv ==
    ASSUME Inv, SetErrorStatus \/ ReloadRejected
    PROVE  Inv'
<1>0. Shape /\ TypeOK /\ ShownInv /\ AssetsInv /\ held = [held EXCEPT ![HUP] = held[HUP]]
  BY DEF Inv, Shape
<1>1. PICK h : /\ pc[HUP] \in {"unread", "reload"} /\ pc' = [pc EXCEPT ![HUP] = "status"]
               /\ held' = [held EXCEPT ![HUP] = h]
               /\ UNCHANGED <<disk, lock, base, current, packageErrs, consumers, reloader, hupPending, history>>
  BY <1>0 DEF SetErrorStatus, ReloadRejected, Goto
<1>2. configErr' \in BOOLEAN
  BY Zenon DEF SetErrorStatus, ReloadRejected
<1>3. "status" \in HupSteps \ {"rotation", "provider", "diff"} /\ ~Dispatching(HUP)
  BY <1>1 DEF HupSteps, Dispatching
<1>4. /\ TypeOK' => Shape'
      /\ pc' \in [Procs -> RequestSteps \cup HupSteps]
      /\ pc'[HUP] = "status"
      /\ GoodInv' /\ AloneInv'
  <2>1. UNCHANGED <<base, current, lock, overrideFile, resetFailed, alone, rotation, provider>>
    BY <1>1 DEF disk, consumers, history
  <2> QED
    BY <1>1, <1>3, <2>1, HupMoves
<1>5. TypeOK'
  BY <1>0, <1>1, <1>2, <1>4 DEF TypeOK, disk, consumers, reloader, RequestSteps, HupSteps, history
<1>6. ShownInv'
  BY <1>0, <1>1, <1>3, <1>4 DEF ShownInv, consumers
<1>7. AssetsInv'
  BY <1>0, <1>1, <1>4, AssetsFrame DEF disk, reloader, history
<1> QED
  BY <1>4, <1>5, <1>6, <1>7 DEF Inv

\* A text is accepted.
LEMMA ReloadInv ==
    ASSUME Inv, Reload
    PROVE  Inv'
<1> DEFINE y == held[HUP]
           s == ApplyDiskOverride(y, overrideFile)
           h == [snap |-> s, shellChanged |-> s.yaml.shell # current.yaml.shell]
<1>0. Shape /\ TypeOK /\ GoodInv /\ AloneInv /\ ShownInv /\ AssetsInv /\ HUP \in Procs
  BY DEF Inv, Shape, Procs
<1>1. /\ pc[HUP] = "reload" /\ lock = NONE /\ ValidatePipeline(y)
      /\ base' = y /\ packageErrs' = {} /\ StoreSnapshot(HUP, s)
      /\ UNCHANGED <<disk, lock, consumers, reloader, hupPending, unscanned, unhashed>>
  BY DEF Reload
<1>2. configErr' \in BOOLEAN
  BY Zenon DEF Reload
<1>3. y \in Yamls /\ y.wellFormed
  BY <1>0, <1>1 DEF Shape, Carries, ValidatePipeline
<1>4. s \in Snapshots /\ s.yaml = y /\ s.override \in {NONE, overrideFile}
  BY <1>0, <1>3, ValidatedSnapshot DEF ApplyDiskOverride, TypeOK
<1>5. h.snap = s /\ (s.yaml.shell # current.yaml.shell => h.shellChanged)
  OBVIOUS
<1>6. current' = s /\ pc' = [pc EXCEPT ![HUP] = "rotation"] /\ held' = [held EXCEPT ![HUP] = h]
  BY <1>1 DEF StoreSnapshot, Goto
<1> HIDE DEF y, s, h
<1>7. /\ pc'[HUP] = "rotation" /\ held'[HUP] = h
      /\ \A q \in Procs : q # HUP => pc'[q] = pc[q] /\ held'[q] = held[q]
      /\ pc' \in [Procs -> RequestSteps \cup HupSteps]
      /\ pc'[HUP] \in HupSteps
      /\ \A q \in Requests : pc'[q] \in RequestSteps
      /\ held' = [q \in Procs |-> held'[q]]
      /\ \A q \in Procs : Carries(q)'
  <2>1. "rotation" \in HupSteps
    BY DEF HupSteps
  <2> QED
    BY <1>0, <1>4, <1>5, <1>6, <2>1, ProcMoves
<1>8. TypeOK'
  BY <1>0, <1>1, <1>2, <1>3, <1>4, <1>6, <1>7 DEF TypeOK, disk, consumers, reloader, RequestSteps, HupSteps
<1>9. Shape'
  BY <1>7, <1>8 DEF Shape
<1>10. GoodInv'
  <2>1. \A q \in Requests : pc'[q] # "stored"
    BY <1>0, <1>1, <1>7, ConfigAssumption DEF GoodInv, Procs
  <2> QED
    BY <1>1, <1>3, <1>4, <1>6, <2>1 DEF GoodInv, LastKnownGood, disk
<1>11. AloneInv'
  BY <1>0, <1>1, <1>5, <1>7, StoredAlone
<1>12. ShownInv'
  <2>1. shell \in {NONE, current.yaml.shell}
    BY <1>0, <1>1 DEF ShownInv, Dispatching
  <2> QED
    BY <1>1, <1>5, <1>6, <1>7, <2>1 DEF ShownInv, Dispatching, consumers
<1>13. AssetsInv'
  BY <1>0, <1>1, <1>7 DEF AssetsInv, disk, reloader
<1> QED
  BY <1>9, <1>10, <1>11, <1>12, <1>13 DEF Inv

\* The status is shown and the list of types to scan drawn up: a type that is
\* not on it has nothing on disk and is known for no error.
LEMMA DispatchStatusInv ==
    ASSUME Inv, DispatchStatus
    PROVE  Inv'
<1> DEFINE todo == {t \in Types: \/ Found(t) # ABSENT \/ pkgHashes[t] # NONE \/ t \in incompletePkgs}
           h == [todo |-> todo, statusChanged |-> FALSE]
<1>0. Shape /\ TypeOK /\ ShownInv /\ AssetsInv
  BY DEF Inv, Shape
<1>1. /\ pc[HUP] = "status" /\ pc' = [pc EXCEPT ![HUP] = "scan"] /\ held' = [held EXCEPT ![HUP] = h]
      /\ shownStatus' = Status(configErr, packageErrs)
      /\ UNCHANGED <<disk, lock, manager, rotation, provider, shell, reloader, hupPending, history>>
  BY DEF DispatchStatus, Goto
<1>2. h.todo = todo /\ h.todo \subseteq Types
  OBVIOUS
<1>3. "scan" \in HupSteps \ {"rotation", "provider", "diff"} /\ ~Dispatching(HUP)
  BY <1>1 DEF HupSteps, Dispatching
<1>4. \A t \in Types : t \notin h.todo => Fresh(t)
  BY <1>0 DEF AssetsInv, Fresh, Complete
<1> HIDE DEF h
<1>5. /\ TypeOK' => Shape'
      /\ pc' \in [Procs -> RequestSteps \cup HupSteps]
      /\ pc'[HUP] = "scan" /\ held'[HUP] = h
      /\ GoodInv' /\ AloneInv'
  <2>1. UNCHANGED <<base, current, lock, overrideFile, resetFailed, alone, rotation, provider>>
    BY <1>1 DEF disk, manager, history
  <2> QED
    BY <1>1, <1>2, <1>3, <2>1, HupMoves
<1>6. TypeOK'
  BY <1>0, <1>1, <1>5 DEF TypeOK, disk, manager, reloader, RequestSteps, HupSteps, Status, history
<1>7. ShownInv'
  BY <1>0, <1>1, <1>3, <1>5 DEF ShownInv, manager
<1>8. AssetsInv'
  BY <1>0, <1>1, <1>4, <1>5 DEF AssetsInv, Fresh, Found, disk, manager, reloader, history
<1> QED
  BY <1>5, <1>6, <1>7, <1>8 DEF Inv

\* One type is scanned: whichever branch ReloadWidgets takes, its views and its
\* error are those of the package on disk.
LEMMA ScanWidgetInv ==
    ASSUME Inv, NEW t \in Types, ScanWidget(t)
    PROVE  Inv'
<1> DEFINE h == [todo |-> held[HUP].todo \ {t},
                 statusChanged |-> held[HUP].statusChanged \/ packageErrs' # packageErrs
                                     \/ incompletePkgs' # incompletePkgs]
<1>0. Shape /\ TypeOK /\ ShownInv /\ AssetsInv /\ HUP \in Procs
  BY DEF Inv, Shape, Procs
<1>1. /\ pc[HUP] = "scan" /\ t \in held[HUP].todo
      /\ UNCHANGED <<disk, lock, base, current, configErr, consumers, hupPending, pc, alone,
                     resetFailed, unscanned>>
  BY DEF ScanWidget
<1>2. held' = [held EXCEPT ![HUP] = h] /\ pc' = [pc EXCEPT ![HUP] = "scan"]
  BY <1>0, <1>1 DEF ScanWidget, Shape, TypeOK
<1>3. held[HUP].todo \subseteq Types
  BY <1>0, <1>1 DEF Shape, Carries
<1>4. /\ h.todo = held[HUP].todo \ {t}
      /\ held[HUP].statusChanged \/ packageErrs' # packageErrs => h.statusChanged
  OBVIOUS
<1>5. "scan" \in HupSteps \ {"rotation", "provider", "diff"} /\ ~Dispatching(HUP)
  BY <1>1 DEF HupSteps, Dispatching
<1> HIDE DEF h
<1>6. /\ TypeOK' => Shape'
      /\ pc' \in [Procs -> RequestSteps \cup HupSteps]
      /\ pc'[HUP] = "scan" /\ held'[HUP] = h
      /\ GoodInv' /\ AloneInv'
  <2>1. UNCHANGED <<base, current, lock, overrideFile, resetFailed, alone, rotation, provider>>
    BY <1>1 DEF disk, consumers, history
  <2>2. h.todo \subseteq Types
    BY <1>3, <1>4
  <2> QED
    BY <1>2, <1>5, <2>1, <2>2, HupMoves
<1>7. PICK hash, view :
        /\ pkgHashes' = [pkgHashes EXCEPT ![t] = hash] /\ templates' = [templates EXCEPT ![t] = view]
        /\ hash = NONE \/ (hash = Found(t) /\ Complete(Found(t)))
        /\ Complete(Found(t)) => hash = Found(t)
        /\ \/ view = NONE /\ unhashed' = unhashed \ {t}
           \/ view \in {NONE, templates[t]} /\ hash = pkgHashes[t] /\ unhashed' = unhashed
  <2>1. CASE EvictDeletedWidget(t)
    BY <2>1 DEF EvictDeletedWidget, Complete
  <2>2. CASE RecordWidgetLoadError(t)
    <3>1. Found(t) = BROKEN
      BY <2>2, ConfigAssumption DEF RecordWidgetLoadError, Found
    <3> QED
      BY <2>2, <3>1 DEF RecordWidgetLoadError, Complete
  <2>3. CASE UpdateLoadedWidget(t)
    BY <2>3 DEF UpdateLoadedWidget
  <2> QED
    BY <2>1, <2>2, <2>3 DEF ScanWidget
<1>8. /\ packageErrs' \in {packageErrs, packageErrs \cup {t}, packageErrs \ {t}}
      /\ incompletePkgs' \in {incompletePkgs \cup {t}, incompletePkgs \ {t}}
      /\ packages[t] # BROKEN => t \notin packageErrs'
      /\ t \in packageErrs' => t \in incompletePkgs'
  BY <1>0 DEF ScanWidget, EvictDeletedWidget, RecordWidgetLoadError, UpdateLoadedWidget, AssetsInv
<1>9. \A u \in Types :
        /\ pkgHashes'[u] = IF u = t THEN hash ELSE pkgHashes[u]
        /\ templates'[u] = IF u = t THEN view ELSE templates[u]
  BY <1>0, <1>7 DEF TypeOK
<1>10. /\ pkgHashes' \in [Types -> Contents \cup {SHIPPED, NONE}]
       /\ templates' \in [Types -> Contents \cup {SHIPPED, BROKEN, NONE}]
       /\ unhashed' \subseteq Types
  <2>1. Complete(Found(t)) => Found(t) \in Contents \cup {SHIPPED}
    BY <1>0 DEF TypeOK, Complete, Found
  <2> QED
    BY <1>0, <1>7, <2>1 DEF TypeOK
<1>11. TypeOK'
  BY <1>0, <1>1, <1>6, <1>8, <1>10 DEF TypeOK, disk, consumers, RequestSteps, HupSteps
<1>12. ShownInv'
  BY <1>0, <1>1, <1>4, <1>5, <1>6 DEF ShownInv, consumers
<1>13. AssetsInv'
  <2>1. /\ packages' = packages /\ (unscanned' <=> unscanned)
        /\ \A u \in Types : Found(u)' = Found(u)
    BY <1>1 DEF disk, Found
  <2>2. packageErrs' \subseteq incompletePkgs'
    BY <1>0, <1>8 DEF AssetsInv
  <2>3. /\ templates'[t] \in {NONE, pkgHashes'[t]} \/ t \in unhashed'
        /\ Complete(Found(t)) => pkgHashes'[t] = Found(t)
        /\ t \in packageErrs' => packages[t] = BROKEN
    BY <1>0, <1>7, <1>8, <1>9 DEF AssetsInv
  <2>4. ASSUME NEW u \in Types, u # t
        PROVE  /\ pkgHashes'[u] = pkgHashes[u] /\ templates'[u] = templates[u]
               /\ u \in unhashed' <=> u \in unhashed
               /\ u \in packageErrs' <=> u \in packageErrs
               /\ u \in held'[HUP].todo <=> u \in held[HUP].todo
    BY <1>4, <1>6, <1>7, <1>8, <1>9, <2>4
  <2> QED
    BY <1>0, <1>1, <1>6, <2>1, <2>2, <2>3, <2>4 DEF AssetsInv, Fresh
<1> QED
  BY <1>6, <1>11, <1>12, <1>13 DEF Inv

\* The scan is over: every type is up to date, unless something was changed
\* meanwhile.
LEMMA FinishWidgetsInv ==
    ASSUME Inv, FinishWidgets
    PROVE  Inv'
<1>0. Shape /\ TypeOK /\ ShownInv /\ AssetsInv
  BY DEF Inv, Shape
<1>1. /\ pc[HUP] = "scan" /\ held[HUP].todo = {}
      /\ shownStatus' = IF held[HUP].statusChanged THEN Status(configErr, packageErrs) ELSE shownStatus
      /\ held' = [held EXCEPT ![HUP] = NONE] /\ pc' = [pc EXCEPT ![HUP] = "web"]
      /\ UNCHANGED <<disk, lock, manager, rotation, provider, shell, reloader, hupPending, history>>
  BY DEF FinishWidgets, Goto
<1>2. "web" \in HupSteps \ {"rotation", "provider", "diff"} /\ ~Dispatching(HUP)
  BY <1>1 DEF HupSteps, Dispatching
<1>3. /\ TypeOK' => Shape'
      /\ pc' \in [Procs -> RequestSteps \cup HupSteps]
      /\ pc'[HUP] = "web"
      /\ GoodInv' /\ AloneInv'
  <2>1. UNCHANGED <<base, current, lock, overrideFile, resetFailed, alone, rotation, provider>>
    BY <1>1 DEF disk, manager, history
  <2> QED
    BY <1>1, <1>2, <2>1, HupMoves
<1>4. shownStatus' = Status(configErr, packageErrs)
  BY <1>0, <1>1 DEF ShownInv
<1>5. TypeOK'
  BY <1>0, <1>1, <1>3, <1>4 DEF TypeOK, disk, manager, reloader, RequestSteps, HupSteps, Status, history
<1>6. ShownInv'
  BY <1>0, <1>1, <1>2, <1>3, <1>4 DEF ShownInv, manager
<1>7. AssetsInv'
  BY <1>0, <1>1, <1>3 DEF AssetsInv, Fresh, Found, disk, manager, reloader, history
<1> QED
  BY <1>3, <1>5, <1>6, <1>7 DEF Inv

\* ReloadWeb, after which the goroutine waits for the next signal.
LEMMA ReloadWebInv ==
    ASSUME Inv, ReloadWeb
    PROVE  Inv'
<1>0. Shape /\ TypeOK /\ ShownInv /\ AssetsInv
  BY DEF Inv, Shape
<1>1. /\ pc[HUP] = "web" /\ shell' \in {shell, current.yaml.shell} /\ pc' = [pc EXCEPT ![HUP] = "idle"]
      /\ held' = [held EXCEPT ![HUP] = held[HUP]]
      /\ UNCHANGED <<configFile, overrideFile, packages, changes, lock, manager, rotation,
                     provider, shownStatus, reloader, hupPending, history>>
  BY <1>0 DEF ReloadWeb, Goto, Shape
<1>2. webChanged' \in BOOLEAN
  BY Zenon DEF ReloadWeb
<1>3. "idle" \in HupSteps \ {"rotation", "provider", "diff"} /\ ~Dispatching(HUP)
  BY <1>1 DEF HupSteps, Dispatching
<1>4. /\ TypeOK' => Shape'
      /\ pc' \in [Procs -> RequestSteps \cup HupSteps]
      /\ pc'[HUP] = "idle"
      /\ GoodInv' /\ AloneInv'
  <2>1. UNCHANGED <<base, current, lock, overrideFile, resetFailed, alone, rotation, provider>>
    BY <1>1 DEF manager, history
  <2> QED
    BY <1>1, <1>3, <2>1, HupMoves
<1>5. shell' \in {y.shell : y \in Yamls} \cup {NONE}
  BY <1>0, <1>1 DEF TypeOK, Snapshots
<1>6. TypeOK'
  BY <1>0, <1>1, <1>2, <1>4, <1>5 DEF TypeOK, manager, reloader, RequestSteps, HupSteps, history
<1>7. ShownInv'
  BY <1>0, <1>1, <1>3, <1>4 DEF ShownInv, manager
<1>8. AssetsInv'
  BY <1>0, <1>1, <1>4, AssetsFrame DEF manager, reloader, history
<1> QED
  BY <1>4, <1>6, <1>7, <1>8 DEF Inv

-----------------------------------------------------------------------------
(* The theorems.                                                           *)

\* NewManager.
LEMMA Start == Init => Inv
<1> SUFFICES ASSUME Init PROVE Inv
  OBVIOUS
<1>1. /\ configFile \in Yamls /\ configFile.wellFormed /\ overrideFile = NONE
      /\ packages \in Installed /\ changes = 0 /\ lock = NONE /\ base = configFile
      /\ current = Validated(configFile, NONE) /\ packageErrs = {}
      /\ rotation = current /\ provider = current /\ shell = configFile.shell /\ shownStatus = "ok"
      /\ pkgHashes = SeedHashes /\ incompletePkgs = {} /\ templates = [t \in Types |-> NONE]
      /\ pc = [p \in Procs |-> "idle"] /\ held = [p \in Procs |-> NONE] /\ unhashed = {}
  BY DEF Init, ValidatePipeline
<1>2. webChanged \in BOOLEAN /\ hupPending \in BOOLEAN /\ configErr \in BOOLEAN
  BY Zenon DEF Init
<1>3. configErr = FALSE
  BY DEF Init
<1>4. /\ packages \in [Types -> Contents \cup {BROKEN, ABSENT}]
      /\ current \in Snapshots /\ current.yaml = configFile /\ current.override = NONE
  <2>1. {t \in configFile.types : packages[t] # ABSENT} \in SUBSET Types
    BY <1>1, ConfigAssumption
  <2> QED
    BY <1>1, <2>1, ConfigAssumption DEF Snapshots, Validated
<1>5. /\ pkgHashes \in [Types -> Contents \cup {SHIPPED, NONE}]
      /\ templates \in [Types -> Contents \cup {SHIPPED, BROKEN, NONE}]
      /\ \A t \in Types : Complete(Found(t)) => pkgHashes[t] = Found(t)
  BY <1>1, <1>4 DEF SeedHashes, Complete, Found
<1>6. TypeOK
  BY <1>1, <1>2, <1>4, <1>5, ConfigAssumption DEF TypeOK
<1>7. \A p \in Procs : pc[p] = "idle" /\ ~Dispatching(p)
  BY <1>1 DEF Dispatching
<1>8. HUP \in Procs /\ Requests \subseteq Procs
  BY DEF Procs
<1>9. Shape
  BY <1>1, <1>6, <1>7, <1>8 DEF Shape, Carries, HupSteps, RequestSteps
<1>10. GoodInv /\ AloneInv
  BY <1>1, <1>4, <1>7, <1>8 DEF GoodInv, LastKnownGood, AloneInv
<1>11. ShownInv
  BY <1>1, <1>3, <1>4, <1>7, <1>8 DEF ShownInv, Status
<1>12. AssetsInv
  BY <1>1, <1>5 DEF AssetsInv, Fresh
<1> QED
  BY <1>9, <1>10, <1>11, <1>12 DEF Inv

\* The server is started again, at any point.
LEMMA RestartInv ==
    ASSUME Inv, Restart
    PROVE  Inv'
<1> DEFINE s == ApplyDiskOverride(configFile, overrideFile)
<1>0. Shape /\ TypeOK
  BY DEF Inv, Shape
<1>1. /\ configFile # NONE /\ configFile.wellFormed /\ base' = configFile /\ current' = s
      /\ packageErrs' = {} /\ rotation' = s /\ provider' = s /\ shownStatus' = "ok"
      /\ pkgHashes' = SeedHashes /\ unhashed' = {}
      /\ incompletePkgs' = {} /\ templates' = [t \in Types |-> NONE] /\ lock' = NONE
      /\ pc' = [p \in Procs |-> "idle"] /\ held' = [p \in Procs |-> NONE] /\ shell' = NONE
      /\ UNCHANGED <<configFile, overrideFile, packages, changes>>
  BY DEF Restart, Started, ValidatePipeline
<1>2. webChanged' \in BOOLEAN /\ hupPending' \in BOOLEAN /\ configErr' \in BOOLEAN
  BY Zenon DEF Restart, Started
<1>3. configErr' = FALSE
  BY DEF Restart, Started
<1>4. configFile \in Yamls /\ s \in Snapshots /\ s.yaml = configFile /\ s.override \in {NONE, overrideFile}
  BY <1>0, <1>1, ValidatedSnapshot DEF TypeOK, ApplyDiskOverride
<1> HIDE DEF s
<1>5. /\ pkgHashes' \in [Types -> Contents \cup {SHIPPED, NONE}]
      /\ templates' \in [Types -> Contents \cup {SHIPPED, BROKEN, NONE}]
  BY <1>0, <1>1 DEF TypeOK, Complete, Found, SeedHashes
<1>6. \A t \in Types : /\ Complete(Found(t)') => pkgHashes'[t] = Found(t)'
                       /\ templates'[t] = NONE
  BY <1>1 DEF SeedHashes, Found
<1>7. TypeOK'
  BY <1>0, <1>1, <1>2, <1>4, <1>5 DEF TypeOK
<1>8. /\ pc' = [p \in Procs |-> "idle"] /\ held' = [p \in Procs |-> NONE]
      /\ current'.yaml = base' /\ base'.wellFormed /\ current'.override \in {NONE, overrideFile'}
      /\ rotation' = current' /\ provider' = current' /\ packageErrs' = {} /\ shownStatus' = "ok"
      /\ shell' \in {NONE, current'.yaml.shell}
  BY <1>1, <1>4
<1>9. \A p \in Procs : pc'[p] = "idle" /\ ~Dispatching(p)'
  BY <1>8 DEF Dispatching
<1>10. HUP \in Procs /\ Requests \subseteq Procs
  BY DEF Procs
<1>11. Shape'
  BY <1>7, <1>8, <1>9, <1>10 DEF Shape, Carries, HupSteps, RequestSteps
<1>12. GoodInv' /\ AloneInv'
  BY <1>8, <1>9, <1>10 DEF GoodInv, LastKnownGood, AloneInv
<1>13. ShownInv'
  BY <1>3, <1>8, <1>9, <1>10 DEF ShownInv, Status
<1>14. AssetsInv'
  BY <1>1, <1>6 DEF AssetsInv, Fresh
<1> QED
  BY <1>11, <1>12, <1>13, <1>14 DEF Inv

\* Every step keeps the invariant.
LEMMA Step == Inv /\ [Next]_vars => Inv'
<1> SUFFICES ASSUME Inv, [Next]_vars PROVE Inv'
  OBVIOUS
<1>1. CASE \/ \E y \in Yamls \cup {NONE} : EditConfig(y)
           \/ \E t \in Types, v \in Contents \cup {BROKEN, ABSENT} : EditPackage(t, v)
           \/ EditWeb
  BY <1>1, OperatorInv
<1>2. CASE SendSighup
  BY <1>2, SendSighupInv
<1>3. CASE Restart
  BY <1>3, RestartInv
<1>4. ASSUME NEW t \in Types, Render(t) PROVE Inv'
  BY <1>4, RenderInv
<1>5. ASSUME NEW r \in Requests,
             (\E o \in Overrides : PutLayoutEditor(r, o)) \/ DeleteLayoutEditor(r) \/ RequestStep(r)
      PROVE  Inv'
  <2>1. CASE DispatchRotation(r) \/ DispatchProvider(r) \/ DispatchDiff(r)
    BY <2>1, DispatchInv DEF Procs
  <2>2. CASE StoreOverride(r)
    BY <2>2, StoreOverrideInv
  <2>3. CASE ResetLayoutOverride(r)
    BY <2>3, ResetInv
  <2> QED
    BY <1>5, <2>1, <2>2, <2>3, RequestInv DEF RequestStep
<1>6. CASE HupStep
  <2>1. CASE DispatchRotation(HUP) \/ DispatchProvider(HUP) \/ DispatchDiff(HUP)
    BY <2>1, DispatchInv DEF Procs
  <2>2. ASSUME NEW t \in Types, ScanWidget(t) PROVE Inv'
    BY <2>2, ScanWidgetInv
  <2> QED
    BY <1>6, <2>1, <2>2, ReceiveSighupInv, RejectedInv, ReloadInv, DispatchStatusInv, FinishWidgetsInv,
       ReloadWebInv DEF HupStep
<1>7. CASE UNCHANGED vars
  <2>1. Shape'
    BY <1>7 DEF Inv, vars, disk, manager, consumers, reloader, history, Shape, TypeOK, Carries, Dispatching
  <2>2. GoodInv' /\ AloneInv'
    BY <1>7 DEF Inv, vars, disk, manager, consumers, reloader, history, GoodInv, LastKnownGood, AloneInv, Dispatching
  <2>3. ShownInv'
    BY <1>7 DEF Inv, vars, disk, manager, consumers, reloader, history, ShownInv, Dispatching
  <2>4. AssetsInv'
    BY <1>7 DEF Inv, vars, disk, manager, consumers, reloader, history, AssetsInv, Fresh, Found
  <2> QED
    BY <2>1, <2>2, <2>3, <2>4 DEF Inv
<1> QED
  BY <1>1, <1>2, <1>3, <1>4, <1>5, <1>6, <1>7 DEF Next

\* The invariant holds in every state of the server.
THEOREM Invariance == Spec => []Inv
<1>1. Init => Inv
  BY Start
<1>2. Inv /\ [Next]_vars => Inv'
  BY Step
<1> QED
  BY <1>1, <1>2, PTL DEF Spec

\* Every field keeps its type.
THEOREM Typing == Spec => []TypeOK
<1>1. Inv => TypeOK
  BY DEF Inv, Shape
<1> QED
  BY <1>1, Invariance, PTL

\* The snapshot that runs comes from the text accepted last, and an override
\* that is on the screen is on disk, whatever was rejected, edited or reset and
\* however requests and reloads interleave (Manager.Reload,
\* ApplyLayoutOverride, ResetLayoutOverride).
THEOREM KeepsLastKnownGood == Spec => []LastKnownGood
<1>1. Inv => LastKnownGood
  BY DEF Inv, GoodInv
<1> QED
  BY <1>1, Invariance, PTL

\* The coordinators and the displays end up with the manager's snapshot, status
\* and shell (events/dispatcher.go, handleSIGHUP).
THEOREM ConsumersFollow == Spec => []ConsumersInStep
<1>1. ASSUME Inv PROVE ConsumersInStep
  <2>1. HUP \in Procs
    BY DEF Procs
  <2>2. pc[HUP] = "idle" => ~Dispatching(HUP)
    BY DEF Dispatching
  <2> QED
    BY <1>1, <2>1, <2>2 DEF Inv, AloneInv, ShownInv, ConsumersInStep
<1> QED
  BY <1>1, Invariance, PTL

\* A reload during which nothing changed on disk leaves no view of another content
\* of a package, but for those compiled between two scans that both missed it, and
\* no stale error (ReloadWidgets, getOrCompileTemplate).
THEOREM AssetsStayFresh == Spec => []AssetsFresh
<1>1. ASSUME Inv PROVE AssetsFresh
  <2> SUFFICES ASSUME pc[HUP] = "idle", ~unscanned
               PROVE  /\ \A t \in Types : Complete(Found(t)) =>
                           templates[t] \in {NONE, Found(t)} \/ t \in unhashed
                      /\ \A t \in packageErrs : t \in Types /\ packages[t] = BROKEN
    BY DEF AssetsFresh
  <2>1. \A t \in Types : Fresh(t) /\ (templates[t] \in {NONE, pkgHashes[t]} \/ t \in unhashed)
    BY <1>1 DEF Inv, AssetsInv
  <2> QED
    BY <1>1, <2>1 DEF Fresh, Inv, Shape, TypeOK
<1> QED
  BY <1>1, Invariance, PTL
=============================================================================
