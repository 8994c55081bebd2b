--------------------------- MODULE HostUpdatesProofs ---------------------------
(***************************************************************************)
(* Theorems about HostUpdates for every set of windows, releases and       *)
(* networks: the owner of a preparation is alone, the service a Ready      *)
(* answer spoke of is quiescent, and a paused gate has an owner.           *)
(***************************************************************************)
EXTENDS HostUpdates, TLAPS

-----------------------------------------------------------------------------
(* The inductive invariant.                                                *)

Preparing == At("prepare", "networks")

\* Work ends before its gate is paused and never begins while it is.
ShutIsIdle == \A g \in Gates : service.gates[g].paused => service.gates[g].work = 0

\* A preparation in the making holds the running lock, has paused the service's
\* own gate and concerns the only attached window.
Holding ==
    /\ Preparing =>
        /\ running = "prepare"
        /\ prepared = NoOwner
        /\ Running
        /\ views \subseteq {updating.view}
    /\ running = "prepare" => Preparing
    /\ unlocker = "opening" => running = "unlock"

Vouched ==
    prepared # NoOwner /\ vouched =>
        Running /\ \A g \in Gates : service.gates[g].paused

-----------------------------------------------------------------------------
(* Type correctness.                                                       *)

\* Starting a service and pausing or resuming its gates keep its shape.
LEMMA FreshType ==
    ASSUME NEW up \in BOOLEAN
    PROVE  Fresh(up) \in Services
  <1>1. 0 \in 0..MaxWork
    BY HostUpdatesAssumption
  <1>. QED
    BY <1>1 DEF Fresh, OpenGates, Services

LEMMA PausedType ==
    ASSUME service \in Services, NEW gates
    PROVE  Paused(gates) \in Services
  <1>1. \A g \in Gates : service.gates[g].work \in 0..MaxWork
    BY DEF Services
  <1>2. [g \in Gates |-> [paused |-> g \in gates, work |-> service.gates[g].work]]
            \in [Gates -> [paused : BOOLEAN, work : 0..MaxWork]]
    BY <1>1
  <1>. QED
    BY <1>2 DEF Paused, Services

\* What pausing does, gate by gate.
LEMMA PausedGates ==
    ASSUME service \in Services, NEW gates, NEW g \in Gates
    PROVE  /\ Paused(gates).up = service.up
           /\ Paused(gates).gates[g].paused <=> (g \in gates)
           /\ Paused(gates).gates[g].work = service.gates[g].work
  BY DEF Paused, Services

LEMMA FreshGates ==
    ASSUME NEW up, NEW g \in Gates
    PROVE  Fresh(up).up = up /\ ~Fresh(up).gates[g].paused /\ Fresh(up).gates[g].work = 0
  BY DEF Fresh, OpenGates

\* The updates lock is free, or a request is at one of its steps.
LEMMA UpdatingType ==
    ASSUME updating \in UpdateRecords \cup {Nothing}
    PROVE  /\ updating # Nothing => updating \in UpdateRecords
           /\ \A step \in {"sweep", "arm", "networks"} :
                  updating # Nothing /\ (step = "networks" => updating.kind = "prepare") =>
                      /\ [updating EXCEPT !.step = step] \in UpdateRecords
                      /\ [updating EXCEPT !.step = step].step = step
                      /\ [updating EXCEPT !.step = step].kind = updating.kind
                      /\ [updating EXCEPT !.step = step].view = updating.view
                      /\ [updating EXCEPT !.step = step] # Nothing
  <1>1. SUFFICES ASSUME updating \in UpdateRecords, NEW step \in {"sweep", "arm", "networks"},
                        step = "networks" => updating.kind = "prepare"
                 PROVE  /\ [updating EXCEPT !.step = step] \in UpdateRecords
                        /\ [updating EXCEPT !.step = step].step = step
                        /\ [updating EXCEPT !.step = step].kind = updating.kind
                        /\ [updating EXCEPT !.step = step].view = updating.view
                        /\ [updating EXCEPT !.step = step] # Nothing
    OBVIOUS
  <1>2. \A u \in UpdateRecords : u # Nothing
    <2>1. \A u \in UpdateRecords : u.kind \in Kinds
      BY DEF UpdateRecords
    <2>2. Nothing.kind \notin Kinds
      BY DEF Nothing, Kinds
    <2>. QED
      BY <2>1, <2>2
  <1>. QED
    BY <1>1, <1>2 DEF UpdateRecords

\* Every initial state and every step has well-typed variables.
LEMMA TypeInit == Init => TypeOK
  <1>. SUFFICES ASSUME Init PROVE TypeOK
    OBVIOUS
  <1>1. service \in Services
    BY FreshType DEF Init
  <1>2. unlocks \in 0..MaxUnlocks /\ timeouts \in 0..MaxTimeouts
    BY HostUpdatesAssumption DEF Init
  <1>3. ~At("prepare", "networks")
    BY DEF Init, At
  <1>4. views \subseteq Views /\ lapsed \subseteq views /\ closed \subseteq Views /\ asked \subseteq Views
    BY DEF Init
  <1>5. vouched \in BOOLEAN /\ stranded \in BOOLEAN
    BY DEF Init
  <1>. QED
    BY <1>1, <1>2, <1>3, <1>4, <1>5 DEF Init, TypeOK

\* A step keeps every variable's shape.
LEMMA TypeStep == TypeOK /\ [Next]_vars => TypeOK'
  <1>. SUFFICES ASSUME TypeOK, [Next]_vars PROVE TypeOK'
    OBVIOUS
  <1>. USE HostUpdatesAssumption
  <1>a. /\ updating \in UpdateRecords \cup {Nothing}
        /\ service \in Services
        /\ Paused({}) \in Services /\ Paused(Shut \cup {Main}) \in Services
        /\ \A g \in Gates : Paused(Shut \cup {g}) \in Services
        /\ Fresh(TRUE) \in Services /\ Fresh(FALSE) \in Services
    BY PausedType, FreshType DEF TypeOK
  <1>b. updating' = Nothing => ~At("prepare", "networks")'
    BY DEF At
  <1>d. /\ \A kind : At(kind, "arm") => ~At("prepare", "networks")
        /\ updating # Nothing /\ updating.step = "sweep" => ~At("prepare", "networks")
    BY DEF At
  <1>e. At("prepare", "networks") => updating.step = "networks" /\ updating \in UpdateRecords
    BY <1>a DEF At
  <1>f. \A kind : At(kind, "arm") =>
          updating \in UpdateRecords /\ <<updating.view, updating.release>> \in Views \X Releases
    BY <1>a DEF At, UpdateRecords
  <1>g. updating \in UpdateRecords => updating.view \in Views /\ updating.release \in Releases
    BY DEF UpdateRecords
  <1>c. UNCHANGED updating => (At("prepare", "networks")' <=> At("prepare", "networks"))
    BY DEF At
  <1>1. ASSUME NEW v \in Views, Lapse(v) PROVE TypeOK'
    BY <1>1, <1>a, <1>b, <1>c, <1>d, <1>e, <1>g DEF TypeOK, leases, host, histories, Lapse
  <1>2. ASSUME NEW v \in Views, Close(v) PROVE TypeOK'
    BY <1>2, <1>a, <1>b, <1>c, <1>d, <1>e, <1>g DEF TypeOK, leases, host, histories, Close
  <1>3. ASSUME Heartbeat PROVE TypeOK'
    <2>1. views' \subseteq Views /\ lapsed' \subseteq views'
      BY <1>3, <1>f DEF Heartbeat, TypeOK
    <2>2. ~At("prepare", "networks") /\ ~At("prepare", "networks")'
      BY <1>3, <1>b, <1>d DEF Heartbeat, Answered
    <2>3. updating' = Nothing /\ UNCHANGED <<closed, prepared, host, exit, timeouts, histories>>
      BY <1>3 DEF Heartbeat, Answered
    <2>. QED
      BY <2>1, <2>2, <2>3 DEF TypeOK, host, histories
  <1>4. ASSUME Detach PROVE TypeOK'
    BY <1>4, <1>a, <1>b, <1>c, <1>d, <1>e, <1>g DEF TypeOK, leases, host, histories, Detach, Answered, Release
  <1>5. ASSUME Abort PROVE TypeOK'
    BY <1>5, <1>a, <1>b, <1>c, <1>d, <1>e, <1>g DEF TypeOK, leases, host, histories, Abort, Answered, Release
  <1>6. ASSUME Exit PROVE TypeOK'
    BY <1>6, <1>a, <1>b, <1>c, <1>d, <1>e, <1>g DEF TypeOK, leases, host, histories, Exit, Answered
  <1>7. ASSUME PrepareAnswered PROVE TypeOK'
    BY <1>7, <1>a, <1>b, <1>c, <1>d, <1>e, <1>g DEF TypeOK, leases, host, histories, PrepareAnswered, Answered
  <1>8. ASSUME PrepareStopped PROVE TypeOK'
    <2>1. prepared' \in Views \X Releases /\ updating' = Nothing /\ vouched' = FALSE
      BY <1>8, <1>f DEF PrepareStopped, Acknowledged, Answered
    <2>2. ~At("prepare", "networks") /\ ~At("prepare", "networks")'
      BY <1>8, <1>b, <1>d DEF PrepareStopped, Acknowledged, Answered
    <2>3. UNCHANGED <<leases, host, exit, timeouts, stranded, asked>>
      BY <1>8 DEF PrepareStopped
    <2>. QED
      BY <2>1, <2>2, <2>3 DEF TypeOK, leases, host
  <1>9. ASSUME PrepareBusy PROVE TypeOK'
    BY <1>9, <1>a, <1>b, <1>c, <1>d, <1>e, <1>g DEF TypeOK, leases, host, histories, PrepareBusy, Answered
  <1>10. ASSUME PauseMain PROVE TypeOK'
    <2>1. updating \in UpdateRecords /\ updating.kind = "prepare"
      BY <1>10, <1>f DEF PauseMain, At
    <2>2. updating' \in UpdateRecords /\ At("prepare", "networks")'
      BY <1>10, <2>1, UpdatingType, <1>a DEF PauseMain, At
    <2>3. running = "free" /\ running' = "prepare" /\ service' \in Services
      BY <1>10, <1>a DEF PauseMain
    <2>4. UNCHANGED <<leases, prepared, unlocker, unlocks, exit, timeouts, histories>>
      BY <1>10 DEF PauseMain
    <2>. QED
      BY <2>2, <2>3, <2>4 DEF TypeOK, leases, histories
  <1>11. ASSUME PauseNetwork PROVE TypeOK'
    <2>1. service' \in Services
      BY <1>11, <1>a DEF PauseNetwork, Unpaused
    <2>2. UNCHANGED <<leases, prepared, updating, running, unlocker, unlocks, exit, timeouts,
                     histories>>
      BY <1>11 DEF PauseNetwork
    <2>. QED
      BY <2>1, <2>2, <1>c DEF TypeOK, leases, histories
  <1>12. ASSUME PrepareFails PROVE TypeOK'
    BY <1>12, <1>a, <1>b, <1>c, <1>d, <1>e, <1>g DEF TypeOK, leases, host, histories, PrepareFails, Answered
  <1>13. ASSUME Prepared PROVE TypeOK'
    BY <1>13, <1>a, <1>b, <1>c, <1>d, <1>e, <1>g DEF TypeOK, leases, host, histories, Prepared, Answered, Acknowledged
  <1>14. ASSUME Timeout PROVE TypeOK'
    <2>1. updating' = Nothing /\ ~At("prepare", "networks")'
      BY <1>14, <1>b DEF Timeout, Answered
    <2>2. running' \in {"free", "unlock", "disconnect"} /\ (running' = "unlock" <=> running = "unlock")
      <3>1. CASE updating.step = "networks"
        <4>1. running' = "free"
          BY <1>14, <3>1 DEF Timeout
        <4>2. updating.kind = "prepare"
          BY <1>14, <1>a, <3>1 DEF Timeout, UpdateRecords
        <4>3. running = "prepare"
          BY <1>14, <3>1, <4>2 DEF Timeout, At, TypeOK
        <4>. QED
          BY <4>1, <4>3 DEF TypeOK
      <3>2. CASE updating.step # "networks"
        <4>1. running' = running /\ ~At("prepare", "networks")
          BY <1>14, <3>2 DEF Timeout, At
        <4>. QED
          BY <4>1 DEF TypeOK
      <3>. QED
        BY <3>1, <3>2
    <2>3. timeouts' \in 0..MaxTimeouts /\ stranded' \in BOOLEAN
      BY <1>14 DEF Timeout, TypeOK
    <2>4. UNCHANGED <<leases, prepared, service, unlocker, unlocks, exit, vouched, asked>>
      BY <1>14 DEF Timeout
    <2>. QED
      BY <2>1, <2>2, <2>3, <2>4 DEF TypeOK, leases
  <1>15. ASSUME UnlockChecked PROVE TypeOK'
    BY <1>15, <1>a, <1>b, <1>c, <1>d, <1>e, <1>g DEF TypeOK, leases, host, histories, UnlockChecked
  <1>16. ASSUME UnlockBegins PROVE TypeOK'
    BY <1>16, <1>a, <1>b, <1>c, <1>d, <1>e, <1>g DEF TypeOK, leases, host, histories, UnlockBegins
  <1>17. ASSUME UnlockEnds PROVE TypeOK'
    BY <1>17, <1>a, <1>b, <1>c, <1>d, <1>e, <1>g DEF TypeOK, leases, host, histories, UnlockEnds
  <1>18. ASSUME Disconnect PROVE TypeOK'
    BY <1>18, <1>a, <1>b, <1>c, <1>d, <1>e, <1>g DEF TypeOK, leases, host, histories, Disconnect
  <1>19. ASSUME DisconnectEnds PROVE TypeOK'
    BY <1>19, <1>a, <1>b, <1>c, <1>d, <1>e, <1>g DEF TypeOK, leases, host, histories, DisconnectEnds
  <1>20. ASSUME ExitFires PROVE TypeOK'
    BY <1>20, <1>a, <1>b, <1>c, <1>d, <1>e, <1>g DEF TypeOK, leases, host, histories, ExitFires
  <1>21. ASSUME Sweep PROVE TypeOK'
    <2>1. updating' \in UpdateRecords /\ ~At("prepare", "networks") /\ ~At("prepare", "networks")'
      BY <1>21, UpdatingType, <1>a, <1>d DEF Sweep, At
    <2>2. prepared' = NoOwner /\ vouched' = FALSE /\ service' \in Services
      BY <1>21, <1>a DEF Sweep, Release
    <2>3. UNCHANGED <<leases, running, unlocker, unlocks, exit, timeouts, stranded, asked>>
      BY <1>21 DEF Sweep
    <2>. QED
      BY <2>1, <2>2, <2>3 DEF TypeOK, leases
  <1>22. ASSUME NEW request \in Requests, Begin(request) PROVE TypeOK'
    <2>1. updating' \in UpdateRecords /\ ~At("prepare", "networks") /\ ~At("prepare", "networks")'
      BY <1>22 DEF Begin, At, UpdateRecords, Requests
    <2>2. views' \subseteq Views /\ lapsed' \subseteq views' /\ closed' = closed
      BY <1>22 DEF Begin, TypeOK
    <2>3. asked' \subseteq Views
      BY <1>22 DEF Begin, TypeOK, Requests
    <2>4. UNCHANGED <<prepared, host, exit, timeouts, vouched, stranded>>
      BY <1>22 DEF Begin
    <2>. QED
      BY <2>1, <2>2, <2>3, <2>4 DEF TypeOK, host
  <1>23. ASSUME NEW g \in Gates, WorkBegins(g) \/ WorkEnds(g) PROVE TypeOK'
    <2>1. service' \in Services
      <3>1. \A n \in 0..MaxWork :
              [service EXCEPT !.gates[g].work = n] \in Services
        <4>. SUFFICES ASSUME NEW n \in 0..MaxWork
                      PROVE  [service EXCEPT !.gates[g].work = n] \in Services
          OBVIOUS
        <4>1. [service.gates[g] EXCEPT !.work = n] \in [paused : BOOLEAN, work : 0..MaxWork]
          BY <1>a DEF Services
        <4>2. [service.gates EXCEPT ![g] = [service.gates[g] EXCEPT !.work = n]]
                  \in [Gates -> [paused : BOOLEAN, work : 0..MaxWork]]
          BY <1>a, <4>1 DEF Services
        <4>. QED
          BY <1>a, <4>2 DEF Services
      <3>2. CASE WorkBegins(g)
        <4>1. service.gates[g].work + 1 \in 0..MaxWork
          BY <3>2, <1>a DEF WorkBegins, Services
        <4>2. service' = [service EXCEPT !.gates[g].work = service.gates[g].work + 1]
          BY <3>2 DEF WorkBegins
        <4>. QED
          BY <3>1, <4>1, <4>2
      <3>3. CASE WorkEnds(g)
        <4>1. service.gates[g].work - 1 \in 0..MaxWork
          BY <3>3, <1>a DEF WorkEnds, Busy, Services
        <4>2. service' = [service EXCEPT !.gates[g].work = service.gates[g].work - 1]
          BY <3>3 DEF WorkEnds
        <4>. QED
          BY <3>1, <4>1, <4>2
      <3>. QED
        BY <1>23, <3>2, <3>3
    <2>2. UNCHANGED <<leases, prepared, updating, running, unlocker, unlocks, exit, timeouts,
                     histories>>
      BY <1>23 DEF WorkBegins, WorkEnds
    <2>. QED
      BY <2>1, <2>2, <1>c DEF TypeOK, leases, histories
  <1>24. ASSUME UNCHANGED vars PROVE TypeOK'
    BY <1>24, <1>c DEF TypeOK, vars, leases, host, histories
  <1>. QED
    BY <1>1, <1>2, <1>3, <1>4, <1>5, <1>6, <1>7, <1>8, <1>9, <1>10, <1>11, <1>12, <1>13, <1>14,
       <1>15, <1>16, <1>17, <1>18, <1>19, <1>20, <1>21, <1>22, <1>23, <1>24 DEF Next, Arm

\* Every variable keeps its shape, whatever windows, releases and networks there are.
THEOREM TypeCorrect == Spec => []TypeOK
  <1>. QED
    BY TypeInit, TypeStep, PTL DEF Spec

-----------------------------------------------------------------------------
(* Safety.                                                                *)

Safe == ShutIsIdle /\ Holding /\ Vouched /\ OwnerAlone /\ PausedHasOwner

\* Every initial state satisfies the invariant.
LEMMA SafeInit == Init => Safe
  <1>. SUFFICES ASSUME Init PROVE Safe
    OBVIOUS
  <1>1. \A g \in Gates : ~service.gates[g].paused /\ ~Running
    BY FreshGates DEF Init, Running
  <1>2. ~Preparing
    BY DEF Init, Preparing, At
  <1>. QED
    BY <1>1, <1>2 DEF Init, Safe, ShutIsIdle, Holding, Vouched, OwnerAlone, PausedHasOwner

\* A step that changes no gate and no request under the lock.
LEMMA SafeFrame ==
    ASSUME Safe, UNCHANGED <<views, prepared, updating, service, vouched, stranded>>,
           running' = running \/ (running # "prepare" /\ running' # "prepare"),
           unlocker' = "opening" => running' = "unlock"
    PROVE  Safe'
  <1>1. Preparing' <=> Preparing
    BY DEF Preparing, At
  <1>2. Running' <=> Running
    BY DEF Running
  <1>3. ShutIsIdle' /\ Vouched' /\ OwnerAlone'
    BY <1>2 DEF Safe, ShutIsIdle, Vouched, OwnerAlone
  <1>4. Holding'
    BY <1>1, <1>2 DEF Safe, Holding
  <1>5. PausedHasOwner'
    BY <1>1, <1>2 DEF Safe, PausedHasOwner, Preparing
  <1>. QED
    BY <1>3, <1>4, <1>5 DEF Safe

\* All gates are open and nothing is prepared any more.
LEMMA SafeRelease ==
    ASSUME Safe, TypeOK, Release, ~Preparing, ~Preparing', running' = running, unlocker' = unlocker
    PROVE  Safe'
  <1>1. \A g \in Gates : ~service'.gates[g].paused
    BY PausedGates DEF Release, TypeOK
  <1>2. prepared' = NoOwner /\ vouched' = FALSE /\ running = "free"
    BY DEF Release
  <1>3. Holding'
    BY <1>2 DEF Safe, Holding
  <1>. QED
    BY <1>1, <1>2, <1>3 DEF Safe, ShutIsIdle, Vouched, OwnerAlone, PausedHasOwner

\* Every step of a well-typed state keeps the invariant.
LEMMA SafeStep == TypeOK /\ Safe /\ [Next]_vars => Safe'
  <1>. SUFFICES ASSUME TypeOK, Safe, [Next]_vars PROVE Safe'
    OBVIOUS
  <1>. USE DEF Preparing
  <1>a. updating' = Nothing => ~Preparing'
    BY DEF At
  <1>b. (\A kind : At(kind, "arm") => ~Preparing)
        /\ (updating # Nothing /\ updating.step = "sweep" => ~Preparing)
    BY DEF At
  <1>c. ~Preparing => running # "prepare"
    BY DEF Safe, Holding
  <1>1. ASSUME NEW v \in Views, Lapse(v) \/ Close(v) PROVE Safe'
    BY <1>1, SafeFrame DEF Lapse, Close, host, histories, Safe, Holding
  <1>2. ASSUME NEW request \in Requests, Begin(request) PROVE Safe'
    <2>1. ~Preparing /\ ~Preparing'
      BY <1>2 DEF Begin, At
    <2>2. views' \subseteq views /\ UNCHANGED <<prepared, host, vouched, stranded>>
      BY <1>2 DEF Begin
    <2>. QED
      BY <2>1, <2>2, <1>c
         DEF Safe, ShutIsIdle, Holding, Vouched, OwnerAlone, PausedHasOwner, Running, host
  <1>3. ASSUME Sweep PROVE Safe'
    <2>1. ~Preparing /\ ~Preparing'
      BY <1>3, <1>b, UpdatingType DEF Sweep, At, TypeOK
    <2>. QED
      BY <1>3, <2>1, SafeRelease DEF Sweep
  <1>4. ASSUME Heartbeat PROVE Safe'
    <2>1. ~Preparing /\ ~Preparing'
      BY <1>4, <1>a, <1>b DEF Heartbeat, Answered
    <2>2. prepared # NoOwner => views' \subseteq views \cup {prepared[1]}
      BY <1>4 DEF Heartbeat, OwnedByOther
    <2>3. UNCHANGED <<prepared, host, vouched, stranded>>
      BY <1>4 DEF Heartbeat, histories
    <2>. QED
      BY <2>1, <2>2, <2>3, <1>c
         DEF Safe, ShutIsIdle, Holding, Vouched, OwnerAlone, PausedHasOwner, Running, host
  <1>5. ASSUME Detach PROVE Safe'
    <2>1. ~Preparing /\ ~Preparing'
      BY <1>5, <1>a, <1>b DEF Detach, Answered
    <2>2. CASE Release
      BY <1>5, <2>1, <2>2, SafeRelease DEF Detach
    <2>3. CASE ~Release
      <3>1. views' \subseteq views /\ UNCHANGED <<prepared, host, vouched, stranded>>
        BY <1>5, <2>3 DEF Detach, host, leases
      <3>. QED
        BY <3>1, <2>1, <1>c
           DEF Safe, ShutIsIdle, Holding, Vouched, OwnerAlone, PausedHasOwner, Running, host
    <2>. QED
      BY <2>2, <2>3
  <1>6. ASSUME Abort PROVE Safe'
    <2>1. ~Preparing /\ ~Preparing'
      BY <1>6, <1>a, <1>b DEF Abort, Answered
    <2>2. CASE Release
      BY <1>6, <2>1, <2>2, SafeRelease DEF Abort
    <2>3. CASE ~Release
      <3>1. views' \subseteq views /\ UNCHANGED <<prepared, host, vouched, stranded>>
        BY <1>6, <2>3 DEF Abort, host, leases
      <3>. QED
        BY <3>1, <2>1, <1>c
           DEF Safe, ShutIsIdle, Holding, Vouched, OwnerAlone, PausedHasOwner, Running, host
    <2>. QED
      BY <2>2, <2>3
  <1>7. ASSUME Exit \/ PrepareAnswered \/ PrepareBusy PROVE Safe'
    <2>1. ~Preparing /\ ~Preparing'
      BY <1>7, <1>a, <1>b DEF Exit, PrepareAnswered, PrepareBusy, Answered
    <2>2. UNCHANGED <<leases, prepared, host, vouched, stranded>>
      BY <1>7 DEF Exit, PrepareAnswered, PrepareBusy, histories
    <2>. QED
      BY <2>1, <2>2, <1>c
         DEF Safe, ShutIsIdle, Holding, Vouched, OwnerAlone, PausedHasOwner, Running, host, leases
  <1>8. ASSUME PrepareStopped PROVE Safe'
    <2>1. ~Preparing /\ ~Preparing'
      BY <1>8, <1>a, <1>b DEF PrepareStopped, Acknowledged, Answered
    <2>2. prepared' = <<updating.view, updating.release>> /\ vouched' = FALSE
          /\ views = {updating.view} /\ UNCHANGED <<leases, host, stranded>>
      BY <1>8 DEF PrepareStopped, Acknowledged, MayPrepare
    <2>3. prepared' # NoOwner
      BY <1>8, HostUpdatesAssumption DEF PrepareStopped, Acknowledged, At, TypeOK, UpdateRecords
    <2>. QED
      BY <2>1, <2>2, <2>3, <1>c
         DEF Safe, ShutIsIdle, Holding, Vouched, OwnerAlone, PausedHasOwner, Running, host, leases
  <1>9. ASSUME PauseMain PROVE Safe'
    <2>1. updating \in UpdateRecords /\ updating.kind = "prepare"
      BY <1>9 DEF PauseMain, At, TypeOK
    <2>2. Preparing' /\ updating'.view = updating.view
      BY <1>9, <2>1, UpdatingType DEF PauseMain, At
    <2>3. running' = "prepare" /\ prepared' = NoOwner /\ views' = {updating.view} /\ Running
          /\ running = "free" /\ unlocker' = unlocker
      BY <1>9 DEF PauseMain, MayPrepare, leases
    <2>4. /\ service'.up = service.up
          /\ \A g \in Gates : /\ service'.gates[g].paused <=> (g \in Shut \cup {Main})
                              /\ service'.gates[g].work = service.gates[g].work
      <3>1. service' = Paused(Shut \cup {Main}) /\ service \in Services
        BY <1>9 DEF PauseMain, TypeOK
      <3>2. \A g \in Gates : /\ Paused(Shut \cup {Main}).up = service.up
                             /\ Paused(Shut \cup {Main}).gates[g].paused <=> (g \in Shut \cup {Main})
                             /\ Paused(Shut \cup {Main}).gates[g].work = service.gates[g].work
        BY <3>1, PausedGates
      <3>3. Gates # {}
        BY HostUpdatesAssumption
      <3>. QED
        BY <3>1, <3>2, <3>3
    <2>5. service.gates[Main].work = 0
      BY <1>9, HostUpdatesAssumption DEF PauseMain, Busy, TypeOK, Services
    <2>6. ShutIsIdle'
      BY <2>4, <2>5 DEF ShutIsIdle, Safe, Shut
    <2>7. Holding'
      BY <2>2, <2>3, <2>4 DEF Holding, Running, Safe
    <2>. QED
      BY <2>2, <2>3, <2>6, <2>7 DEF Safe, Vouched, OwnerAlone, PausedHasOwner
  <1>10. ASSUME PauseNetwork PROVE Safe'
    <2>1. PICK h \in Unpaused : ~Busy(h) /\ service' = Paused(Shut \cup {h})
      BY <1>10 DEF PauseNetwork
    <2>2. /\ service'.up = service.up
          /\ \A g \in Gates : /\ service'.gates[g].paused <=> (g \in Shut \cup {h})
                              /\ service'.gates[g].work = service.gates[g].work
      <3>1. service \in Services
        BY DEF TypeOK
      <3>2. \A g \in Gates : /\ Paused(Shut \cup {h}).up = service.up
                             /\ Paused(Shut \cup {h}).gates[g].paused <=> (g \in Shut \cup {h})
                             /\ Paused(Shut \cup {h}).gates[g].work = service.gates[g].work
        BY <3>1, PausedGates
      <3>3. Gates # {}
        BY HostUpdatesAssumption
      <3>. QED
        BY <2>1, <3>1, <3>2, <3>3
    <2>3. service.gates[h].work = 0
      BY <2>1 DEF Busy, TypeOK, Services, Unpaused
    <2>4. UNCHANGED <<views, prepared, updating, running, unlocker, vouched, stranded>>
          /\ Preparing /\ Preparing'
      BY <1>10 DEF PauseNetwork, leases, histories, At
    <2>5. ShutIsIdle'
      BY <2>2, <2>3 DEF ShutIsIdle, Safe, Shut
    <2>6. Holding'
      BY <2>2, <2>4 DEF Holding, Running, Safe
    <2>. QED
      BY <2>4, <2>5, <2>6 DEF Safe, Holding, Vouched, OwnerAlone, PausedHasOwner
  <1>11. ASSUME PrepareFails PROVE Safe'
    <2>1. Preparing /\ ~Preparing'
      BY <1>11, <1>a DEF PrepareFails, Answered
    <2>2. \A g \in Gates : ~service'.gates[g].paused
      BY <1>11, PausedGates DEF PrepareFails, TypeOK
    <2>3. prepared' = NoOwner /\ running' = "free" /\ unlocker' = unlocker /\ running = "prepare"
      BY <1>11, <2>1 DEF PrepareFails, Safe, Holding
    <2>4. Holding'
      BY <2>1, <2>3 DEF Safe, Holding
    <2>. QED
      BY <2>1, <2>2, <2>3, <2>4 DEF Safe, ShutIsIdle, Vouched, OwnerAlone, PausedHasOwner
  <1>12. ASSUME Prepared PROVE Safe'
    <2>1. Preparing /\ ~Preparing'
      BY <1>12, <1>a DEF Prepared, Acknowledged, Answered
    <2>2. prepared' = <<updating.view, updating.release>> /\ running' = "free"
          /\ UNCHANGED <<views, service, unlocker, stranded>>
      BY <1>12 DEF Prepared, Acknowledged, leases
    <2>3. prepared' # NoOwner
      BY <2>1, <2>2, HostUpdatesAssumption DEF At, TypeOK, UpdateRecords
    <2>4. Running /\ views \subseteq {updating.view} /\ running = "prepare"
      BY <2>1 DEF Safe, Holding
    <2>5. \A g \in Gates : service.gates[g].paused
      BY <1>12 DEF Prepared, Unpaused, Shut
    <2>6. ShutIsIdle' /\ Vouched'
      BY <2>2, <2>4, <2>5 DEF Safe, ShutIsIdle, Vouched, Running
    <2>7. Holding'
      BY <2>1, <2>2, <2>4 DEF Safe, Holding
    <2>. QED
      BY <2>2, <2>3, <2>4, <2>6, <2>7 DEF Safe, OwnerAlone, PausedHasOwner
  <1>13. ASSUME Timeout PROVE Safe'
    <2>1. ~Preparing'
      BY <1>13, <1>a DEF Timeout, Answered
    <2>2. UNCHANGED <<views, prepared, service, unlocker, vouched>>
          /\ (Preparing => stranded' /\ running' = "free" /\ running = "prepare")
          /\ (~Preparing => stranded' = stranded /\ running' = running)
      BY <1>13 DEF Timeout, leases, At, Safe, Holding, TypeOK, UpdateRecords
    <2>3. ShutIsIdle' /\ Vouched' /\ OwnerAlone' /\ PausedHasOwner'
      BY <2>1, <2>2 DEF Safe, ShutIsIdle, Vouched, OwnerAlone, PausedHasOwner, Running
    <2>4. Holding'
      BY <2>1, <2>2, <1>c DEF Safe, Holding
    <2>. QED
      BY <2>3, <2>4 DEF Safe
  <1>14. ASSUME UnlockChecked \/ UnlockBegins \/ DisconnectEnds \/ ExitFires PROVE Safe'
    <2>1. UNCHANGED <<views, prepared, updating, service, vouched, stranded>>
      BY <1>14 DEF UnlockChecked, UnlockBegins, DisconnectEnds, ExitFires, leases, host, histories
    <2>2. running' = running \/ (running # "prepare" /\ running' # "prepare")
      BY <1>14 DEF UnlockChecked, UnlockBegins, DisconnectEnds, ExitFires, host
    <2>3. unlocker' = "opening" => running' = "unlock"
      BY <1>14 DEF UnlockChecked, UnlockBegins, DisconnectEnds, ExitFires, host, Safe, Holding, TypeOK
    <2>. QED
      BY <2>1, <2>2, <2>3, SafeFrame
  <1>15. ASSUME UnlockEnds PROVE Safe'
    <2>1. running = "unlock" /\ running' = "free" /\ unlocker' = "idle" /\ vouched' = FALSE
          /\ UNCHANGED <<views, prepared, updating, stranded>>
      BY <1>15 DEF UnlockEnds, Safe, Holding, leases
    <2>2. ~Preparing /\ ~Preparing'
      BY <2>1 DEF Safe, Holding, At
    <2>3. \/ service' = service
          \/ \A g \in Gates : ~service'.gates[g].paused
      BY <1>15, FreshGates DEF UnlockEnds
    <2>. QED
      BY <2>1, <2>2, <2>3
         DEF Safe, ShutIsIdle, Holding, Vouched, OwnerAlone, PausedHasOwner, Running
  <1>16. ASSUME Disconnect PROVE Safe'
    <2>1. running = "free" /\ running' = "disconnect" /\ vouched' = FALSE
          /\ UNCHANGED <<views, prepared, updating, unlocker, stranded>>
      BY <1>16 DEF Disconnect, leases
    <2>2. ~Preparing /\ ~Preparing' /\ unlocker # "opening"
      BY <2>1 DEF Safe, Holding, At
    <2>3. \A g \in Gates : ~service'.gates[g].paused
      BY <1>16, FreshGates DEF Disconnect
    <2>. QED
      BY <2>1, <2>2, <2>3
         DEF Safe, ShutIsIdle, Holding, Vouched, OwnerAlone, PausedHasOwner
  <1>17. ASSUME NEW h \in Gates, WorkBegins(h) \/ WorkEnds(h) PROVE Safe'
    <2>1. UNCHANGED <<views, prepared, updating, running, unlocker, vouched, stranded>>
          /\ (Preparing' <=> Preparing)
      BY <1>17 DEF WorkBegins, WorkEnds, leases, histories, At
    <2>2. /\ service'.up = service.up
          /\ \A g \in Gates : service'.gates[g].paused = service.gates[g].paused
          /\ \A g \in Gates : service.gates[g].paused => service'.gates[g].work = service.gates[g].work
      BY <1>17 DEF WorkBegins, WorkEnds, TypeOK, Services, Busy, Safe, ShutIsIdle
    <2>3. ShutIsIdle' /\ Vouched' /\ OwnerAlone' /\ PausedHasOwner'
      BY <2>1, <2>2 DEF Safe, ShutIsIdle, Vouched, OwnerAlone, PausedHasOwner, Running
    <2>4. Holding'
      BY <2>1, <2>2 DEF Safe, Holding, Running
    <2>. QED
      BY <2>3, <2>4 DEF Safe
  <1>18. ASSUME UNCHANGED vars PROVE Safe'
    BY <1>18, SafeFrame DEF vars, leases, host, histories, Safe, Holding
  <1>. QED
    BY <1>1, <1>2, <1>3, <1>4, <1>5, <1>6, <1>7, <1>8, <1>9, <1>10, <1>11, <1>12, <1>13, <1>14,
       <1>15, <1>16, <1>17, <1>18 DEF Next, Arm

\* The invariant holds throughout.
LEMMA SafeAlways == Spec => [](TypeOK /\ Safe)
  <1>1. Init => TypeOK /\ Safe
    BY TypeInit, SafeInit
  <1>2. TypeOK /\ Safe /\ [Next]_vars => (TypeOK /\ Safe)'
    BY TypeStep, SafeStep
  <1>. QED
    BY <1>1, <1>2, PTL DEF Spec

\* While a release is prepared, no window but its owner is attached.
THEOREM OwnerIsAlone == Spec => []OwnerAlone
  <1>1. TypeOK /\ Safe => OwnerAlone
    BY DEF Safe
  <1>. QED
    BY <1>1, SafeAlways, PTL

\* The service a Ready answer spoke of does no work until it ends or resumes,
\* however many networks it has and whatever requests and workers there are.
THEOREM PreparedQuiescence == Spec => []PreparedIsQuiescent
  <1>1. TypeOK /\ Safe => PreparedIsQuiescent
    <2>. SUFFICES ASSUME TypeOK, Safe, prepared # NoOwner, vouched
                  PROVE  Running /\ \A g \in Gates : service.gates[g].paused /\ ~Busy(g)
      BY DEF PreparedIsQuiescent
    <2>1. Running /\ \A g \in Gates : service.gates[g].paused
      BY DEF Safe, Vouched
    <2>2. \A g \in Gates : service.gates[g].work = 0
      BY <2>1 DEF Safe, ShutIsIdle
    <2>. QED
      BY <2>1, <2>2 DEF Busy
  <1>. QED
    BY <1>1, SafeAlways, PTL

\* No preparation that was answered leaves a gate paused without an owner.
THEOREM PausedIsOwned == Spec => []PausedHasOwner
  <1>1. TypeOK /\ Safe => PausedHasOwner
    BY DEF Safe
  <1>. QED
    BY <1>1, SafeAlways, PTL
=============================================================================
