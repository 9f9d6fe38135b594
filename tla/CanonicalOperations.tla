------------------------ MODULE CanonicalOperations ------------------------
(***************************************************************************)
(* Canonical operations from the panel to the driver: the panel shows a    *)
(* surface, a request names the surface's revision, the manager admits it  *)
(* only against the current one, lets the driver resolve the automatic     *)
(* settings, dispatches the configuration or the feature that results and  *)
(* answers with the surface that follows.  Meanwhile other callers         *)
(* configure, touch, switch the source and acquire, the driver may fault,  *)
(* and the panel reads the surface again when a lifecycle event tells it.  *)
(*                                                                         *)
(* Once the session has faulted requests are only refused, and none is     *)
(* made that was not on its way already.                                   *)
(*                                                                         *)
(* Modelled from InstrumentManager (instrument-manager.ts), the renderer's *)
(* event controller (instrument-events.ts), CanonicalOperationPanel.tsx    *)
(* and, through TinySaSurface, NeptuneCaptureSurface and SignalLabSurface, *)
(* the three drivers.  One session; a fault ends what is of interest in    *)
(* it.  Identical refresh events, and reads of the panel, that overlap are *)
(* counted once: each returns the surface of the moment it is answered.    *)
(***************************************************************************)
EXTENDS TinySaSurface, Sequences

Neptune == INSTANCE NeptuneCaptureSurface
Lab == INSTANCE SignalLabSurface

CONSTANTS Units,              \* the instruments one may connect to: a function to
                              \* [driver, caps, commands, edits]: "tinysa", "neptune"
                              \* or "signallab", how many commands all callers give it,
                              \* and whether the operator edits single settings
          LabStatuses         \* what SignalLab's status is at first

ASSUME UnitsAssumption ==
    \A u \in DOMAIN Units :
        LET c == Units[u].caps
        IN  /\ Units[u].driver = "tinysa" => AdvertisesTinySa(c)
            /\ Units[u].driver = "neptune" => Neptune!AdvertisesNeptune(c)
            /\ Units[u].driver = "signallab" =>
                   /\ Lab!AdvertisesLab(c)
                   /\ \A status \in LabStatuses :
                          /\ DOMAIN status = {"profile", "channel", "pinned", "epoch"} /\ status.epoch \in Nat
                          /\ status.profile \in DOMAIN c.profiles /\ status.pinned \in Lab!Widths \cup {None}

ASSUME UndefinedAssumption ==
    None \notin Lab!Widths \cup {SweepOp, PowerOp, Neptune!CaptureOp, Lab!SpectrumOp, Lab!ObserveOp, Lab!CaptureIqOp}

VARIABLES unit,       \* the connected one
          session,    \* the driver session
          mode,       \* the device's mode: "analyzer" or "generator"
          manager,    \* [configuration, overlay, rf, fault, revision, catalog]
          command,    \* the command the manager is executing, or NoCommand
          request,    \* the panel's request, sent or admitted, or NoRequest
          panel,      \* [surface, edits]
          changed,    \* the panel has been told to read the surface, and has not yet
          answers,    \* answers on their way to the panel
          budget      \* commands still to be made

vars == <<unit, session, mode, manager, command, request, panel, changed, answers, budget>>
panelVars == <<request, panel, changed, answers, budget>>

driver == Units[unit].driver
caps == Units[unit].caps
------------------------------------------------------------------------------
(* The driver behind its interface *)

DriverSurface ==
    CASE driver = "tinysa"    -> TinySaSurface(caps, session)
      [] driver = "neptune"   -> Neptune!NeptuneSurface(caps, session)
      [] driver = "signallab" -> Lab!SignalLabSurface(caps, session)

(* resolveCanonicalOperation: a configuration or a feature, or {}.         *)
Resolved(op, intents) ==
    CASE driver = "tinysa"    -> TinySaResolved(caps, session, op, intents)
      [] driver = "neptune"   -> Neptune!ResolvedCapture(caps, intents)
      [] driver = "signallab" -> Lab!ResolvedLab(caps, session, op, intents)

IsFeature(target) == "action" \in DOMAIN target

(* A feature the driver resolved waits in the driver for its dispatch.     *)
Staged(op, intents, target) ==
    CASE driver = "tinysa" /\ IsFeature(target)    -> Stage(session, op, intents, target)
      [] driver = "signallab" /\ IsFeature(target) -> Lab!LabStage(session, op, intents, target)
      [] OTHER -> session

(* requireCapability and requireFeatureCapability. *)
Binds(target) ==
    CASE driver = "tinysa" /\ ~IsFeature(target)    -> ReceiverBinds(caps, target)
      [] driver = "tinysa" /\ IsFeature(target)     -> target.action = "touch" \/ (caps.rf /\ SourceBinds(caps, target))
      [] driver = "neptune"                         -> Neptune!CaptureBinds(caps, target)
      [] driver = "signallab" /\ ~IsFeature(target) -> Lab!LabBinds(caps, manager.catalog, target)
      [] OTHER                                      -> TRUE

(* The manager's view: the intents of the admitted canonical configuration *)
(* in place of what the driver, which saw explicit values, calls requested.*)
NoOverlay == [operation |-> None, intents |-> None]

Surface ==
    LET surface == DriverSurface
    IN  IF manager.overlay = NoOverlay THEN surface
    ELSE [surface EXCEPT !.parameters[manager.overlay.operation] =
            [n \in DOMAIN @ |-> [@[n] EXCEPT !.requested = manager.overlay.intents[n]]]]
------------------------------------------------------------------------------
NoCommand == [stage |-> "none"]
NoRequest == [stage |-> "none"]

FreshManager(rf, catalog) ==
    [configuration |-> NoConfiguration, overlay |-> NoOverlay, rf |-> rf, fault |-> FALSE, revision |-> 0, catalog |-> catalog]

Init ==
    /\ unit \in DOMAIN Units
    /\ \/ /\ driver = "tinysa"
          /\ session = NoTinySa
          /\ manager = FreshManager(IF caps.rf THEN "off" ELSE "none", None)
       \/ /\ driver = "neptune"
          /\ session = Neptune!NoCapture
          /\ manager = FreshManager("none", None)
       \/ /\ driver = "signallab"
          /\ \E status \in LabStatuses :
                /\ session = Lab!NoSignalLab(status)
                /\ manager = FreshManager("none", Lab!Catalog(caps, status))
    /\ mode = "analyzer" /\ command = NoCommand /\ request = NoRequest
    /\ panel = [surface |-> None, edits |-> None]
    /\ changed = TRUE /\ answers = <<>> /\ budget = Units[unit].commands
------------------------------------------------------------------------------
(* The panel *)

AllAuto(parameters) == [n \in DOMAIN parameters |-> AutoIntent]

(* Edits of an operation stay in its panel until a surface of another      *)
(* revision arrives, also when the request they made was refused.          *)
Shown(op) ==
    IF panel.edits # None /\ panel.edits.operation = op THEN panel.edits.intents
    ELSE [n \in DOMAIN panel.surface.parameters[op] |-> panel.surface.parameters[op][n].requested]

(* Of a range: below it, its lowest values, its top on the lattice or not; *)
(* of options: all, if there is a choice.                                  *)
Values(domain) ==
    IF domain.kind = "number"
    THEN LET r == domain.range IN {r.min - 1, r.min, r.min + 1, MaximumReachable(r), r.max}
    ELSE {v \in domain.options : domain.options # {v}}

Intents(domain) == {AutoIntent} \cup {Manual(v) : v \in Values(domain)}

(* One setting is edited, and every setting of the operation is sent.  Run *)
(* and Single read the surface first and leave every setting automatic, as *)
(* the operator may.                                                       *)
MayAsk == budget > 0 /\ request = NoRequest /\ ~manager.fault

Asks(surface, op, intents) ==
    /\ request' = [stage |-> "sent", revision |-> surface.revision, operation |-> op, intents |-> intents]
    /\ budget' = budget - 1

Edit ==
    /\ MayAsk /\ panel.surface # None /\ Units[unit].edits
    /\ \E op \in DOMAIN panel.surface.parameters :
        \E n \in DOMAIN panel.surface.parameters[op] :
         \E choice \in Intents(panel.surface.parameters[op][n].domain) :
            LET intents == [Shown(op) EXCEPT ![n] = choice]
            IN  /\ Asks(panel.surface, op, intents)
                /\ panel' = [panel EXCEPT !.edits = [operation |-> op, intents |-> intents]]
    /\ UNCHANGED <<unit, session, mode, manager, command, changed, answers>>

AskAutomatic ==
    /\ MayAsk
    /\ \E surface \in {panel.surface, Surface} \ {None} :
        \E op \in DOMAIN surface.parameters : Asks(surface, op, AllAuto(surface.parameters[op]))
    /\ UNCHANGED <<unit, session, mode, manager, command, panel, changed, answers>>

(* Deliberate edits survive a surface of the same revision.                *)
Show(surface) ==
    panel' = [surface |-> surface,
              edits |-> IF panel.surface # None /\ panel.surface.revision = surface.revision THEN panel.edits ELSE None]

TakeAnswer ==
    /\ answers # <<>>
    /\ answers' = Tail(answers)
    /\ CASE Head(answers).kind = "read"    -> Show(Head(answers).surface) /\ UNCHANGED request
         [] Head(answers).kind = "applied" -> Show(Head(answers).surface) /\ request' = NoRequest
         [] Head(answers).kind = "refused" -> request' = NoRequest /\ UNCHANGED panel
    /\ UNCHANGED <<unit, session, mode, manager, command, changed, budget>>

(* 'configured', 'feature-result' and 'configuration-invalidated' make the *)
(* panel read the surface, as a connection did at first.  The read is      *)
(* answered at once, also while a command is in progress, but when the     *)
(* event and the read arrive is open; one read is under way at a time.     *)
ReadSurface ==
    /\ changed /\ \A i \in DOMAIN answers : answers[i].kind # "read"
    /\ changed' = FALSE
    /\ answers' = Append(answers, [kind |-> "read", surface |-> Surface])
    /\ UNCHANGED <<unit, session, mode, manager, command, request, panel, budget>>
------------------------------------------------------------------------------
(* The manager *)

(* The caller of a command is "panel" or another, whose answer is not      *)
(* followed.  The panel gets the surface after the command, or a refusal.  *)
Answer(caller, applied) ==
    answers' = IF caller # "panel" THEN answers
               ELSE IF applied
               THEN Append(answers, [kind |-> "applied", surface |-> Surface'])
               ELSE Append(answers, [kind |-> "refused"])

Uncertain(rf) == IF rf = "none" THEN "none" ELSE "unknown"
Invalidated(m) == [m EXCEPT !.configuration = NoConfiguration, !.overlay = NoOverlay]
Faulted(m) == [Invalidated(m) EXCEPT !.fault = TRUE, !.rf = Uncertain(@)]

IsOutput(target) == IsFeature(target) /\ target.action = "set-output"
IsSafe(target) == IsOutput(target) /\ ~target.enabled

IsBlocked(target) ==
    /\ IsFeature(target) /\ manager.rf \in {"on", "unknown"}
    /\ ~IsSafe(target) /\ target.action # "configure"

MayDispatch(target) == Binds(target) /\ ~IsBlocked(target)

(* The manager and the session once a command is on its way.  The output   *)
(* alone leaves the configuration bound.                                   *)
Dispatched(target) == [(IF IsOutput(target) THEN manager ELSE Invalidated(manager)) EXCEPT !.rf = Uncertain(@)]

Begun(s, target) ==
    CASE driver = "neptune"                       -> Neptune!NoCapture
      [] driver = "tinysa" /\ ~IsOutput(target)  -> ClearConfiguration(s)
      [] OTHER                                    -> s

(* The intents of a canonical configuration are kept beside it; those of   *)
(* another caller's are explicit, and the driver's surface says so.        *)
Admitted(m, c) ==
    [m EXCEPT !.configuration = c.target, !.revision = @ + 1, !.rf = IF @ = "none" THEN "none" ELSE "off",
              !.overlay = IF c.operation = None THEN NoOverlay
                          ELSE [operation |-> c.operation, intents |-> c.intents]]

Bound(s, target) ==
    IF driver = "tinysa" THEN ConfigurationAccepted(s, target)
    ELSE [s EXCEPT !.configuration = target, !.revision = manager.revision + 1]

(* SignalLab does what it is told before anything else can happen.         *)
LabConfigures(s, c) ==
    LET accepted == Lab!LabAccepts(caps, s, c.target)
    IN  /\ session' = IF accepted THEN Bound(s, c.target) ELSE s
        /\ manager' = IF accepted THEN Admitted(Dispatched(c.target), c) ELSE Dispatched(c.target)
        /\ changed' = (changed \/ accepted)
        /\ Answer(c.caller, accepted)

LabExecutes(s, c) ==
    LET next     == Lab!LabFeatureAccepted(s, c.target)
        catalog  == Lab!Catalog(caps, next.status)
        accepted == Lab!CatalogIsAdmissible(manager.catalog, catalog, c.target)
    IN  /\ session' = next
        /\ manager' = IF accepted
                      THEN [Dispatched(c.target) EXCEPT !.catalog = Lab!AdmittedCatalog(@, catalog, c.target)]
                      ELSE Faulted(manager)
        /\ changed' = (changed \/ accepted)
        /\ Answer(c.caller, accepted)

LabRefuses(s, c) ==
    /\ session' = Lab!LabFeatureRefused(s, c.target)
    /\ manager' = Faulted(manager)
    /\ Answer(c.caller, FALSE) /\ UNCHANGED changed

(* s: the session, with what its resolution staged. *)
Dispatch(s, c) ==
    \/ /\ driver = "signallab" /\ UNCHANGED command
       /\ \/ ~IsFeature(c.target) /\ LabConfigures(s, c)
          \/ IsFeature(c.target) /\ (LabExecutes(s, c) \/ LabRefuses(s, c))
    \/ /\ driver # "signallab"
       /\ session' = Begun(s, c.target) /\ manager' = Dispatched(c.target) /\ command' = c
       /\ UNCHANGED <<changed, answers>>

Refuse(s) ==
    /\ session' = s /\ Answer("panel", FALSE)
    /\ UNCHANGED <<manager, command, changed>>

Command(target, operation, intents, caller) ==
    [target |-> target, operation |-> operation, intents |-> intents, caller |-> caller, stage |-> "device"]

(* #executeCanonicalOperation, from the queue to the dispatch.             *)
Admit ==
    /\ request.stage = "sent" /\ command = NoCommand
    /\ request' = [request EXCEPT !.stage = "admitted"]
    /\ UNCHANGED <<unit, mode, panel, budget>>
    /\ LET surface  == Surface
           stale    == \/ manager.fault
                       \/ request.revision # surface.revision
                       \/ request.operation \notin DOMAIN surface.parameters
           resolved == IF stale THEN {} ELSE Resolved(request.operation, request.intents)
       IN  \/ resolved = {} /\ Refuse(session)
           \/ \E target \in resolved :
                 LET staged == Staged(request.operation, request.intents, target)
                 IN  IF MayDispatch(target)
                     THEN Dispatch(staged, Command(target, IF IsFeature(target) THEN None ELSE request.operation,
                                                   request.intents, "panel"))
                     ELSE Refuse(staged)

(* Another caller: a configuration or a source command like the ones the   *)
(* operations yield, or a touch.                                           *)
OtherIntents(settings) ==
    LET choices == {n \in DOMAIN settings : settings[n].domain.kind = "enum"}
    IN  {AllAuto(settings)} \cup
        (UNION {{[AllAuto(settings) EXCEPT ![n] = Manual(v)] : v \in settings[n].domain.options} : n \in choices})

OtherTargets ==
    (UNION {UNION {Resolved(op, intents) : intents \in OtherIntents(Surface.parameters[op])} : op \in DOMAIN Surface.parameters})
        \cup (IF driver = "tinysa" THEN {[action |-> "touch"]} ELSE {})

Other ==
    /\ budget > 0 /\ command = NoCommand
    /\ budget' = budget - 1
    /\ \E target \in OtherTargets :
          /\ MayDispatch(target) /\ (manager.fault => IsSafe(target))
          /\ Dispatch(session, Command(target, None, None, "other"))
    /\ UNCHANGED <<unit, mode, request, panel>>

(* Before an acquisition a TinySA that can transmit is told again not to.  *)
Acquire ==
    /\ budget > 0 /\ command = NoCommand
    /\ manager.configuration # NoConfiguration /\ manager.rf = "off"
    /\ budget' = budget - 1
    /\ manager' = [manager EXCEPT !.rf = "unknown"]
    /\ command' = [Command(OutputOff, None, None, "other") EXCEPT !.stage = "reassert"]
    /\ UNCHANGED <<unit, session, mode, request, panel, changed, answers>>
------------------------------------------------------------------------------
(* The device answers *)

Finishes(m, refresh) ==
    /\ manager' = m /\ command' = NoCommand
    /\ changed' = (changed \/ refresh)
    /\ Answer(command.caller, TRUE)

Fails(m) ==
    /\ manager' = m /\ command' = NoCommand
    /\ Answer(command.caller, FALSE) /\ UNCHANGED changed

Waits(stage) ==
    /\ command' = [command EXCEPT !.stage = stage]
    /\ UNCHANGED <<manager, changed, answers>>

(* #assertPostAwaitState: a session that faulted meanwhile lets only the   *)
(* output be switched off.                                                 *)
AcceptedAnswer ==
    LET target == command.target
    IN  IF manager.fault /\ ~IsSafe(target) THEN Fails(manager)
        ELSE CASE IsOutput(target) -> Finishes([manager EXCEPT !.rf = IF target.enabled THEN "on" ELSE "off"], TRUE)
               [] IsFeature(target) /\ target.action = "touch" -> Finishes(manager, TRUE)
               [] ~IsFeature(target) /\ manager.rf = "none" -> Finishes(Admitted(manager, command), TRUE)
               [] OTHER -> Waits("off")

Generates(target) == IsFeature(target) /\ target.action = "configure"

DeviceAccepts ==
    /\ command.stage = "device"
    /\ IsOutput(command.target) /\ command.target.enabled => mode = "generator"
    /\ mode' = CASE ~IsFeature(command.target) -> "analyzer"
                 [] Generates(command.target)  -> "generator"
                 [] OTHER                      -> mode
    /\ session' = CASE ~IsFeature(command.target) -> Bound(session, command.target)
                    [] Generates(command.target) \/ IsOutput(command.target) -> FeatureAccepted(session, command.target)
                    [] OTHER -> session
    /\ UNCHANGED <<unit, request, panel, budget>>
    /\ AcceptedAnswer

(* #acknowledgeRfOutputOff, after a configuration or before an acquisition. *)
OffIsAcknowledged ==
    /\ command.stage \in {"off", "reassert"}
    /\ session' = FeatureAccepted(session, OutputOff)
    /\ UNCHANGED <<unit, mode, request, panel, budget>>
    /\ IF manager.fault THEN Fails(manager)
       ELSE CASE command.stage = "reassert" -> Finishes([manager EXCEPT !.rf = "off"], FALSE)
              [] command.stage = "off" /\ Generates(command.target) -> Finishes([manager EXCEPT !.rf = "off"], TRUE)
              [] command.stage = "off" /\ ~IsFeature(command.target) -> Finishes(Admitted(manager, command), TRUE)

(* A failure faults the session unless it leaves nothing in doubt: a       *)
(* receiver that cannot transmit only loses its configuration.             *)
DeviceRefuses ==
    /\ command # NoCommand
    /\ session' = CASE command.stage # "device" -> FeatureRefused(session, OutputOff)
                    [] command.stage = "device" /\ IsFeature(command.target) -> FeatureRefused(session, command.target)
                    [] OTHER -> session
    /\ UNCHANGED <<unit, mode, request, panel, budget>>
    /\ Fails(IF IsFeature(command.target) \/ manager.rf # "none" THEN Faulted(manager) ELSE manager)

(* The device service reports a terminal fault.  One between commands only *)
(* makes the manager refuse those that follow, and is left out.            *)
DriverFaults ==
    /\ driver = "tinysa" /\ ~manager.fault /\ command # NoCommand
    /\ manager' = Faulted(manager)
    /\ UNCHANGED <<unit, session, mode, command, panelVars>>
------------------------------------------------------------------------------
Next ==
    \/ Edit \/ AskAutomatic \/ TakeAnswer \/ ReadSurface
    \/ Admit \/ Other \/ Acquire
    \/ DeviceAccepts \/ OffIsAcknowledged \/ DeviceRefuses \/ DriverFaults

Spec == Init /\ [][Next]_vars
------------------------------------------------------------------------------
(* Properties *)

Idle == command = NoCommand /\ ~manager.fault

(* Leaving every setting automatic always works: whatever was configured,  *)
(* selected or generated before, between commands each operation of the    *)
(* surface resolves to a command the manager's capability check admits     *)
(* (the drivers' automatic configurations against requireFeatureCapability *)
(* and instrumentConfigurationCapabilityBindingIssues).                    *)
AutomaticSettingsResolve ==
    Idle =>
        LET parameters == Surface.parameters
        IN  \A op \in DOMAIN parameters : \E target \in Resolved(op, AllAuto(parameters[op])) : Binds(target)

(* A revision names one surface: whatever the panel shows, or is about to  *)
(* show, under the current revision is the current surface, setting by     *)
(* setting.  The manager admits a request by its revision only, and the    *)
(* panel keeps an operator's edits across surfaces of one revision.        *)
RevisionNamesSurface ==
    LET shown == ({panel.surface} \cup {answers[i].surface : i \in {j \in DOMAIN answers : answers[j].kind # "refused"}}) \ {None}
        current == Surface
    IN  ~manager.fault => \A surface \in shown : surface.revision = current.revision => surface = current

(* An operation that was applied did what was asked: the surface in the    *)
(* reply shows the settings requested, and every explicit one in effect.   *)
(* A modulation rate takes effect with a modulation only.                  *)
ReplyHonoursRequest ==
    \A i \in DOMAIN answers : answers[i].kind = "applied" =>
        LET settings == answers[i].surface.parameters[request.operation]
            inert    == IF "modulation" \in DOMAIN settings /\ settings["modulation"].effective = "off" THEN {"rate"} ELSE {}
        IN  \A n \in DOMAIN settings :
                /\ settings[n].requested = request.intents[n]
                /\ IsManual(request.intents[n]) /\ n \notin inert =>
                       settings[n].effective = request.intents[n].value

(* Both, of what the panel is told and shows.                              *)
PanelIsToldTheTruth == RevisionNamesSurface /\ ReplyHonoursRequest

(* Between commands the manager's account of the session is the driver's:  *)
(* the configuration that measurements are bound to, whether the output is *)
(* on, and the source a capture is judged by.                              *)
ManagerMirrorsDriver ==
    Idle => /\ manager.configuration = session.configuration
            /\ driver = "tinysa" => (session.output <=> manager.rf = "on")
            /\ driver = "signallab" => manager.catalog = Lab!Catalog(caps, session.status)

(* "Every visible instrument value opens its direct editor in one action.  *)
(* A committed explicit value or `Auto` applies immediately"               *)
(* (docs/UI_UX_CONTRACTS.md:39): while an instrument is configured and     *)
(* nothing is on its way, an edit the panel makes is not refused for the   *)
(* revision it names.                                                      *)
DirectEditApplies ==
    Idle /\ manager.configuration # NoConfiguration /\ request = NoRequest /\ ~changed /\ answers = <<>> =>
        panel.surface.revision = Surface.revision
==============================================================================
