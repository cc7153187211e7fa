------------------------------- MODULE Console -------------------------------
(***************************************************************************)
(* The settings page, the first-run wizard and the start of the service:   *)
(* what somebody asks for in the browser, what is stored, and what the     *)
(* running process, its notifier and its address check work with.          *)
(* Every SQL statement is one step; two administrators may save at once.   *)
(***************************************************************************)
EXTENDS Configuration, AddressCheck

CONSTANTS
    Installed, Files,   \* revpd.yaml as installed, and as edited
    Env,            \* the REVPD_ variables, a partial configuration
    Requests,       \* what a save may ask for: [values, reset]
    Users,          \* administrators at the settings page
    OldRows,        \* rows of settings an upgrade has removed
    Ports, RedirectPorts, Taken,
    MaxSaves, MaxStarts, MaxEdits

ASSUME ConsoleAssumption ==
    /\ Installed \in Config /\ \A f \in Files : f \in Config
    /\ DOMAIN Env \subseteq Registry
    /\ \A r \in Requests : /\ DOMAIN r.values \subseteq Registry
                           /\ r.reset \subseteq Registry
    /\ DOMAIN OldRows \intersect Registry = {}
    /\ MaxSaves \in Nat /\ MaxStarts \in Nat /\ MaxEdits \in Nat

VARIABLES
    file,           \* revpd.yaml
    settings,       \* the rows of app_settings
    fileCfg, cfg,   \* Server.fileCfg and Server.cfg; cfg is what was loaded
    up,             \* the service serves
    portal, redirect,   \* the addresses the two listeners got
    notifier,       \* the notifier's configuration
    save,           \* a request of an administrator to the settings page
    saves, starts, edits,   \* bounds
    tangled         \* "now": saves overlapped or failed half-way since the
                    \* start; "before": they did in an earlier run

storeVars == <<file, settings>>
processVars == <<fileCfg, cfg, up, portal, redirect, notifier>>
boundVars == <<saves, starts, edits, tangled>>
vars == <<storeVars, processVars, save, boundVars, addressVars>>

NoSave == [pc |-> "idle", values |-> <<>>, reset |-> {}, applied |-> <<>>]
Idle(u) == save[u].pc = "idle"

\* What AllSettings returns, as a partial function of the rows.
AllSettings == settings
Overrides(rows, values, reset) ==
    [key \in (DOMAIN rows \ reset) \union DOMAIN values |->
        IF key \in DOMAIN values THEN values[key] ELSE rows[key]]

WantedFromRunning == IF Applies(cfg, settings) THEN Layer(cfg, settings) ELSE cfg
\* The file with every stored override; one that does not validate falls
\* back to the running configuration.
WantedConfig == IF Applies(fileCfg, settings) THEN Layer(fileCfg, settings) ELSE cfg

----------------------------------------------------------------------------
(* cmdServe: load the file, lay the stored rows over it or go on without    *)
(* them, build what the process holds, open the ports.                      *)
BootWithoutCheck(base) == Layer(base, settings)
Boot(base) == Apply(base, settings)

Start ==
    /\ ~up /\ starts < MaxStarts /\ starts' = starts + 1
    /\ CanLoad(file, Env)
    /\ \E taken \in Taken :
         /\ portal' = Listen(Ports, taken) /\ portal' # ""
         /\ redirect' = Listen(RedirectPorts, taken \union {portal'})
    /\ up' = TRUE
    /\ fileCfg' = Loaded(file, Env)
    /\ cfg' = Boot(fileCfg')
    /\ notifier' = NotifyConfig(cfg')
    /\ NewService(PublicHost(cfg'), Detects(cfg'))
    /\ UNCHANGED <<storeVars, save, saves, edits, tangled,
                   address, moves>>

\* The process ends: by a restart somebody asked for, a signal or a crash.
Stop ==
    /\ up /\ up' = FALSE
    /\ save' = [u \in Users |-> NoSave]
    /\ check' = NoCheck /\ seen' = {}
    /\ tangled' = IF tangled # "no" \/ (\E u \in Users : ~Idle(u))
                  THEN "before" ELSE "no"
    /\ UNCHANGED <<storeVars, fileCfg, cfg, portal, redirect, notifier,
                   saves, starts, edits, host, detect, state, address, moves>>

\* Somebody edits revpd.yaml.  Nobody reads it before the next start, so an
\* edit under a running service is one after it stopped.
EditFile ==
    /\ ~up
    /\ edits < MaxEdits /\ edits' = edits + 1
    /\ file' \in Files \ {file}
    /\ UNCHANGED <<settings, processVars, save, saves, starts,
                   tangled, addressVars>>

----------------------------------------------------------------------------
(* handleSettingsSave                                                       *)
Rest(u) == UNCHANGED <<file, fileCfg, cfg, up, portal, redirect,
                       starts, edits>>

\* Reads the rows and judges the world as it would be afterwards.
AcceptedAlone(rows, r) == Applies(fileCfg, r.values)
Accepted(rows, r) == Applies(fileCfg, Overrides(rows, r.values, r.reset))
Submit(u) ==
    /\ up /\ Idle(u) /\ saves < MaxSaves
    /\ \E r \in Requests :
         /\ Accepted(AllSettings, r)
         /\ save' = [save EXCEPT ![u] = [NoSave EXCEPT !.pc = "clear",
                                          !.values = r.values, !.reset = r.reset]]
    /\ saves' = saves + 1
    /\ tangled' = IF \E v \in Users : ~Idle(v) THEN "now" ELSE tangled
    /\ Rest(u) /\ UNCHANGED <<settings, notifier, addressVars>>

\* ClearSetting, one statement for each key.
ClearSetting(u) ==
    /\ save[u].pc = "clear" /\ save[u].reset # {}
    /\ \E key \in save[u].reset :
         /\ settings' = [k \in DOMAIN settings \ {key} |-> settings[k]]
         /\ save' = [save EXCEPT ![u].reset = @ \ {key}]
    /\ Rest(u) /\ UNCHANGED <<notifier, addressVars, saves, tangled>>

\* ReplaceSettings, all values in one transaction.
ReplaceSettings(u) ==
    /\ save[u].pc = "clear" /\ save[u].reset = {}
    /\ settings' = Overrides(settings, save[u].values, {})
    /\ save' = [save EXCEPT ![u].pc = "read"]
    /\ Rest(u) /\ UNCHANGED <<notifier, addressVars, saves, tangled>>

\* Any of these statements may fail; the rest of the handler is skipped.
StatementFails(u) ==
    /\ save[u].pc = "clear"
    /\ save' = [save EXCEPT ![u] = NoSave]
    /\ tangled' = "now"
    /\ Rest(u) /\ UNCHANGED <<settings, notifier, addressVars, saves>>

ReadWanted(u) ==
    /\ save[u].pc = "read"
    /\ \E failed \in BOOLEAN :                  \* the query may fail
         /\ save' = [save EXCEPT ![u].pc = "host",
                         ![u].applied = IF failed THEN cfg ELSE WantedConfig]
         /\ tangled' = IF failed THEN "now" ELSE tangled
    /\ Rest(u) /\ UNCHANGED <<settings, notifier, addressVars, saves>>

ApplyHost(u) ==
    /\ save[u].pc = "host"
    /\ SetHost(PublicHost(save[u].applied))
    /\ save' = [save EXCEPT ![u].pc = "notify"]
    /\ Rest(u) /\ UNCHANGED <<settings, notifier, saves, tangled>>

Configure(u) ==
    /\ save[u].pc = "notify"
    /\ notifier' = NotifyConfig(save[u].applied)
    /\ save' = [save EXCEPT ![u] = NoSave]
    /\ Rest(u) /\ UNCHANGED <<settings, addressVars, saves, tangled>>

SaveStep(u) ==
    \/ ClearSetting(u) \/ ReplaceSettings(u) \/ StatementFails(u)
    \/ ReadWanted(u) \/ ApplyHost(u) \/ Configure(u)

----------------------------------------------------------------------------
Others == UNCHANGED <<storeVars, processVars, save, boundVars>>
TimerStep == up /\ TimerCheck /\ Others
Button == up /\ Refresh /\ Others
Checking == Publish /\ Others
World == (Move \/ IntervalPasses) /\ Others

Init ==
    /\ file = Installed /\ settings = OldRows
    /\ fileCfg = Loaded(file, Env) /\ cfg = fileCfg
    /\ up = FALSE /\ portal = "" /\ redirect = ""
    /\ notifier = NotifyConfig(cfg)
    /\ save = [u \in Users |-> NoSave]
    /\ saves = 0 /\ starts = 0 /\ edits = 0 /\ tangled = "no"
    /\ ServiceInit(PublicHost(cfg), Detects(cfg))

Next ==
    \/ Start \/ Stop \/ EditFile
    \/ \E u \in Users : Submit(u) \/ SaveStep(u)
    \/ TimerStep \/ Button \/ Checking \/ World

Spec == Init /\ [][Next]_vars
\* The timer runs and a check ends: its questions have a timeout.
FairSpec == Spec /\ WF_vars(TimerStep) /\ WF_vars(Checking)

----------------------------------------------------------------------------
TypeOK ==
    /\ file \in Config /\ fileCfg \in Config /\ cfg \in Config
    /\ DOMAIN settings \subseteq Registry \union DOMAIN OldRows
    /\ up \in BOOLEAN
    /\ notifier = NotifyConfig([cfg EXCEPT !["notify.enabled"] = notifier.enabled,
                                           !["notify.url"] = notifier.url])
    /\ \A u \in Users : save[u].pc \in {"idle", "clear", "read", "host", "notify"}
    /\ tangled \in {"no", "now", "before"}
    /\ AddressTypeOK

(* Whatever is stored, and however two saves were mixed, the process runs   *)
(* with a configuration that validates, and the notifier with one that has  *)
(* an address to post to (main.go:232-249, adminsettings.go:226-236).       *)
RunningIsValid ==
    up => Validate(cfg) /\ (notifier.enabled = "on" => notifier.url # "")

(* One save at a time changes a valid set into a valid set: it is judged as *)
(* a whole, resets and values together (adminsettings.go:151-175).          *)
StoredStaysValid ==
    up /\ tangled = "no" /\ edits = 0 /\ (\A u \in Users : Idle(u))
      => Applies(fileCfg, settings)

(* After a save nobody disturbed, the notifier and the address check work   *)
(* with what is stored over the file, also when a key was handed back to    *)
(* the file (adminsettings.go:191-203).                                     *)
SavedIsInForce ==
    up /\ tangled # "now" /\ (\A u \in Users : Idle(u)) /\ Applies(fileCfg, settings)
      => LET wanted == Layer(fileCfg, settings)
         IN notifier = NotifyConfig(wanted) /\ host = PublicHost(wanted)

(* A check that read the old host overwrites what SetHost published; the    *)
(* next one of the timer puts it right (service.go:195-254).                *)
StateCatchesUp == <>[](up => state.configured = host)
=============================================================================
