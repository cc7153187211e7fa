---------------------------- MODULE ConsoleProofs ---------------------------
(***************************************************************************)
(* Theorems about Console, for every file, environment and set of          *)
(* administrators, and whatever they ask for.                              *)
(***************************************************************************)
EXTENDS Console, TLAPS

Fields == DOMAIN NoSave

-----------------------------------------------------------------------------
(* The inductive invariant.                                                 *)

AllIdle == \A u \in Users : Idle(u)
Wanted == Layer(fileCfg, settings)

\* Saves are records, only a running service has one, and as long as nothing is
\* tangled there is one at most.
Shape ==
  /\ DOMAIN save = Users /\ \A u \in Users : DOMAIN save[u] = Fields
  /\ \A u \in Users : save[u].pc \in {"idle", "clear", "read", "host", "notify"}
  /\ DOMAIN fileCfg = Registry /\ fileCfg = [k \in Registry |-> fileCfg[k]]
  /\ save = [u \in Users |-> save[u]]
  /\ ~up => AllIdle
  /\ edits \in Nat
  /\ tangled # "now" => \A u, v \in Users : ~Idle(u) /\ ~Idle(v) => u = v

\* What a running service holds is valid, also what a save is about to apply.
Valid == up =>
  /\ Validate(fileCfg) /\ Validate(cfg)
  /\ notifier.enabled = "on" => notifier.url # ""
  /\ \A u \in Users : save[u].pc \in {"host", "notify"} => Validate(save[u].applied)

\* The file nobody edited is the one the service was installed with.
Unedited == edits = 0 =>
  /\ file = Installed /\ fileCfg = Loaded(Installed, Env)
  /\ up => CanLoad(Installed, Env)

\* What is stored applies, or will when the save under way is through its rows.
Stored == tangled = "no" /\ edits = 0 /\ CanLoad(Installed, Env) =>
  /\ AllIdle => Applies(fileCfg, settings)
  /\ \A u \in Users :
       /\ save[u].pc = "clear" =>
            Applies(fileCfg, Overrides(settings, save[u].values, save[u].reset))
       /\ save[u].pc \in {"read", "host", "notify"} => Applies(fileCfg, settings)

\* What is stored is in force, or will be when the save under way is through.
InForce == up /\ tangled # "now" /\ Applies(fileCfg, settings) =>
  /\ AllIdle => notifier = NotifyConfig(Wanted) /\ host = PublicHost(Wanted)
  /\ \A u \in Users :
       /\ save[u].pc \in {"host", "notify"} => save[u].applied = Wanted
       /\ save[u].pc = "notify" => host = PublicHost(Wanted)

IInv == Shape /\ Valid /\ Unedited /\ Stored /\ InForce

-----------------------------------------------------------------------------
(* Layers.                                                                  *)

LEMMA LayerDomain ==
  ASSUME NEW base, NEW rows
  PROVE  /\ DOMAIN Layer(base, rows) = Registry
         /\ Layer(base, rows) = [k \in Registry |-> Layer(base, rows)[k]]
BY DEF Layer

\* Rows of settings nobody knows any more change nothing.
LEMMA OldRowsApply ==
  ASSUME NEW base, base = [k \in Registry |-> base[k]], Validate(base)
  PROVE  Applies(base, OldRows)
<1>1. \A k \in Registry : k \notin DOMAIN OldRows
  BY ConsoleAssumption
<1>2. Layer(base, OldRows) = [k \in Registry |-> base[k]]
  BY <1>1 DEF Layer
<1>3. Known(OldRows) = {}
  BY <1>1 DEF Known
<1>4. QED BY <1>2, <1>3 DEF Applies

\* A configuration the notifier gets from a valid one has an address to post to.
LEMMA ValidNotifier ==
  ASSUME NEW c, Validate(c)
  PROVE  NotifyConfig(c).enabled = "on" => NotifyConfig(c).url # ""
BY DEF Validate, NotifyConfig

-----------------------------------------------------------------------------
(* The service starts, stops and is edited.                                 *)

LEMMA InitIInv ==
  ASSUME Init
  PROVE  IInv
<1>1. /\ file = Installed /\ settings = OldRows /\ fileCfg = Loaded(Installed, Env)
      /\ up = FALSE /\ save = [u \in Users |-> NoSave] /\ edits = 0 /\ tangled = "no"
  BY DEF Init
<1>2. \A u \in Users : save[u] = NoSave /\ save[u].pc = "idle"
  BY <1>1 DEF NoSave
<1>3. AllIdle
  BY <1>2 DEF AllIdle, Idle
<1>4. DOMAIN fileCfg = Registry /\ fileCfg = [k \in Registry |-> fileCfg[k]]
  BY <1>1, LayerDomain DEF Loaded
<1>5. Shape
  BY <1>1, <1>2, <1>3, <1>4 DEF Shape, Fields, AllIdle
<1>6. CanLoad(Installed, Env) => Applies(fileCfg, settings)
  <2>1. CanLoad(Installed, Env) => Validate(fileCfg)
    BY <1>1 DEF CanLoad, Applies, Loaded
  <2>2. QED BY <1>1, <1>4, <2>1, OldRowsApply
<1>7. Stored
  BY <1>2, <1>6 DEF Stored
<1>8. Valid /\ Unedited /\ InForce
  BY <1>1 DEF Valid, Unedited, InForce
<1>9. QED BY <1>5, <1>7, <1>8 DEF IInv

LEMMA StartKeeps ==
  ASSUME IInv, Start
  PROVE  IInv'
<1> DEFINE b == Loaded(file, Env)
           c == Boot(b)
<1>1. /\ ~up /\ CanLoad(file, Env) /\ up' = TRUE /\ fileCfg' = b /\ cfg' = c
      /\ notifier' = NotifyConfig(cfg') /\ host' = PublicHost(cfg')
      /\ UNCHANGED <<file, settings, save, edits, tangled>>
  BY DEF Start, NewService, storeVars
<1>2. Validate(b) /\ DOMAIN b = Registry /\ b = [k \in Registry |-> b[k]]
  BY <1>1, LayerDomain DEF CanLoad, Applies, Loaded
<1>3. /\ Validate(c)
      /\ Applies(b, settings) => c = Layer(b, settings)
  BY <1>2 DEF Boot, Apply, Applies
<1> HIDE DEF b, c
<1>4. AllIdle /\ \A u \in Users : save[u].pc = "idle"
  BY <1>1 DEF IInv, Shape, AllIdle, Idle
<1>5. Shape'
  BY <1>1, <1>2, <1>4 DEF IInv, Shape, AllIdle, Idle
<1>6. Valid'
  BY <1>1, <1>2, <1>3, <1>4, ValidNotifier DEF Valid
<1>7. Unedited'
  BY <1>1 DEF IInv, Unedited, b
<1>8. Stored'
  <2> SUFFICES ASSUME tangled = "no", edits = 0, CanLoad(Installed, Env) PROVE Stored'
    BY <1>1 DEF Stored
  <2>1. fileCfg' = fileCfg
    BY <1>1 DEF IInv, Unedited, b
  <2>2. QED BY <1>1, <1>4, <2>1 DEF IInv, Stored, AllIdle, Idle
<1>9. InForce'
  BY <1>1, <1>3, <1>4 DEF InForce, Wanted
<1>10. QED BY <1>5, <1>6, <1>7, <1>8, <1>9 DEF IInv

LEMMA StopKeeps ==
  ASSUME IInv, Stop
  PROVE  IInv'
<1>1. /\ up' = FALSE /\ save' = [u \in Users |-> NoSave]
      /\ UNCHANGED <<file, settings, fileCfg, edits>>
      /\ tangled' = "no" => tangled = "no" /\ AllIdle
      /\ tangled' # "now"
  BY DEF Stop, storeVars, AllIdle
<1>2. \A u \in Users : save'[u] = NoSave /\ save'[u].pc = "idle"
  BY <1>1 DEF NoSave
<1>3. AllIdle'
  BY <1>2 DEF AllIdle, Idle
<1>4. Shape'
  BY <1>1, <1>2, <1>3 DEF IInv, Shape, Fields, AllIdle, Idle
<1>5. Valid' /\ InForce'
  BY <1>1 DEF Valid, InForce
<1>6. Unedited'
  BY <1>1 DEF IInv, Unedited
<1>7. Stored'
  BY <1>1, <1>2 DEF IInv, Stored
<1>8. QED BY <1>4, <1>5, <1>6, <1>7 DEF IInv

LEMMA EditKeeps ==
  ASSUME IInv, EditFile
  PROVE  IInv'
<1>1. /\ ~up /\ up' = up /\ edits' = edits + 1
      /\ UNCHANGED <<settings, fileCfg, cfg, notifier, save, tangled>>
  BY DEF EditFile, processVars
<1>2. edits' \in Nat /\ edits' # 0
  BY <1>1 DEF IInv, Shape
<1>3. Shape'
  BY <1>1, <1>2 DEF IInv, Shape, AllIdle, Idle
<1>4. Valid' /\ InForce'
  BY <1>1 DEF Valid, InForce
<1>5. Unedited' /\ Stored'
  BY <1>2 DEF Unedited, Stored
<1>6. QED BY <1>3, <1>4, <1>5 DEF IInv

-----------------------------------------------------------------------------
(* A save.                                                                  *)

\* A step of u's save that leaves the service, the file and, unless it is named,
\* the rows alone.
LEMMA SavingShape ==
  ASSUME IInv, NEW u \in Users, up, NEW r, DOMAIN r = Fields,
         r.pc \in {"idle", "clear", "read", "host", "notify"},
         save' = [save EXCEPT ![u] = r],
         UNCHANGED <<up, fileCfg, edits>>,
         Idle(u) /\ (\E v \in Users : ~Idle(v)) => tangled' = "now",
         tangled = "now" => tangled' = "now"
  PROVE  /\ Shape'
         /\ \A v \in Users : save'[v] = IF v = u THEN r ELSE save[v]
<1>1. save = [v \in Users |-> save[v]]
  BY DEF IInv, Shape
<1>2. /\ \A v \in Users : save'[v] = IF v = u THEN r ELSE save[v]
      /\ save' = [v \in Users |-> save'[v]] /\ DOMAIN save' = Users
  BY <1>1
<1>3. tangled' # "now" =>
        \A v, w \in Users : ~Idle(v)' /\ ~Idle(w)' => v = w
  <2> SUFFICES ASSUME tangled' # "now", NEW v \in Users, NEW w \in Users, ~Idle(v)', ~Idle(w)'
               PROVE  v = w
    OBVIOUS
  <2>1. \A x \in Users : x # u => (Idle(x)' <=> Idle(x))
    BY <1>2 DEF Idle
  <2>2. \A x, y \in Users : ~Idle(x) /\ ~Idle(y) => x = y
    BY DEF IInv, Shape
  <2>3. CASE Idle(u)
    BY <2>1, <2>3
  <2>4. CASE ~Idle(u)
    BY <2>1, <2>2, <2>4
  <2>5. QED BY <2>3, <2>4
<1>4. Shape'
  BY <1>2, <1>3 DEF IInv, Shape, AllIdle
<1>5. QED BY <1>2, <1>4

\* While u saves and nothing is tangled, nobody else does.
LEMMA Alone ==
  ASSUME IInv, NEW u \in Users, ~Idle(u), tangled # "now", NEW v \in Users, v # u
  PROVE  save[v].pc = "idle"
BY DEF IInv, Shape, Idle

LEMMA SubmitKeeps ==
  ASSUME IInv, NEW u \in Users, Submit(u)
  PROVE  IInv'
<1>1. PICK q \in Requests :
        /\ Accepted(AllSettings, q)
        /\ save' = [save EXCEPT ![u] = [NoSave EXCEPT !.pc = "clear",
                                         !.values = q.values, !.reset = q.reset]]
  BY DEF Submit
<1> DEFINE r == [NoSave EXCEPT !.pc = "clear", !.values = q.values, !.reset = q.reset]
<1>2. DOMAIN r = Fields /\ r.pc = "clear" /\ r.values = q.values /\ r.reset = q.reset
  BY DEF NoSave, Fields
<1>3. /\ up /\ Idle(u) /\ save' = [save EXCEPT ![u] = r]
      /\ UNCHANGED <<up, file, fileCfg, cfg, edits, settings, notifier, host>>
      /\ tangled' = IF \E v \in Users : ~Idle(v) THEN "now" ELSE tangled
  BY <1>1 DEF Submit, Rest, addressVars
<1> HIDE DEF r
<1>4. Shape' /\ \A v \in Users : save'[v] = IF v = u THEN r ELSE save[v]
  BY <1>2, <1>3, SavingShape
<1>5. Valid'
  BY <1>2, <1>3, <1>4 DEF IInv, Valid
<1>6. Unedited'
  BY <1>3 DEF IInv, Unedited
<1>7. Applies(fileCfg, Overrides(settings, r.values, r.reset))
  BY <1>1, <1>2 DEF Accepted, AllSettings
<1>8. tangled' # "now" => AllIdle /\ tangled' = tangled
  BY <1>3 DEF AllIdle
<1>9. ~AllIdle'
  BY <1>2, <1>4 DEF AllIdle, Idle
<1>10. tangled' # "now" => \A v \in Users : save'[v].pc = "idle" \/ v = u
  BY <1>4, <1>8 DEF AllIdle, Idle
<1>11. Stored'
  BY <1>2, <1>3, <1>4, <1>7, <1>8, <1>9, <1>10 DEF Stored
<1>12. InForce'
  BY <1>2, <1>4, <1>9, <1>10 DEF InForce
<1>13. QED BY <1>4, <1>5, <1>6, <1>11, <1>12 DEF IInv

LEMMA ClearKeeps ==
  ASSUME IInv, NEW u \in Users, ClearSetting(u)
  PROVE  IInv'
<1>1. PICK key \in save[u].reset :
        /\ settings' = [k \in DOMAIN settings \ {key} |-> settings[k]]
        /\ save' = [save EXCEPT ![u].reset = @ \ {key}]
  BY DEF ClearSetting
<1> DEFINE o == save[u]
           r == [o EXCEPT !.reset = @ \ {key}]
<1>2. DOMAIN o = Fields /\ o.pc = "clear" /\ ~Idle(u) /\ up
  BY DEF ClearSetting, IInv, Shape, Idle, AllIdle
<1>3. /\ save' = [save EXCEPT ![u] = r]
      /\ UNCHANGED <<up, file, fileCfg, cfg, edits, notifier, host, tangled>>
  BY <1>1 DEF ClearSetting, Rest, addressVars
<1> HIDE DEF o
<1>4. DOMAIN r = Fields /\ r.pc = "clear" /\ r.values = o.values /\ r.reset = o.reset \ {key}
  BY <1>2 DEF Fields, NoSave
<1> HIDE DEF r
<1>5. Shape' /\ \A v \in Users : save'[v] = IF v = u THEN r ELSE save[v]
  <2>1. DOMAIN r = Fields /\ r.pc \in {"idle", "clear", "read", "host", "notify"}
    BY <1>4
  <2>2. UNCHANGED <<up, fileCfg, edits>> /\ tangled' = tangled
    BY <1>3
  <2>3. up /\ ~Idle(u) /\ save' = [save EXCEPT ![u] = r]
    BY <1>2, <1>3
  <2>4. QED BY <2>1, <2>2, <2>3, SavingShape
<1>6. Valid'
  BY <1>3, <1>4, <1>5 DEF IInv, Valid
<1>7. Unedited'
  BY <1>3 DEF IInv, Unedited
\* A row that is cleared was not going to be there anyway.
<1>8. Overrides(settings', r.values, r.reset) = Overrides(settings, o.values, o.reset)
  <2>1. key \in o.reset
    BY <1>1 DEF o
  <2>2. DOMAIN settings' = DOMAIN settings \ {key}
    BY <1>1
  <2>3. \A k \in DOMAIN settings' : settings'[k] = settings[k]
    BY <1>1
  <2> DEFINE values == o.values
             reset == o.reset
  <2> HIDE DEF values, reset
  <2>4. Overrides(settings', values, r.reset) = Overrides(settings, values, reset)
    <3>1. key \in reset /\ r.reset = reset \ {key}
      BY <1>4, <2>1 DEF reset
    <3>2. QED BY <2>2, <2>3, <3>1 DEF Overrides
  <2>5. QED BY <1>4, <2>4 DEF values, reset
<1>9. ~AllIdle' /\ (tangled # "now" => \A v \in Users : save'[v].pc = "idle" \/ v = u)
  BY <1>2, <1>4, <1>5, Alone DEF AllIdle, Idle
<1>10. Stored'
  <2> SUFFICES ASSUME tangled = "no", edits = 0, CanLoad(Installed, Env) PROVE Stored'
    BY <1>3 DEF Stored
  <2>1. Applies(fileCfg, Overrides(settings, o.values, o.reset))
    BY <1>2 DEF IInv, Stored, o
  <2>2. QED BY <1>3, <1>4, <1>5, <1>8, <1>9, <2>1 DEF Stored
<1>11. InForce'
  BY <1>3, <1>4, <1>5, <1>9 DEF InForce
<1>12. QED BY <1>5, <1>6, <1>7, <1>10, <1>11 DEF IInv

LEMMA ReplaceKeeps ==
  ASSUME IInv, NEW u \in Users, ReplaceSettings(u)
  PROVE  IInv'
<1> DEFINE o == save[u]
           r == [o EXCEPT !.pc = "read"]
<1>1. DOMAIN o = Fields /\ o.pc = "clear" /\ ~Idle(u) /\ up /\ o.reset = {}
  BY DEF ReplaceSettings, IInv, Shape, Idle, AllIdle
<1>2. /\ save' = [save EXCEPT ![u] = r]
      /\ settings' = Overrides(settings, o.values, {})
      /\ UNCHANGED <<up, file, fileCfg, cfg, edits, notifier, host, tangled>>
  BY DEF ReplaceSettings, Rest, addressVars
<1> HIDE DEF o
<1>3. DOMAIN r = Fields /\ r.pc = "read"
  BY <1>1 DEF Fields, NoSave
<1> HIDE DEF r
<1>4. Shape' /\ \A v \in Users : save'[v] = IF v = u THEN r ELSE save[v]
  BY <1>1, <1>2, <1>3, SavingShape
<1>5. Valid'
  BY <1>2, <1>3, <1>4 DEF IInv, Valid
<1>6. Unedited'
  BY <1>2 DEF IInv, Unedited
<1>7. ~AllIdle' /\ (tangled # "now" => \A v \in Users : save'[v].pc = "idle" \/ v = u)
  BY <1>1, <1>3, <1>4, Alone DEF AllIdle, Idle
<1>8. Stored'
  <2> SUFFICES ASSUME tangled = "no", edits = 0, CanLoad(Installed, Env) PROVE Stored'
    BY <1>2 DEF Stored
  <2>1. Applies(fileCfg, settings')
    BY <1>1, <1>2 DEF IInv, Stored, o
  <2>2. QED BY <1>2, <1>3, <1>4, <1>7, <2>1 DEF Stored
<1>9. InForce'
  BY <1>2, <1>3, <1>4, <1>7 DEF InForce
<1>10. QED BY <1>4, <1>5, <1>6, <1>8, <1>9 DEF IInv

LEMMA FailsKeeps ==
  ASSUME IInv, NEW u \in Users, StatementFails(u)
  PROVE  IInv'
<1>1. /\ up /\ ~Idle(u) /\ save' = [save EXCEPT ![u] = NoSave] /\ tangled' = "now"
      /\ UNCHANGED <<up, file, fileCfg, cfg, edits, notifier, host, settings>>
  BY DEF StatementFails, Rest, addressVars, IInv, Shape, AllIdle, Idle
<1>2. DOMAIN NoSave = Fields /\ NoSave.pc = "idle"
  BY DEF NoSave, Fields
<1>3. Shape' /\ \A v \in Users : save'[v] = IF v = u THEN NoSave ELSE save[v]
  BY <1>1, <1>2, SavingShape
<1>4. Valid'
  BY <1>1, <1>2, <1>3 DEF IInv, Valid
<1>5. Unedited' /\ Stored' /\ InForce'
  BY <1>1 DEF IInv, Unedited, Stored, InForce
<1>6. QED BY <1>3, <1>4, <1>5 DEF IInv

LEMMA ReadKeeps ==
  ASSUME IInv, NEW u \in Users, ReadWanted(u)
  PROVE  IInv'
<1>1. PICK failed \in BOOLEAN :
         /\ save' = [save EXCEPT ![u].pc = "host",
                         ![u].applied = IF failed THEN cfg ELSE WantedConfig]
         /\ tangled' = IF failed THEN "now" ELSE tangled
  BY DEF ReadWanted
<1> DEFINE o == save[u]
           a == IF failed THEN cfg ELSE WantedConfig
           r == [o EXCEPT !.pc = "host", !.applied = a]
<1>2. DOMAIN o = Fields /\ o.pc = "read" /\ ~Idle(u) /\ up
  BY DEF ReadWanted, IInv, Shape, Idle, AllIdle
<1>3. save = [v \in Users |-> save[v]]
  BY DEF IInv, Shape
<1>4. /\ save' = [save EXCEPT ![u] = r]
      /\ UNCHANGED <<up, file, fileCfg, cfg, edits, notifier, host, settings>>
  BY <1>1, <1>3 DEF ReadWanted, Rest, addressVars
<1>5. Validate(a)
  BY <1>2 DEF IInv, Valid, WantedConfig, Applies
<1>6. tangled' # "now" => tangled' = tangled /\ (Applies(fileCfg, settings) => a = Wanted)
  BY <1>1 DEF WantedConfig, Wanted
<1> HIDE DEF o, a
<1>7. DOMAIN r = Fields /\ r.pc = "host" /\ r.applied = a
  BY <1>2 DEF Fields, NoSave
<1> HIDE DEF r
<1>8. tangled = "now" => tangled' = "now"
  BY <1>1
<1>9. Shape' /\ \A v \in Users : save'[v] = IF v = u THEN r ELSE save[v]
  BY <1>2, <1>4, <1>7, <1>8, SavingShape
<1>10. Valid'
  BY <1>4, <1>5, <1>7, <1>9 DEF IInv, Valid
<1>11. Unedited'
  BY <1>4 DEF IInv, Unedited
<1>12. ~AllIdle' /\ (tangled # "now" => \A v \in Users : save'[v].pc = "idle" \/ v = u)
  BY <1>2, <1>7, <1>9, Alone DEF AllIdle, Idle
<1>13. Stored'
  <2> SUFFICES ASSUME tangled' = "no", edits = 0, CanLoad(Installed, Env) PROVE Stored'
    BY <1>4 DEF Stored
  <2>1. Applies(fileCfg, settings) /\ tangled = "no"
    BY <1>2, <1>6 DEF IInv, Stored, o
  <2>2. QED BY <1>4, <1>7, <1>9, <1>12, <2>1 DEF Stored
<1>14. InForce'
  <2> SUFFICES ASSUME tangled' # "now", Applies(fileCfg, settings) PROVE InForce'
    BY <1>4 DEF InForce
  <2>1. tangled # "now" /\ a = Wanted
    BY <1>6
  <2>2. QED BY <1>4, <1>7, <1>9, <1>12, <2>1 DEF InForce, Wanted
<1>15. QED BY <1>9, <1>10, <1>11, <1>13, <1>14 DEF IInv

LEMMA HostKeeps ==
  ASSUME IInv, NEW u \in Users, ApplyHost(u)
  PROVE  IInv'
<1> DEFINE o == save[u]
           r == [o EXCEPT !.pc = "notify"]
<1>1. DOMAIN o = Fields /\ o.pc = "host" /\ ~Idle(u) /\ up
  BY DEF ApplyHost, IInv, Shape, Idle, AllIdle
<1>2. /\ save' = [save EXCEPT ![u] = r] /\ host' = PublicHost(o.applied)
      /\ UNCHANGED <<up, file, fileCfg, cfg, edits, notifier, settings, tangled>>
  BY DEF ApplyHost, SetHost, Rest
<1>3. Validate(o.applied)
  BY <1>1 DEF IInv, Valid
<1>4. tangled # "now" /\ Applies(fileCfg, settings) => o.applied = Wanted
  BY <1>1 DEF IInv, InForce
<1>5. tangled = "no" /\ edits = 0 /\ CanLoad(Installed, Env) => Applies(fileCfg, settings)
  BY <1>1 DEF IInv, Stored
<1> HIDE DEF o
<1>6. DOMAIN r = Fields /\ r.pc = "notify" /\ r.applied = o.applied
  BY <1>1 DEF Fields, NoSave
<1> HIDE DEF r
<1>7. Shape' /\ \A v \in Users : save'[v] = IF v = u THEN r ELSE save[v]
  BY <1>1, <1>2, <1>6, SavingShape
<1>8. Valid'
  BY <1>2, <1>3, <1>6, <1>7 DEF IInv, Valid
<1>9. Unedited'
  BY <1>2 DEF IInv, Unedited
<1>10. ~AllIdle' /\ (tangled # "now" => \A v \in Users : save'[v].pc = "idle" \/ v = u)
  BY <1>1, <1>6, <1>7, Alone DEF AllIdle, Idle
<1>11. Stored'
  BY <1>2, <1>5, <1>6, <1>7, <1>10 DEF Stored
<1>12. InForce'
  <2> SUFFICES ASSUME tangled # "now", Applies(fileCfg, settings) PROVE InForce'
    BY <1>2 DEF InForce
  <2>1. r.applied = Wanted /\ host' = PublicHost(Wanted) /\ Wanted' = Wanted
    BY <1>2, <1>4, <1>6 DEF Wanted
  <2>2. QED BY <1>7, <1>10, <1>6, <2>1 DEF InForce
<1>13. QED BY <1>7, <1>8, <1>9, <1>11, <1>12 DEF IInv

LEMMA ConfigureKeeps ==
  ASSUME IInv, NEW u \in Users, Configure(u)
  PROVE  IInv'
<1> DEFINE a == save[u].applied
<1>1. /\ up /\ ~Idle(u) /\ save[u].pc = "notify" /\ save' = [save EXCEPT ![u] = NoSave]
      /\ notifier' = NotifyConfig(a)
      /\ UNCHANGED <<up, file, fileCfg, cfg, edits, settings, tangled, host>>
  BY DEF Configure, Rest, addressVars, IInv, Shape, AllIdle, Idle
<1>2. Validate(a)
  BY <1>1 DEF IInv, Valid
<1>3. tangled # "now" /\ Applies(fileCfg, settings) => a = Wanted /\ host = PublicHost(Wanted)
  BY <1>1 DEF IInv, InForce
<1>4. tangled = "no" /\ edits = 0 /\ CanLoad(Installed, Env) => Applies(fileCfg, settings)
  BY <1>1 DEF IInv, Stored
<1> HIDE DEF a
<1>5. DOMAIN NoSave = Fields /\ NoSave.pc = "idle"
  BY DEF NoSave, Fields
<1>6. Shape' /\ \A v \in Users : save'[v] = IF v = u THEN NoSave ELSE save[v]
  BY <1>1, <1>5, SavingShape
<1>7. Valid'
  BY <1>1, <1>2, <1>5, <1>6, ValidNotifier DEF IInv, Valid
<1>8. Unedited'
  BY <1>1 DEF IInv, Unedited
<1>9. tangled # "now" => \A v \in Users : save'[v].pc = "idle"
  BY <1>1, <1>5, <1>6, Alone
<1>10. Stored'
  BY <1>1, <1>4, <1>9 DEF Stored
<1>11. InForce'
  <2> SUFFICES ASSUME tangled # "now", Applies(fileCfg, settings) PROVE InForce'
    BY <1>1 DEF InForce
  <2>1. notifier' = NotifyConfig(Wanted) /\ host' = PublicHost(Wanted) /\ Wanted' = Wanted
    BY <1>1, <1>3 DEF Wanted
  <2>2. QED BY <1>9, <2>1 DEF InForce
<1>12. QED BY <1>6, <1>7, <1>8, <1>10, <1>11 DEF IInv

-----------------------------------------------------------------------------
(* The address check, and all of it.                                        *)

LEMMA CheckKeeps ==
  ASSUME IInv, UNCHANGED <<storeVars, processVars, save, edits, tangled, host>>
  PROVE  IInv'
<1>1. UNCHANGED <<file, settings, fileCfg, cfg, up, notifier, save, edits, tangled, host>>
  BY DEF storeVars, processVars
<1>2. Shape'
  BY <1>1 DEF IInv, Shape, AllIdle, Idle
<1>3. Valid'
  BY <1>1 DEF IInv, Valid
<1>4. Unedited'
  BY <1>1 DEF IInv, Unedited
<1>5. Stored' /\ InForce'
  BY <1>1 DEF IInv, Stored, InForce, AllIdle, Idle, Wanted
<1>6. QED BY <1>2, <1>3, <1>4, <1>5 DEF IInv

LEMMA NextKeeps ==
  ASSUME IInv, [Next]_vars
  PROVE  IInv'
<1>1. CASE Start \/ Stop \/ EditFile
  BY <1>1, StartKeeps, StopKeeps, EditKeeps
<1>2. ASSUME NEW u \in Users, Submit(u) \/ SaveStep(u) PROVE IInv'
  BY <1>2, SubmitKeeps, ClearKeeps, ReplaceKeeps, FailsKeeps, ReadKeeps, HostKeeps,
     ConfigureKeeps DEF SaveStep
<1>3. CASE TimerStep \/ Button \/ Checking \/ World
  <2>1. UNCHANGED <<storeVars, processVars, save, edits, tangled, host>>
    BY <1>3 DEF TimerStep, Button, Checking, World, Others, boundVars, TimerCheck, Refresh,
       Begin, Publish, Move, IntervalPasses
  <2>2. QED BY <2>1, CheckKeeps
<1>4. CASE UNCHANGED vars
  BY <1>4, CheckKeeps DEF vars, boundVars, addressVars
<1>5. QED BY <1>1, <1>2, <1>3, <1>4 DEF Next

\* The invariant the theorems below rest on.
THEOREM Invariance == Spec => []IInv
<1>1. Init => IInv
  BY InitIInv
<1>2. IInv /\ [Next]_vars => IInv'
  BY NextKeeps
<1>3. QED BY <1>1, <1>2, PTL DEF Spec

-----------------------------------------------------------------------------
(* What the run checks, for every gateway.                                  *)

\* Start and Configure never take a configuration Validate refused, whatever
\* two saves made of the rows between them (Apply, wantedConfig).
THEOREM NothingInvalidRuns == Spec => []RunningIsValid
<1>1. IInv => RunningIsValid
  BY DEF IInv, Valid, RunningIsValid
<1>2. QED BY <1>1, Invariance, PTL

\* handleSettingsSave judges the rows as they will be, and one save at a time
\* they become just that.
THEOREM OneSaveKeepsRowsValid == Spec => []StoredStaysValid
<1>1. IInv => StoredStaysValid
  BY DEF IInv, Unedited, Stored, StoredStaysValid, AllIdle
<1>2. QED BY <1>1, Invariance, PTL

\* SetHost and Configure get what is stored over the file, also where a key
\* went back to the file.
THEOREM SavesReachTheProcess == Spec => []SavedIsInForce
<1>1. IInv => SavedIsInForce
  BY DEF IInv, InForce, SavedIsInForce, AllIdle, Wanted
<1>2. QED BY <1>1, Invariance, PTL

=============================================================================
