--------------------------- MODULE RuntimeSettings ---------------------------
(****************************************************************************)
(* What the owner may change while natsumi runs (src/src/server/settings/,  *)
(* and the model routes and the fold of thinking-loop.ts).                  *)
(*                                                                          *)
(* The overrides are files.  The settings' changes go one after the other;  *)
(* the clients' choice of a route (model.use) and the command line do not   *)
(* wait for them.  The loop reads the choice of a route and of the fold     *)
(* before each turn, and a heartbeat looks at everything again.             *)
(*                                                                          *)
(* Bounds: MaxDeeds; one model.use and one look of the heartbeat at a time, *)
(* the heartbeat only as no change waits.  Which routes the lists mark as   *)
(* ready, and the checks of a value, are left out.                          *)
(****************************************************************************)
EXTENDS Parts, Sequences, SequencesExt

CONSTANTS
  Routes, Default,  \* the model routes of the config, and its default
  Keys, Values,     \* the settings of the shared file, and what they are set to
  Unset,            \* no override: the config's value
  Removable,        \* the routes a new config may leave out
  MaxDeeds          \* bound: the owner's changes, the events, and what befalls the routes and the server

ASSUME SettingsAssumption ==
  /\ Default \in Routes \ Removable /\ Removable \subseteq Routes /\ Unset \notin Routes \cup Values
  /\ Keys \cap {"all", "route", "fold"} = {} /\ MaxDeeds \in Nat

VARIABLES
  disk,       \* the files: the route chosen, the fold chosen, and the shared file's overrides
  listed,     \* the routes of the config the server runs with
  ready,      \* the routes whose key or login can be used now
  serving,         \* the server: "starting", "up", or "failed" when natsumi cannot talk
  chosen, route, folding, wanted,  \* of the loop: this.chosen, this.route, this.fold, this.routeWanted
  unit,       \* the unit of work in hand, and the choice it read
  events,     \* the events waiting
  published,  \* what the loop last said of its routes
  looks,      \* refreshRoutes() in progress: the heartbeat's, and a reset's
  choices,    \* chooseRoute() in progress: a client's, and a setting's
  asked,      \* RuntimeSettings.queue, in order
  overrides,  \* what the service read last
  told,       \* the list the devices have
  meant,      \* history: what the changes made so far leave in the shared file
  since,      \* history: the choices there were since the work in hand began
  deeds

settingsVars == <<disk, listed, ready, serving, chosen, route, folding, wanted, unit, events, published, looks, choices, asked, overrides, told,
                  meant, since, deeds>>
loopVars == <<serving, listed, ready, folding>>

Lookers == {"beat", "reset"}
Choosers == {"use", "set"}
Idle == [at |-> "idle", read |-> Default, event |-> FALSE, refused |-> FALSE]
Resting == [at |-> "idle", route |-> Default]
Refresh == [key |-> "all", value |-> Unset, at |-> "queued", seen |-> [k \in Keys |-> Unset]]
Change(key, value) == [Refresh EXCEPT !.key = key, !.value = value]

\* readChoice(): a route the config does not have gives way to the default.
ChoiceIn(file) == IF file.route \in listed THEN file.route ELSE Default
Choice == ChoiceIn(disk)
Unlisted == disk.route \notin listed \cup {Unset}
Fold == IF disk.fold = Unset THEN "off" ELSE disk.fold

\* view(): the overrides as they were read last, and the loop as it is.
View == [overrides |-> overrides, chosen |-> chosen, route |-> route, folding |-> folding]

\* A file was written: the choices there were since the work began.
Noted(file) ==
  /\ disk' = file
  /\ since' = since \cup {ChoiceIn(file)}

-----------------------------------------------------------------------------
(* The loop between turns.                                                  *)

\* pump(): an event, or a route to look at; free says that no work is in hand.
Pump(want, waiting, free) ==
  IF free /\ (want \/ waiting > 0)
  THEN /\ unit' = [Idle EXCEPT !.at = "read", !.event = waiting > 0]
       /\ events' = waiting - (IF waiting > 0 THEN 1 ELSE 0) /\ wanted' = FALSE /\ since' = {Choice}
  ELSE /\ unit' = IF free THEN Idle ELSE unit
       /\ events' = waiting /\ wanted' = want /\ UNCHANGED since

\* publishRoutes(): the devices hear of a change, and the settings are read again.
PublishRoutes ==
  /\ published' = [chosen |-> chosen', route |-> route']
  /\ asked' = IF published' = published THEN asked ELSE Append(asked, Refresh)

EventComes ==
  /\ serving = "up" /\ deeds < MaxDeeds
  /\ deeds' = deeds + 1
  /\ Pump(wanted, events + 1, unit.at = "idle")
  /\ UNCHANGED <<disk, listed, ready, serving, chosen, route, folding, published, looks, choices, asked, overrides, told, meant>>

\* followRoute(): the choice as it is on file.
WorkReads ==
  /\ unit.at = "read"
  /\ unit' = [unit EXCEPT !.at = IF Unlisted THEN "mend" ELSE "use", !.read = Choice]
  /\ UNCHANGED <<loopVars, disk, chosen, route, wanted, events, published, looks, choices, asked, overrides, told, meant, since, deeds>>

\* The record says so: the default is written over what was read.
WorkMends ==
  /\ unit.at = "mend"
  /\ unit' = [unit EXCEPT !.at = "use"]
  /\ Noted([disk EXCEPT !.route = Default])
  /\ UNCHANGED <<loopVars, chosen, route, wanted, events, published, looks, choices, asked, overrides, told, meant, deeds>>

\* A route that is not ready is not moved to, and nothing is tried in its place.
WorkUses ==
  LET moves == unit.read # route /\ unit.read \in ready IN
  /\ unit.at = "use"
  /\ chosen' = unit.read /\ UNCHANGED route
  /\ unit' = [unit EXCEPT !.at = IF moves THEN "move" ELSE "fold", !.refused = unit.read # route /\ ~moves]
  /\ IF moves THEN UNCHANGED <<published, asked>> ELSE PublishRoutes
  /\ UNCHANGED <<loopVars, disk, wanted, events, looks, choices, overrides, told, meant, since, deeds>>

\* setModel() may refuse; maintain() is of the loop's own module.
WorkMoves ==
  \E moved \in IF unit.read \in ready THEN {TRUE} ELSE BOOLEAN :
    /\ unit.at = "move"
    /\ unit' = [unit EXCEPT !.at = "fold", !.refused = ~moved]
    /\ route' = IF moved THEN unit.read ELSE route
    /\ UNCHANGED chosen /\ PublishRoutes
    /\ UNCHANGED <<loopVars, disk, wanted, events, looks, choices, overrides, told, meant, since, deeds>>

\* followFold(), and the turn of an event; a look at the route alone ends here.
WorkFolds ==
  /\ unit.at = "fold"
  /\ folding' = Fold
  /\ IF unit.event THEN unit' = [unit EXCEPT !.at = "turn"] /\ UNCHANGED <<wanted, events, since, looks>>
     ELSE /\ Pump(wanted, events, TRUE)
          /\ looks' = [w \in Lookers |-> IF looks[w].at = "wait" THEN [looks[w] EXCEPT !.at = "over"] ELSE looks[w]]
  /\ UNCHANGED <<disk, listed, ready, serving, chosen, route, published, choices, asked, overrides, told, meant, deeds>>

WorkEnds ==
  /\ unit.at = "turn"
  /\ Pump(wanted, events, TRUE)
  /\ looks' = [w \in Lookers |-> IF looks[w].at = "wait" THEN [looks[w] EXCEPT !.at = "over"] ELSE looks[w]]
  /\ UNCHANGED <<disk, listed, ready, serving, chosen, route, folding, published, choices, asked, overrides, told, meant, deeds>>

-----------------------------------------------------------------------------
(* chooseRoute(), and refreshRoutes().                                      *)

\* model.use: beside the settings' queue.
UseRoute(r) ==
  /\ serving = "up" /\ choices["use"].at = "idle" /\ r \in listed /\ deeds < MaxDeeds
  /\ choices' = [choices EXCEPT !["use"] = [at |-> "ready", route |-> r]]
  /\ deeds' = deeds + 1
  /\ UNCHANGED <<loopVars, disk, chosen, route, wanted, unit, events, published, looks, asked, overrides, told, meant, since>>

Refused(w) == IF w = "use" THEN "idle" ELSE "refused"

ChoiceIsReady(w) ==
  /\ choices[w].at = "ready"
  /\ choices' = [choices EXCEPT ![w].at = IF choices[w].route \in ready THEN "write" ELSE Refused(w)]
  /\ UNCHANGED <<loopVars, disk, chosen, route, wanted, unit, events, published, looks, asked, overrides, told, meant, since, deeds>>

ChoiceWrites(w) ==
  /\ choices[w].at = "write"
  /\ Noted([disk EXCEPT !.route = choices[w].route])
  /\ choices' = [choices EXCEPT ![w].at = "wrote"]
  /\ UNCHANGED <<loopVars, chosen, route, wanted, unit, events, published, looks, asked, overrides, told, meant, deeds>>

ChoiceTaken(w) ==
  /\ choices[w].at = "wrote"
  /\ chosen' = choices[w].route
  /\ Pump(TRUE, events, unit.at = "idle")
  /\ choices' = [choices EXCEPT ![w].at = IF w = "use" THEN "idle" ELSE "done"]
  /\ UNCHANGED <<loopVars, disk, route, published, looks, asked, overrides, told, meant, deeds>>

\* The heartbeat: refreshRoutes(), and refresh() of the settings.
Beats ==
  /\ serving = "up" /\ looks["beat"].at = "idle" /\ asked = <<>>
  /\ looks' = [looks EXCEPT !["beat"].at = "read"]
  /\ asked' = <<Refresh>>
  /\ UNCHANGED <<loopVars, disk, chosen, route, wanted, unit, events, published, choices, overrides, told, meant, since, deeds>>

LookReads(w) ==
  /\ looks[w].at = "read"
  /\ looks' = [looks EXCEPT ![w] = [at |-> IF Unlisted THEN "mend" ELSE "use", route |-> Choice]]
  /\ UNCHANGED <<loopVars, disk, chosen, route, wanted, unit, events, published, choices, asked, overrides, told, meant, since, deeds>>

LookMends(w) ==
  /\ looks[w].at = "mend"
  /\ Noted([disk EXCEPT !.route = Default])
  /\ looks' = [looks EXCEPT ![w].at = "use"]
  /\ UNCHANGED <<loopVars, chosen, route, wanted, unit, events, published, choices, asked, overrides, told, meant, deeds>>

\* Mutant: only a choice that is not the one seen last is news.
LookUsesChosen(w) ==
  LET read == looks[w].route
      news == read # chosen IN
  /\ looks[w].at = "use"
  /\ IF news /\ unit.at = "idle"
     THEN /\ Pump(TRUE, events, TRUE)
          /\ looks' = [looks EXCEPT ![w].at = "wait"] /\ UNCHANGED <<chosen, route, published, asked>>
     ELSE /\ wanted' = (wanted \/ news) /\ chosen' = read /\ UNCHANGED route /\ PublishRoutes
          /\ looks' = [looks EXCEPT ![w].at = "over"] /\ UNCHANGED <<unit, events, since>>
  /\ UNCHANGED <<loopVars, disk, choices, overrides, told, meant, deeds>>

\* A new choice is followed between turns; only as no work is in hand is that waited for.
LookUses(w) ==
  LET read == looks[w].route
      news == read # chosen \/ read # route IN
  /\ looks[w].at = "use"
  /\ IF news /\ unit.at = "idle"
     THEN /\ Pump(TRUE, events, TRUE)
          /\ looks' = [looks EXCEPT ![w].at = "wait"] /\ UNCHANGED <<chosen, route, published, asked>>
     ELSE /\ wanted' = (wanted \/ news) /\ chosen' = read /\ UNCHANGED route /\ PublishRoutes
          /\ looks' = [looks EXCEPT ![w].at = "over"] /\ UNCHANGED <<unit, events, since>>
  /\ UNCHANGED <<loopVars, disk, choices, overrides, told, meant, deeds>>

BeatOver ==
  /\ looks["beat"].at = "over"
  /\ looks' = [looks EXCEPT !["beat"] = Resting]
  /\ UNCHANGED <<loopVars, disk, chosen, route, wanted, unit, events, published, choices, asked, overrides, told, meant, since, deeds>>

-----------------------------------------------------------------------------
(* The settings' changes: serialize() runs one at a time.                   *)

Ask(op) ==
  /\ serving = "up" /\ deeds < MaxDeeds
  /\ asked' = Append(asked, op)
  /\ deeds' = deeds + 1
  /\ UNCHANGED <<loopVars, disk, chosen, route, wanted, unit, events, published, looks, choices, overrides, told, meant, since>>

\* Mutant: a change does not wait for the one before.
AnyTurn(i) == i \in DOMAIN asked

Turn(i) == i = 1 /\ asked # <<>>

\* set() and reset() up to their first write. The shared file is read whole, to be written whole.
OpBegins(i) ==
  LET op == asked[i]
      unwanted == op.key # "all" /\ (serving # "up" \/ (op.key = "route" /\ op.value \notin listed \cup {Unset}))
      chooses == op.key = "route" /\ op.value # Unset IN
  /\ Turn(i) /\ op.at = "queued"
  /\ asked' = IF unwanted THEN RemoveAt(asked, i)
              ELSE [asked EXCEPT ![i].at = CASE op.key = "all" -> "load" [] chooses -> "choosing" [] OTHER -> "write", ![i].seen = disk.shared]
  /\ choices' = IF chooses /\ ~unwanted THEN [choices EXCEPT !["set"] = [at |-> "ready", route |-> op.value]] ELSE choices
  /\ UNCHANGED <<loopVars, disk, chosen, route, wanted, unit, events, published, looks, overrides, told, meant, since, deeds>>

\* writeOverride() and clearOverride(); a route taken away is looked for again.
OpWrites(i) ==
  LET op == asked[i] IN
  /\ Turn(i) /\ op.at = "write"
  /\ Noted(CASE op.key = "route" -> [disk EXCEPT !.route = Unset]
             [] op.key = "fold" -> [disk EXCEPT !.fold = op.value]
             [] OTHER -> [disk EXCEPT !.shared = [op.seen EXCEPT ![op.key] = op.value]])
  /\ meant' = IF op.key \in Keys THEN [meant EXCEPT ![op.key] = op.value] ELSE meant
  /\ asked' = [asked EXCEPT ![i].at = IF op.key = "route" THEN "looking" ELSE "load"]
  /\ looks' = IF op.key = "route" THEN [looks EXCEPT !["reset"].at = "read"] ELSE looks
  /\ UNCHANGED <<loopVars, chosen, route, wanted, unit, events, published, choices, overrides, told, deeds>>

\* What the change went through the loop for has ended.
OpGoesOn(i) ==
  /\ Turn(i)
  /\ \/ /\ asked[i].at = "choosing" /\ choices["set"].at \in {"done", "refused"}
        /\ asked' = IF choices["set"].at = "done" THEN [asked EXCEPT ![i].at = "load"] ELSE RemoveAt(asked, i)
        /\ choices' = [choices EXCEPT !["set"] = Resting] /\ UNCHANGED looks
     \/ /\ asked[i].at = "looking" /\ looks["reset"].at = "over"
        /\ asked' = [asked EXCEPT ![i].at = "load"]
        /\ looks' = [looks EXCEPT !["reset"] = Resting] /\ UNCHANGED choices
  /\ UNCHANGED <<loopVars, disk, chosen, route, wanted, unit, events, published, overrides, told, meant, since, deeds>>

\* changed(): read again, and told to every device.
OpLoads(i) ==
  /\ Turn(i) /\ asked[i].at = "load"
  /\ overrides' = disk
  /\ told' = [View EXCEPT !.overrides = disk]
  /\ asked' = RemoveAt(asked, i)
  /\ UNCHANGED <<loopVars, disk, chosen, route, wanted, unit, events, published, looks, choices, meant, since, deeds>>

-----------------------------------------------------------------------------
(* The command line, the routes' keys, and a restart.                       *)

CommandLine ==
  /\ deeds < MaxDeeds
  /\ \/ \E r \in Routes : Noted([disk EXCEPT !.route = r])
     \/ \E f \in {"on", "off"} : Noted([disk EXCEPT !.fold = f])
  /\ deeds' = deeds + 1
  /\ UNCHANGED <<loopVars, chosen, route, wanted, unit, events, published, looks, choices, asked, overrides, told, meant>>

\* A login runs out, or is made again.
ReadyChanges(r) ==
  /\ deeds < MaxDeeds
  /\ ready' = IF r \in ready THEN ready \ {r} ELSE ready \cup {r}
  /\ deeds' = deeds + 1
  /\ UNCHANGED <<disk, listed, serving, chosen, route, folding, wanted, unit, events, published, looks, choices, asked, overrides, told, meant, since>>

\* The process ends, and comes again with a config that may have lost a route.
LoopRestarts ==
  /\ serving # "starting" /\ deeds < MaxDeeds
  /\ serving' = "starting"
  /\ \E gone \in SUBSET Removable : listed' = Routes \ gone
  /\ wanted' = FALSE /\ unit' = Idle /\ events' = 0 /\ asked' = <<>>
  /\ looks' = [w \in Lookers |-> Resting] /\ choices' = [w \in Choosers |-> Resting]
  /\ deeds' = deeds + 1
  /\ UNCHANGED <<disk, ready, chosen, route, folding, published, overrides, told, meant, since>>

\* start(): the choice as it was left; one that is not ready is not replaced by another.
LoopStarts ==
  /\ serving = "starting"
  /\ chosen' = Choice /\ folding' = Fold
  /\ disk' = IF Unlisted THEN [disk EXCEPT !.route = Default] ELSE disk
  /\ serving' = IF Choice \in ready THEN "up" ELSE "failed"
  /\ route' = IF Choice \in ready THEN Choice ELSE Unset
  /\ published' = [chosen |-> chosen', route |-> route']
  /\ overrides' = disk /\ told' = View' /\ since' = {Choice}
  /\ UNCHANGED <<listed, ready, wanted, unit, events, looks, choices, asked, meant, deeds>>

-----------------------------------------------------------------------------
SettingsInit ==
  /\ disk = [route |-> Unset, fold |-> Unset, shared |-> [k \in Keys |-> Unset]]
  /\ listed = Routes /\ ready \in {Routes, {Default}} /\ serving = "up"
  /\ chosen = Default /\ route = Default /\ folding = "off" /\ wanted = FALSE /\ unit = Idle /\ events = 0
  /\ published = [chosen |-> Default, route |-> Default]
  /\ looks = [w \in Lookers |-> Resting] /\ choices = [w \in Choosers |-> Resting] /\ asked = <<>>
  /\ overrides = disk /\ told = View /\ meant = [k \in Keys |-> Unset] /\ since = {Default}
  /\ deeds = 0

LoopGoesOn == WorkReads \/ WorkMends \/ WorkUses \/ WorkMoves \/ WorkFolds \/ WorkEnds
ChoiceGoesOn(w) == ChoiceIsReady(w) \/ ChoiceWrites(w) \/ ChoiceTaken(w)
LookGoesOn(w) == LookReads(w) \/ LookMends(w) \/ LookUses(w)
QueueGoesOn == \E i \in DOMAIN asked : OpBegins(i) \/ OpWrites(i) \/ OpGoesOn(i) \/ OpLoads(i)

SettingsNext ==
  \/ EventComes \/ LoopGoesOn \/ Beats \/ BeatOver \/ QueueGoesOn
  \/ \E r \in Routes : UseRoute(r) \/ ReadyChanges(r) \/ Ask(Change("route", r))
  \/ \E w \in Choosers : ChoiceGoesOn(w)
  \/ \E w \in Lookers : LookGoesOn(w)
  \/ \E k \in Keys, v \in Values \cup {Unset} : Ask(Change(k, v))
  \/ \E v \in {"on", Unset} : Ask(Change("fold", v))
  \/ Ask(Change("route", Unset))
  \/ CommandLine \/ LoopRestarts \/ LoopStarts

SettingsSpec == SettingsInit /\ [][SettingsNext]_settingsVars

\* The server's own steps go on, the heartbeat beats, and it is started again.
SettingsFairness ==
  /\ WF_settingsVars(part = "settings" /\ LoopGoesOn)
  /\ WF_settingsVars(part = "settings" /\ QueueGoesOn)
  /\ WF_settingsVars(part = "settings" /\ Beats) /\ WF_settingsVars(part = "settings" /\ BeatOver)
  /\ \A w \in Choosers : WF_settingsVars(part = "settings" /\ ChoiceGoesOn(w))
  /\ \A w \in Lookers : WF_settingsVars(part = "settings" /\ LookGoesOn(w))
  /\ WF_settingsVars(part = "settings" /\ LoopStarts)

-----------------------------------------------------------------------------
(* Properties.                                                              *)

SettingsTypeOK ==
  /\ disk \in [route : Routes \cup {Unset}, fold : {"on", "off", Unset}, shared : [Keys -> Values \cup {Unset}]]
  /\ listed \subseteq Routes /\ ready \subseteq Routes /\ serving \in {"starting", "up", "failed"}
  /\ chosen \in Routes /\ route \in Routes \cup {Unset} /\ folding \in {"on", "off"}
  /\ unit.at \in {"idle", "read", "mend", "use", "move", "fold", "turn"}
  /\ \A w \in Lookers : looks[w].at \in {"idle", "read", "mend", "use", "wait", "over"}
  /\ \A w \in Choosers : choices[w].at \in {"idle", "ready", "write", "wrote", "done", "refused"}

\* Two devices' changes of the shared file, each a read of it whole and a write of it whole, leave both.
NoOverrideLost == disk.shared = meant

\* A turn is on a route the owner chose, as it was on file since the work began, unless that one was not ready:
\* neither on a choice remembered from before nor on another tried in its place.
TurnOnTheChoice == unit.at = "turn" => route \in since \/ unit.refused

\* What goes through the loop for a change is there for the change at the head of the queue alone.
OneChangeAtATime ==
  /\ \A i \in DOMAIN asked : asked[i].at # "queued" => i = 1
  /\ choices["set"].at # "idle" => asked # <<>> /\ asked[1].at = "choosing"
  /\ looks["reset"].at # "idle" => asked # <<>> /\ asked[1].at = "looking"

\* The changes of the settings, with those beside their queue (settings/service.ts, thinking-loop.ts).
SettingsSafety == SettingsTypeOK /\ NoOverrideLost /\ TurnOnTheChoice /\ OneChangeAtATime

\* Whatever raced, once the owner changes nothing more the loop is on the choice on file if it can be, and every
\* device has the list as the files and the loop have it.
SettingsComeToRest ==
  part = "settings" => <>[](serving = "up" => /\ chosen = Choice /\ (route = chosen \/ chosen \notin ready)
                                         /\ told = View /\ overrides = disk)
=============================================================================
