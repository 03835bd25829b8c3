------------------------------ MODULE Settings ------------------------------
(***************************************************************************)
(* The settings of the browser and the configuration they edit:            *)
(* SettingsView.tsx with the sections of ui/SettingsSections.tsx, the      *)
(* calls of api/client.ts, and the handlers of GET and PUT /config         *)
(* (internal/web/config_api.go) with the copy the server keeps in memory.  *)
(*                                                                         *)
(* A PUT carries a whole configuration, the one the view holds with what   *)
(* one section edits replaced.  The server stores it in memory, then       *)
(* merges it into the file, without a lock; a switch of the management     *)
(* cluster changes one field in memory only (mgmts_api.go).  The write of  *)
(* the file is one step here: ConfigFile has its steps, and what two of    *)
(* them can do to each other concerns only what a configuration does not   *)
(* name.                                                                   *)
(*                                                                         *)
(* A field is a setting, or one entry of a map: env and aliases have a     *)
(* field for each key.  A section replaces its map as a whole; the merge   *)
(* with the file goes key by key.                                          *)
(***************************************************************************)
EXTENDS Naturals

CONSTANTS
    Views,      \* settings views, in tabs of their own
    Calls,      \* bound: PUT requests in flight
    Sections,   \* the sections with a draft
    Entries,    \* by section, its fields: settings, or the keys of a map
    First,      \* the section a view opens with
    Theme,      \* the theme, written as soon as it is picked
    Current,    \* the current management cluster, in no section
    Texts,      \* what a section's field can be
    Themes,     \* what the theme can be
    Clusters,   \* what the current management cluster can be
    Unset,      \* no text, no such key: left out of what is written
    Nobody      \* neither a view nor a call

ASSUME SettingsAssumption ==
    /\ First \in Sections /\ Theme \notin Sections
    /\ \A s \in Sections : Theme \notin Entries[s] /\ Current \notin Entries[s]
    /\ Theme # Current
    /\ Unset \notin Texts \cup Themes \cup Clusters
    /\ Nobody \notin Views \cup Calls

Tabs == Sections \cup {Theme}

\* What a tab of the view edits.
Edited(t) == IF t = Theme THEN {Theme} ELSE Entries[t]

Fields == {Current} \cup UNION {Edited(t) : t \in Tabs}
Values == Texts \cup Themes \cup Clusters \cup {Unset}
Configs == [Fields -> Values]
NoConfig == [f \in Fields |-> Unset]

VARIABLES
    mem,        \* s.opts.AppConfig
    file,       \* the configuration file
    page,       \* by view, how far it is
    cfg,        \* by view, its configuration; when asked, that of the answer
    tab,        \* by view, the section shown
    draft,      \* by view, what that section's fields are typed to
    put,        \* the PUT requests
    last,       \* the call whose configuration is in memory and not written
    doubt,      \* history: by view, fields it may show otherwise than they are
    adrift      \* history: fields in which file and memory may differ

viewVars == <<page, cfg, tab, draft>>
vars == <<mem, file, viewVars, put, last, doubt, adrift>>

-----------------------------------------------------------------------------

\* A call: its stage, the view that waits for it and whether the section shown
\* is the one that made it (useSectionSave's saving), the fields it is for and
\* the configuration it carries.
Stages == {"sent", "stored", "ok", "failed"}
Requests == [stage : Stages, by : Views \cup {Nobody}, saving : BOOLEAN,
             fields : SUBSET Fields, body : Configs]
Idle == [stage |-> "idle"]

InFlight == {c \in Calls : put[c] # Idle}
Of(v) == {c \in InFlight : put[c].by = v}
Saving(v) == \E c \in Of(v) : put[c].saving

\* What becomes of call r: when nobody waits for it, nothing; when it has failed,
\* what it carried no longer matters.
Ended(r, stage) ==
    IF r.by = Nobody THEN Idle
    ELSE IF stage = "failed" THEN [r EXCEPT !.stage = stage, !.body = NoConfig]
    ELSE [r EXCEPT !.stage = stage]

\* Nobody waits for call r any more, and no section is for its fields.
Orphan(r) ==
    IF r.stage \in {"ok", "failed"} THEN Idle
    ELSE [r EXCEPT !.by = Nobody, !.saving = FALSE, !.fields = {}]

\* What was loaded from the file.  There may be no current management cluster.
Init ==
    \E c \in Configs :
      /\ c[Theme] \in Themes /\ c[Current] \in Clusters \cup {Unset}
      /\ \A s \in Sections : \A f \in Entries[s] : c[f] \in Texts \cup {Unset}
      /\ mem = c
      /\ file = c
      /\ page = [v \in Views |-> "closed"]
      /\ cfg = [v \in Views |-> NoConfig]
      /\ tab = [v \in Views |-> First]
      /\ draft = [v \in Views |-> NoConfig]
      /\ put = [c1 \in Calls |-> Idle]
      /\ last = Nobody
      /\ doubt = [v \in Views |-> {}]
      /\ adrift = {}

TypeOK ==
    /\ mem \in Configs
    /\ file \in Configs
    /\ page \in [Views -> {"closed", "asking", "answered", "failed", "open"}]
    /\ cfg \in [Views -> Configs]
    /\ tab \in [Views -> Tabs]
    /\ draft \in [Views -> Configs]
    /\ put \in [Calls -> Requests \cup {Idle}]
    /\ last \in Calls \cup {Nobody}
    /\ doubt \in [Views -> SUBSET Fields]
    /\ adrift \in SUBSET Fields
    /\ last # Nobody => put[last] # Idle /\ put[last].stage = "stored"
    /\ \A v \in Views : Saving(v) => page[v] = "open" /\ tab[v] # Theme

-----------------------------------------------------------------------------
(* The handlers                                                            *)

Shows(v) == page[v] \in {"answered", "open"}

\* Memory becomes m: what a view shows may no longer be so.
Outdated(v, m) ==
    IF Shows(v) THEN doubt[v] \cup {f \in Fields : m[f] # mem[f]} ELSE doubt[v]

\* Memory becomes what call c carries: its view, if it waits for no other call,
\* again shows what is so.
Told(c) ==
    [v \in Views |->
       IF v # put[c].by THEN Outdated(v, put[c].body)
       ELSE IF Of(v) # {c} THEN doubt[v]
       ELSE {f \in doubt[v] \ put[c].fields : cfg[v][f] # put[c].body[f]}]

\* handlePutConfig refuses the body (400), or the request never arrives.
PutRefused(c) ==
    /\ put[c] # Idle /\ put[c].stage = "sent"
    /\ put' = [put EXCEPT ![c] = Ended(@, "failed")]
    /\ UNCHANGED <<mem, file, viewVars, last, doubt, adrift>>

\* s.opts.AppConfig = incoming.
PutStored(c) ==
    /\ put[c] # Idle /\ put[c].stage = "sent"
    /\ mem' = put[c].body
    /\ doubt' = Told(c)
    /\ put' = [put EXCEPT ![c].stage = "stored"]
    /\ last' = c
    /\ adrift' = adrift \ {Current}
    /\ UNCHANGED <<file, viewVars>>

\* Two handlers assign at once, with no lock: memory takes fields of both.
PutsRace(c, d) ==
    /\ c # d
    /\ put[c] # Idle /\ put[c].stage = "sent" /\ put[d] # Idle /\ put[d].stage = "sent"
    /\ \E mix \in [Fields -> {c, d}] :
         LET both == [f \in Fields |-> put[mix[f]].body[f]]
         IN  /\ mem' = both
             /\ doubt' = [v \in Views |->
                  IF v \notin {put[c].by, put[d].by} THEN Outdated(v, both)
                  ELSE doubt[v] \cup {f \in Fields :
                         \E e \in {c, d} : put[e].by = v /\ both[f] # put[e].body[f]}]
    /\ put' = [put EXCEPT ![c].stage = "stored", ![d].stage = "stored"]
    /\ last' = Nobody
    /\ adrift' = Fields
    /\ UNCHANGED <<file, viewVars>>

\* Faulty variant: a setting or a key that the file does not have is not added.
MergedAddingNothing(c) ==
    [f \in Fields |-> IF Unset \in {c[f], file[f]} THEN file[f] ELSE c[f]]

\* patchMappingValues, which goes into env and aliases: a setting or a key that
\* the configuration does not name stays in the file as it is.
Merged(c) == [f \in Fields |-> IF c[f] = Unset THEN file[f] ELSE c[f]]

\* WriteToFile returns: the answer is 200.  The file has what is in memory if
\* that is what was written, but for what it keeps and for a switch since.
PutWritten(c) ==
    /\ put[c] # Idle /\ put[c].stage = "stored"
    /\ file' = Merged(put[c].body)
    /\ put' = [put EXCEPT ![c] = Ended(@, "ok")]
    /\ last' = IF last = c THEN Nobody ELSE last
    /\ adrift' = CASE last = c -> (adrift \cap {Current})
                            \cup {f \in Fields : put[c].body[f] = Unset /\ file[f] # Unset}
                   [] last = Nobody -> Fields
                   [] OTHER -> adrift
    /\ UNCHANGED <<mem, viewVars, doubt>>

\* A view cannot know what became of a call that was stored and then failed.
Unknown(c) == [v \in Views |-> IF v = put[c].by THEN doubt[v] \cup put[c].fields ELSE doubt[v]]

\* WriteToFile fails (500): memory keeps what the file does not have.
PutNotWritten(c) ==
    /\ put[c] # Idle /\ put[c].stage = "stored"
    /\ put' = [put EXCEPT ![c] = Ended(@, "failed")]
    /\ doubt' = Unknown(c)
    /\ last' = IF last = c THEN Nobody ELSE last
    /\ adrift' = IF last = c THEN Fields ELSE adrift
    /\ UNCHANGED <<mem, file, viewVars>>

\* The connection is lost: the view takes the call for failed, the handler goes
\* on with it.
AnswerLost(c) ==
    /\ put[c] # Idle /\ put[c].stage # "failed" /\ put[c].by # Nobody
    /\ put' = [put EXCEPT ![c] = Orphan(@)]
    /\ doubt' = IF put[c].stage = "sent" THEN doubt ELSE Unknown(c)
    /\ UNCHANGED <<mem, file, viewVars, last, adrift>>

\* handlePutMgmtsCurrent's last assignment: in memory, never in the file.
Switch(x) ==
    /\ x # mem[Current]
    /\ mem' = [mem EXCEPT ![Current] = x]
    /\ doubt' = [v \in Views |-> Outdated(v, mem')]
    /\ adrift' = adrift \cup {Current}
    /\ UNCHANGED <<file, viewVars, put, last>>

\* The server ends, with every handler, and starts again with what it loads.
Restart ==
    /\ mem' = file
    /\ LET lost == {c \in InFlight : put[c].stage \in {"sent", "stored"}}
       IN  /\ put' = [c \in Calls |-> IF c \in lost THEN Ended(put[c], "failed")
                                      ELSE put[c]]
           /\ doubt' = [v \in Views |-> Outdated(v, file)
                          \cup UNION {put[c].fields : c \in {d \in lost \cap Of(v) : put[d].stage = "stored"}}]
    /\ last' = Nobody
    /\ adrift' = {}
    /\ UNCHANGED <<file, viewVars>>

-----------------------------------------------------------------------------
(* The view                                                                *)

\* What a section is seeded with (the useEffect on cfg): the theme has no draft.
Seed(c, t) == [f \in Fields |-> IF t # Theme /\ f \in Edited(t) THEN c[f] ELSE Unset]

Dirty(v) == draft[v] # Seed(cfg[v], tab[v])

\* Faulty variant: saving belongs to the view and not to the section.
StillMounted(v) == put

\* No section is waiting any more: the one that was is unmounted.
Unmounted(v) ==
    [c \in Calls |-> IF c \in Of(v) THEN [put[c] EXCEPT !.saving = FALSE] ELSE put[c]]

\* The gear of the header: mounts the view, which asks for the configuration.
Open(v) ==
    /\ page[v] = "closed"
    /\ page' = [page EXCEPT ![v] = "asking"]
    /\ UNCHANGED <<mem, file, cfg, tab, draft, put, last, doubt, adrift>>

\* handleGetConfig.
Answer(v) ==
    /\ page[v] = "asking"
    /\ page' = [page EXCEPT ![v] = "answered"]
    /\ cfg' = [cfg EXCEPT ![v] = mem]
    /\ doubt' = [doubt EXCEPT ![v] = {}]
    /\ UNCHANGED <<mem, file, tab, draft, put, last, adrift>>

\* The same while handlePutConfig assigns: fields of both configurations.
AnswerRaces(v, c) ==
    /\ page[v] = "asking"
    /\ page' = [page EXCEPT ![v] = "answered"]
    /\ put[c] # Idle /\ put[c].stage = "sent"
    /\ \E old \in SUBSET Fields :
         LET mixed == [f \in Fields |-> IF f \in old THEN mem[f] ELSE put[c].body[f]]
         IN  /\ cfg' = [cfg EXCEPT ![v] = mixed]
             /\ doubt' = [Told(c) EXCEPT ![v] = {f \in Fields : mixed[f] # put[c].body[f]}]
    /\ mem' = put[c].body
    /\ put' = [put EXCEPT ![c].stage = "stored"]
    /\ last' = c
    /\ adrift' = adrift \ {Current}
    /\ UNCHANGED <<file, tab, draft>>

\* setCfg: the configuration is there.
Loaded(v) ==
    /\ page[v] = "answered"
    /\ page' = [page EXCEPT ![v] = "open"]
    /\ draft' = [draft EXCEPT ![v] = Seed(cfg[v], tab[v])]
    /\ UNCHANGED <<mem, file, cfg, tab, put, last, doubt, adrift>>

\* The GET fails: the view stays as it is, with an error and no section.
LoadFails(v) ==
    /\ page[v] \in {"asking", "answered"}
    /\ page' = [page EXCEPT ![v] = "failed"]
    /\ cfg' = [cfg EXCEPT ![v] = NoConfig]
    /\ doubt' = [doubt EXCEPT ![v] = {}]
    /\ UNCHANGED <<mem, file, tab, draft, put, last, adrift>>

\* setView('main') unmounts the view: what it asked for comes back to nobody.
Close(v) ==
    /\ page[v] # "closed"
    /\ page' = [page EXCEPT ![v] = "closed"]
    /\ cfg' = [cfg EXCEPT ![v] = NoConfig]
    /\ tab' = [tab EXCEPT ![v] = First]
    /\ draft' = [draft EXCEPT ![v] = NoConfig]
    /\ put' = [c \in Calls |-> IF c \in Of(v) THEN Orphan(put[c]) ELSE put[c]]
    /\ doubt' = [doubt EXCEPT ![v] = {}]
    /\ UNCHANGED <<mem, file, last, adrift>>

\* Another section is mounted, with what the view holds; a draft is lost.
SelectTab(v, t) ==
    /\ page[v] # "closed" /\ tab[v] # t
    /\ tab' = [tab EXCEPT ![v] = t]
    /\ draft' = [draft EXCEPT ![v] = Seed(cfg[v], t)]
    /\ put' = Unmounted(v)
    /\ UNCHANGED <<mem, file, page, cfg, last, doubt, adrift>>

\* Typing, adding or removing a key, also while a save is on its way.
Type(v, f, x) ==
    /\ page[v] = "open" /\ tab[v] # Theme
    /\ draft' = [draft EXCEPT ![v][f] = x]
    /\ UNCHANGED <<mem, file, page, cfg, tab, put, last, doubt, adrift>>

\* SaveBar's second button.
Discard(v) ==
    /\ page[v] = "open" /\ tab[v] # Theme
    /\ Dirty(v) /\ ~Saving(v)
    /\ draft' = [draft EXCEPT ![v] = Seed(cfg[v], tab[v])]
    /\ UNCHANGED <<mem, file, page, cfg, tab, put, last, doubt, adrift>>

\* The configuration of view v with fields fs patched to what d has.
Patched(v, fs, d) == [f \in Fields |-> IF f \in fs THEN d[f] ELSE cfg[v][f]]

\* Faulty variant: the view shows the change before it is saved.
SendOptimistic(v, fs, d, saving) ==
    \E c \in Calls \ InFlight :
      /\ cfg' = [cfg EXCEPT ![v] = Patched(v, fs, d)]
      /\ put' = [put EXCEPT ![c] = [stage |-> "sent", by |-> v, saving |-> saving, fields |-> fs,
                                   body |-> Patched(v, fs, d)]]
      /\ UNCHANGED <<mem, file, page, tab, draft, last, doubt, adrift>>

\* putConfig with what a section or the theme's Select patches: of two calls of
\* one view, the later to be stored undoes the other.
Send(v, fs, d, saving) ==
    \E c \in Calls \ InFlight :
      /\ put' = [put EXCEPT ![c] = [stage |-> "sent", by |-> v, saving |-> saving, fields |-> fs,
                                   body |-> Patched(v, fs, d)]]
      /\ doubt' = IF Of(v) = {} THEN doubt
                  ELSE [doubt EXCEPT ![v] = @ \cup fs \cup UNION {put[e].fields : e \in Of(v)}]
      /\ UNCHANGED <<mem, file, viewVars, last, adrift>>

\* SaveBar's first button: run, saveSection.
Save(v) ==
    /\ page[v] = "open" /\ tab[v] # Theme
    /\ Dirty(v) /\ ~Saving(v)
    /\ Send(v, Edited(tab[v]), draft[v], TRUE)

\* The theme's Select: no draft, and nothing to keep it from being used again.
ToggleTheme(v) ==
    /\ page[v] = "open" /\ tab[v] = Theme
    /\ \E x \in Themes \ {cfg[v][Theme]} : Send(v, {Theme}, [cfg[v] EXCEPT ![Theme] = x], FALSE)

\* Faulty variant: the view keeps the configuration it was opened with.
SavedUnseen(c) ==
    /\ put[c] # Idle /\ put[c].stage = "ok"
    /\ put' = [put EXCEPT ![c] = Idle]
    /\ draft' = [draft EXCEPT ![put[c].by] = Seed(cfg[put[c].by], tab[put[c].by])]
    /\ UNCHANGED <<mem, file, page, cfg, tab, last, doubt, adrift>>

\* The answer is there: saveSection's or toggleTheme's setCfg, which seeds the
\* section shown anew, whatever was typed into it since.
Saved(c) ==
    /\ put[c] # Idle /\ put[c].stage = "ok"
    /\ put' = [put EXCEPT ![c] = Idle]
    /\ cfg' = [cfg EXCEPT ![put[c].by] = put[c].body]
    /\ draft' = [draft EXCEPT ![put[c].by] = Seed(put[c].body, tab[put[c].by])]
    /\ UNCHANGED <<mem, file, page, tab, last, doubt, adrift>>

\* jsonOrThrow throws, or fetch does: the error is shown and nothing changes.
SaveFails(c) ==
    /\ put[c] # Idle /\ put[c].stage = "failed"
    /\ put' = [put EXCEPT ![c] = Idle]
    /\ UNCHANGED <<mem, file, viewVars, last, doubt, adrift>>

-----------------------------------------------------------------------------

UserActs(v) ==
    \/ Open(v) \/ Close(v) \/ Discard(v) \/ Save(v) \/ ToggleTheme(v)
    \/ \E t \in Tabs : SelectTab(v, t)
    \/ \E f \in Edited(tab[v]), x \in Texts \cup {Unset} : Type(v, f, x)

Next ==
    \/ \E v \in Views : UserActs(v) \/ Answer(v) \/ Loaded(v) \/ LoadFails(v)
    \/ \E v \in Views, c \in Calls : AnswerRaces(v, c)
    \/ \E c, d \in Calls : PutsRace(c, d)
    \/ \E c \in Calls : 
         \/ PutRefused(c) \/ PutStored(c) \/ PutWritten(c) \/ PutNotWritten(c)
         \/ AnswerLost(c) \/ Saved(c) \/ SaveFails(c)
    \/ \E x \in Clusters : Switch(x)
    \/ Restart

Spec == Init /\ [][Next]_vars

-----------------------------------------------------------------------------
(* Properties                                                              *)

\* A field of an open view is what the server has, unless somebody else has
\* changed it since, a call for it is on its way or has failed halfway, or two
\* calls of the view overlapped (SettingsView.tsx:33-39).
ShownIsServed ==
    \A v \in Views : Shows(v) =>
      \A f \in Fields \ doubt[v] :
        cfg[v][f] = mem[f] \/ \E c \in Of(v) : f \in put[c].fields

\* When no write is pending the file has what memory has, so that a restart
\* loses nothing, but for a setting or a key of env or aliases that was removed
\* (and so comes back, write.go:122-153), a switch, a write that failed and writes
\* in another order than the assignments (config_api.go:24-30).
FileFollowsMemory ==
    (\A c \in InFlight : put[c].stage # "stored") =>
      \A f \in Fields \ adrift : file[f] = mem[f]

\* A save undoes nothing its view has seen: another setting changes with it only
\* where somebody had changed it since the view was told, or two calls of the
\* view overlapped ("always patching the freshest config", SettingsView.tsx:27).
ClobbersOnlyUnseen ==
    [][\A c \in InFlight :
         /\ put[c].stage = "sent" /\ put'[c] # Idle /\ put'[c].stage = "stored"
         /\ put[c].by # Nobody /\ \A d \in Calls \ {c} : put'[d] = put[d]
         => \A f \in Fields \ (put[c].fields \cup doubt[put[c].by]) : mem'[f] = mem[f]]_vars

=============================================================================
