--------------------------- MODULE SettingsProofs ---------------------------
(***************************************************************************)
(* What a settings view shows, what the server has and what the file has,  *)
(* for any views, settings and number of calls in flight: where they may   *)
(* differ is what the history variables say, and nothing else.             *)
(***************************************************************************)
EXTENDS Settings, TLAPS

\* The stages of a call whose configuration is in memory.
Landed == {"stored", "ok"}

\* A view waits while it is open only.  It shows what is in memory, but for what
\* is stored and not yet told.  Its calls carry what is in memory, but for their
\* field until they are stored, and put that in doubt if they overlap.
ViewOK(v) ==
    /\ Of(v) # {} => page[v] = "open"
    /\ Shows(v) => \A f \in Fields \ doubt[v] :
         cfg[v][f] = mem[f] \/ \E c \in Of(v) : f \in put[c].fields /\ put[c].stage \in Landed
    /\ \A c \in Of(v), f \in Fields \ doubt[v] :
         \/ put[c].stage = "failed"
         \/ put[c].stage = "sent" /\ f \in put[c].fields
         \/ put[c].body[f] = mem[f]
    /\ \A c, d \in Of(v) : c # d => put[c].fields \subseteq doubt[v]

ViewInv == \A v \in Views : ViewOK(v)

\* What is stored and not written is in memory, but for a switch since; without
\* it the file has what memory has.
FileInv ==
    /\ last # Nobody => \A f \in Fields : mem[f] = put[last].body[f] \/ f \in adrift \cap {Current}
    /\ last = Nobody => \A f \in Fields \ adrift : file[f] = mem[f]

IInv == TypeOK /\ ViewInv /\ FileInv

-----------------------------------------------------------------------------
(* Calls                                                                   *)

\* No call at all is not a call.
LEMMA IdleIsApart == Idle \notin Requests
<1>1. \A r \in Requests : r.stage # Idle.stage
  BY DEF Requests, Stages, Idle
<1> QED
  BY <1>1

\* No configuration is one with every field left out.
LEMMA NoConfigIsConfig == NoConfig \in Configs
BY DEF NoConfig, Configs, Values

\* A call in flight is one, with what belongs to it.
LEMMA CallsAreRequests ==
  ASSUME TypeOK, NEW c \in Calls, put[c] # Idle
  PROVE  /\ c \in InFlight /\ put[c] \in Requests
         /\ put[c].stage \in Stages /\ put[c].by \in Views \cup {Nobody}
         /\ put[c].saving \in BOOLEAN /\ put[c].fields \subseteq Fields
         /\ put[c].body \in Configs
<1>1. put[c] \in Requests /\ c \in InFlight
  BY DEF TypeOK, InFlight
<1> QED
  BY <1>1 DEF Requests

\* What is left of a call that has ended.
LEMMA EndedIs ==
  ASSUME NEW r \in Requests, NEW stage \in {"ok", "failed"}
  PROVE  /\ r.by = Nobody => Ended(r, stage) = Idle
         /\ r.by # Nobody =>
              /\ Ended(r, stage) \in Requests
              /\ Ended(r, stage).stage = stage /\ Ended(r, stage).by = r.by
              /\ Ended(r, stage).saving = r.saving /\ Ended(r, stage).fields = r.fields
              /\ stage = "ok" => Ended(r, stage).body = r.body
<1>1. CASE r.by = Nobody
  BY <1>1 DEF Ended
<1>2. CASE r.by # Nobody /\ stage = "failed"
  <2>1. Ended(r, stage) = [r EXCEPT !.stage = stage, !.body = NoConfig]
    BY <1>2 DEF Ended
  <2> QED
    BY <1>2, <2>1, NoConfigIsConfig DEF Requests, Stages
<1>3. CASE r.by # Nobody /\ stage # "failed"
  <2>1. Ended(r, stage) = [r EXCEPT !.stage = stage]
    BY <1>3 DEF Ended
  <2> QED
    BY <1>3, <2>1 DEF Requests, Stages
<1> QED
  BY <1>1, <1>2, <1>3

\* What is left of a call nobody waits for.
LEMMA OrphanIs ==
  ASSUME NEW r \in Requests
  PROVE  /\ r.stage \in {"ok", "failed"} => Orphan(r) = Idle
         /\ r.stage \notin {"ok", "failed"} =>
              /\ Orphan(r) \in Requests
              /\ Orphan(r).stage = r.stage /\ Orphan(r).by = Nobody
              /\ Orphan(r).saving = FALSE /\ Orphan(r).body = r.body
<1>1. CASE r.stage \in {"ok", "failed"}
  BY <1>1 DEF Orphan
<1>2. CASE r.stage \notin {"ok", "failed"}
  <2>1. Orphan(r) = [r EXCEPT !.by = Nobody, !.saving = FALSE, !.fields = {}]
    BY <1>2 DEF Orphan
  <2>2. First \in Tabs
    BY SettingsAssumption DEF Tabs
  <2> QED
    BY <1>2, <2>1, <2>2 DEF Requests
<1> QED
  BY <1>1, <1>2

\* A call that is stored.
LEMMA StoredIs ==
  ASSUME NEW r \in Requests
  PROVE  /\ [r EXCEPT !.stage = "stored"] \in Requests
         /\ [r EXCEPT !.stage = "stored"].stage = "stored"
         /\ [r EXCEPT !.stage = "stored"].by = r.by
         /\ [r EXCEPT !.stage = "stored"].saving = r.saving
         /\ [r EXCEPT !.stage = "stored"].fields = r.fields
         /\ [r EXCEPT !.stage = "stored"].body = r.body
BY DEF Requests, Stages

\* The calls of a view are calls in flight, of no other view.
LEMMA OfView ==
  ASSUME TypeOK, NEW v \in Views, NEW c \in Of(v)
  PROVE  /\ c \in Calls /\ put[c] # Idle /\ put[c].by = v /\ v # Nobody
BY SettingsAssumption DEF Of, InFlight

\* Call c becomes r and no other call changes: it may lose its view.
LEMMA OneChanges ==
  ASSUME TypeOK, NEW c \in InFlight, NEW r \in Requests \cup {Idle},
         put' = [put EXCEPT ![c] = r],
         r # Idle => r.by \in {put[c].by, Nobody} /\ (r.saving => put[c].saving)
  PROVE  /\ put' \in [Calls -> Requests \cup {Idle}]
         /\ put'[c] = r
         /\ \A d \in Calls \ {c} : put'[d] = put[d]
         /\ InFlight' = IF r = Idle THEN InFlight \ {c} ELSE InFlight
         /\ \A v \in Views :
              /\ Of(v)' = IF v = put[c].by /\ (r = Idle \/ r.by = Nobody) THEN Of(v) \ {c} ELSE Of(v)
              /\ Saving(v)' => Saving(v)
<1>1. /\ put' \in [Calls -> Requests \cup {Idle}]
      /\ put'[c] = r /\ c \in Calls
      /\ \A d \in Calls \ {c} : put'[d] = put[d]
  BY DEF TypeOK, InFlight
<1>2. InFlight' = IF r = Idle THEN InFlight \ {c} ELSE InFlight
  BY <1>1 DEF InFlight
<1>3. ASSUME NEW v \in Views
      PROVE  Of(v)' = IF v = put[c].by /\ (r = Idle \/ r.by = Nobody) THEN Of(v) \ {c} ELSE Of(v)
  <2>1. v # Nobody
    BY SettingsAssumption
  <2>2. \A d \in Calls \ {c} : d \in Of(v)' <=> d \in Of(v)
    BY <1>1 DEF Of, InFlight
  <2>3. c \in Of(v) <=> v = put[c].by
    BY DEF Of
  <2>4. c \in Of(v)' <=> (r # Idle /\ v = r.by)
    BY <1>1 DEF Of, InFlight
  <2>5. c \in Of(v)' <=> (c \in Of(v) /\ ~(r = Idle \/ r.by = Nobody))
    BY <2>1, <2>3, <2>4
  <2>6. Of(v) \subseteq Calls /\ Of(v)' \subseteq Calls
    BY DEF Of, InFlight
  <2> QED
    BY <2>2, <2>3, <2>5, <2>6
<1>4. ASSUME NEW v \in Views, Saving(v)' PROVE Saving(v)
  <2>1. PICK d \in Of(v)' : put'[d].saving
    BY <1>4 DEF Saving
  <2>2. d \in Of(v) /\ d \in Calls
    BY <1>3, <2>1 DEF Of, InFlight
  <2>3. CASE d = c
    <3>1. r # Idle /\ r.saving
      BY <1>1, <2>1, <2>3 DEF Of, InFlight
    <3>2. put[c].saving
      BY <3>1
    <3> QED
      BY <2>2, <2>3, <3>2 DEF Saving
  <2>4. CASE d # c
    BY <1>1, <2>1, <2>2, <2>4 DEF Saving
  <2> QED
    BY <2>3, <2>4
<1> QED
  BY <1>1, <1>2, <1>3, <1>4

\* The steps of a call: r is what is left of call c.
Becomes(c, r) ==
    /\ c \in InFlight
    /\ r \in Requests \cup {Idle}
    /\ put' = [put EXCEPT ![c] = r]
    /\ r # Idle => r.by \in {put[c].by, Nobody} /\ (r.saving => put[c].saving)

\* Each step of a call is such a one.
LEMMA CallBecomes ==
  ASSUME TypeOK, NEW c \in Calls
  PROVE  /\ PutRefused(c) => Becomes(c, Ended(put[c], "failed"))
         /\ PutStored(c) => Becomes(c, [put[c] EXCEPT !.stage = "stored"])
         /\ PutWritten(c) => Becomes(c, Ended(put[c], "ok"))
         /\ PutNotWritten(c) => Becomes(c, Ended(put[c], "failed"))
         /\ AnswerLost(c) => Becomes(c, Orphan(put[c]))
         /\ Saved(c) => Becomes(c, Idle)
         /\ SaveFails(c) => Becomes(c, Idle)
<1> SUFFICES ASSUME put[c] # Idle
             PROVE  /\ PutRefused(c) => Becomes(c, Ended(put[c], "failed"))
                    /\ PutStored(c) => Becomes(c, [put[c] EXCEPT !.stage = "stored"])
                    /\ PutWritten(c) => Becomes(c, Ended(put[c], "ok"))
                    /\ PutNotWritten(c) => Becomes(c, Ended(put[c], "failed"))
                    /\ AnswerLost(c) => Becomes(c, Orphan(put[c]))
                    /\ Saved(c) => Becomes(c, Idle)
                    /\ SaveFails(c) => Becomes(c, Idle)
  BY DEF PutRefused, PutStored, PutWritten, PutNotWritten, AnswerLost, Saved, SaveFails
<1>1. c \in InFlight /\ put[c] \in Requests
  BY CallsAreRequests
<1>2. ASSUME NEW stage \in {"ok", "failed"}, put' = [put EXCEPT ![c] = Ended(put[c], stage)]
      PROVE  Becomes(c, Ended(put[c], stage))
  BY <1>1, <1>2, EndedIs DEF Becomes
<1>3. PutRefused(c) \/ PutNotWritten(c) => Becomes(c, Ended(put[c], "failed"))
  BY <1>2 DEF PutRefused, PutNotWritten
<1>4. PutWritten(c) => Becomes(c, Ended(put[c], "ok"))
  BY <1>2 DEF PutWritten
<1>5. PutStored(c) => Becomes(c, [put[c] EXCEPT !.stage = "stored"])
  BY <1>1, StoredIs DEF PutStored, Becomes
<1>6. AnswerLost(c) => Becomes(c, Orphan(put[c]))
  BY <1>1, OrphanIs DEF AnswerLost, Becomes
<1>7. Saved(c) \/ SaveFails(c) => Becomes(c, Idle)
  BY <1>1 DEF Saved, SaveFails, Becomes
<1> QED
  BY <1>3, <1>4, <1>5, <1>6, <1>7

\* A view sends a call.
Adds(v, c, fs, d) ==
    /\ InFlight' = InFlight \cup {c} /\ Of(v)' = Of(v) \cup {c}
    /\ put'[c].stage = "sent" /\ put'[c].fields = fs
    /\ put'[c].body = Patched(v, fs, d)
    /\ \A e \in Calls \ {c} : put'[e] = put[e]
    /\ doubt' = IF Of(v) = {} THEN doubt
                ELSE [doubt EXCEPT ![v] = @ \cup fs \cup UNION {put[e].fields : e \in Of(v)}]

\* Saving a section and picking a theme are such steps.
LEMMA SendAdds ==
  ASSUME TypeOK, NEW v \in Views, Save(v) \/ ToggleTheme(v)
  PROVE  /\ put' \in [Calls -> Requests \cup {Idle}]
         /\ page[v] = "open" /\ UNCHANGED <<mem, file, page, cfg, tab, draft, last, adrift>>
         /\ \E c \in Calls \ InFlight, fs \in SUBSET Fields, d \in Configs : Adds(v, c, fs, d)
         /\ \A u \in Views \ {v} : Of(u)' = Of(u)
         /\ \A u \in Views : Saving(u)' => Saving(u) \/ (u = v /\ tab[v] # Theme)
<1>0. PICK fs \in SUBSET Fields, d \in Configs, saving \in BOOLEAN :
        /\ Send(v, fs, d, saving)
        /\ page[v] = "open" /\ (saving = TRUE => tab[v] # Theme)
  <2>1. \A t \in Tabs : Edited(t) \subseteq Fields
    BY DEF Fields
  <2>2. CASE Save(v)
    <3>1. tab[v] \in Tabs /\ draft[v] \in Configs
      BY DEF TypeOK
    <3> QED
      BY <2>1, <2>2, <3>1 DEF Save
  <2>3. CASE ToggleTheme(v)
    <3>1. {Theme} \subseteq Fields
      BY <2>1 DEF Tabs, Edited
    <3>2. \A x \in Themes : [cfg[v] EXCEPT ![Theme] = x] \in Configs
      BY DEF TypeOK, Configs, Values
    <3> QED
      BY <2>3, <3>1, <3>2 DEF ToggleTheme
  <2> QED
    BY <2>2, <2>3
<1>1. PICK c \in Calls \ InFlight :
        /\ put' = [put EXCEPT ![c] = [stage |-> "sent", by |-> v, saving |-> saving, fields |-> fs,
                                      body |-> Patched(v, fs, d)]]
        /\ doubt' = IF Of(v) = {} THEN doubt
                    ELSE [doubt EXCEPT ![v] = @ \cup fs \cup UNION {put[e].fields : e \in Of(v)}]
        /\ UNCHANGED <<mem, file, page, cfg, tab, draft, last, adrift>>
  BY <1>0 DEF Send, viewVars
<1> DEFINE new == [stage |-> "sent", by |-> v, saving |-> saving, fields |-> fs,
                   body |-> Patched(v, fs, d)]
<1>2. Patched(v, fs, d) \in Configs
  BY DEF TypeOK, Configs, Patched
<1>3. new \in Requests /\ new # Idle
  <2>1. new \in Requests
    BY <1>2 DEF Requests, Stages
  <2> QED
    BY <2>1, IdleIsApart
<1>4. /\ put' \in [Calls -> Requests \cup {Idle}] /\ put'[c] = new
      /\ \A e \in Calls \ {c} : put'[e] = put[e]
  BY <1>1, <1>3 DEF TypeOK
<1>5. /\ put'[c].stage = "sent" /\ put'[c].fields = fs /\ put'[c].saving = saving /\ put'[c].by = v
      /\ put'[c].body = Patched(v, fs, d)
  BY <1>4
<1>6. InFlight' = InFlight \cup {c}
  BY <1>3, <1>4 DEF InFlight
<1> HIDE DEF new
<1>7. \A u \in Views : Of(u)' = IF u = v THEN Of(u) \cup {c} ELSE Of(u)
  <2>1. \A u \in Views : \A e \in Calls \ {c} : e \in Of(u)' <=> e \in Of(u)
    BY <1>4, <1>6 DEF Of, InFlight
  <2>2. \A u \in Views : (c \in Of(u)' <=> u = v) /\ c \notin Of(u)
    BY <1>5, <1>6 DEF Of
  <2>3. \A u \in Views : Of(u) \subseteq Calls /\ Of(u)' \subseteq Calls
    BY DEF Of, InFlight
  <2> QED
    BY <2>1, <2>2, <2>3
<1>8. ASSUME NEW u \in Views, Saving(u)' PROVE Saving(u) \/ (u = v /\ tab[v] # Theme)
  <2>1. PICK e \in Of(u)' : put'[e].saving
    BY <1>8 DEF Saving
  <2>2. CASE e = c
    BY <1>0, <1>5, <1>7, <2>1, <2>2 DEF Of, InFlight
  <2>3. CASE e # c
    <3>1. e \in Of(u) /\ put'[e] = put[e]
      BY <1>4, <1>7, <2>1, <2>3 DEF Of, InFlight
    <3> QED
      BY <2>1, <3>1 DEF Saving
  <2> QED
    BY <2>2, <2>3
<1>9. /\ c \in Calls \ InFlight /\ fs \in SUBSET Fields /\ d \in Configs /\ Adds(v, c, fs, d)
      /\ \A u \in Views \ {v} : Of(u)' = Of(u)
  BY <1>0, <1>1, <1>4, <1>5, <1>6, <1>7 DEF Adds
<1> QED
  BY <1>0, <1>1, <1>4, <1>8, <1>9

\* Two calls are stored at once.
LEMMA RaceStores ==
  ASSUME TypeOK, NEW c \in Calls, NEW d \in Calls, PutsRace(c, d)
  PROVE  /\ put' \in [Calls -> Requests \cup {Idle}]
         /\ c \in InFlight /\ d \in InFlight
         /\ \A e \in {c, d} : put[e].stage = "sent" /\ put'[e] = [put[e] EXCEPT !.stage = "stored"]
         /\ \A e \in Calls \ {c, d} : put'[e] = put[e]
         /\ InFlight' = InFlight
         /\ \A v \in Views : Of(v)' = Of(v) /\ (Saving(v)' => Saving(v))
<1>1. /\ c # d /\ put[c] \in Requests /\ put[d] \in Requests
      /\ c \in InFlight /\ d \in InFlight
      /\ put[c].stage = "sent" /\ put[d].stage = "sent"
      /\ put' = [put EXCEPT ![c] = [put[c] EXCEPT !.stage = "stored"],
                            ![d] = [put[d] EXCEPT !.stage = "stored"]]
  BY CallsAreRequests DEF PutsRace
<1>2. /\ put'[c] = [put[c] EXCEPT !.stage = "stored"]
      /\ put'[d] = [put[d] EXCEPT !.stage = "stored"]
      /\ \A e \in Calls \ {c, d} : put'[e] = put[e]
      /\ put' \in [Calls -> Requests \cup {Idle}]
  BY <1>1, StoredIs DEF TypeOK
<1>3. \A e \in {c, d} : put'[e] # Idle /\ put'[e].by = put[e].by /\ put'[e].saving = put[e].saving
  <2> SUFFICES ASSUME NEW e \in {c, d}
               PROVE  put'[e] # Idle /\ put'[e].by = put[e].by /\ put'[e].saving = put[e].saving
    OBVIOUS
  <2>1. put[e] \in Requests /\ put'[e] = [put[e] EXCEPT !.stage = "stored"]
    BY <1>1, <1>2
  <2> QED
    BY <2>1, StoredIs, IdleIsApart
<1>4. InFlight' = InFlight
  BY <1>1, <1>2, <1>3 DEF InFlight
<1>5. \A v \in Views : Of(v)' = Of(v)
  BY <1>2, <1>3, <1>4 DEF Of, InFlight
<1>6. \A v \in Views : Saving(v)' => Saving(v)
  BY <1>2, <1>3, <1>5 DEF Saving, Of, InFlight
<1> QED
  BY <1>1, <1>2, <1>4, <1>5, <1>6

-----------------------------------------------------------------------------
(* Types                                                                   *)

\* What the steps compute is a configuration, or a set of fields.
LEMMA ComputedTypes ==
  ASSUME TypeOK
  PROVE  /\ \A b \in Configs : Merged(b) \in Configs
         /\ \A v \in Views, m \in Configs : Outdated(v, m) \in SUBSET Fields
         /\ \A c \in InFlight : Told(c) \in [Views -> SUBSET Fields]
                                /\ Unknown(c) \in [Views -> SUBSET Fields]
         /\ \A b \in Configs, t \in Tabs : Seed(b, t) \in Configs
         /\ First \in Tabs /\ First # Theme /\ Unset \in Values
<1>1. \A b \in Configs : Merged(b) \in Configs
  BY DEF TypeOK, Merged, Configs
<1>2. \A v \in Views, m \in Configs : Outdated(v, m) \in SUBSET Fields
  BY DEF TypeOK, Outdated
<1>3. \A c \in InFlight : put[c].body \in Configs /\ put[c].fields \subseteq Fields
  BY CallsAreRequests DEF InFlight
<1>4. ASSUME NEW c \in InFlight
      PROVE  Told(c) \in [Views -> SUBSET Fields] /\ Unknown(c) \in [Views -> SUBSET Fields]
  <2>1. \A v \in Views : doubt[v] \in SUBSET Fields /\ Outdated(v, put[c].body) \in SUBSET Fields
    BY <1>2, <1>3 DEF TypeOK
  <2> QED
    BY <1>3, <2>1 DEF Told, Unknown
<1>5. \A b \in Configs, t \in Tabs : Seed(b, t) \in Configs
  BY DEF Seed, Configs, Values
<1>6. First \in Tabs /\ First # Theme /\ Unset \in Values
  BY SettingsAssumption DEF Tabs, Values
<1> QED
  BY <1>1, <1>2, <1>4, <1>5, <1>6

\* What a step of a call leaves of the types.
LEMMA CallKeepsTypes ==
  ASSUME TypeOK, NEW c \in InFlight, NEW r, Becomes(c, r),
         UNCHANGED <<page, tab>>,
         \/ last' = last /\ (last = c => r # Idle /\ r.stage = "stored")
         \/ last' = Nobody
         \/ last' = c /\ r # Idle /\ r.stage = "stored"
  PROVE  /\ put' \in [Calls -> Requests \cup {Idle}]
         /\ page' \in [Views -> {"closed", "asking", "answered", "failed", "open"}]
         /\ tab' \in [Views -> Tabs]
         /\ last' \in Calls \cup {Nobody}
         /\ last' # Nobody => put'[last'] # Idle /\ put'[last'].stage = "stored"
         /\ \A v \in Views : Saving(v)' => page'[v] = "open" /\ tab'[v] # Theme
<1>1. /\ put' \in [Calls -> Requests \cup {Idle}]
      /\ put'[c] = r /\ c \in Calls /\ c # Nobody
      /\ \A d \in Calls \ {c} : put'[d] = put[d]
      /\ \A v \in Views : Saving(v)' => Saving(v)
  BY OneChanges, SettingsAssumption DEF Becomes, InFlight
<1>2. \A v \in Views : Saving(v)' => page'[v] = "open" /\ tab'[v] # Theme
  BY <1>1 DEF TypeOK
<1>3. last' \in Calls \cup {Nobody}
  BY <1>1 DEF TypeOK
<1>4. last' # Nobody => put'[last'] # Idle /\ put'[last'].stage = "stored"
  BY <1>1 DEF TypeOK
<1> QED
  BY <1>1, <1>2, <1>3, <1>4 DEF TypeOK

\* The handlers keep the types.
LEMMA HandlersKeepTypes ==
  ASSUME TypeOK, NEW c \in Calls,
         \/ PutRefused(c) \/ PutStored(c) \/ PutWritten(c) \/ PutNotWritten(c)
         \/ AnswerLost(c) \/ Saved(c) \/ SaveFails(c)
  PROVE  TypeOK'
<1>1. c \in InFlight /\ put[c] \in Requests /\ put[c].body \in Configs /\ put[c].fields \subseteq Fields
      /\ put[c].by \in Views \cup {Nobody}
  BY CallsAreRequests DEF PutRefused, PutStored, PutWritten, PutNotWritten, AnswerLost, Saved,
     SaveFails
<1>2. last = c => put[c].stage = "stored"
  BY SettingsAssumption DEF TypeOK
<1>3. CASE PutRefused(c)
  BY <1>1, <1>2, <1>3, CallBecomes, CallKeepsTypes DEF PutRefused, TypeOK, viewVars
<1>4. CASE PutStored(c)
  <2>1. [put[c] EXCEPT !.stage = "stored"] # Idle
        /\ [put[c] EXCEPT !.stage = "stored"].stage = "stored"
    BY <1>1, StoredIs, IdleIsApart
  <2>2. mem' \in Configs /\ doubt' \in [Views -> SUBSET Fields] /\ adrift' \in SUBSET Fields
    BY <1>1, <1>4, ComputedTypes DEF PutStored, TypeOK
  <2> QED
    BY <1>1, <1>4, <2>1, <2>2, CallBecomes, CallKeepsTypes DEF PutStored, TypeOK, viewVars
<1>5. CASE PutWritten(c)
  <2>1. file' \in Configs /\ adrift' \in SUBSET Fields
    BY <1>1, <1>5, ComputedTypes DEF PutWritten, TypeOK
  <2> QED
    BY <1>1, <1>5, <2>1, CallBecomes, CallKeepsTypes DEF PutWritten, TypeOK, viewVars
<1>6. CASE PutNotWritten(c)
  <2>1. doubt' \in [Views -> SUBSET Fields] /\ adrift' \in SUBSET Fields
    BY <1>1, <1>6, ComputedTypes DEF PutNotWritten, TypeOK
  <2> QED
    BY <1>1, <1>6, <2>1, CallBecomes, CallKeepsTypes DEF PutNotWritten, TypeOK, viewVars
<1>7. CASE AnswerLost(c)
  <2>1. doubt' \in [Views -> SUBSET Fields]
    BY <1>1, <1>7, ComputedTypes DEF AnswerLost, TypeOK
  <2>2. put[c].stage = "stored" => Orphan(put[c]) # Idle /\ Orphan(put[c]).stage = "stored"
    BY <1>1, OrphanIs, IdleIsApart
  <2> QED
    BY <1>1, <1>2, <1>7, <2>1, <2>2, CallBecomes, CallKeepsTypes DEF AnswerLost, TypeOK, viewVars
<1>8. CASE Saved(c)
  <2>1. cfg' \in [Views -> Configs] /\ draft' \in [Views -> Configs]
    BY <1>1, <1>8, ComputedTypes DEF Saved, TypeOK
  <2> QED
    BY <1>1, <1>2, <1>8, <2>1, CallBecomes, CallKeepsTypes DEF Saved, TypeOK
<1>9. CASE SaveFails(c)
  BY <1>1, <1>2, <1>9, CallBecomes, CallKeepsTypes DEF SaveFails, TypeOK, viewVars
<1> QED
  BY <1>3, <1>4, <1>5, <1>6, <1>7, <1>8, <1>9

\* The calls of a view that is closed have nobody, the others what they had.
LEMMA CloseOrphans ==
  ASSUME TypeOK, NEW v \in Views, Close(v)
  PROVE  /\ put' \in [Calls -> Requests \cup {Idle}]
         /\ Of(v)' = {}
         /\ \A u \in Views \ {v} : Of(u)' = Of(u)
         /\ \A c \in Calls \ Of(v) : put'[c] = put[c]
         /\ \A c \in Of(v) : put[c].stage = "stored" =>
              put'[c] # Idle /\ put'[c].stage = "stored" /\ put'[c].body = put[c].body
<1>1. ASSUME NEW c \in Calls, c \in Of(v)
      PROVE  /\ put'[c] \in Requests \cup {Idle} /\ (put'[c] # Idle => put'[c].by = Nobody)
             /\ put[c].stage = "stored" =>
                  put'[c] # Idle /\ put'[c].stage = "stored" /\ put'[c].body = put[c].body
  <2>1. put[c] \in Requests /\ put'[c] = Orphan(put[c])
    BY <1>1, OfView, CallsAreRequests DEF Close
  <2>2. CASE put[c].stage \in {"ok", "failed"}
    BY <2>1, <2>2, OrphanIs
  <2>3. CASE put[c].stage \notin {"ok", "failed"}
    <3>1. put'[c] \in Requests /\ put'[c].by = Nobody /\ put'[c].stage = put[c].stage
          /\ put'[c].body = put[c].body
      BY <2>1, <2>3, OrphanIs
    <3> QED
      BY <3>1, IdleIsApart
  <2> QED
    BY <2>2, <2>3
<1>2. \A c \in Calls \ Of(v) : put'[c] = put[c]
  BY DEF Close
<1>3. put' \in [Calls -> Requests \cup {Idle}]
  <2>1. put' = [c \in Calls |-> put'[c]]
    BY DEF Close
  <2>2. \A c \in Calls : put'[c] \in Requests \cup {Idle}
    BY <1>1, <1>2 DEF TypeOK
  <2> QED
    BY <2>1, <2>2
<1>4. Nobody \notin Views
  BY SettingsAssumption
<1>5. Of(v)' = {}
  <2> SUFFICES ASSUME NEW c \in Of(v)' PROVE FALSE
    OBVIOUS
  <2>1. c \in Calls /\ put'[c] # Idle /\ put'[c].by = v
    BY DEF Of, InFlight
  <2>2. c \in Of(v)
    BY <1>2, <2>1 DEF Of, InFlight
  <2> QED
    BY <1>1, <1>4, <2>1, <2>2
<1>6. ASSUME NEW u \in Views \ {v} PROVE Of(u)' = Of(u)
  <2>1. ASSUME NEW c \in Calls PROVE c \in Of(u)' <=> c \in Of(u)
    <3>1. CASE c \in Of(v)
      <4>1. c \notin Of(u)
        BY <3>1 DEF Of
      <4>2. c \notin Of(u)'
        BY <1>1, <1>4, <3>1 DEF Of, InFlight
      <4> QED
        BY <4>1, <4>2
    <3>2. CASE c \notin Of(v)
      BY <1>2, <3>2 DEF Of, InFlight
    <3> QED
      BY <3>1, <3>2
  <2> QED
    BY <2>1 DEF Of, InFlight
<1> QED
  BY <1>1, <1>2, <1>3, <1>5, <1>6 DEF Of, InFlight

\* Another section is shown: nobody's saving is seen any more, and that is all.
LEMMA UnmountedKeeps ==
  ASSUME TypeOK, NEW v \in Views, put' = Unmounted(v)
  PROVE  /\ put' \in [Calls -> Requests \cup {Idle}]
         /\ InFlight' = InFlight /\ \A u \in Views : Of(u)' = Of(u)
         /\ ~Saving(v)' /\ \A u \in Views : Saving(u)' => Saving(u)
         /\ \A c \in InFlight : /\ put'[c].stage = put[c].stage /\ put'[c].fields = put[c].fields
                                /\ put'[c].body = put[c].body
<1>1. ASSUME NEW c \in InFlight
      PROVE  /\ put'[c] \in Requests /\ put'[c] # Idle /\ put'[c].by = put[c].by
             /\ put'[c].stage = put[c].stage /\ put'[c].fields = put[c].fields
             /\ put'[c].body = put[c].body
             /\ put'[c].saving => put[c].saving /\ c \notin Of(v)
  <2>1. c \in Calls /\ put[c] \in Requests
    BY CallsAreRequests DEF InFlight
  <2>2. CASE c \in Of(v)
    <3>1. put'[c] = [put[c] EXCEPT !.saving = FALSE]
      BY <2>1, <2>2 DEF Unmounted
    <3>2. /\ put'[c] \in Requests /\ put'[c].by = put[c].by /\ put'[c].saving = FALSE
          /\ put'[c].stage = put[c].stage /\ put'[c].fields = put[c].fields
          /\ put'[c].body = put[c].body
      BY <2>1, <3>1 DEF Requests
    <3> QED
      BY <3>2, IdleIsApart
  <2>3. CASE c \notin Of(v)
    <3>1. put'[c] = put[c]
      BY <2>1, <2>3 DEF Unmounted
    <3> QED
      BY <2>1, <2>3, <3>1, IdleIsApart
  <2> QED
    BY <2>2, <2>3
<1>2. \A c \in Calls \ InFlight : put'[c] = Idle
  BY DEF Unmounted, Of, InFlight
<1>3. put' \in [Calls -> Requests \cup {Idle}]
  <2>1. \A c \in Calls : put'[c] \in Requests \cup {Idle}
    BY <1>1, <1>2
  <2> QED
    BY <2>1 DEF Unmounted
<1>4. InFlight' = InFlight
  BY <1>1, <1>2 DEF InFlight
<1>5. \A u \in Views : Of(u)' = Of(u)
  BY <1>1, <1>4 DEF Of
<1>6. ~Saving(v)' /\ \A u \in Views : Saving(u)' => Saving(u)
  BY <1>1, <1>5 DEF Saving, Of
<1> QED
  BY <1>1, <1>3, <1>4, <1>5, <1>6

\* A restart ends the handlers: their calls have failed.
LEMMA RestartFails ==
  ASSUME TypeOK, Restart
  PROVE  /\ put' \in [Calls -> Requests \cup {Idle}]
         /\ \A v \in Views : Of(v)' = Of(v) /\ (Saving(v)' => Saving(v))
         /\ \A v \in Views : \A c \in Of(v) :
              /\ put'[c].fields = put[c].fields
              /\ IF put[c].stage \in {"sent", "stored"} THEN put'[c].stage = "failed"
                 ELSE put'[c] = put[c]
<1> DEFINE lost == {c \in InFlight : put[c].stage \in {"sent", "stored"}}
<1>1. put' = [c \in Calls |-> IF c \in lost THEN Ended(put[c], "failed") ELSE put[c]]
  BY DEF Restart
<1>2. ASSUME NEW c \in lost
      PROVE  /\ put'[c] \in Requests \cup {Idle}
             /\ put[c].by = Nobody => put'[c] = Idle
             /\ put[c].by # Nobody =>
                  /\ put'[c] # Idle /\ put'[c].by = put[c].by /\ put'[c].stage = "failed"
                  /\ put'[c].saving = put[c].saving /\ put'[c].fields = put[c].fields
  <2>1. put[c] \in Requests /\ put'[c] = Ended(put[c], "failed")
    BY <1>1, CallsAreRequests DEF InFlight
  <2> QED
    BY <2>1, EndedIs, IdleIsApart
<1>3. \A c \in Calls \ lost : put'[c] = put[c]
  BY <1>1
<1>4. put' \in [Calls -> Requests \cup {Idle}]
  <2>1. \A c \in Calls : put'[c] \in Requests \cup {Idle}
    BY <1>2, <1>3 DEF TypeOK
  <2> QED
    BY <1>1, <2>1
<1>5. Nobody \notin Views
  BY SettingsAssumption
<1>6. ASSUME NEW v \in Views PROVE Of(v)' = Of(v)
  <2>1. \A c \in Calls : c \in Of(v)' <=> c \in Of(v)
    BY <1>2, <1>3, <1>5 DEF Of, InFlight
  <2> QED
    BY <2>1 DEF Of, InFlight
<1>7. ASSUME NEW v \in Views, NEW c \in Of(v)
      PROVE  /\ put'[c].fields = put[c].fields /\ put'[c].saving = put[c].saving
             /\ IF put[c].stage \in {"sent", "stored"} THEN put'[c].stage = "failed"
                ELSE put'[c] = put[c]
  <2>1. c \in Calls /\ c \in InFlight /\ put[c].by # Nobody
    BY <1>5 DEF Of, InFlight
  <2> QED
    BY <1>2, <1>3, <2>1
<1>8. \A v \in Views : Saving(v)' => Saving(v)
  BY <1>6, <1>7 DEF Saving
<1> QED
  BY <1>4, <1>6, <1>7, <1>8

\* Variables keep their types; a section that is saving is shown, and what is not
\* yet written is a call.
LEMMA TypePreserved == TypeOK /\ [Next]_vars => TypeOK'
<1> SUFFICES ASSUME TypeOK, [Next]_vars PROVE TypeOK'
  OBVIOUS
<1>c. ASSUME UNCHANGED put
      PROVE  InFlight' = InFlight /\ \A v \in Views : Of(v)' = Of(v) /\ Saving(v)' = Saving(v)
  BY <1>c DEF InFlight, Of, Saving
<1>1. ASSUME NEW c \in Calls,
             \/ PutRefused(c) \/ PutStored(c) \/ PutWritten(c) \/ PutNotWritten(c)
             \/ AnswerLost(c) \/ Saved(c) \/ SaveFails(c)
      PROVE  TypeOK'
  BY <1>1, HandlersKeepTypes
<1>2. ASSUME NEW v \in Views, Open(v) PROVE TypeOK'
  BY <1>2, <1>c DEF Open, TypeOK
<1>3. ASSUME NEW v \in Views, Close(v) PROVE TypeOK'
  <2>1. /\ put' \in [Calls -> Requests \cup {Idle}]
        /\ ~Saving(v)'
        /\ last # Nobody => put'[last] # Idle /\ put'[last].stage = "stored"
    BY <1>3, CloseOrphans DEF Saving, TypeOK
  <2>2. \A u \in Views \ {v} : Saving(u)' => Saving(u)
    BY <1>3, CloseOrphans DEF Saving, Of, InFlight
  <2>3. cfg' \in [Views -> Configs] /\ draft' \in [Views -> Configs] /\ tab' \in [Views -> Tabs]
        /\ doubt' \in [Views -> SUBSET Fields]
        /\ page' \in [Views -> {"closed", "asking", "answered", "failed", "open"}]
    BY <1>3, ComputedTypes, NoConfigIsConfig DEF Close, TypeOK
  <2>4. \A u \in Views : Saving(u)' => page'[u] = "open" /\ tab'[u] # Theme
    BY <1>3, <2>1, <2>2 DEF Close, TypeOK
  <2> QED
    BY <1>3, <2>1, <2>3, <2>4 DEF Close, TypeOK
<1>4. ASSUME NEW v \in Views, Discard(v) PROVE TypeOK'
  <2>1. draft' \in [Views -> Configs]
    <3>1. Seed(cfg[v], tab[v]) \in Configs
      BY ComputedTypes DEF TypeOK
    <3> QED
      BY <1>4, <3>1 DEF Discard, TypeOK
  <2> QED
    BY <1>4, <1>c, <2>1 DEF Discard, TypeOK
<1>5. ASSUME NEW v \in Views, Save(v) \/ ToggleTheme(v) PROVE TypeOK'
  <2>1. /\ put' \in [Calls -> Requests \cup {Idle}] /\ page[v] = "open"
        /\ UNCHANGED <<mem, file, page, cfg, tab, draft, last, adrift>>
        /\ \A u \in Views : Saving(u)' => Saving(u) \/ (u = v /\ tab[v] # Theme)
    BY <1>5, SendAdds
  <2>2. PICK c \in Calls \ InFlight, fs \in SUBSET Fields, d \in Configs : Adds(v, c, fs, d)
    BY <1>5, SendAdds
  <2>3. doubt' \in [Views -> SUBSET Fields]
    <3>1. UNION {put[e].fields : e \in Of(v)} \subseteq Fields
      BY OfView, CallsAreRequests
    <3> QED
      BY <2>2, <3>1 DEF TypeOK, Adds
  <2>4. last # Nobody => put'[last] # Idle /\ put'[last].stage = "stored"
    BY <2>2 DEF TypeOK, InFlight, Adds
  <2>5. \A u \in Views : Saving(u)' => page'[u] = "open" /\ tab'[u] # Theme
    BY <2>1 DEF TypeOK
  <2> QED
    BY <2>1, <2>3, <2>4, <2>5 DEF TypeOK
<1>8. ASSUME NEW v \in Views, NEW t \in Tabs, SelectTab(v, t) PROVE TypeOK'
  <2>1. /\ put' \in [Calls -> Requests \cup {Idle}]
        /\ ~Saving(v)' /\ \A u \in Views : Saving(u)' => Saving(u)
        /\ last # Nobody => put'[last] # Idle /\ put'[last].stage = "stored"
    <3>1. put' = Unmounted(v)
      BY <1>8 DEF SelectTab
    <3> QED
      BY <3>1, UnmountedKeeps DEF TypeOK, InFlight
  <2>2. draft' \in [Views -> Configs] /\ tab' \in [Views -> Tabs]
    BY <1>8, ComputedTypes DEF SelectTab, TypeOK
  <2>3. \A u \in Views : Saving(u)' => page'[u] = "open" /\ tab'[u] # Theme
    BY <1>8, <2>1 DEF SelectTab, TypeOK
  <2> QED
    BY <1>8, <2>1, <2>2, <2>3 DEF SelectTab, TypeOK
<1>9. ASSUME NEW v \in Views, NEW f, NEW x \in Texts \cup {Unset}, Type(v, f, x) PROVE TypeOK'
  <2>1. [draft[v] EXCEPT ![f] = x] \in Configs
    BY DEF TypeOK, Configs, Values
  <2>2. draft' \in [Views -> Configs]
    BY <1>9, <2>1 DEF Type, TypeOK
  <2> QED
    BY <1>9, <1>c, <2>2 DEF Type, TypeOK
<1>10. ASSUME NEW v \in Views, Answer(v) PROVE TypeOK'
  BY <1>10, <1>c DEF Answer, TypeOK
<1>11. ASSUME NEW v \in Views, Loaded(v) PROVE TypeOK'
  <2>1. draft' \in [Views -> Configs]
    BY <1>11, ComputedTypes DEF Loaded, TypeOK
  <2> QED
    BY <1>11, <1>c, <2>1 DEF Loaded, TypeOK
<1>12. ASSUME NEW v \in Views, LoadFails(v) PROVE TypeOK'
  BY <1>12, <1>c, NoConfigIsConfig DEF LoadFails, TypeOK
<1>13. ASSUME NEW v \in Views, NEW c \in Calls, AnswerRaces(v, c) PROVE TypeOK'
  <2>1. c \in InFlight /\ put[c] \in Requests /\ put[c].body \in Configs /\ c # Nobody
    BY <1>13, CallsAreRequests, SettingsAssumption DEF AnswerRaces
  <2>2. Becomes(c, [put[c] EXCEPT !.stage = "stored"])
    BY <1>13, <2>1, StoredIs DEF AnswerRaces, Becomes
  <2>3. /\ put' \in [Calls -> Requests \cup {Idle}]
        /\ put'[c] # Idle /\ put'[c].stage = "stored"
        /\ \A u \in Views : Saving(u)' => Saving(u)
    <3> DEFINE r == [put[c] EXCEPT !.stage = "stored"]
    <3>1. r \in Requests /\ r # Idle /\ r.stage = "stored"
      BY <2>1, StoredIs, IdleIsApart
    <3> HIDE DEF r
    <3>2. Becomes(c, r)
      BY <2>2 DEF r
    <3> QED
      BY <3>1, <3>2, OneChanges DEF Becomes
  <2>4. cfg' \in [Views -> Configs] /\ doubt' \in [Views -> SUBSET Fields]
    <3>1. PICK old \in SUBSET Fields :
            LET mixed == [f \in Fields |-> IF f \in old THEN mem[f] ELSE put[c].body[f]]
            IN  /\ cfg' = [cfg EXCEPT ![v] = mixed]
                /\ doubt' = [Told(c) EXCEPT ![v] = {f \in Fields : mixed[f] # put[c].body[f]}]
      BY <1>13 DEF AnswerRaces
    <3>2. [f \in Fields |-> IF f \in old THEN mem[f] ELSE put[c].body[f]] \in Configs
      BY <2>1 DEF TypeOK, Configs
    <3>3. Told(c) \in [Views -> SUBSET Fields]
      BY <2>1, ComputedTypes
    <3> QED
      BY <3>1, <3>2, <3>3 DEF TypeOK
  <2>5. \A u \in Views : Saving(u)' => page'[u] = "open" /\ tab'[u] # Theme
    BY <1>13, <2>3 DEF AnswerRaces, TypeOK
  <2> QED
    BY <1>13, <2>1, <2>3, <2>4, <2>5 DEF AnswerRaces, TypeOK
<1>14. ASSUME NEW c \in Calls, NEW d \in Calls, PutsRace(c, d) PROVE TypeOK'
  <2>1. put[c].body \in Configs /\ put[d].body \in Configs
    BY <1>14, CallsAreRequests DEF PutsRace
  <2>2. PICK mix \in [Fields -> {c, d}] :
          LET both == [f \in Fields |-> put[mix[f]].body[f]]
          IN  /\ mem' = both
              /\ doubt' = [v \in Views |->
                   IF v \notin {put[c].by, put[d].by} THEN Outdated(v, both)
                   ELSE doubt[v] \cup {f \in Fields :
                          \E e \in {c, d} : put[e].by = v /\ both[f] # put[e].body[f]}]
    BY <1>14 DEF PutsRace
  <2>3. mem' \in Configs
    BY <2>1, <2>2 DEF Configs
  <2>4. doubt' \in [Views -> SUBSET Fields]
    BY <2>2, <2>3, ComputedTypes DEF TypeOK
  <2> QED
    BY <1>14, <2>3, <2>4, RaceStores DEF PutsRace, viewVars, TypeOK
<1>15. ASSUME NEW x \in Clusters, Switch(x) PROVE TypeOK'
  <2>1. mem' \in Configs
    BY <1>15 DEF Switch, TypeOK, Configs, Values
  <2>2. doubt' \in [Views -> SUBSET Fields]
    BY <1>15, <2>1, ComputedTypes DEF Switch, TypeOK
  <2>3. adrift' \in SUBSET Fields
    <3>1. Current \in Fields
      BY DEF Fields
    <3> QED
      BY <1>15, <3>1 DEF Switch, TypeOK
  <2> QED
    BY <1>15, <1>c, <2>1, <2>2, <2>3 DEF Switch, TypeOK, viewVars
<1>16. CASE Restart
  <2>1. doubt' \in [Views -> SUBSET Fields]
    <3>1. \A v \in Views : UNION {put[c].fields : c \in {d \in {e \in InFlight : put[e].stage \in {"sent", "stored"}}
                                                      \cap Of(v) : put[d].stage = "stored"}} \subseteq Fields
      BY CallsAreRequests DEF InFlight
    <3>2. file \in Configs
      BY DEF TypeOK
    <3> QED
      BY <1>16, <3>1, <3>2, ComputedTypes DEF Restart
  <2> QED
    BY <1>16, <2>1, RestartFails DEF Restart, viewVars, TypeOK
<1>17. CASE UNCHANGED vars
  BY <1>17, <1>c DEF vars, viewVars, TypeOK
<1> QED
  BY <1>1, <1>2, <1>3, <1>4, <1>5, <1>8, <1>9, <1>10, <1>11, <1>12, <1>13, <1>14, <1>15,
     <1>16, <1>17 DEF Next, UserActs

-----------------------------------------------------------------------------
(* Memory and file                                                         *)

\* What is stored and not written is in flight.
LEMMA LastIsStored ==
  ASSUME TypeOK, last # Nobody
  PROVE  last \in InFlight /\ last \in Calls /\ put[last].stage = "stored"
BY DEF TypeOK, InFlight

\* File, memory and what is stored last are all as they were.
LEMMA NothingWritten ==
  ASSUME TypeOK, FileInv, UNCHANGED <<mem, file, last, adrift>>,
         last # Nobody => put'[last].body = put[last].body
  PROVE  FileInv'
BY DEF FileInv

\* The file follows memory.
LEMMA FilePreserved == TypeOK /\ FileInv /\ [Next]_vars => FileInv'
<1> SUFFICES ASSUME TypeOK, FileInv, [Next]_vars PROVE FileInv'
  OBVIOUS
<1>a. /\ last # Nobody => last \in InFlight /\ last \in Calls /\ put[last].stage = "stored"
      /\ Nobody \notin Calls
  BY LastIsStored, SettingsAssumption
<1>b. ASSUME NEW c \in Calls, NEW r, Becomes(c, r)
      PROVE  /\ c \in InFlight /\ put'[c] = r
             /\ \A d \in Calls \ {c} : put'[d] = put[d]
  BY <1>b, OneChanges DEF Becomes
<1>c. ASSUME NEW c \in Calls, PutRefused(c) \/ Saved(c) \/ SaveFails(c) PROVE FileInv'
  <2>1. PICK r : Becomes(c, r)
    BY <1>c, CallBecomes
  <2>2. put[c].stage # "stored" /\ UNCHANGED <<mem, file, last, adrift>>
    BY <1>c DEF PutRefused, Saved, SaveFails
  <2> QED
    BY <1>a, <1>b, <2>1, <2>2, NothingWritten
<1>1. ASSUME NEW c \in Calls, AnswerLost(c) PROVE FileInv'
  <2>1. Becomes(c, Orphan(put[c])) /\ put[c] \in Requests
    BY <1>1, CallBecomes, CallsAreRequests DEF AnswerLost
  <2>2. put[c].stage = "stored" => Orphan(put[c]).body = put[c].body
    BY <2>1, OrphanIs
  <2>3. UNCHANGED <<mem, file, last, adrift>>
    BY <1>1 DEF AnswerLost
  <2> QED
    BY <1>a, <1>b, <2>1, <2>2, <2>3, NothingWritten
<1>2. ASSUME NEW c \in Calls, NEW r, Becomes(c, r), r.body = put[c].body,
             mem' = put[c].body, last' = c
      PROVE  FileInv'
  BY <1>a, <1>b, <1>2 DEF FileInv
<1>3. ASSUME NEW c \in Calls, PutStored(c) PROVE FileInv'
  <2>1. /\ Becomes(c, [put[c] EXCEPT !.stage = "stored"])
        /\ [put[c] EXCEPT !.stage = "stored"].body = put[c].body
    BY <1>3, CallBecomes, CallsAreRequests, StoredIs DEF PutStored
  <2>2. mem' = put[c].body /\ last' = c
    BY <1>3 DEF PutStored
  <2> QED
    BY <1>2, <2>1, <2>2
<1>4. ASSUME NEW v \in Views, NEW c \in Calls, AnswerRaces(v, c) PROVE FileInv'
  <2>1. c \in InFlight /\ put[c] \in Requests /\ mem' = put[c].body /\ last' = c
    BY <1>4, CallsAreRequests DEF AnswerRaces
  <2>2. /\ Becomes(c, [put[c] EXCEPT !.stage = "stored"])
        /\ [put[c] EXCEPT !.stage = "stored"].body = put[c].body
    BY <1>4, <2>1, StoredIs DEF AnswerRaces, Becomes
  <2> QED
    BY <1>2, <2>1, <2>2
<1>5. ASSUME NEW c \in Calls, NEW d \in Calls, PutsRace(c, d) PROVE FileInv'
  BY <1>5 DEF PutsRace, FileInv
<1>6. ASSUME NEW c \in Calls, PutWritten(c) PROVE FileInv'
  <2>1. Becomes(c, Ended(put[c], "ok"))
    BY <1>6, CallBecomes
  <2>2. CASE last = c
    <3>1. /\ last' = Nobody /\ mem' = mem /\ file' = Merged(put[c].body)
          /\ adrift' = (adrift \cap {Current}) \cup {f \in Fields : put[c].body[f] = Unset /\ file[f] # Unset}
      BY <1>a, <1>6, <2>2 DEF PutWritten
    <3>2. \A f \in Fields \ adrift' : file'[f] = mem'[f]
      BY <1>a, <2>2, <3>1 DEF FileInv, Merged
    <3> QED
      BY <3>1, <3>2 DEF FileInv
  <2>3. CASE last = Nobody
    <3>1. adrift' = Fields /\ last' = Nobody
      BY <1>a, <1>6, <2>3 DEF PutWritten
    <3> QED
      BY <3>1 DEF FileInv
  <2>4. CASE last # c /\ last # Nobody
    <3>1. UNCHANGED <<mem, last, adrift>> /\ put'[last] = put[last]
      BY <1>a, <1>b, <1>6, <2>1, <2>4 DEF PutWritten
    <3> QED
      BY <2>4, <3>1 DEF FileInv
  <2> QED
    BY <2>2, <2>3, <2>4
<1>7. ASSUME NEW c \in Calls, PutNotWritten(c) PROVE FileInv'
  <2>1. Becomes(c, Ended(put[c], "failed"))
    BY <1>7, CallBecomes
  <2>2. CASE last = c
    BY <1>7, <2>2 DEF PutNotWritten, FileInv
  <2>3. CASE last # c
    <3>1. UNCHANGED <<mem, file, last, adrift>>
      BY <1>7, <2>3 DEF PutNotWritten
    <3> QED
      BY <1>a, <1>b, <2>1, <2>3, <3>1, NothingWritten
  <2> QED
    BY <2>2, <2>3
<1>8. ASSUME NEW x \in Clusters, Switch(x) PROVE FileInv'
  <2>1. mem' = [mem EXCEPT ![Current] = x] /\ adrift' = adrift \cup {Current}
        /\ UNCHANGED <<file, put, last>>
    BY <1>8 DEF Switch
  <2>2. \A f \in Fields \ {Current} : mem'[f] = mem[f]
    BY <2>1 DEF TypeOK, Configs
  <2> QED
    BY <2>1, <2>2 DEF FileInv
<1>9. CASE Restart
  BY <1>9 DEF Restart, FileInv
<1>10. ASSUME NEW v \in Views, Close(v) PROVE FileInv'
  <2>1. last # Nobody => put'[last].body = put[last].body
    BY <1>a, <1>10, CloseOrphans
  <2> QED
    BY <1>10, <2>1, NothingWritten DEF Close
<1>11. ASSUME NEW v \in Views, NEW t \in Tabs, SelectTab(v, t) PROVE FileInv'
  <2>1. put' = Unmounted(v) /\ UNCHANGED <<mem, file, last, adrift>>
    BY <1>11 DEF SelectTab
  <2> QED
    BY <1>a, <2>1, UnmountedKeeps, NothingWritten
<1>12. ASSUME NEW v \in Views, Save(v) \/ ToggleTheme(v) PROVE FileInv'
  <2>1. PICK c \in Calls \ InFlight, fs \in SUBSET Fields, d \in Configs : Adds(v, c, fs, d)
    BY <1>12, SendAdds
  <2>2. UNCHANGED <<mem, file, last, adrift>>
    BY <1>12, SendAdds
  <2> QED
    BY <1>a, <2>1, <2>2, NothingWritten DEF Adds
<1>13. CASE UNCHANGED <<mem, file, put, last, adrift>>
  BY <1>13, NothingWritten
<1>14. ASSUME NEW v \in Views, \/ Open(v) \/ Discard(v) \/ Answer(v) \/ Loaded(v) \/ LoadFails(v)
                               \/ \E f \in Edited(tab[v]), x \in Texts \cup {Unset} : Type(v, f, x)
       PROVE  FileInv'
  BY <1>13, <1>14 DEF Open, Discard, Answer, Loaded, LoadFails, Type
<1>15. CASE UNCHANGED vars
  BY <1>13, <1>15 DEF vars
<1> QED
  BY <1>c, <1>1, <1>3, <1>4, <1>5, <1>6, <1>7, <1>8, <1>9, <1>10, <1>11, <1>12, <1>14, <1>15
     DEF Next, UserActs

-----------------------------------------------------------------------------
(* The views                                                               *)

\* A view that waits for nothing and shows what is in memory.
LEMMA NoCallsIsOK ==
  ASSUME NEW v \in Views, Of(v)' = {},
         Shows(v)' => \A f \in Fields \ doubt'[v] : cfg'[v][f] = mem'[f]
  PROVE  ViewOK(v)'
BY DEF ViewOK

\* A view to which nothing happens but that memory changes where it is in doubt,
\* and that calls come nearer to their end.
LEMMA ViewSettles ==
  ASSUME TypeOK, NEW v \in Views, ViewOK(v),
         page[v] = "open" => page'[v] = "open",
         Shows(v)' => Shows(v) /\ cfg'[v] = cfg[v],
         \A f \in Fields \ doubt'[v] : f \notin doubt[v] /\ (Shows(v) => mem'[f] = mem[f]),
         \A c \in Of(v)' :
           /\ c \in Of(v) /\ put'[c].fields = put[c].fields
           /\ \/ put'[c].stage = "failed"
              \/ /\ put'[c].body = put[c].body
                 /\ put'[c].stage = put[c].stage \/ {put'[c].stage, put[c].stage} \subseteq Landed,
         \A c \in Of(v) : put[c].stage \in Landed =>
           put[c].fields \subseteq doubt'[v] \/ (c \in Of(v)' /\ put'[c].stage \in Landed)
  PROVE  ViewOK(v)'
<1>1. Of(v)' # {} => page'[v] = "open" /\ Shows(v)
  BY DEF ViewOK, Shows
<1>2. ASSUME Shows(v)', NEW f \in Fields \ doubt'[v]
      PROVE  \/ cfg'[v][f] = mem'[f]
             \/ \E c \in Of(v)' : f \in put'[c].fields /\ put'[c].stage \in Landed
  <2>1. f \in Fields \ doubt[v] /\ mem'[f] = mem[f] /\ cfg'[v] = cfg[v] /\ Shows(v)
    BY <1>2
  <2>2. CASE cfg[v][f] = mem[f]
    BY <2>1, <2>2
  <2>3. ASSUME NEW c \in Of(v), f \in put[c].fields, put[c].stage \in Landed
        PROVE  c \in Of(v)' /\ f \in put'[c].fields /\ put'[c].stage \in Landed
    BY <1>2, <2>3
  <2> QED
    BY <2>1, <2>2, <2>3 DEF ViewOK
<1>3. ASSUME NEW c \in Of(v)', NEW f \in Fields \ doubt'[v]
      PROVE  \/ put'[c].stage = "failed"
             \/ put'[c].stage = "sent" /\ f \in put'[c].fields
             \/ put'[c].body[f] = mem'[f]
  <2>1. c \in Of(v) /\ f \in Fields \ doubt[v] /\ mem'[f] = mem[f]
    BY <1>1, <1>3
  <2>2. \/ put[c].stage = "failed"
        \/ put[c].stage = "sent" /\ f \in put[c].fields
        \/ put[c].body[f] = mem[f]
    BY <2>1 DEF ViewOK
  <2> QED
    BY <1>3, <2>1, <2>2 DEF Landed
<1>4. ASSUME NEW c \in Of(v)', NEW d \in Of(v)', c # d PROVE put'[c].fields \subseteq doubt'[v]
  <2>1. put'[c].fields \subseteq doubt[v] /\ put'[c].fields \subseteq Fields
    BY <1>4, OfView, CallsAreRequests DEF ViewOK
  <2> QED
    BY <2>1
<1> QED
  BY <1>1, <1>2, <1>3, <1>4 DEF ViewOK

\* A call comes nearer to its end, or loses its view.
LEMMA CallSettles ==
  ASSUME TypeOK, NEW v \in Views, ViewOK(v), NEW c, NEW r, Becomes(c, r),
         UNCHANGED <<mem, page, cfg>>, doubt[v] \subseteq doubt'[v],
         r # Idle /\ r.by # Nobody =>
           /\ r.fields = put[c].fields
           /\ \/ r.stage = "failed"
              \/ /\ r.body = put[c].body
                 /\ r.stage = put[c].stage \/ {r.stage, put[c].stage} \subseteq Landed,
         v = put[c].by /\ put[c].stage \in Landed =>
           put[c].fields \subseteq doubt'[v] \/ (r # Idle /\ r.by # Nobody /\ r.stage \in Landed)
  PROVE  ViewOK(v)'
<1>1. /\ put'[c] = r /\ \A d \in Calls \ {c} : put'[d] = put[d]
      /\ Of(v)' = IF v = put[c].by /\ (r = Idle \/ r.by = Nobody) THEN Of(v) \ {c} ELSE Of(v)
      /\ c \in InFlight
  BY OneChanges DEF Becomes
<1>2. c \in Of(v) <=> v = put[c].by
  BY <1>1 DEF Of
<1>3. ASSUME NEW d \in Of(v)'
      PROVE  /\ d \in Of(v) /\ put'[d].fields = put[d].fields
             /\ \/ put'[d].stage = "failed"
                \/ /\ put'[d].body = put[d].body
                   /\ put'[d].stage = put[d].stage \/ {put'[d].stage, put[d].stage} \subseteq Landed
  <2>1. d \in Of(v) /\ d \in Calls
    BY <1>1, OfView
  <2>2. CASE d = c
    BY <1>1, <1>2, <1>3, <2>1, <2>2
  <2>3. CASE d # c
    BY <1>1, <2>1, <2>3
  <2> QED
    BY <2>2, <2>3
<1>4. ASSUME NEW d \in Of(v), put[d].stage \in Landed
      PROVE  put[d].fields \subseteq doubt'[v] \/ (d \in Of(v)' /\ put'[d].stage \in Landed)
  <2>1. d \in Calls
    BY OfView
  <2>2. CASE d = c
    BY <1>1, <1>2, <1>4, <2>2
  <2>3. CASE d # c
    BY <1>1, <1>4, <2>1, <2>3
  <2> QED
    BY <2>2, <2>3
<1>5. Shows(v)' => Shows(v) /\ cfg'[v] = cfg[v]
  BY DEF Shows
<1> QED
  BY <1>3, <1>4, <1>5, ViewSettles

\* Another's configuration is in memory now.
LEMMA OutdatedIsOK ==
  ASSUME TypeOK, NEW v \in Views, ViewOK(v), page'[v] = page[v], cfg'[v] = cfg[v], NEW m \in Configs,
         mem' = m, doubt'[v] = Outdated(v, m),
         \A c \in Of(v) \cup Of(v)' : c \in Of(v) \cap Of(v)' /\ put'[c] = put[c]
  PROVE  ViewOK(v)'
<1>1. \A f \in Fields \ doubt'[v] : f \notin doubt[v] /\ (Shows(v) => mem'[f] = mem[f])
  BY DEF Outdated
<1>2. Shows(v)' => Shows(v) /\ cfg'[v] = cfg[v]
  BY DEF Shows
<1> QED
  BY <1>1, <1>2, ViewSettles

\* One call is stored: its view hears of it, the others may be wrong.
LEMMA StoredIsOK ==
  ASSUME TypeOK, NEW v \in Views, ViewOK(v), page'[v] = page[v], cfg'[v] = cfg[v],
         NEW c \in InFlight, put[c].stage = "sent",
         put' = [put EXCEPT ![c].stage = "stored"],
         mem' = put[c].body, doubt'[v] = Told(c)[v]
  PROVE  ViewOK(v)'
<1> DEFINE r == [put[c] EXCEPT !.stage = "stored"]
<1>1. /\ put[c] \in Requests /\ put[c].body \in Configs /\ put[c].fields \subseteq Fields /\ c \in Calls
      /\ r \in Requests /\ r # Idle /\ r.stage = "stored"
      /\ r.by = put[c].by /\ r.saving = put[c].saving
      /\ r.fields = put[c].fields /\ r.body = put[c].body
  BY CallsAreRequests, StoredIs, IdleIsApart DEF InFlight
<1>2. put' = [put EXCEPT ![c] = r]
  BY DEF TypeOK
<1> HIDE DEF r
<1>3. Nobody \notin Views
  BY SettingsAssumption
<1>4. /\ put'[c] = r /\ \A d \in Calls \ {c} : put'[d] = put[d]
      /\ Of(v)' = Of(v)
  <2>1. Becomes(c, r)
    BY <1>1, <1>2 DEF Becomes
  <2>2. r \in Requests \cup {Idle} /\ (r # Idle => r.by \in {put[c].by, Nobody} /\ (r.saving => put[c].saving))
    BY <2>1 DEF Becomes
  <2>3. /\ put'[c] = r /\ \A d \in Calls \ {c} : put'[d] = put[d]
        /\ Of(v)' = IF v = put[c].by /\ (r = Idle \/ r.by = Nobody) THEN Of(v) \ {c} ELSE Of(v)
    BY <1>2, <2>2, OneChanges
  <2>4. v = put[c].by => ~(r = Idle \/ r.by = Nobody)
    BY <1>1, <1>3
  <2> QED
    BY <2>3, <2>4
<1>5. c \in Of(v) <=> v = put[c].by
  BY DEF Of
<1>6. Of(v) \subseteq Calls
  BY OfView
<1>7. CASE v # put[c].by
  <2>1. doubt'[v] = Outdated(v, put[c].body)
    BY <1>7 DEF Told
  <2> QED
    BY <1>1, <1>4, <1>5, <1>6, <1>7, <2>1, OutdatedIsOK
<1>8. CASE v = put[c].by
  <2>0. page'[v] = "open" /\ page[v] = "open" /\ Shows(v) /\ cfg'[v] = cfg[v]
    BY <1>5, <1>8 DEF ViewOK, Shows
  <2>1. \A f \in Fields \ doubt[v] : f \notin put[c].fields => put[c].body[f] = mem[f]
    BY <1>5, <1>8 DEF ViewOK
  <2>2. CASE Of(v) = {c}
    <3>1. doubt'[v] = {f \in doubt[v] \ put[c].fields : cfg[v][f] # put[c].body[f]}
      BY <1>8, <2>2 DEF Told
    <3>2. ASSUME NEW f \in Fields \ doubt'[v], f \notin put[c].fields PROVE cfg[v][f] = mem'[f]
      <4>1. CASE f \in doubt[v]
        BY <3>1, <3>2, <4>1
      <4>2. CASE f \notin doubt[v]
        <5>1. cfg[v][f] = mem[f]
          BY <2>0, <2>2, <3>2, <4>2 DEF ViewOK
        <5> QED
          BY <2>1, <3>2, <4>2, <5>1
      <4> QED
        BY <4>1, <4>2
    <3>3. c \in Of(v)' /\ put'[c].fields = put[c].fields /\ put'[c].stage \in Landed
          /\ \A f : put'[c].body[f] = mem'[f]
      BY <1>1, <1>4, <2>2 DEF Landed
    <3> QED
      BY <1>4, <2>0, <2>2, <3>2, <3>3 DEF ViewOK
  <2>3. CASE Of(v) # {c}
    <3>1. doubt'[v] = doubt[v]
      BY <1>8, <2>3 DEF Told
    <3>2. put[c].fields \subseteq doubt[v]
      BY <1>5, <1>8, <2>3 DEF ViewOK
    <3>3. \A f \in Fields \ doubt[v] : mem'[f] = mem[f] /\ put[c].body[f] = mem[f]
      BY <2>1, <3>2
    <3>4. \A d \in Of(v)' : /\ d \in Of(v) /\ put'[d].fields = put[d].fields
                            /\ put'[d].body = put[d].body
                            /\ put'[d].stage = IF d = c THEN "stored" ELSE put[d].stage
      BY <1>1, <1>4, <1>6
    <3>5. ASSUME NEW f \in Fields \ doubt'[v]
          PROVE  \/ cfg'[v][f] = mem'[f]
                 \/ \E d \in Of(v)' : f \in put'[d].fields /\ put'[d].stage \in Landed
      <4>1. \/ cfg[v][f] = mem[f]
            \/ \E d \in Of(v) : f \in put[d].fields /\ put[d].stage \in Landed
        BY <2>0, <3>1, <3>5 DEF ViewOK
      <4> QED
        BY <1>4, <2>0, <3>1, <3>3, <3>4, <3>5, <4>1 DEF Landed
    <3>6. ASSUME NEW d \in Of(v)', NEW f \in Fields \ doubt'[v]
          PROVE  \/ put'[d].stage = "failed"
                 \/ put'[d].stage = "sent" /\ f \in put'[d].fields
                 \/ put'[d].body[f] = mem'[f]
      <4>1. \/ put[d].stage = "failed"
            \/ put[d].stage = "sent" /\ f \in put[d].fields
            \/ put[d].body[f] = mem[f]
        BY <3>1, <3>4, <3>6 DEF ViewOK
      <4> QED
        BY <3>1, <3>3, <3>4, <3>6, <4>1
    <3>7. \A d, e \in Of(v)' : d # e => put'[d].fields \subseteq doubt'[v]
      BY <3>1, <3>4 DEF ViewOK
    <3> QED
      BY <2>0, <3>5, <3>6, <3>7 DEF ViewOK
  <2> QED
    BY <2>2, <2>3
<1> QED
  BY <1>7, <1>8

\* Two calls are stored at once: where memory is not what its call carried, a
\* view is in doubt.
LEMMA RacedIsOK ==
  ASSUME TypeOK, NEW v \in Views, ViewOK(v), NEW c \in Calls, NEW d \in Calls, PutsRace(c, d)
  PROVE  ViewOK(v)'
<1>1. /\ UNCHANGED <<page, cfg>> /\ c # d
      /\ put[c].body \in Configs /\ put[d].body \in Configs
      /\ put[c].fields \subseteq Fields /\ put[d].fields \subseteq Fields
      /\ put[c].by = v => c \in Of(v)
      /\ put[d].by = v => d \in Of(v)
  BY CallsAreRequests DEF PutsRace, viewVars, Of
<1>2. PICK mix \in [Fields -> {c, d}] :
        LET both == [f \in Fields |-> put[mix[f]].body[f]]
        IN  /\ mem' = both
            /\ doubt' = [u \in Views |->
                 IF u \notin {put[c].by, put[d].by} THEN Outdated(u, both)
                 ELSE doubt[u] \cup {f \in Fields :
                        \E e \in {c, d} : put[e].by = u /\ both[f] # put[e].body[f]}]
  BY DEF PutsRace
<1>3. mem' \in Configs /\ Of(v)' = Of(v) /\ Of(v) \subseteq Calls
  <2>1. mem' \in Configs
    BY <1>1, <1>2 DEF Configs
  <2> QED
    BY <2>1, OfView, RaceStores
<1>4. \A e \in Of(v) : /\ put'[e].fields = put[e].fields /\ put'[e].body = put[e].body
                       /\ IF e \in {c, d} THEN put'[e].stage = "stored" /\ put[e].stage = "sent"
                          ELSE put'[e] = put[e]
  <2> SUFFICES ASSUME NEW e \in Of(v)
               PROVE  /\ put'[e].fields = put[e].fields /\ put'[e].body = put[e].body
                      /\ IF e \in {c, d} THEN put'[e].stage = "stored" /\ put[e].stage = "sent"
                         ELSE put'[e] = put[e]
    OBVIOUS
  <2>1. e \in Calls /\ put[e] \in Requests
    BY OfView, CallsAreRequests
  <2>2. CASE e \in {c, d}
    <3>1. put'[e] = [put[e] EXCEPT !.stage = "stored"] /\ put[e].stage = "sent"
      BY <2>2, RaceStores
    <3> QED
      BY <2>1, <2>2, <3>1, StoredIs
  <2>3. CASE e \notin {c, d}
    BY <2>1, <2>3, RaceStores
  <2> QED
    BY <2>2, <2>3
<1>5. CASE v \notin {put[c].by, put[d].by}
  <2>1. c \notin Of(v) /\ d \notin Of(v)
    BY <1>5 DEF Of
  <2>2. doubt'[v] = Outdated(v, mem')
    BY <1>2, <1>5
  <2> QED
    BY <1>1, <1>3, <1>4, <2>1, <2>2, OutdatedIsOK
<1>6. CASE v \in {put[c].by, put[d].by}
  <2>1. /\ doubt[v] \subseteq doubt'[v]
        /\ \A e \in {c, d}, f \in Fields \ doubt'[v] : put[e].by = v => mem'[f] = put[e].body[f]
    BY <1>2, <1>6
  <2>2. PICK e \in {c, d} : e \in Of(v) /\ put[e].by = v /\ put[e].fields \subseteq Fields
    BY <1>1, <1>6
  <2>3. page[v] = "open" /\ Shows(v) /\ put'[e].stage = "stored" /\ put[e].stage = "sent"
    BY <1>4, <2>2 DEF ViewOK, Shows
  <2>4. \A f \in Fields \ doubt'[v] : f \notin put[e].fields => mem'[f] = mem[f]
    BY <2>1, <2>2, <2>3 DEF ViewOK
  <2>5. ASSUME NEW f \in Fields \ doubt'[v]
        PROVE  \/ cfg'[v][f] = mem'[f]
               \/ \E x \in Of(v)' : f \in put'[x].fields /\ put'[x].stage \in Landed
    <3>1. CASE f \in put[e].fields
      BY <1>3, <1>4, <2>2, <2>3, <3>1 DEF Landed
    <3>2. CASE f \notin put[e].fields
      <4>1. \/ cfg[v][f] = mem[f]
            \/ \E x \in Of(v) : f \in put[x].fields /\ put[x].stage \in Landed
        BY <2>1, <2>3, <2>5 DEF ViewOK
      <4>2. \A x \in Of(v) : put[x].stage \in Landed => put'[x].stage \in Landed
        BY <1>4 DEF Landed
      <4> QED
        BY <1>1, <1>3, <1>4, <2>4, <2>5, <3>2, <4>1, <4>2
    <3> QED
      BY <3>1, <3>2
  <2>6. ASSUME NEW x \in Of(v)', NEW f \in Fields \ doubt'[v]
        PROVE  \/ put'[x].stage = "failed"
               \/ put'[x].stage = "sent" /\ f \in put'[x].fields
               \/ put'[x].body[f] = mem'[f]
    <3>1. x \in Of(v) /\ put[x].by = v
      BY <1>3, <2>6 DEF Of
    <3>2. CASE x \in {c, d}
      BY <1>4, <2>1, <2>6, <3>1, <3>2
    <3>3. CASE x \notin {c, d}
      <4>1. put[e].fields \subseteq doubt[v] /\ put'[x] = put[x]
        BY <1>4, <2>2, <3>1, <3>3 DEF ViewOK
      <4>2. mem'[f] = mem[f] /\ f \in Fields \ doubt[v]
        BY <2>1, <2>4, <2>6, <4>1
      <4> QED
        BY <3>1, <4>1, <4>2 DEF ViewOK
    <3> QED
      BY <3>2, <3>3
  <2>7. \A x, y \in Of(v)' : x # y => put'[x].fields \subseteq doubt'[v]
    BY <1>3, <1>4, <2>1 DEF ViewOK
  <2> QED
    BY <1>1, <2>3, <2>5, <2>6, <2>7 DEF ViewOK
<1> QED
  BY <1>5, <1>6

\* A view sends a call: where calls overlap it is in doubt.
LEMMA SendIsOK ==
  ASSUME TypeOK, NEW u \in Views, ViewOK(u), NEW v \in Views, Save(v) \/ ToggleTheme(v)
  PROVE  ViewOK(u)'
<1>1. PICK c \in Calls \ InFlight, fs \in SUBSET Fields, b \in Configs : Adds(v, c, fs, b)
  BY SendAdds
<1>2. /\ page[v] = "open" /\ UNCHANGED <<mem, page, cfg>>
      /\ u # v => Of(u)' = Of(u)
  BY SendAdds
<1>3. \A d \in Of(u) : d # c /\ put'[d] = put[d]
  BY <1>1 DEF Of, InFlight, Adds
<1>4. CASE u # v
  <2>1. doubt'[u] = doubt[u]
    BY <1>1, <1>4 DEF Adds, TypeOK
  <2>2. Shows(u)' => Shows(u) /\ cfg'[u] = cfg[u]
    BY <1>2 DEF Shows
  <2> QED
    BY <1>2, <1>3, <1>4, <2>1, <2>2, ViewSettles
<1>5. CASE u = v
  <2>1. /\ Of(v)' = Of(v) \cup {c} /\ page'[v] = "open" /\ Shows(v)
        /\ put'[c].stage = "sent" /\ put'[c].fields = fs
        /\ put'[c].body = Patched(v, fs, b)
    BY <1>1, <1>2 DEF Adds, Shows
  <2>2. /\ doubt[v] \subseteq doubt'[v]
        /\ Of(v) # {} => fs \subseteq doubt'[v] /\ \A d \in Of(v) : put[d].fields \subseteq doubt'[v]
    BY <1>1 DEF Adds, TypeOK
  <2>3. \A g \in Fields \ doubt'[v] :
          cfg[v][g] = mem[g] \/ \E d \in Of(v) : g \in put[d].fields /\ put[d].stage \in Landed
    BY <1>5, <2>1, <2>2 DEF ViewOK
  <2>4. ASSUME NEW d \in Of(v)', NEW g \in Fields \ doubt'[v]
        PROVE  \/ put'[d].stage = "failed"
               \/ put'[d].stage = "sent" /\ g \in put'[d].fields
               \/ put'[d].body[g] = mem'[g]
    <3>1. CASE d = c
      <4>1. g \notin fs => put'[c].body[g] = cfg[v][g]
        BY <2>1, <2>4 DEF Patched
      <4>2. cfg[v][g] = mem[g]
        BY <2>2, <2>3, <2>4
      <4> QED
        BY <1>2, <2>1, <3>1, <4>1, <4>2
    <3>2. CASE d # c
      <4>1. d \in Of(v) /\ put'[d] = put[d] /\ g \notin doubt[v]
        BY <1>3, <1>5, <2>1, <2>2, <2>4, <3>2
      <4> QED
        BY <1>2, <1>5, <2>4, <4>1 DEF ViewOK
    <3> QED
      BY <3>1, <3>2
  <2>5. ASSUME NEW d \in Of(v)', NEW e \in Of(v)', d # e PROVE put'[d].fields \subseteq doubt'[v]
    BY <1>3, <1>5, <2>1, <2>2, <2>5
  <2>6. \A g \in Fields \ doubt'[v] :
          cfg'[v][g] = mem'[g] \/ \E d \in Of(v)' : g \in put'[d].fields /\ put'[d].stage \in Landed
    BY <1>2, <1>3, <1>5, <2>1, <2>3
  <2> QED
    BY <1>5, <2>1, <2>4, <2>5, <2>6 DEF ViewOK
<1> QED
  BY <1>4, <1>5

\* The view takes what a call carried for what is in memory.
LEMMA SavedIsOK ==
  ASSUME TypeOK, NEW v \in Views, ViewOK(v), NEW c \in Calls, Saved(c)
  PROVE  ViewOK(v)'
<1>1. /\ put[c] # Idle /\ put[c].stage = "ok" /\ UNCHANGED <<mem, page, doubt>>
      /\ cfg' = [cfg EXCEPT ![put[c].by] = put[c].body]
      /\ put' = [put EXCEPT ![c] = Idle]
  BY DEF Saved
<1>2. /\ \A d \in Calls \ {c} : put'[d] = put[d]
      /\ Of(v)' = IF v = put[c].by THEN Of(v) \ {c} ELSE Of(v)
      /\ c \in InFlight /\ Of(v) \subseteq Calls
  <2>1. Becomes(c, Idle) /\ Of(v) \subseteq Calls
    BY CallBecomes, OfView
  <2>2. c \in InFlight
    BY <2>1 DEF Becomes
  <2>3. /\ \A d \in Calls \ {c} : put'[d] = put[d]
        /\ Of(v)' = IF v = put[c].by /\ (Idle = Idle \/ Idle.by = Nobody) THEN Of(v) \ {c} ELSE Of(v)
    BY <1>1, <2>2, OneChanges
  <2> QED
    BY <2>1, <2>2, <2>3
<1>3. c \in Of(v) <=> v = put[c].by
  BY <1>2 DEF Of
<1>4. CASE v # put[c].by
  <2>1. Shows(v)' => Shows(v) /\ cfg'[v] = cfg[v]
    BY <1>1, <1>4 DEF Shows, TypeOK
  <2> QED
    BY <1>1, <1>2, <1>3, <1>4, <2>1, ViewSettles
<1>5. CASE v = put[c].by
  <2>1. cfg'[v] = put[c].body /\ Of(v)' = Of(v) \ {c} /\ \A d \in Of(v)' : put'[d] = put[d]
    BY <1>1, <1>2, <1>5 DEF TypeOK
  <2>2. \A f \in Fields \ doubt[v] : put[c].body[f] = mem[f]
    BY <1>1, <1>3, <1>5 DEF ViewOK
  <2> QED
    BY <1>1, <2>1, <2>2 DEF ViewOK
<1> QED
  BY <1>4, <1>5

\* The steps of a call that leave memory as it is.
LEMMA StepsOfCallsAreOK ==
  ASSUME TypeOK, NEW v \in Views, ViewOK(v), NEW c \in Calls,
         \/ PutRefused(c) \/ PutWritten(c) \/ PutNotWritten(c) \/ AnswerLost(c) \/ SaveFails(c)
  PROVE  ViewOK(v)'
<1>1. /\ put[c] \in Requests /\ c \in InFlight /\ doubt[v] \subseteq doubt'[v]
      /\ UNCHANGED <<mem, page, cfg>>
  BY CallsAreRequests DEF PutRefused, PutWritten, PutNotWritten, AnswerLost, SaveFails, Unknown,
     viewVars
<1>2. CASE PutRefused(c) \/ SaveFails(c)
  <2>1. put[c].stage \notin Landed
    BY <1>2 DEF PutRefused, SaveFails, Landed
  <2>2. CASE PutRefused(c)
    <3>1. Becomes(c, Ended(put[c], "failed")) /\ "failed" \in {"ok", "failed"}
      BY <2>2, CallBecomes
    <3>2. Ended(put[c], "failed") # Idle =>
            Ended(put[c], "failed").fields = put[c].fields /\ Ended(put[c], "failed").stage = "failed"
      BY <1>1, EndedIs
    <3> QED
      BY <1>1, <2>1, <3>1, <3>2, CallSettles
  <2>3. CASE SaveFails(c)
    BY <1>1, <2>1, <2>3, CallBecomes, CallSettles
  <2> QED
    BY <1>2, <2>2, <2>3
<1>3. CASE PutWritten(c)
  <2> DEFINE r == Ended(put[c], "ok")
  <2>1. Becomes(c, r) /\ put[c].stage = "stored" /\ Nobody \notin Views
    BY <1>3, CallBecomes, SettingsAssumption DEF PutWritten
  <2>2. /\ put[c].by = Nobody => r = Idle
        /\ put[c].by # Nobody => /\ r.fields = put[c].fields /\ r.body = put[c].body
                                 /\ r.stage = "ok" /\ r.by = put[c].by /\ r \in Requests
    BY <1>1, EndedIs
  <2>3. put[c].by # Nobody => r # Idle
    BY <2>2, IdleIsApart
  <2> HIDE DEF r
  <2>4. {"ok", "stored"} \subseteq Landed /\ "ok" \in Landed
    BY DEF Landed
  <2> QED
    BY <1>1, <2>1, <2>2, <2>3, <2>4, CallSettles
<1>4. CASE PutNotWritten(c)
  <2> DEFINE r == Ended(put[c], "failed")
  <2>1. Becomes(c, r) /\ doubt' = Unknown(c)
    BY <1>4, CallBecomes DEF PutNotWritten
  <2>2. r # Idle => r.fields = put[c].fields /\ r.stage = "failed"
    BY <1>1, EndedIs
  <2>3. v = put[c].by => put[c].fields \subseteq doubt'[v]
    BY <2>1 DEF Unknown
  <2> HIDE DEF r
  <2> QED
    BY <1>1, <2>1, <2>2, <2>3, CallSettles
<1>5. CASE AnswerLost(c)
  <2> DEFINE r == Orphan(put[c])
  <2>1. Becomes(c, r) /\ (put[c].stage \in Landed => doubt' = Unknown(c))
    BY <1>5, CallBecomes DEF AnswerLost, Landed
  <2>2. r # Idle => r.by = Nobody
    BY <1>1, OrphanIs
  <2>3. v = put[c].by /\ put[c].stage \in Landed => put[c].fields \subseteq doubt'[v]
    BY <2>1 DEF Unknown
  <2> HIDE DEF r
  <2> QED
    BY <1>1, <2>1, <2>2, <2>3, CallSettles
<1> QED
  BY <1>2, <1>3, <1>4, <1>5

\* What a view has read and is about to show, raced by a call of another.
LEMMA AnswerRacesIsOK ==
  ASSUME TypeOK, ViewInv, NEW u \in Views, NEW v \in Views, NEW c \in Calls, AnswerRaces(v, c)
  PROVE  ViewOK(u)'
<1>1. /\ c \in InFlight /\ put[c].stage = "sent" /\ put[c] \in Requests
      /\ mem' = put[c].body /\ put' = [put EXCEPT ![c].stage = "stored"]
      /\ page[v] = "asking" /\ page' = [page EXCEPT ![v] = "answered"]
  BY CallsAreRequests DEF AnswerRaces
<1>2. PICK old \in SUBSET Fields :
        LET mixed == [f \in Fields |-> IF f \in old THEN mem[f] ELSE put[c].body[f]]
        IN  /\ cfg' = [cfg EXCEPT ![v] = mixed]
            /\ doubt' = [Told(c) EXCEPT ![v] = {f \in Fields : mixed[f] # put[c].body[f]}]
  BY DEF AnswerRaces
<1>3. Told(c) = [w \in Views |-> Told(c)[w]]
  BY DEF Told
<1>4. CASE u # v
  <2>1. page'[u] = page[u] /\ cfg'[u] = cfg[u] /\ doubt'[u] = Told(c)[u]
    BY <1>1, <1>2, <1>3, <1>4 DEF TypeOK
  <2> QED
    BY <1>1, <2>1, StoredIsOK DEF ViewInv
<1>5. CASE u = v
  <2>1. Of(v) = {}
    BY <1>1 DEF ViewInv, ViewOK
  <2>2. ASSUME NEW d \in Of(v)' PROVE FALSE
    <3>1. d \in Calls /\ put'[d] # Idle /\ put'[d].by = v
      BY <2>2 DEF Of, InFlight
    <3>2. put'[c] = [put[c] EXCEPT !.stage = "stored"] /\ c \in Calls
      BY <1>1 DEF TypeOK, InFlight
    <3>3. put'[c].by = put[c].by
      BY <1>1, <3>2, StoredIs
    <3>4. d # c => put'[d] = put[d]
      BY <1>1, <3>1 DEF TypeOK
    <3> QED
      BY <1>1, <2>1, <3>1, <3>3, <3>4 DEF Of, InFlight
  <2>3. \A f \in Fields \ doubt'[v] : cfg'[v][f] = mem'[f]
    BY <1>1, <1>2, <1>3 DEF TypeOK
  <2> QED
    BY <1>5, <2>2, <2>3, NoCallsIsOK
<1> QED
  BY <1>4, <1>5

\* The server starts again with the file.
LEMMA RestartIsOK ==
  ASSUME TypeOK, NEW v \in Views, ViewOK(v), Restart
  PROVE  ViewOK(v)'
<1> DEFINE lost == {c \in InFlight : put[c].stage \in {"sent", "stored"}}
           halfway == UNION {put[c].fields : c \in {d \in lost \cap Of(v) : put[d].stage = "stored"}}
<1>1. mem' = file /\ UNCHANGED <<page, cfg>> /\ doubt'[v] = Outdated(v, file) \cup halfway
  BY DEF Restart, viewVars
<1>2. /\ Of(v)' = Of(v)
      /\ \A c \in Of(v) : /\ put'[c].fields = put[c].fields
                          /\ IF put[c].stage \in {"sent", "stored"} THEN put'[c].stage = "failed"
                             ELSE put'[c] = put[c]
  BY RestartFails
<1>3. \A c \in Of(v) : put[c].stage = "stored" => put[c].fields \subseteq halfway
  BY DEF Of
<1> HIDE DEF halfway
<1>4. \A f \in Fields \ doubt'[v] : f \notin doubt[v] /\ (Shows(v) => mem'[f] = mem[f])
  BY <1>1 DEF Outdated
<1>5. Shows(v)' => Shows(v) /\ cfg'[v] = cfg[v]
  BY <1>1 DEF Shows
<1>6. \A c \in Of(v) : put[c].stage \in Landed =>
        put[c].fields \subseteq doubt'[v] \/ (c \in Of(v)' /\ put'[c].stage \in Landed)
  BY <1>1, <1>2, <1>3 DEF Landed
<1> QED
  BY <1>1, <1>2, <1>4, <1>5, <1>6, ViewSettles

\* A view leaves, and with it nobody waits for its calls.
LEMMA CloseIsOK ==
  ASSUME TypeOK, NEW u \in Views, ViewOK(u), NEW v \in Views, Close(v)
  PROVE  ViewOK(u)'
<1>1. CASE u = v
  <2>1. Of(v)' = {} /\ ~Shows(v)'
    BY CloseOrphans DEF Close, Shows, TypeOK
  <2> QED
    BY <1>1, <2>1, NoCallsIsOK
<1>2. CASE u # v
  <2>1. /\ Of(u)' = Of(u) /\ Of(u) \cap Of(v) = {} /\ Of(u) \subseteq Calls
    BY <1>2, CloseOrphans, OfView DEF Of
  <2>2. \A c \in Of(u) : put'[c] = put[c]
    BY <2>1 DEF Close
  <2>3. mem' = mem /\ page'[u] = page[u] /\ cfg'[u] = cfg[u] /\ doubt'[u] = doubt[u]
    BY <1>2 DEF Close, TypeOK
  <2>4. Shows(u)' => Shows(u)
    BY <2>3 DEF Shows
  <2> QED
    BY <2>1, <2>2, <2>3, <2>4, ViewSettles
<1> QED
  BY <1>1, <1>2

\* The steps of the user and of the answers that send nothing and end no call.
LEMMA QuietStepsAreOK ==
  ASSUME TypeOK, ViewInv, NEW u \in Views, NEW v \in Views,
         \/ Open(v) \/ Discard(v) \/ Answer(v) \/ Loaded(v) \/ LoadFails(v)
         \/ \E t \in Tabs : SelectTab(v, t)
         \/ \E f \in Edited(tab[v]), x \in Texts \cup {Unset} : Type(v, f, x)
  PROVE  ViewOK(u)'
<1>1. ViewOK(u) /\ UNCHANGED mem
  BY DEF ViewInv, Open, Discard, Answer, Loaded, LoadFails, SelectTab, Type
<1>2. ASSUME Of(u)' = Of(u), page[u] = "open" => page'[u] = "open",
             Shows(u)' => Shows(u) /\ cfg'[u] = cfg[u], doubt'[u] = doubt[u],
             \A c \in Of(u) : /\ put'[c].fields = put[c].fields /\ put'[c].stage = put[c].stage
                              /\ put'[c].body = put[c].body
      PROVE  ViewOK(u)'
  BY <1>1, <1>2, ViewSettles
<1>3. ASSUME UNCHANGED put PROVE Of(u)' = Of(u)
  BY <1>3 DEF Of, InFlight
<1>4. ASSUME NEW t \in Tabs, SelectTab(v, t) PROVE ViewOK(u)'
  <2>1. put' = Unmounted(v) /\ UNCHANGED <<page, cfg, doubt>>
    BY <1>4 DEF SelectTab
  <2>2. Shows(u)' = Shows(u)
    BY <2>1 DEF Shows
  <2>3. Of(u) \subseteq InFlight
    BY DEF Of
  <2> QED
    BY <1>2, <2>1, <2>2, <2>3, UnmountedKeeps
<1>5. CASE Discard(v) \/ \E f \in Edited(tab[v]), x \in Texts \cup {Unset} : Type(v, f, x)
  <2>1. UNCHANGED <<page, cfg, doubt, put>>
    BY <1>5 DEF Discard, Type
  <2>2. Shows(u)' = Shows(u)
    BY <2>1 DEF Shows
  <2> QED
    BY <1>2, <1>3, <2>1, <2>2
<1>6. CASE Open(v)
  <2>1. UNCHANGED <<cfg, doubt, put>> /\ page' = [page EXCEPT ![v] = "asking"] /\ page[v] = "closed"
    BY <1>6 DEF Open
  <2>2. (page[u] = "open" => page'[u] = "open") /\ (Shows(u)' => Shows(u))
    BY <2>1 DEF Shows, TypeOK
  <2> QED
    BY <1>2, <1>3, <2>1, <2>2
<1>7. CASE Loaded(v)
  <2>1. UNCHANGED <<cfg, doubt, put>> /\ page' = [page EXCEPT ![v] = "open"] /\ page[v] = "answered"
    BY <1>7 DEF Loaded
  <2>2. (page[u] = "open" => page'[u] = "open") /\ (Shows(u)' => Shows(u))
    BY <2>1 DEF Shows, TypeOK
  <2> QED
    BY <1>2, <1>3, <2>1, <2>2
<1>8. CASE Answer(v) \/ LoadFails(v)
  <2>1. /\ page[v] # "open" /\ UNCHANGED put
        /\ u # v => page'[u] = page[u] /\ cfg'[u] = cfg[u] /\ doubt'[u] = doubt[u]
        /\ Shows(v)' => cfg'[v] = mem
    BY <1>8 DEF Answer, LoadFails, Shows, TypeOK
  <2>2. CASE u = v
    <3>1. Of(v)' = {}
      BY <1>1, <1>3, <2>1, <2>2 DEF ViewOK
    <3> QED
      BY <1>1, <2>1, <2>2, <3>1, NoCallsIsOK
  <2>3. CASE u # v
    <3>1. Shows(u)' = Shows(u)
      BY <2>1, <2>3 DEF Shows
    <3> QED
      BY <1>2, <1>3, <2>1, <2>3, <3>1
  <2> QED
    BY <2>2, <2>3
<1> QED
  BY <1>4, <1>5, <1>6, <1>7, <1>8

\* Views show, and their calls carry, what they should.
LEMMA ViewPreserved == TypeOK /\ ViewInv /\ [Next]_vars => ViewInv'
<1> SUFFICES ASSUME TypeOK, ViewInv, [Next]_vars, NEW u \in Views PROVE ViewOK(u)'
  BY DEF ViewInv
<1>0. ViewOK(u)
  BY DEF ViewInv
<1>1. ASSUME NEW c \in Calls, PutStored(c) PROVE ViewOK(u)'
  <2>1. c \in InFlight /\ put[c].stage = "sent" /\ put' = [put EXCEPT ![c].stage = "stored"]
        /\ mem' = put[c].body /\ doubt' = Told(c) /\ UNCHANGED <<page, cfg>>
    BY <1>1 DEF PutStored, InFlight, viewVars
  <2> QED
    BY <1>0, <2>1, StoredIsOK
<1>2. ASSUME NEW x \in Clusters, Switch(x) PROVE ViewOK(u)'
  <2>1. mem' \in Configs
    BY <1>2 DEF Switch, TypeOK, Configs, Fields, Values
  <2>2. UNCHANGED <<page, cfg, put>> /\ doubt'[u] = Outdated(u, mem')
    BY <1>2 DEF Switch, viewVars
  <2>3. Of(u)' = Of(u) /\ Of(u) \subseteq Calls
    BY <2>2, OfView DEF Of, InFlight
  <2> QED
    BY <1>0, <2>1, <2>2, <2>3, OutdatedIsOK
<1>3. CASE UNCHANGED vars
  <2>1. UNCHANGED <<mem, page, cfg, put, doubt>>
    BY <1>3 DEF vars, viewVars
  <2>2. Of(u)' = Of(u) /\ Shows(u)' = Shows(u)
    BY <2>1 DEF Of, InFlight, Shows
  <2> QED
    BY <1>0, <2>1, <2>2, ViewSettles
<1>4. ASSUME NEW c \in Calls,
             \/ PutRefused(c) \/ PutWritten(c) \/ PutNotWritten(c) \/ AnswerLost(c) \/ SaveFails(c)
      PROVE  ViewOK(u)'
  BY <1>0, <1>4, StepsOfCallsAreOK
<1>5. ASSUME NEW c \in Calls, Saved(c) PROVE ViewOK(u)'
  BY <1>0, <1>5, SavedIsOK
<1>6. ASSUME NEW v \in Views, UserActs(v) \/ Answer(v) \/ Loaded(v) \/ LoadFails(v) PROVE ViewOK(u)'
  BY <1>0, <1>6, CloseIsOK, SendIsOK, QuietStepsAreOK DEF UserActs
<1>7. ASSUME NEW v \in Views, NEW c \in Calls, AnswerRaces(v, c) PROVE ViewOK(u)'
  BY <1>7, AnswerRacesIsOK
<1>8. ASSUME NEW c \in Calls, NEW d \in Calls, PutsRace(c, d) PROVE ViewOK(u)'
  BY <1>0, <1>8, RacedIsOK
<1>9. CASE Restart
  BY <1>0, <1>9, RestartIsOK
<1> QED
  BY <1>1, <1>2, <1>3, <1>4, <1>5, <1>6, <1>7, <1>8, <1>9 DEF Next

-----------------------------------------------------------------------------
(* The theorems                                                            *)

\* At first nothing is shown, nothing is sent and all agree.
LEMMA InitEstablishes == Init => IInv
<1> SUFFICES ASSUME Init PROVE IInv
  OBVIOUS
<1>1. PICK c \in Configs :
        /\ mem = c /\ file = c
        /\ page = [v \in Views |-> "closed"] /\ cfg = [v \in Views |-> NoConfig]
        /\ tab = [v \in Views |-> First] /\ draft = [v \in Views |-> NoConfig]
        /\ put = [c1 \in Calls |-> Idle] /\ last = Nobody
        /\ doubt = [v \in Views |-> {}] /\ adrift = {}
  BY DEF Init
<1>2. InFlight = {} /\ \A v \in Views : Of(v) = {} /\ ~Saving(v) /\ ~Shows(v)
  BY <1>1 DEF InFlight, Of, Saving, Shows
<1>3. First \in Tabs
  BY SettingsAssumption DEF Tabs
<1>4. TypeOK
  BY <1>1, <1>2, <1>3, NoConfigIsConfig DEF TypeOK
<1>5. ViewInv
  BY <1>2 DEF ViewInv, ViewOK
<1>6. FileInv
  BY <1>1 DEF FileInv
<1> QED
  BY <1>4, <1>5, <1>6 DEF IInv

\* The invariant is inductive.
LEMMA Inductive == Spec => []IInv
<1>1. IInv /\ [Next]_vars => IInv'
  BY TypePreserved, ViewPreserved, FilePreserved DEF IInv
<1> QED
  BY InitEstablishes, <1>1, PTL DEF Spec

\* Every variable keeps its type; a section that is saving is shown.
THEOREM TypeCorrect == Spec => []TypeOK
<1>1. IInv => TypeOK
  BY DEF IInv
<1> QED
  BY <1>1, Inductive, PTL

\* An open view shows what the server has, but for the fields the history says.
THEOREM ViewsShowTheServed == Spec => []ShownIsServed
<1>1. IInv => ShownIsServed
  BY DEF IInv, ViewInv, ViewOK, ShownIsServed
<1> QED
  BY <1>1, Inductive, PTL

\* When no write is pending a restart loses nothing, but for the fields the
\* history says.
THEOREM FileFollows == Spec => []FileFollowsMemory
<1>1. IInv => FileFollowsMemory
  <2> SUFFICES ASSUME IInv, \A c \in InFlight : put[c].stage # "stored"
               PROVE  \A f \in Fields \ adrift : file[f] = mem[f]
    BY DEF FileFollowsMemory
  <2>1. last = Nobody
    BY LastIsStored DEF IInv
  <2> QED
    BY <2>1 DEF IInv, FileInv
<1> QED
  BY <1>1, Inductive, PTL

\* The one call that is stored in a step changes its own fields, and no other of
\* those its view is sure of.
LEMMA StoringClobbersUnseen ==
  ASSUME TypeOK, ViewInv, [Next]_vars, NEW c \in InFlight,
         put[c].stage = "sent", put'[c] # Idle, put'[c].stage = "stored",
         put[c].by # Nobody, \A d \in Calls \ {c} : put'[d] = put[d],
         NEW f \in Fields \ (put[c].fields \cup doubt[put[c].by])
  PROVE  mem'[f] = mem[f]
<1>1. c \in Calls /\ put[c] \in Requests /\ put[c].by \in Views
  BY CallsAreRequests DEF InFlight
<1>2. put[c].body[f] = mem[f]
  <2>1. c \in Of(put[c].by)
    BY DEF Of
  <2> QED
    BY <1>1, <2>1 DEF ViewInv, ViewOK
<1>3. ASSUME NEW d \in Calls, put[d] # Idle, put[d].stage = "sent",
             put' = [put EXCEPT ![d].stage = "stored"]
      PROVE  d = c
  <2>1. put'[d] = [put[d] EXCEPT !.stage = "stored"] /\ put[d] \in Requests
    BY <1>3, CallsAreRequests DEF TypeOK
  <2>2. put'[d].stage # put[d].stage
    BY <1>3, <2>1, StoredIs
  <2> QED
    BY <2>2
<1>4. ASSUME NEW d \in Calls, PutStored(d) PROVE mem'[f] = mem[f]
  <2>1. d = c
    BY <1>3, <1>4 DEF PutStored
  <2> QED
    BY <1>2, <1>4, <2>1 DEF PutStored
<1>5. ASSUME NEW v \in Views, NEW d \in Calls, AnswerRaces(v, d) PROVE mem'[f] = mem[f]
  <2>1. d = c
    BY <1>3, <1>5 DEF AnswerRaces
  <2> QED
    BY <1>2, <1>5, <2>1 DEF AnswerRaces
<1>6. ASSUME NEW d \in Calls, NEW e \in Calls, PutsRace(d, e) PROVE FALSE
  <2>1. PICK x \in {d, e} : x # c
    BY <1>6 DEF PutsRace
  <2>2. put[x] \in Requests /\ put[x].stage = "sent" /\ put'[x] = [put[x] EXCEPT !.stage = "stored"]
    <3>1. x \in Calls /\ x \in {d, e} /\ put[x] # Idle
      BY <1>6, <2>1 DEF PutsRace
    <3>2. put[x] \in Requests
      BY <3>1, CallsAreRequests
    <3>3. /\ put[d].stage = "sent" /\ put'[d] = [put[d] EXCEPT !.stage = "stored"]
          /\ put[e].stage = "sent" /\ put'[e] = [put[e] EXCEPT !.stage = "stored"]
      BY <1>6, CallsAreRequests DEF PutsRace, TypeOK
    <3>4. put[x].stage = "sent" /\ put'[x] = [put[x] EXCEPT !.stage = "stored"]
      BY <3>1, <3>3
    <3> QED
      BY <3>2, <3>4
  <2>3. put'[x].stage = "stored"
    BY <2>2, StoredIs
  <2> QED
    BY <2>1, <2>2, <2>3
<1>7. ASSUME NEW x \in Clusters, Switch(x) PROVE FALSE
  BY <1>7 DEF Switch
<1>8. CASE Restart
  <2>1. c \in Of(put[c].by)
    BY DEF Of
  <2> QED
    BY <1>1, <1>8, <2>1, RestartFails
<1>9. CASE UNCHANGED vars
  BY <1>9 DEF vars
<1>10. CASE UNCHANGED mem
  BY <1>10
<1>11. ASSUME NEW v \in Views, UserActs(v) \/ Answer(v) \/ Loaded(v) \/ LoadFails(v)
       PROVE  UNCHANGED mem
  <2>1. CASE Save(v) \/ ToggleTheme(v)
    BY <2>1, SendAdds
  <2> QED
    BY <1>11, <2>1 DEF UserActs, Open, Close, Discard, SelectTab, Type, Answer, Loaded, LoadFails
<1>12. ASSUME NEW d \in Calls, \/ PutRefused(d) \/ PutWritten(d) \/ PutNotWritten(d)
                               \/ AnswerLost(d) \/ Saved(d) \/ SaveFails(d)
       PROVE  UNCHANGED mem
  BY <1>12 DEF PutRefused, PutWritten, PutNotWritten, AnswerLost, Saved, SaveFails
<1> QED
  BY <1>4, <1>5, <1>6, <1>7, <1>8, <1>9, <1>10, <1>11, <1>12 DEF Next

\* A save undoes nothing its view has seen.
THEOREM ClobbersUnseenOnly == Spec => ClobbersOnlyUnseen
<1>1. IInv /\ [Next]_vars =>
        [\A c \in InFlight :
           /\ put[c].stage = "sent" /\ put'[c] # Idle /\ put'[c].stage = "stored"
           /\ put[c].by # Nobody /\ \A d \in Calls \ {c} : put'[d] = put[d]
           => \A f \in Fields \ (put[c].fields \cup doubt[put[c].by]) : mem'[f] = mem[f]]_vars
  BY StoringClobbersUnseen DEF IInv
<1> QED
  BY <1>1, Inductive, PTL DEF Spec, ClobbersOnlyUnseen

=============================================================================
