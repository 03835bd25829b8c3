-------------------------- MODULE SwitchingProofs ---------------------------
(***************************************************************************)
(* What a tab can believe about the current management cluster, for any    *)
(* management clusters, any number of switches in flight and any saves of  *)
(* settings: the header and the shell follow the server although it        *)
(* assigns three fields one after the other.                               *)
(***************************************************************************)
EXTENDS Switching, TLAPS

\* A switch is between its assignments.
Halfway == \E p \in InFlight : put[p].at \in {"client", "context"}

\* No switch has assigned anything its requester does not know of.
NoneHandled == \A p \in InFlight : put[p].at \in {"sent", "failed"}

\* A switch that has met no other is the only one, and what it has assigned
\* is still so.
LoneSwitch ==
    \A p \in InFlight : put[p].alone =>
      /\ \A q \in InFlight : q = p
      /\ put[p].at \in {"client", "context", "ok"} => client = put[p].name
      /\ put[p].at \in {"context", "ok"} => context = put[p].name
      /\ put[p].at = "ok" /\ ~reverted => current = put[p].name

\* Between switches that were handled one at a time client and context agree, and
\* a configuration that no save has put back names them, or no cluster.
ServerAgrees ==
    ~mixed /\ ~Halfway => client = context /\ (~reverted => current \in {None, client})

\* What a tab is told: the name of the server's cluster, if it has one, which the
\* configuration has as well until a save puts an older one back.
Told(n) == client = context /\ n \in {None, client} /\ (~reverted => n = current)

\* An answer to the first GET that met no switch is still right.
FirstIsCurrent ==
    first.clean => first.at = "answered" /\ ~Halfway /\ Told(first.name)

\* The header, until a switch of this tab assigns and before it is told.
HeaderNames == ~adrift /\ NoneHandled => Told(header)

\* What the shell was given, likewise.
ShellFollows ==
    NoneHandled /\ shell # Idle /\ ~shell.crossed =>
      /\ shell.at # "asked" => shell.mgmt = client
      /\ shell.at \in {"answered", "open"} => shell.context = context

IInv == TypeOK /\ LoneSwitch /\ ServerAgrees /\ FirstIsCurrent /\ HeaderNames /\ ShellFollows
-----------------------------------------------------------------------------
(* Requests                                                                *)

\* What is not there is no request and no terminal.
LEMMA IdleIsApart == Idle \notin Requests /\ Idle \notin Shells
<1>1. \A r \in Requests : r.at # Idle.at
  BY DEF Requests, Idle
<1>2. \A s \in Shells : s.at # Idle.at
  BY DEF Shells, Idle
<1> QED
  BY <1>1, <1>2

\* The requests in flight are those that are there.
LEMMA InFlightAreRequests ==
  ASSUME TypeOK, NEW p \in Puts
  PROVE  /\ p \in InFlight <=> put[p] # Idle
         /\ p \in InFlight <=> put[p] \in Requests
BY IdleIsApart DEF TypeOK, InFlight

\* Unmounting the picker changes who waits, and nothing else.
LEMMA OrphanedKeeps ==
  ASSUME TypeOK
  PROVE  /\ Orphaned \in [Puts -> Requests \cup {Idle}]
         /\ \A p \in Puts : Orphaned[p] = Idle <=> put[p] = Idle
         /\ \A p \in InFlight : /\ Orphaned[p].at = put[p].at
                                /\ Orphaned[p].name = put[p].name
                                /\ Orphaned[p].alone = put[p].alone
                                /\ Orphaned[p].by # "picker"
<1>1. ASSUME NEW p \in InFlight
      PROVE  /\ Orphaned[p] \in Requests
             /\ Orphaned[p].at = put[p].at /\ Orphaned[p].name = put[p].name
             /\ Orphaned[p].alone = put[p].alone /\ Orphaned[p].by # "picker"
  <2>1. put[p] \in Requests /\ p \in Puts
    BY <1>1, InFlightAreRequests DEF InFlight
  <2>2. CASE put[p].by = "picker"
    <3>1. Orphaned[p] = [put[p] EXCEPT !.by = "tab"]
      BY <2>1, <2>2, <1>1 DEF Orphaned
    <3> QED
      BY <2>1, <3>1 DEF Requests
  <2>3. CASE put[p].by # "picker"
    <3>1. Orphaned[p] = put[p]
      BY <2>1, <2>3 DEF Orphaned
    <3> QED
      BY <2>1, <2>3, <3>1
  <2> QED
    BY <2>2, <2>3
<1>2. ASSUME NEW p \in Puts, p \notin InFlight PROVE Orphaned[p] = Idle
  BY <1>2 DEF Orphaned, InFlight
<1>3. Orphaned = [p \in Puts |-> Orphaned[p]]
  BY DEF Orphaned
<1>4. \A p \in Puts : Orphaned[p] \in Requests \cup {Idle}
  BY <1>1, <1>2
<1> QED
  BY <1>1, <1>2, <1>3, <1>4, IdleIsApart DEF InFlight

\* A request that is sent joins those in flight, which are alone no more.
LEMMA SendAdds ==
  ASSUME TypeOK, NEW m \in Mgmts, NEW w \in {"picker", "tab", "other"}, Send(m, w)
  PROVE  /\ put' \in [Puts -> Requests \cup {Idle}]
         /\ \E p \in Puts \ InFlight :
              /\ InFlight' = InFlight \cup {p}
              /\ put'[p].at = "sent" /\ put'[p].by = w
              /\ put'[p].alone = (InFlight = {})
              /\ \A q \in InFlight : /\ put'[q].at = put[q].at /\ put'[q].name = put[q].name
                                     /\ put'[q].by = put[q].by /\ put'[q].alone = FALSE
<1>1. PICK p \in Puts \ InFlight :
        put' = [q \in Puts |->
                  IF q = p THEN [at |-> "sent", name |-> m, by |-> w, alone |-> InFlight = {}]
                  ELSE IF q \in InFlight THEN [put[q] EXCEPT !.alone = FALSE]
                  ELSE Idle]
  BY DEF Send
<1> DEFINE new == [at |-> "sent", name |-> m, by |-> w, alone |-> InFlight = {}]
<1>2. put'[p] = new /\ new \in Requests
  BY <1>1 DEF Requests
<1>3. ASSUME NEW q \in InFlight
      PROVE  /\ put'[q] = [put[q] EXCEPT !.alone = FALSE] /\ put'[q] \in Requests
             /\ put'[q].at = put[q].at /\ put'[q].name = put[q].name
             /\ put'[q].by = put[q].by /\ put'[q].alone = FALSE
  <2>1. put[q] \in Requests /\ q \in Puts /\ q # p
    BY <1>3, InFlightAreRequests DEF InFlight
  <2>2. put'[q] = [put[q] EXCEPT !.alone = FALSE]
    BY <1>1, <2>1, <1>3
  <2> QED
    BY <2>1, <2>2 DEF Requests
<1>4. \A q \in Puts \ (InFlight \cup {p}) : put'[q] = Idle
  BY <1>1
<1>5. put' = [q \in Puts |-> put'[q]]
  BY <1>1
<1>6. \A q \in Puts : put'[q] \in Requests \cup {Idle}
  BY <1>2, <1>3, <1>4
<1>7. put' \in [Puts -> Requests \cup {Idle}]
  BY <1>5, <1>6
<1>8. InFlight' = InFlight \cup {p}
  BY <1>2, <1>3, <1>4, IdleIsApart DEF InFlight
<1>9. put'[p].at = "sent" /\ put'[p].by = w /\ put'[p].alone = (InFlight = {})
  BY <1>2
<1> QED
  BY <1>3, <1>7, <1>8, <1>9

\* What a step does to one request it does to no other.
LEMMA OneChanges ==
  ASSUME TypeOK, NEW p \in InFlight, NEW r \in Requests \cup {Idle},
         put' = [put EXCEPT ![p] = r]
  PROVE  /\ put' \in [Puts -> Requests \cup {Idle}]
         /\ put'[p] = r
         /\ \A q \in InFlight \ {p} : put'[q] = put[q]
         /\ InFlight' = IF r = Idle THEN InFlight \ {p} ELSE InFlight
BY DEF TypeOK, InFlight

\* What the handler of p does to p.
LEMMA HandlerAdvances ==
  ASSUME TypeOK, NEW p \in InFlight
  PROVE  /\ put[p] \in Requests
         /\ \A a \in {"client", "context", "ok", "failed"} :
              /\ [put[p] EXCEPT !.at = a] \in Requests
              /\ [put[p] EXCEPT !.at = a].at = a
              /\ [put[p] EXCEPT !.at = a].name = put[p].name
              /\ [put[p] EXCEPT !.at = a].by = put[p].by
              /\ [put[p] EXCEPT !.at = a].alone = put[p].alone
         /\ [put[p] EXCEPT !.by = "other"] \in Requests
         /\ [put[p] EXCEPT !.by = "other"].at = put[p].at
         /\ [put[p] EXCEPT !.by = "other"].name = put[p].name
         /\ [put[p] EXCEPT !.by = "other"].by = "other"
         /\ [put[p] EXCEPT !.by = "other"].alone = put[p].alone
<1>1. put[p] \in Requests
  BY InFlightAreRequests DEF InFlight
<1> QED
  BY <1>1 DEF Requests

\* A step of PUT /mgmts/current, for request p of which r is left.
Advances(p, r) ==
    /\ p \in InFlight
    /\ r \in Requests \cup {Idle}
    /\ put' = [put EXCEPT ![p] = r]
    /\ r # Idle => r.name = put[p].name /\ r.alone = put[p].alone
                   /\ r.by \in {put[p].by, "other"}

\* The last assignment of a switch: of the name, unless a save makes it torn.
LEMMA SetsCurrentIs ==
  ASSUME NEW p \in Puts, SetsCurrent(p)
  PROVE  /\ put[p] # Idle /\ put[p].at = "context"
         /\ put' = [put EXCEPT ![p] = IF put[p].by = "other" THEN Idle
                                      ELSE [put[p] EXCEPT !.at = "ok"]]
         /\ UNCHANGED <<client, context>>
         /\ ~reverted' => current' = put[p].name
<1>1. /\ put[p] # Idle /\ put[p].at = "context"
      /\ put' = [put EXCEPT ![p] = IF @.by = "other" THEN Idle ELSE [@ EXCEPT !.at = "ok"]]
      /\ UNCHANGED <<client, context>>
  BY Zenon DEF SetsCurrent, Handles
<1>2. /\ current' \in {put[p].name} \cup {x \in {Torn} : copies \ {put[p].name} # {}}
      /\ reverted' = (current' = Torn)
  BY DEF SetsCurrent
<1>3. ~reverted' => current' = put[p].name
  BY <1>2, Zenon
<1> QED
  BY <1>1, <1>3

\* The steps of a request, each with what it leaves.
LEMMA StepsAdvance ==
  ASSUME TypeOK, NEW p \in Puts
  PROVE  /\ PutRefused(p) => \E r : Advances(p, r) /\ put[p].at = "sent"
                                    /\ (r # Idle => r.at = "failed" /\ r.by = put[p].by)
         /\ SetsClient(p) => \E r : Advances(p, r) /\ put[p].at = "sent"
                                    /\ r # Idle /\ r.at = "client" /\ r.by = put[p].by
         /\ SetsContext(p) => \E r : Advances(p, r) /\ put[p].at = "client"
                                    /\ r # Idle /\ r.at = "context" /\ r.by = put[p].by
         /\ SetsCurrent(p) => \E r : Advances(p, r) /\ put[p].at = "context"
                                    /\ (r = Idle <=> put[p].by = "other")
                                    /\ (r # Idle => r.at = "ok" /\ r.by = put[p].by)
         /\ AnswerLost(p) => \E r : Advances(p, r) /\ put[p].at # "failed"
                                    /\ (r = Idle <=> put[p].at = "ok")
                                    /\ (r # Idle => r.at = put[p].at /\ r.by = "other")
         /\ SwitchFails(p) => Advances(p, Idle) /\ put[p].at = "failed"
<1> USE DEF Advances
<1>1. PutRefused(p) \/ SetsClient(p) \/ SetsContext(p) \/ SetsCurrent(p) \/ AnswerLost(p)
        \/ SwitchFails(p) => p \in InFlight
  BY DEF PutRefused, SetsClient, SetsContext, SetsCurrent, AnswerLost, SwitchFails, Handles, InFlight
<1>2. PutRefused(p) => \E r : Advances(p, r) /\ put[p].at = "sent"
                                    /\ (r # Idle => r.at = "failed" /\ r.by = put[p].by)
  <2> SUFFICES ASSUME PutRefused(p)
               PROVE  \E r : Advances(p, r) /\ put[p].at = "sent"
                                    /\ (r # Idle => r.at = "failed" /\ r.by = put[p].by)
    OBVIOUS
  <2>1. CASE put[p].by = "other"
    <3>1. put' = [put EXCEPT ![p] = Idle]
      BY <2>1, <1>1 DEF PutRefused
    <3> QED
      BY <3>1, <1>1 DEF PutRefused
  <2>2. CASE put[p].by # "other"
    <3>1. put' = [put EXCEPT ![p] = [put[p] EXCEPT !.at = "failed"]]
      BY <2>2, <1>1 DEF PutRefused
    <3> QED
      BY <3>1, <1>1, HandlerAdvances DEF PutRefused
  <2> QED
    BY <2>1, <2>2
<1>3. SetsClient(p) => \E r : Advances(p, r) /\ put[p].at = "sent"
                                    /\ r # Idle /\ r.at = "client" /\ r.by = put[p].by
  <2>1. SetsClient(p) => put' = [put EXCEPT ![p] = [put[p] EXCEPT !.at = "client"]]
    BY DEF SetsClient
  <2> QED
    BY <1>1, <2>1, HandlerAdvances, IdleIsApart DEF SetsClient, Handles
<1>4. SetsContext(p) => \E r : Advances(p, r) /\ put[p].at = "client"
                                    /\ r # Idle /\ r.at = "context" /\ r.by = put[p].by
  <2>1. SetsContext(p) => put' = [put EXCEPT ![p] = [put[p] EXCEPT !.at = "context"]]
    BY DEF SetsContext
  <2> QED
    BY <1>1, <2>1, HandlerAdvances, IdleIsApart DEF SetsContext, Handles
<1>5. SetsCurrent(p) => \E r : Advances(p, r) /\ put[p].at = "context"
                                    /\ (r = Idle <=> put[p].by = "other")
                                    /\ (r # Idle => r.at = "ok" /\ r.by = put[p].by)
  <2>1. CASE put[p].by = "other"
    <3>1. SetsCurrent(p) => put' = [put EXCEPT ![p] = Idle]
      BY <2>1, SetsCurrentIs
    <3> QED
      BY <1>1, <2>1, <3>1, SetsCurrentIs
  <2>2. CASE put[p].by # "other"
    <3> DEFINE r == [put[p] EXCEPT !.at = "ok"]
    <3>1. SetsCurrent(p) => put' = [put EXCEPT ![p] = r] /\ put[p].at = "context"
      BY <2>2, SetsCurrentIs
    <3>2. SetsCurrent(p) => r \in Requests /\ r.at = "ok" /\ r.name = put[p].name
                            /\ r.by = put[p].by /\ r.alone = put[p].alone /\ r # Idle
      BY <1>1, HandlerAdvances, IdleIsApart
    <3> HIDE DEF r
    <3> QED
      BY <1>1, <2>2, <3>1, <3>2
  <2> QED
    BY <2>1, <2>2
<1>6. AnswerLost(p) => \E r : Advances(p, r) /\ put[p].at # "failed"
                                    /\ (r = Idle <=> put[p].at = "ok")
                                    /\ (r # Idle => r.at = put[p].at /\ r.by = "other")
  <2>1. CASE put[p].at = "ok"
    <3>1. AnswerLost(p) => put' = [put EXCEPT ![p] = Idle]
      BY <2>1 DEF AnswerLost
    <3> QED
      BY <1>1, <2>1, <3>1 DEF AnswerLost
  <2>2. CASE put[p].at # "ok"
    <3>1. AnswerLost(p) => put' = [put EXCEPT ![p] = [put[p] EXCEPT !.by = "other"]]
      BY <2>2 DEF AnswerLost
    <3> QED
      BY <1>1, <2>2, <3>1, HandlerAdvances, IdleIsApart DEF AnswerLost
  <2> QED
    BY <2>1, <2>2
<1>7. SwitchFails(p) => Advances(p, Idle) /\ put[p].at = "failed"
  BY <1>1 DEF SwitchFails
<1> QED
  BY <1>2, <1>3, <1>4, <1>5, <1>6, <1>7

\* An advance leaves the other requests alone, and no picker waits anew.
LEMMA AdvanceKeeps ==
  ASSUME TypeOK, NEW p, NEW r, Advances(p, r)
  PROVE  /\ put' \in [Puts -> Requests \cup {Idle}]
         /\ put'[p] = r
         /\ \A q \in InFlight \ {p} : put'[q] = put[q]
         /\ InFlight' = IF r = Idle THEN InFlight \ {p} ELSE InFlight
         /\ Busy' => Busy
         /\ \A a, b \in InFlight' : put'[a].by = "picker" /\ put'[b].by = "picker" => a = b
<1>1. /\ put' \in [Puts -> Requests \cup {Idle}]
      /\ put'[p] = r
      /\ \A q \in InFlight \ {p} : put'[q] = put[q]
      /\ InFlight' = IF r = Idle THEN InFlight \ {p} ELSE InFlight
  BY OneChanges DEF Advances
<1>2. ASSUME NEW a \in InFlight', put'[a].by = "picker"
      PROVE  a \in InFlight /\ put[a].by = "picker"
  BY <1>1, <1>2 DEF Advances
<1>3. Busy' => Busy
  BY <1>2 DEF Busy
<1>4. \A a, b \in InFlight' : put'[a].by = "picker" /\ put'[b].by = "picker" => a = b
  BY <1>2 DEF TypeOK
<1> QED
  BY <1>1, <1>3, <1>4

\* What two handlers that assign at once leave: neither request was alone, and
\* what the tab knows of them it knows by its history or will be told.
LEMMA RaceKeeps ==
  ASSUME TypeOK, NEW p \in Puts, NEW q \in Puts, SwitchesRace(p, q)
  PROVE  /\ put' \in [Puts -> Requests \cup {Idle}]
         /\ p \in InFlight /\ q \in InFlight /\ p # q
         /\ \A x \in InFlight' : /\ x \in InFlight /\ put'[x].by = put[x].by
                                 /\ put'[x].alone = put[x].alone
         /\ put[p].at \in {"client", "context"}
         /\ put[p].at = "client" => p \in InFlight' /\ put'[p].at = "context"
         /\ put[p].at = "context" /\ put[p].by # "other" => p \in InFlight' /\ put'[p].at = "ok"
<1>1. /\ p # q /\ put[p] \in Requests /\ put[q] \in Requests /\ put[p].at = put[q].at
      /\ p \in InFlight /\ q \in InFlight
      /\ put[p].at \in {"client", "context"}
      /\ put' = [put EXCEPT ![p] = Past(put[p]), ![q] = Past(put[q])]
  BY InFlightAreRequests DEF SwitchesRace, InFlight
<1>2. ASSUME NEW r \in Requests
      PROVE  /\ Past(r) \in Requests \cup {Idle}
             /\ Past(r) # Idle => Past(r).by = r.by /\ Past(r).alone = r.alone
             /\ r.at = "client" => Past(r) # Idle /\ Past(r).at = "context"
             /\ r.at # "client" /\ r.by # "other" => Past(r) # Idle /\ Past(r).at = "ok"
  <2>1. /\ [r EXCEPT !.at = "context"] \in Requests /\ [r EXCEPT !.at = "ok"] \in Requests
        /\ [r EXCEPT !.at = "context"].at = "context" /\ [r EXCEPT !.at = "ok"].at = "ok"
        /\ [r EXCEPT !.at = "context"].by = r.by /\ [r EXCEPT !.at = "ok"].by = r.by
        /\ [r EXCEPT !.at = "context"].alone = r.alone /\ [r EXCEPT !.at = "ok"].alone = r.alone
    BY DEF Requests
  <2> QED
    BY <2>1, IdleIsApart DEF Past
<1>3. /\ put'[p] = Past(put[p]) /\ put'[q] = Past(put[q])
      /\ \A x \in Puts \ {p, q} : put'[x] = put[x]
      /\ put' \in [Puts -> Requests \cup {Idle}]
  BY <1>1, <1>2 DEF TypeOK
<1>4. ASSUME NEW x \in InFlight'
      PROVE  x \in InFlight /\ put'[x].by = put[x].by /\ put'[x].alone = put[x].alone
  <2>1. x \in Puts /\ put'[x] # Idle
    BY DEF InFlight
  <2>2. CASE x \in {p, q}
    BY <1>1, <1>2, <1>3, <2>1, <2>2
  <2>3. CASE x \notin {p, q}
    BY <1>3, <2>1, <2>3 DEF InFlight
  <2> QED
    BY <2>2, <2>3
<1>5. /\ put[p].at = "client" => p \in InFlight' /\ put'[p].at = "context"
      /\ put[p].at = "context" /\ put[p].by # "other" => p \in InFlight' /\ put'[p].at = "ok"
  BY <1>1, <1>2, <1>3 DEF InFlight
<1> QED
  BY <1>1, <1>3, <1>4, <1>5

-----------------------------------------------------------------------------
(* Types                                                                   *)

\* Nothing is in flight, nothing is known.
LEMMA InitEstablishes == Init => IInv
<1> SUFFICES ASSUME Init PROVE IInv
  OBVIOUS
<1>1. InFlight = {} /\ put \in [Puts -> Requests \cup {Idle}]
  BY DEF Init, InFlight
<1>a. /\ client \in Clients /\ context = client /\ current \in {None, client} \cap Names
      /\ Loading \notin Names
  BY SwitchingAssumption DEF Init, Chosen, Clients, Names
<1>2. ~Busy /\ ~Halfway
  BY <1>1 DEF Busy, Halfway
<1>3. Asked \in [at : {"asked", "answered", "over"}, name : Names, clean : BOOLEAN]
      /\ ~Asked.clean
  BY DEF Asked, Names
<1>4. TypeOK
  BY <1>1, <1>a, <1>2, <1>3 DEF Init, TypeOK, Names
<1>5. LoneSwitch /\ ServerAgrees /\ FirstIsCurrent /\ HeaderNames /\ ShellFollows
  BY <1>1, <1>a, <1>2, <1>3 DEF Init, LoneSwitch, ServerAgrees, FirstIsCurrent, HeaderNames, ShellFollows
<1> QED
  BY <1>4, <1>5 DEF IInv

FirstTypes == [at : {"asked", "answered", "over"}, name : Names, clean : BOOLEAN]

\* A shell whose history a step enters stays one.
LEMMA CrossedKeeps ==
  ASSUME TypeOK
  PROVE  /\ Crossed \in Shells \cup {Idle}
         /\ Crossed # Idle => Crossed.crossed
<1>1. CASE shell = Idle
  BY <1>1 DEF Crossed
<1>2. CASE shell # Idle
  <2>1. shell \in Shells
    BY <1>2 DEF TypeOK
  <2>2. Crossed = [shell EXCEPT !.crossed = TRUE]
    BY <1>2 DEF Crossed
  <2> QED
    BY <2>1, <2>2 DEF Shells
<1> QED
  BY <1>1, <1>2

\* Variables keep their types; a picker that waits is open and shows something,
\* and it waits for one request.
LEMMA TypePreserved == TypeOK /\ [Next]_vars => TypeOK'
<1> SUFFICES ASSUME TypeOK, [Next]_vars PROVE TypeOK'
  OBVIOUS
<1> DEFINE PutsOK == /\ put' \in [Puts -> Requests \cup {Idle}]
                     /\ \A p, q \in InFlight' : put'[p].by = "picker" /\ put'[q].by = "picker" => p = q
<1>a. ASSUME NEW p \in Puts, PutRefused(p) \/ SetsClient(p) \/ SetsContext(p) \/ SetsCurrent(p)
                               \/ AnswerLost(p) \/ SwitchFails(p)
      PROVE  PutsOK /\ (Busy' => Busy) /\ p \in InFlight /\ put[p].name \in Mgmts
             /\ put[p].alone \in BOOLEAN
  <2>1. \E r : Advances(p, r)
    BY <1>a, StepsAdvance
  <2>2. p \in InFlight /\ put[p] \in Requests
    BY <2>1, HandlerAdvances DEF Advances
  <2> QED
    BY <2>1, <2>2, AdvanceKeeps DEF Requests
<1>b. ASSUME NEW m \in Mgmts, NEW w \in {"picker", "tab", "other"}, Send(m, w),
             w = "picker" => ~Busy /\ open /\ data # Loading
      PROVE  PutsOK /\ (Busy' => Busy \/ w = "picker")
  <2>1. PICK p \in Puts \ InFlight :
          /\ InFlight' = InFlight \cup {p} /\ put'[p].by = w
          /\ \A q \in InFlight : put'[q].by = put[q].by
    BY <1>b, SendAdds
  <2>2. put' \in [Puts -> Requests \cup {Idle}]
    BY <1>b, SendAdds
  <2>3. Busy' => Busy \/ w = "picker"
    BY <2>1 DEF Busy
  <2>4. \A a, b \in InFlight' : put'[a].by = "picker" /\ put'[b].by = "picker" => a = b
    BY <1>b, <2>1 DEF TypeOK, Busy
  <2> QED
    BY <2>2, <2>3, <2>4
<1>c. ASSUME put' = put PROVE PutsOK /\ (Busy' <=> Busy)
  BY <1>c DEF TypeOK, Busy, InFlight
<1>d. ASSUME put' = Orphaned PROVE PutsOK /\ ~Busy'
  <2>1. \A p \in InFlight' : p \in InFlight /\ put'[p].by # "picker"
    BY <1>d, OrphanedKeeps DEF InFlight
  <2> QED
    BY <1>d, <2>1, OrphanedKeeps DEF Busy
<1>1. ASSUME NEW p \in Puts, PutRefused(p) PROVE TypeOK'
  BY <1>1, <1>a DEF PutRefused, TypeOK, server, tab, saves
<1>2. ASSUME NEW p \in Puts, SetsClient(p) PROVE TypeOK'
  <2>1. first' \in FirstTypes
    BY <1>2 DEF SetsClient, TypeOK, FirstTypes
  <2> QED
    BY <1>2, <1>a, <2>1, CrossedKeeps DEF SetsClient, Handles, TypeOK, FirstTypes, Clients, saves
<1>3. ASSUME NEW p \in Puts, SetsContext(p) PROVE TypeOK'
  BY <1>3, <1>a, CrossedKeeps DEF SetsContext, Handles, TypeOK, Clients, tab, saves
<1>4. ASSUME NEW p \in Puts, SetsCurrent(p) PROVE TypeOK'
  <2>1. current' \in Names /\ reverted' \in BOOLEAN
    BY <1>4, <1>a DEF SetsCurrent, Names
  <2>2. shell' \in Shells \cup {Idle} /\ adrift' \in BOOLEAN
    BY <1>4, CrossedKeeps DEF SetsCurrent, Handles, TypeOK
  <2> QED
    BY <1>4, <1>a, <2>1, <2>2 DEF SetsCurrent, TypeOK, tab
<1>5. ASSUME NEW p \in Puts, AnswerLost(p) PROVE TypeOK'
  BY <1>5, <1>a, CrossedKeeps DEF AnswerLost, TypeOK, server, tab, saves
<1>6. ASSUME NEW p \in Puts, Switched(p) PROVE TypeOK'
  <2>1. put[p] \in Requests
    BY <1>6, InFlightAreRequests DEF Switched
  <2>2. /\ put' \in [Puts -> Requests \cup {Idle}]
        /\ \A q \in InFlight' : put'[q].by # "picker"
    <3>1. put' \in [Puts -> Requests \cup {Idle}]
      BY <1>6, OrphanedKeeps DEF Switched
    <3>2. \A q \in InFlight' : q # p /\ put'[q] = Orphaned[q] /\ q \in InFlight
      BY <1>6, OrphanedKeeps DEF Switched, InFlight
    <3> QED
      BY <3>1, <3>2, OrphanedKeeps
  <2>3. ~Busy'
    BY <2>2 DEF Busy
  <2> QED
    BY <1>6, <2>1, <2>2, <2>3 DEF Switched, TypeOK, server, saves, Names, Requests
<1>7. ASSUME NEW p \in Puts, SwitchFails(p) PROVE TypeOK'
  BY <1>7, <1>a DEF SwitchFails, TypeOK, server, tab, saves
<1>8. ASSUME NEW m \in Mgmts, OtherTabSwitches(m) PROVE TypeOK'
  BY <1>8, <1>b DEF OtherTabSwitches, TypeOK, server, tab, saves
<1>9. ASSUME NEW m \in Mgmts, Pick(m) PROVE TypeOK'
  BY <1>9, <1>b DEF Pick, TypeOK, server, tab, saves
<1>10. CASE FirstAnswered
  <2>1. first' \in FirstTypes
    BY <1>10 DEF FirstAnswered, ReadCurrent, FirstTypes, Names, TypeOK
  <2> QED
    BY <1>10, <1>c, <2>1 DEF FirstAnswered, TypeOK, server, saves, FirstTypes
<1>11. CASE FirstArrives \/ FirstFails
  <2>1. Over \in FirstTypes /\ first \in FirstTypes
    BY DEF Over, FirstTypes, TypeOK, Names
  <2>2. first.name \in Names /\ first.clean \in BOOLEAN
    BY <2>1 DEF FirstTypes
  <2> QED
    BY <1>11, <1>c, <2>1, <2>2 DEF FirstArrives, FirstFails, TypeOK, server, saves, FirstTypes
<1>12. CASE OpenPicker
  BY <1>12, <1>c DEF OpenPicker, TypeOK, server, saves
<1>13. CASE PickerLoads
  <2>1. data' \in Names /\ Loading \notin Names
    BY <1>13, SwitchingAssumption DEF PickerLoads, ReadCurrent, Names, TypeOK
  <2> QED
    BY <1>13, <1>c, <2>1 DEF PickerLoads, TypeOK, server, saves
<1>14. CASE ClosePicker \/ RemountPicker
  BY <1>14, <1>d DEF ClosePicker, RemountPicker, TypeOK, server, saves
<1>15. CASE Connect \/ Ends
  <2>0. [at |-> "asked", mgmt |-> None, context |-> None, crossed |-> FALSE] \in Shells
    BY DEF Shells
  <2>1. shell' \in Shells \cup {Idle}
    BY <1>15, <2>0 DEF Connect, Ends
  <2> QED
    BY <1>15, <1>c, <2>1 DEF Connect, Ends, TypeOK, server, tab, saves
<1>16. CASE Fetches \/ Prepares \/ Opens
  <2>1. shell \in Shells
    BY <1>16 DEF Fetches, Prepares, Opens, TypeOK
  <2>2. shell' \in Shells
    BY <1>16, <2>1 DEF Fetches, Prepares, Opens, ReadContext, Shells, TypeOK
  <2> QED
    BY <1>16, <1>c, <2>2 DEF Fetches, Prepares, Opens, TypeOK, server, tab, saves
<1>17. CASE UNCHANGED vars
  BY <1>17, <1>c DEF vars, server, tab, saves, TypeOK
<1>18. ASSUME NEW p \in Puts, NEW q \in Puts, SwitchesRace(p, q) PROVE TypeOK'
  <2>1. PutsOK /\ (Busy' => Busy)
    BY <1>18, RaceKeeps DEF TypeOK, Busy
  <2>2. context' \in Clients \cup {Torn} /\ current' \in Names /\ reverted' \in BOOLEAN
    BY <1>18 DEF SwitchesRace, TypeOK, Names
  <2>3. shell' \in Shells \cup {Idle} /\ adrift' \in BOOLEAN
    BY <1>18, CrossedKeeps DEF SwitchesRace, TypeOK
  <2> QED
    BY <1>18, <2>1, <2>2, <2>3 DEF SwitchesRace, TypeOK, tab
<1>19. CASE ReadsSettings
  BY <1>19, <1>c DEF ReadsSettings, TypeOK, server, tab
<1>20. ASSUME NEW x \in copies, SavesSettings(x) \/ FirstRaces(x) \/ PickerRaces(x) PROVE TypeOK'
  <2>1. x \in Names /\ Torn \in Names /\ Torn # Loading
    BY SwitchingAssumption DEF TypeOK, Names
  <2>2. /\ client' = client /\ context' = context /\ copies' = copies /\ put' = put
        /\ current' = x /\ reverted' \in BOOLEAN
    BY <1>20 DEF SavesSettings, FirstRaces, PickerRaces, Stores, TypeOK
  <2>3. CASE SavesSettings(x)
    BY <1>c, <2>1, <2>2, <2>3 DEF SavesSettings, TypeOK, tab
  <2>4. CASE FirstRaces(x)
    <3>1. first' \in FirstTypes
      BY <2>1, <2>4 DEF FirstRaces, FirstTypes
    <3> QED
      BY <1>c, <2>1, <2>2, <2>4, <3>1 DEF FirstRaces, TypeOK, FirstTypes
  <2>5. CASE PickerRaces(x)
    BY <1>c, <2>1, <2>2, <2>5 DEF PickerRaces, TypeOK
  <2> QED
    BY <1>20, <2>3, <2>4, <2>5
<1> QED
  BY <1>1, <1>2, <1>3, <1>4, <1>5, <1>6, <1>7, <1>8, <1>9, <1>10, <1>11, <1>12, <1>13,
     <1>14, <1>15, <1>16, <1>17, <1>18, <1>19, <1>20 DEF Next

-----------------------------------------------------------------------------
(* The server                                                              *)

\* No switch assigns anything; a save of settings may.
Untouched ==
    /\ UNCHANGED <<client, context, mixed>>
    /\ ~reverted' => ~reverted /\ current' = current

\* What a step that is none of a request's own leaves of the requests: all, or all
\* but who waits, or all but one that was ok, or one more that is sent.
LEMMA OthersKeep ==
  ASSUME TypeOK, [Next]_vars,
         \A p \in Puts : ~(PutRefused(p) \/ SetsClient(p) \/ SetsContext(p) \/ SetsCurrent(p)
                           \/ AnswerLost(p) \/ SwitchFails(p)),
         \A p, q \in Puts : ~SwitchesRace(p, q)
  PROVE  /\ Untouched
         /\ \A p \in InFlight \cap InFlight' :
              /\ put'[p].at = put[p].at /\ put'[p].name = put[p].name
              /\ put'[p].alone => put[p].alone
         /\ \A p \in InFlight' \ InFlight :
              /\ put'[p].at = "sent" /\ put'[p].alone = (InFlight = {})
              /\ InFlight' = InFlight \cup {p}
              /\ \A q \in InFlight : ~put'[q].alone
         /\ \A p \in InFlight \ InFlight' : put[p].at = "ok" /\ Switched(p)
<1>1. ASSUME NEW p \in Puts, Switched(p)
      PROVE  /\ InFlight' = InFlight \ {p} /\ p \in InFlight
             /\ \A q \in InFlight' : put'[q] = Orphaned[q]
  <2>1. p \in InFlight
    BY <1>1 DEF Switched, InFlight
  <2>2. put' = [Orphaned EXCEPT ![p] = Idle]
    BY <1>1 DEF Switched
  <2>3. put'[p] = Idle /\ \A q \in Puts \ {p} : put'[q] = Orphaned[q]
    BY <2>2, OrphanedKeeps
  <2> QED
    BY <2>1, <2>3, OrphanedKeeps DEF InFlight
<1>2. ASSUME NEW p \in Puts, Switched(p)
      PROVE  /\ Untouched
             /\ put[p].at = "ok"
  BY <1>2 DEF Switched, server, saves, Untouched
<1>3. ASSUME NEW m \in Mgmts, OtherTabSwitches(m) \/ Pick(m)
      PROVE  /\ Untouched
             /\ Send(m, "other") \/ Send(m, "picker")
  BY <1>3 DEF OtherTabSwitches, Pick, server, saves, Untouched
<1>4. ASSUME ReadsSettings \/ FirstAnswered \/ FirstArrives \/ FirstFails \/ OpenPicker \/ PickerLoads
               \/ Connect \/ Fetches \/ Prepares \/ Opens \/ Ends \/ UNCHANGED vars
      PROVE  Untouched /\ UNCHANGED put
  <2>1. UNCHANGED <<client, context, mixed, current, reverted, put>>
    <3>1. CASE Connect \/ Fetches \/ Prepares \/ Opens \/ Ends
      BY <3>1 DEF Connect, Fetches, Prepares, Opens, Ends, server, saves
    <3>2. CASE UNCHANGED vars
      BY <3>2 DEF vars, server, saves
    <3>3. CASE ReadsSettings \/ FirstAnswered \/ FirstArrives \/ FirstFails \/ OpenPicker \/ PickerLoads
      BY <3>3 DEF ReadsSettings, FirstAnswered, FirstArrives, FirstFails, OpenPicker, PickerLoads,
                  server, saves
    <3> QED
      BY <1>4, <3>1, <3>2, <3>3
  <2> QED
    BY <2>1 DEF Untouched
<1>5. ASSUME ClosePicker \/ RemountPicker
      PROVE  Untouched /\ put' = Orphaned
  BY <1>5 DEF ClosePicker, RemountPicker, server, saves, Untouched
<1>10. ASSUME NEW x \in copies, SavesSettings(x) \/ FirstRaces(x) \/ PickerRaces(x)
       PROVE  Untouched /\ UNCHANGED put
  <2>1. Stores(x) /\ UNCHANGED <<put, mixed>>
    BY <1>10 DEF SavesSettings, FirstRaces, PickerRaces
  <2> QED
    BY <2>1 DEF Stores, Untouched, TypeOK
<1>6. CASE \E p \in Puts : Switched(p)
  BY <1>6, <1>1, <1>2, OrphanedKeeps
<1>7. CASE \E m \in Mgmts : OtherTabSwitches(m) \/ Pick(m)
  <2>1. PICK m \in Mgmts : Send(m, "other") \/ Send(m, "picker")
    BY <1>7, <1>3
  <2> QED
    BY <1>7, <1>3, <2>1, SendAdds
<1>8. CASE UNCHANGED put
  <2>1. InFlight' = InFlight
    BY <1>8 DEF InFlight
  <2>2. CASE Untouched
    BY <1>8, <2>1, <2>2
  <2> QED
    BY <2>2, <1>2, <1>3, <1>4, <1>5, <1>10 DEF Next
<1>9. CASE ClosePicker \/ RemountPicker
  <2>1. InFlight' = InFlight
    BY <1>9, <1>5, OrphanedKeeps DEF InFlight
  <2> QED
    BY <1>9, <1>5, <2>1, OrphanedKeeps
<1> QED
  BY <1>4, <1>6, <1>7, <1>8, <1>9, <1>10 DEF Next

\* A lone switch stays what it is, or has company.
LEMMA LonePreserved == TypeOK /\ LoneSwitch /\ [Next]_vars => LoneSwitch'
<1> SUFFICES ASSUME TypeOK, LoneSwitch, [Next]_vars,
                    NEW q \in InFlight', put'[q].alone
             PROVE  /\ \A x \in InFlight' : x = q
                    /\ put'[q].at \in {"client", "context", "ok"} => client' = put'[q].name
                    /\ put'[q].at \in {"context", "ok"} => context' = put'[q].name
                    /\ put'[q].at = "ok" /\ ~reverted' => current' = put'[q].name
  BY DEF LoneSwitch
<1> USE DEF LoneSwitch
<1>0. ASSUME NEW p, NEW r, Advances(p, r)
      PROVE  /\ q = p /\ put'[q] = r /\ r # Idle /\ put[q].alone /\ q \in InFlight
             /\ \A x \in InFlight' : x = q
             /\ put'[q].name = put[q].name
  <2>1. q \in InFlight /\ \A x \in InFlight' : x \in InFlight
    BY <1>0, AdvanceKeeps
  <2>2. put[q].alone
    BY <1>0, <2>1, AdvanceKeeps DEF Advances
  <2>3. p = q
    BY <1>0, <2>1, <2>2 DEF Advances
  <2>4. \A x \in InFlight' : x = q
    BY <2>1, <2>2
  <2>5. put'[q] = r /\ r # Idle
    BY <1>0, <2>3, AdvanceKeeps
  <2>6. r.name = put[q].name
    BY <1>0, <2>3, <2>5 DEF Advances
  <2> QED
    BY <2>1, <2>2, <2>3, <2>4, <2>5, <2>6
<1>1. ASSUME NEW p \in Puts, SetsClient(p)
      PROVE  /\ \A x \in InFlight' : x = q
             /\ put'[q].at = "client" /\ client' = put'[q].name
  <2>1. PICK r : Advances(p, r) /\ r.at = "client"
    BY <1>1, StepsAdvance
  <2> QED
    BY <1>1, <2>1, <1>0 DEF SetsClient
<1>2. ASSUME NEW p \in Puts, SetsContext(p)
      PROVE  /\ \A x \in InFlight' : x = q
             /\ put'[q].at = "context" /\ client' = put'[q].name /\ context' = put'[q].name
  <2>1. PICK r : Advances(p, r) /\ r.at = "context" /\ put[p].at = "client"
    BY <1>2, StepsAdvance
  <2> QED
    BY <1>2, <2>1, <1>0 DEF SetsContext
<1>3. ASSUME NEW p \in Puts, SetsCurrent(p)
      PROVE  /\ \A x \in InFlight' : x = q
             /\ client' = put'[q].name
             /\ context' = put'[q].name
             /\ ~reverted' => current' = put'[q].name
  <2>1. PICK r : Advances(p, r) /\ put[p].at = "context"
    BY <1>3, StepsAdvance
  <2> QED
    BY <1>3, <2>1, <1>0, SetsCurrentIs
<1>4. ASSUME NEW p \in Puts, PutRefused(p) \/ AnswerLost(p) \/ SwitchFails(p)
      PROVE  /\ \A x \in InFlight' : x = q
             /\ UNCHANGED <<client, context, current, reverted>>
             /\ q \in InFlight /\ put[q].alone /\ put'[q].name = put[q].name
             /\ put'[q].at = put[q].at \/ put'[q].at = "failed"
  <2>1. PICK r : Advances(p, r) /\ (r # Idle => r.at = put[p].at \/ r.at = "failed")
    BY <1>4, StepsAdvance
  <2> QED
    BY <1>4, <2>1, <1>0 DEF PutRefused, AnswerLost, SwitchFails, server, saves
<1>5. CASE /\ \A p \in Puts : ~(PutRefused(p) \/ SetsClient(p) \/ SetsContext(p) \/ SetsCurrent(p)
                             \/ AnswerLost(p) \/ SwitchFails(p))
           /\ \A a, b \in Puts : ~SwitchesRace(a, b)
  <2>1. CASE q \in InFlight
    <3>1. put[q].alone /\ put'[q].at = put[q].at /\ put'[q].name = put[q].name
      BY <1>5, <2>1, OthersKeep
    <3>2. \A x \in InFlight' : x = q
      BY <1>5, <2>1, <3>1, OthersKeep
    <3> QED
      BY <1>5, <2>1, <3>1, <3>2, OthersKeep DEF Untouched
  <2>2. CASE q \notin InFlight
    <3>1. /\ put'[q].at = "sent" /\ put'[q].alone = (InFlight = {})
          /\ InFlight' = InFlight \cup {q}
      BY <1>5, <2>2, OthersKeep
    <3>2. InFlight' = {q}
      BY <3>1
    <3> QED
      BY <3>1, <3>2
  <2> QED
    BY <2>1, <2>2
<1>6. ASSUME NEW a \in Puts, NEW b \in Puts, SwitchesRace(a, b) PROVE FALSE
  <2>1. q \in InFlight /\ put[q].alone /\ a \in InFlight /\ b \in InFlight /\ a # b
    BY <1>6, RaceKeeps
  <2> QED
    BY <2>1
<1> QED
  BY <1>1, <1>2, <1>3, <1>4, <1>5, <1>6

\* A request that assigns is in flight before and after, but for the last step of
\* one that is another tab's.
LEMMA AssigningIsSeen ==
  ASSUME TypeOK, NEW p \in Puts, SetsClient(p) \/ SetsContext(p) \/ SetsCurrent(p)
  PROVE  /\ p \in InFlight
         /\ SetsClient(p) \/ SetsContext(p) => Halfway'
         /\ SetsContext(p) \/ SetsCurrent(p) => Halfway
         /\ put[p].by # "other" => ~NoneHandled'
<1>1. PICK r : /\ Advances(p, r)
               /\ SetsClient(p) => r # Idle /\ r.at = "client"
               /\ SetsContext(p) => put[p].at = "client" /\ r # Idle /\ r.at = "context"
               /\ SetsCurrent(p) => put[p].at = "context"
                                    /\ (put[p].by # "other" => r # Idle /\ r.at = "ok")
  <2>1. ~(SetsClient(p) /\ SetsContext(p)) /\ ~(SetsClient(p) /\ SetsCurrent(p))
        /\ ~(SetsContext(p) /\ SetsCurrent(p))
    BY DEF SetsClient, SetsContext, SetsCurrent, Handles
  <2>2. CASE SetsClient(p)
    BY <2>1, <2>2, StepsAdvance
  <2>3. CASE SetsContext(p)
    BY <2>1, <2>3, StepsAdvance
  <2>4. CASE SetsCurrent(p)
    BY <2>1, <2>4, StepsAdvance
  <2> QED
    BY <2>2, <2>3, <2>4
<1>2. p \in InFlight /\ (r # Idle => p \in InFlight' /\ put'[p] = r)
  BY <1>1, AdvanceKeeps DEF Advances
<1> QED
  BY <1>1, <1>2 DEF Halfway, NoneHandled

\* Two that assign at once are seen by the tab's history unless one is its own.
LEMMA RacingIsSeen ==
  ASSUME TypeOK, NEW p \in Puts, NEW q \in Puts, SwitchesRace(p, q)
  PROVE  /\ Halfway /\ mixed' /\ UNCHANGED first
         /\ NoneHandled' => adrift'
         /\ NoneHandled' /\ shell' # Idle => shell'.crossed
<1>1. Halfway
  BY RaceKeeps DEF Halfway
<1>2. put[p].by # "other" => ~NoneHandled'
  BY RaceKeeps DEF NoneHandled
<1>3. put[p].by = "other" => adrift' /\ shell' = Crossed
  BY DEF SwitchesRace
<1>4. mixed' /\ UNCHANGED first
  BY DEF SwitchesRace, tab
<1> QED
  BY <1>1, <1>2, <1>3, <1>4, CrossedKeeps

\* Any other step assigns nothing, and no switch is finished behind the tab's
\* back but by its answer, or the loss of it.
LEMMA OthersAssignNothing ==
  ASSUME TypeOK, [Next]_vars,
         \A p \in Puts : ~(SetsClient(p) \/ SetsContext(p) \/ SetsCurrent(p)),
         \A p, q \in Puts : ~SwitchesRace(p, q)
  PROVE  /\ Untouched
         /\ Halfway' <=> Halfway
         /\ NoneHandled' => NoneHandled \/ \E p \in Puts : Switched(p) \/ AnswerLost(p)
<1>1. ASSUME NEW p \in Puts, PutRefused(p) \/ AnswerLost(p) \/ SwitchFails(p)
      PROVE  /\ Untouched
             /\ Halfway' <=> Halfway
             /\ NoneHandled' => NoneHandled \/ AnswerLost(p)
  <2>1. Untouched
    BY <1>1 DEF PutRefused, AnswerLost, SwitchFails, server, saves, Untouched
  <2>2. PICK r : /\ Advances(p, r)
                 /\ PutRefused(p) \/ SwitchFails(p) => put[p].at \in {"sent", "failed"}
                 /\ r # Idle => r.at = put[p].at \/ (r.at = "failed" /\ put[p].at = "sent")
                 /\ r = Idle => put[p].at \in {"sent", "ok", "failed"}
    <3>1. CASE PutRefused(p)
      <4>1. put[p].at = "sent"
        BY <3>1, StepsAdvance
      <4> QED
        BY <3>1, <4>1, StepsAdvance
    <3>2. CASE SwitchFails(p)
      BY <3>2, StepsAdvance
    <3>3. CASE AnswerLost(p)
      <4>1. (~PutRefused(p) /\ ~SwitchFails(p)) \/ put[p].at \in {"sent", "failed"}
        BY DEF PutRefused, SwitchFails
      <4> QED
        BY <3>3, <4>1, StepsAdvance
    <3> QED
      BY <1>1, <3>1, <3>2, <3>3
  <2>3. /\ p \in InFlight /\ put'[p] = r
        /\ \A q \in InFlight \ {p} : put'[q] = put[q]
        /\ InFlight' = IF r = Idle THEN InFlight \ {p} ELSE InFlight
    BY <2>2, AdvanceKeeps DEF Advances
  <2>4. Halfway' <=> Halfway
    BY <2>2, <2>3 DEF Halfway
  <2>5. NoneHandled' => NoneHandled \/ AnswerLost(p)
    BY <1>1, <2>2, <2>3 DEF NoneHandled
  <2> QED
    BY <2>1, <2>4, <2>5
<1>2. CASE \A p \in Puts : ~(PutRefused(p) \/ SetsClient(p) \/ SetsContext(p) \/ SetsCurrent(p)
                             \/ AnswerLost(p) \/ SwitchFails(p))
  <2>1. /\ Untouched
        /\ \A p \in InFlight \cap InFlight' : put'[p].at = put[p].at
        /\ \A p \in InFlight' \ InFlight : put'[p].at = "sent"
        /\ \A p \in InFlight \ InFlight' : put[p].at = "ok" /\ Switched(p)
    BY <1>2, OthersKeep
  <2>2. Halfway' <=> Halfway
    BY <2>1 DEF Halfway
  <2>3. NoneHandled' => NoneHandled \/ \E p \in Puts : Switched(p)
    BY <2>1 DEF NoneHandled, InFlight
  <2> QED
    BY <2>1, <2>2, <2>3
<1> QED
  BY <1>1, <1>2

\* The last assignment of a lone switch makes the fields agree.
LEMMA AgreementPreserved ==
  TypeOK /\ LoneSwitch /\ ServerAgrees /\ [Next]_vars => ServerAgrees'
<1> SUFFICES ASSUME TypeOK, LoneSwitch, ServerAgrees, [Next]_vars, ~mixed', ~Halfway'
             PROVE  client' = context' /\ (~reverted' => current' \in {None, client'})
  BY DEF ServerAgrees
<1>1. ASSUME NEW p \in Puts, SetsCurrent(p)
      PROVE  client' = context' /\ (~reverted' => current' \in {None, client'})
  <2>1. p \in InFlight /\ put[p].at = "context" /\ put[p].alone
    BY <1>1, AssigningIsSeen, HandlerAdvances DEF SetsCurrent, Handles, Requests
  <2> QED
    BY <1>1, <2>1, SetsCurrentIs DEF LoneSwitch
<1>2. ASSUME NEW p \in Puts, SetsClient(p) \/ SetsContext(p) PROVE FALSE
  BY <1>2, AssigningIsSeen
<1>3. ASSUME NEW p \in Puts, NEW q \in Puts, SwitchesRace(p, q) PROVE FALSE
  BY <1>3, RacingIsSeen
<1>4. CASE \A p \in Puts : ~(SetsClient(p) \/ SetsContext(p) \/ SetsCurrent(p))
  BY <1>3, <1>4, OthersAssignNothing DEF ServerAgrees, Untouched
<1> QED
  BY <1>1, <1>2, <1>4

-----------------------------------------------------------------------------
(* The tab                                                                 *)

\* The answer to the first GET is no longer clean once a switch assigns.
LEMMA FirstPreserved ==
  TypeOK /\ ServerAgrees /\ FirstIsCurrent /\ [Next]_vars => FirstIsCurrent'
<1> SUFFICES ASSUME TypeOK, ServerAgrees, FirstIsCurrent, [Next]_vars PROVE FirstIsCurrent'
  OBVIOUS
<1> USE DEF FirstIsCurrent
<1>1. ASSUME NEW p \in Puts, SetsClient(p) PROVE FirstIsCurrent'
  <2>1. ~first'.clean
    BY <1>1 DEF SetsClient, TypeOK
  <2> QED
    BY <2>1
<1>2. ASSUME NEW p \in Puts, SetsContext(p) \/ SetsCurrent(p) PROVE FirstIsCurrent'
  <2>1. Halfway /\ UNCHANGED first
    BY <1>2, AssigningIsSeen DEF SetsContext, SetsCurrent, tab
  <2> QED
    BY <2>1
<1>3. CASE FirstAnswered
  <2>2. UNCHANGED <<client, context, current, reverted>> /\ (Halfway' <=> Halfway)
    BY <1>3 DEF FirstAnswered, server, saves, Halfway, InFlight
  <2>3. ASSUME first'.clean
        PROVE  /\ first'.at = "answered" /\ ~Halfway /\ first'.name = current
               /\ ~mixed /\ ~reverted
    <3>1. PICK x \in ReadCurrent :
            first' = [at |-> "answered", name |-> x,
                      clean |-> /\ ~mixed /\ ~reverted
                                /\ \A p \in InFlight : put[p].at = "sent"]
      BY <1>3 DEF FirstAnswered
    <3>2. ~mixed /\ ~reverted /\ \A p \in InFlight : put[p].at = "sent"
      BY <2>3, <3>1
    <3>3. x = current
      BY <3>2 DEF ReadCurrent
    <3> QED
      BY <3>1, <3>2, <3>3 DEF Halfway
  <2> QED
    BY <2>2, <2>3 DEF ServerAgrees, Told
<1>4. CASE FirstArrives \/ FirstFails
  <2>1. ~first'.clean
    BY <1>4 DEF FirstArrives, FirstFails, Over
  <2> QED
    BY <2>1
<1>7. ASSUME NEW p \in Puts, NEW q \in Puts, SwitchesRace(p, q) PROVE FirstIsCurrent'
  BY <1>7, RacingIsSeen
<1>8. ASSUME NEW x \in copies, FirstRaces(x) PROVE FirstIsCurrent'
  <2>1. ~first'.clean
    BY <1>8 DEF FirstRaces
  <2> QED
    BY <2>1
<1>5. CASE /\ UNCHANGED first
           /\ \A p \in Puts : ~(SetsClient(p) \/ SetsContext(p) \/ SetsCurrent(p))
           /\ \A p, q \in Puts : ~SwitchesRace(p, q)
  BY <1>5, OthersAssignNothing DEF Told, Untouched
<1>6. ASSUME ~FirstAnswered, ~FirstArrives, ~FirstFails, \A p \in Puts : ~SetsClient(p),
             \A x \in copies : ~FirstRaces(x), \A p, q \in Puts : ~SwitchesRace(p, q)
      PROVE  UNCHANGED first
  <2>1. ASSUME NEW p \in Puts, \/ PutRefused(p) \/ SetsContext(p) \/ SetsCurrent(p)
                               \/ AnswerLost(p) \/ Switched(p) \/ SwitchFails(p)
        PROVE  UNCHANGED first
    BY <2>1 DEF PutRefused, SetsContext, SetsCurrent, AnswerLost, Switched, SwitchFails, tab
  <2>2. ASSUME NEW m \in Mgmts, OtherTabSwitches(m) \/ Pick(m) PROVE UNCHANGED first
    BY <2>2 DEF OtherTabSwitches, Pick, tab
  <2>3. CASE OpenPicker \/ PickerLoads \/ ClosePicker \/ RemountPicker
    BY <2>3 DEF OpenPicker, PickerLoads, ClosePicker, RemountPicker
  <2>4. CASE Connect \/ Fetches \/ Prepares \/ Opens \/ Ends
    BY <2>4 DEF Connect, Fetches, Prepares, Opens, Ends, tab
  <2>5. CASE UNCHANGED vars
    BY <2>5 DEF vars, tab
  <2>6. ASSUME NEW x \in copies, SavesSettings(x) \/ PickerRaces(x)
        PROVE  UNCHANGED first
    BY <2>6 DEF SavesSettings, PickerRaces, tab
  <2>7. CASE ReadsSettings
    BY <2>7 DEF ReadsSettings, tab
  <2> QED
    BY <1>6, <2>1, <2>2, <2>3, <2>4, <2>5, <2>6, <2>7 DEF Next
<1> QED
  BY <1>1, <1>2, <1>3, <1>4, <1>5, <1>6, <1>7, <1>8

\* A request that assigns is seen by the tab's history unless it is the tab's own.
LEMMA AssigningKeepsTab ==
  ASSUME TypeOK, NEW p \in Puts, SetsClient(p) \/ SetsContext(p) \/ SetsCurrent(p)
  PROVE  /\ NoneHandled' => adrift'
         /\ NoneHandled' /\ shell' # Idle => shell'.crossed
<1>1. put[p].by = "other" => adrift' = TRUE /\ shell' = Crossed
  BY DEF SetsClient, SetsContext, SetsCurrent, Handles
<1> QED
  BY <1>1, AssigningIsSeen, CrossedKeeps

\* The header is right when the answer to a lone switch, or a clean first answer,
\* puts it there, and stays so until a switch assigns.
LEMMA HeaderPreserved ==
  TypeOK /\ LoneSwitch /\ FirstIsCurrent /\ HeaderNames /\ [Next]_vars => HeaderNames'
<1> SUFFICES ASSUME TypeOK, LoneSwitch, FirstIsCurrent, HeaderNames, [Next]_vars,
                    ~adrift', NoneHandled'
             PROVE  Told(header)'
  BY DEF HeaderNames
<1>1. ASSUME NEW p \in Puts PROVE ~(SetsClient(p) \/ SetsContext(p) \/ SetsCurrent(p))
  BY AssigningKeepsTab
<1>b. ASSUME NEW p \in Puts, NEW q \in Puts PROVE ~SwitchesRace(p, q)
  BY RacingIsSeen
<1>2. Untouched
  BY <1>1, <1>b, OthersAssignNothing
<1>c. ASSUME NEW n, Told(n), header' = n PROVE Told(header)'
  BY <1>2, <1>c DEF Told, Untouched
<1>3. ASSUME NEW p \in Puts, Switched(p)
      PROVE  Told(header)'
  <2>1. p \in InFlight /\ put[p].at = "ok" /\ header' = put[p].name
    BY <1>3 DEF Switched, InFlight
  <2>2. put[p].alone
    BY <1>3 DEF Switched
  <2>3. Told(put[p].name)
    BY <2>1, <2>2 DEF LoneSwitch, Told
  <2> QED
    BY <1>c, <2>1, <2>3
<1>4. CASE FirstArrives
  <2>1. first.clean
    BY <1>4 DEF FirstArrives
  <2> QED
    BY <1>c, <1>4, <2>1 DEF FirstArrives, FirstIsCurrent
<1>5. ASSUME NEW p \in Puts, AnswerLost(p) PROVE FALSE
  BY <1>5 DEF AnswerLost
<1>6. CASE UNCHANGED <<header, adrift>> /\ \A p \in Puts : ~Switched(p)
  <2>1. NoneHandled
    BY <1>1, <1>b, <1>5, <1>6, OthersAssignNothing
  <2> QED
    BY <1>c, <1>6, <2>1 DEF HeaderNames
<1>7. ASSUME ~FirstArrives, \A p \in Puts : ~Switched(p)
      PROVE  UNCHANGED <<header, adrift>>
  <2>1. ASSUME NEW p \in Puts, PutRefused(p) \/ SwitchFails(p) PROVE UNCHANGED <<header, adrift>>
    BY <2>1 DEF PutRefused, SwitchFails, tab
  <2>2. ASSUME NEW m \in Mgmts, OtherTabSwitches(m) \/ Pick(m) PROVE UNCHANGED <<header, adrift>>
    BY <2>2 DEF OtherTabSwitches, Pick, tab
  <2>3. CASE FirstAnswered \/ FirstFails
    BY <2>3 DEF FirstAnswered, FirstFails
  <2>4. CASE OpenPicker \/ PickerLoads \/ ClosePicker \/ RemountPicker
    BY <2>4 DEF OpenPicker, PickerLoads, ClosePicker, RemountPicker
  <2>5. CASE Connect \/ Fetches \/ Prepares \/ Opens \/ Ends
    BY <2>5 DEF Connect, Fetches, Prepares, Opens, Ends, tab
  <2>6. CASE UNCHANGED vars
    BY <2>6 DEF vars, tab
  <2>7. CASE ReadsSettings
    BY <2>7 DEF ReadsSettings, tab
  <2>8. ASSUME NEW x \in copies, SavesSettings(x) \/ FirstRaces(x) \/ PickerRaces(x)
        PROVE  UNCHANGED <<header, adrift>>
    BY <2>8 DEF SavesSettings, FirstRaces, PickerRaces, tab
  <2> QED
    BY <1>1, <1>b, <1>5, <1>7, <2>1, <2>2, <2>3, <2>4, <2>5, <2>6, <2>7, <2>8 DEF Next
<1> QED
  BY <1>3, <1>4, <1>6, <1>7

\* A shell reads what the server has; a switch that assigns later crosses it, or
\* ends it.
LEMMA ShellPreserved ==
  TypeOK /\ ShellFollows /\ [Next]_vars => ShellFollows'
<1> SUFFICES ASSUME TypeOK, ShellFollows, [Next]_vars,
                    NoneHandled', shell' # Idle, ~shell'.crossed
             PROVE  /\ shell'.at # "asked" => shell'.mgmt = client'
                    /\ shell'.at \in {"answered", "open"} => shell'.context = context'
  BY DEF ShellFollows
<1>1. ASSUME NEW p \in Puts PROVE ~(SetsClient(p) \/ SetsContext(p) \/ SetsCurrent(p))
  BY AssigningKeepsTab
<1>b. ASSUME NEW p \in Puts, NEW q \in Puts PROVE ~SwitchesRace(p, q)
  BY RacingIsSeen
<1>2. UNCHANGED <<client, context>>
  BY <1>1, <1>b, OthersAssignNothing DEF Untouched
<1>3. ASSUME NEW p \in Puts PROVE ~Switched(p)
  BY DEF Switched
<1>4. ASSUME NEW p \in Puts PROVE ~AnswerLost(p)
  BY CrossedKeeps DEF AnswerLost
<1>5. NoneHandled
  BY <1>1, <1>b, <1>3, <1>4, OthersAssignNothing
<1>6. CASE Connect
  BY <1>6 DEF Connect
<1>7. CASE Fetches
  <2>1. shell \in Shells /\ shell' = [shell EXCEPT !.at = "fetched", !.mgmt = client]
    BY <1>7 DEF Fetches, TypeOK
  <2>2. shell'.at = "fetched" /\ shell'.mgmt = client
    BY <2>1 DEF Shells
  <2> QED
    BY <1>2, <2>2
<1>8. CASE Prepares
  <2>1. ReadContext = {context}
    BY <1>5 DEF ReadContext, NoneHandled
  <2>2. shell \in Shells /\ shell # Idle /\ shell.at = "fetched"
        /\ shell' = [shell EXCEPT !.at = "answered", !.context = context]
    BY <1>8, <2>1 DEF Prepares, TypeOK
  <2>3. shell'.mgmt = shell.mgmt /\ shell'.context = context /\ shell'.crossed = shell.crossed
    BY <2>2 DEF Shells
  <2> QED
    BY <1>2, <1>5, <2>2, <2>3 DEF ShellFollows
<1>9. CASE Opens
  <2>1. shell \in Shells /\ shell # Idle /\ shell.at = "answered"
        /\ shell' = [shell EXCEPT !.at = "open"]
    BY <1>9 DEF Opens, TypeOK
  <2>2. shell'.mgmt = shell.mgmt /\ shell'.context = shell.context /\ shell'.crossed = shell.crossed
    BY <2>1 DEF Shells
  <2> QED
    BY <1>2, <1>5, <2>1, <2>2 DEF ShellFollows
<1>10. CASE Ends
  BY <1>10 DEF Ends
<1>11. CASE UNCHANGED shell
  BY <1>2, <1>5, <1>11 DEF ShellFollows
<1>12. ASSUME ~(Connect \/ Fetches \/ Prepares \/ Opens \/ Ends) PROVE UNCHANGED shell
  <2>1. ASSUME NEW p \in Puts, PutRefused(p) \/ SwitchFails(p) PROVE UNCHANGED shell
    BY <2>1 DEF PutRefused, SwitchFails
  <2>2. ASSUME NEW m \in Mgmts, OtherTabSwitches(m) \/ Pick(m) PROVE UNCHANGED shell
    BY <2>2 DEF OtherTabSwitches, Pick
  <2>3. CASE FirstAnswered \/ FirstArrives \/ FirstFails
    BY <2>3 DEF FirstAnswered, FirstArrives, FirstFails
  <2>4. CASE OpenPicker \/ PickerLoads \/ ClosePicker \/ RemountPicker
    BY <2>4 DEF OpenPicker, PickerLoads, ClosePicker, RemountPicker
  <2>5. CASE UNCHANGED vars
    BY <2>5 DEF vars
  <2>6. CASE ReadsSettings
    BY <2>6 DEF ReadsSettings
  <2>7. ASSUME NEW x \in copies, SavesSettings(x) \/ FirstRaces(x) \/ PickerRaces(x)
        PROVE  UNCHANGED shell
    BY <2>7 DEF SavesSettings, FirstRaces, PickerRaces
  <2> QED
    BY <1>1, <1>b, <1>3, <1>4, <1>12, <2>1, <2>2, <2>3, <2>4, <2>5, <2>6, <2>7 DEF Next
<1> QED
  BY <1>6, <1>7, <1>8, <1>9, <1>10, <1>11, <1>12

-----------------------------------------------------------------------------
(* Theorems                                                                *)

\* What the server and the tab know is an invariant.
LEMMA Inductive == Spec => []IInv
<1>1. IInv /\ [Next]_vars => IInv'
  BY TypePreserved, LonePreserved, AgreementPreserved, FirstPreserved, HeaderPreserved,
     ShellPreserved DEF IInv
<1> QED
  BY InitEstablishes, <1>1, PTL DEF Spec

\* Variables keep their types, and a picker waits for one request at most.
THEOREM TypeCorrect == Spec => []TypeOK
<1>1. IInv => TypeOK
  BY DEF IInv
<1> QED
  BY Inductive, <1>1, PTL

\* The header names the cluster of the server's client and context when no switch
\* is under way, and is what the configuration says until a save of settings puts
\* an older name back (mgmts_api.go:63-68, config_api.go:24, App.tsx:46, 97),
\* however many switches and saves were at once before.
THEOREM HeaderFollows == Spec => []HeaderIsCurrent
<1>1. IInv => HeaderIsCurrent
  BY DEF IInv, HeaderNames, Told, HeaderIsCurrent, NoneHandled
<1> QED
  BY Inductive, <1>1, PTL

\* A shell that no switch of others has crossed is on the cluster the header
\* names, prompt included (sessions.go:114, 128).
THEOREM ShellFollowsHeader == Spec => []ShellMatchesHeader
<1>1. ASSUME IInv PROVE ShellMatchesHeader
  <2> SUFFICES ASSUME InFlight = {}, ~adrift, shell # Idle, shell.at = "open", ~shell.crossed
               PROVE  shell.mgmt = shell.context /\ header \in {None, shell.mgmt}
    BY DEF ShellMatchesHeader
  <2>1. NoneHandled
    BY DEF NoneHandled
  <2>2. client = context /\ header \in {None, client}
    BY <1>1, <2>1 DEF IInv, HeaderNames, Told
  <2>3. shell.mgmt = client /\ shell.context = context
    BY <1>1, <2>1 DEF IInv, ShellFollows
  <2> QED
    BY <2>2, <2>3
<1> QED
  BY Inductive, <1>1, PTL

=============================================================================
