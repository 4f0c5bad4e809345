------------------------------- MODULE LinkKeeper -------------------------------
(***************************************************************************)
(* The link keeper (link/keeper.ts): one process per agent directory that  *)
(* keeps this computer's broker linked with those of other computers, and  *)
(* these with each other. What it wants follows from a config file, from   *)
(* what ssh processes run here and from what each check found; reconcile   *)
(* brings the pairs in line with that while checks, links, requests and    *)
(* reconcile itself wait for other processes.                              *)
(*                                                                         *)
(* A destination is a way to reach a computer; two of them may lead to the *)
(* same one, or back here. A host object that was forgotten while its      *)
(* check ran is an orphan: the check still ends. Abstracted: order within  *)
(* the tables, labels and details, how a host was first heard of (via),    *)
(* the time until an answer, failures of the config file.                  *)
(***************************************************************************)
EXTENDS Naturals, FiniteSets

CONSTANTS
    Dests,            \* destinations, by key
    Local, Here,      \* this side of a pair; this computer
    Reach,            \* what destinations may lead to: maps to computers
    NameOf,           \* the host part of a destination
    Parley,           \* destinations where Parley has run when it is first checked
    MaxRequests,      \* bound: requests of sessions
    MaxFaults         \* bound: computers that stop answering, crashes, FlightDeck

ASSUME KeeperAssumption ==
    /\ Local \notin Dests /\ IsFiniteSet(Dests)
    /\ \A r \in Reach : DOMAIN r = Dests
    /\ DOMAIN NameOf = Dests /\ Parley \subseteq Dests
    /\ MaxRequests \in Nat /\ MaxFaults \in Nat

VARIABLES
    \* the config file
    remembered, ignored, discover,
    \* the keeper
    host,             \* hosts: what is known of each destination
    orphans,          \* checks of forgotten hosts that are under way
    localOrigin,      \* whether this computer's origin is known
    pair,             \* pairs: the loop of keepLinked for two sides
    pass, again,      \* reconciling (waiting for the list), reconcileAgain
    \* its surroundings
    computerOf,       \* the computer a destination leads to
    away,             \* destinations that do not answer
    flightDeck,       \* FlightDeck links this computer's sessions
    requests, faults,
    aside             \* history: flightDeck as reconcile saw it last

config == <<remembered, ignored, discover>>
world == <<computerOf, away, flightDeck, faults>>
vars == <<config, host, orphans, localOrigin, pair, pass, again, world, requests, aside>>

Pairs == {p \in SUBSET (Dests \cup {Local}) : Cardinality(p) = 2}

Absent == [state |-> "none", ssh |-> FALSE, checking |-> FALSE, origin |-> FALSE]
New == [Absent EXCEPT !.state = "checking"]

Computer(side) == IF side = Local THEN Here ELSE computerOf[side]

Init ==
    /\ remembered = {} /\ ignored = {} /\ discover \in BOOLEAN
    /\ host = [d \in Dests |-> Absent] /\ orphans = [d \in Dests |-> 0] /\ localOrigin = FALSE
    /\ pair = [p \in Pairs |-> "none"] /\ pass = "idle" /\ again = FALSE
    /\ computerOf \in Reach
    /\ away = {} /\ flightDeck = FALSE /\ requests = 0 /\ faults = 0 /\ aside = FALSE

Fault == faults < MaxFaults /\ faults' = faults + 1
Request == requests < MaxRequests /\ requests' = requests + 1

-----------------------------------------------------------------------------
(* Hosts                                                                   *)

Hosts(h) == {d \in Dests : h[d].state # "none"}

(* hostFor                                                                 *)
With(h, ds) == [d \in Dests |-> IF d \in ds /\ h[d].state = "none" THEN New ELSE h[d]]

(* forgetHost, for several: their pairs are aborted.                       *)
Without(h, ds) == [d \in Dests |-> IF d \in ds THEN Absent ELSE h[d]]
Orphaned(ds) == [d \in Dests |-> IF d \in ds /\ host[d].checking THEN orphans[d] + 1 ELSE orphans[d]]
Unpaired(ds) == [p \in Pairs |-> IF p \cap ds # {} THEN "none" ELSE pair[p]]

(* Mutant: an unreachable computer waits for a recheck.                    *)
OverdueNever(h, rem) == {}

(* check for hosts that have not been connected to: new ones, and a        *)
(* remembered one that was unreachable for a minute.                       *)
Overdue(h, rem) ==
    {d \in rem : h[d].state = "unreachable" /\ ~h[d].ssh /\ ~h[d].checking}

Checked(h, retried) == [d \in Dests |->
    IF ~h[d].ssh /\ ~h[d].checking /\ (h[d].state = "checking" \/ d \in retried)
    THEN [h[d] EXCEPT !.state = "checking", !.checking = TRUE] ELSE h[d]]

-----------------------------------------------------------------------------
(* reconcile                                                               *)

(* sides                                                                   *)
Sides(h, rem) == {Local} \cup
    {d \in rem : ~flightDeck /\ h[d].ssh /\ ~h[d].checking
                 /\ h[d].state \notin {"same-computer", "no-parley"}}

StandingAside(h) == [d \in Dests |->
    IF flightDeck /\ h[d].ssh /\ h[d].state # "same-computer"
    THEN [h[d] EXCEPT !.state = "waiting"] ELSE h[d]]

Wanted(h, rem) == {p \in Pairs : p \subseteq Sides(h, rem)}

Repaired(p, wanted) == [q \in Pairs |->
    IF q \notin wanted THEN "none" ELSE IF p[q] = "none" THEN "trying" ELSE p[q]]

(* The rest of a pass, with the hosts that were found.                     *)
Swept(h, p, rem, found, retried) ==
    LET h2 == StandingAside(Checked(With(h, found), retried))
    IN  [host |-> h2, pair |-> Repaired(p, Wanted(h2, rem))]

(* A pass, up to the list of ssh processes if there is to be one.          *)
Begin(h, p, rem, finding) ==
    LET h1 == With(h, rem) IN
    /\ again' = FALSE /\ aside' = flightDeck
    /\ IF finding
       THEN pass' = "listing" /\ host' = h1 /\ pair' = p
       ELSE \E retried \in SUBSET Overdue(h1, rem) :
                LET s == Swept(h1, p, rem, {}, retried)
                IN  pass' = "idle" /\ host' = s.host /\ pair' = s.pair

(* Mutant: a pass that is under way will do.                               *)
ReconcileOnce(h, p, rem, finding) ==
    IF pass = "idle" THEN Begin(h, p, rem, finding)
    ELSE host' = h /\ pair' = p /\ UNCHANGED <<pass, again, aside>>

Reconcile(h, p, rem, finding) ==
    IF pass = "idle" THEN Begin(h, p, rem, finding)
    ELSE again' = TRUE /\ host' = h /\ pair' = p /\ UNCHANGED <<pass, aside>>

(* Destinations of ssh processes and herdr that are new here, one of those *)
(* that name the same host, unless one that works is known.                *)
Found ==
    {ds \in SUBSET (Dests \ (ignored \cup Hosts(host))) :
        \A d \in ds :
            /\ \A e \in Hosts(host) :
                  NameOf[e] = NameOf[d] => host[e].state \in {"no-parley", "unreachable"}
            /\ \A e \in ds : NameOf[e] = NameOf[d] => e = d}

(* The list arrives, or fails. A pass asked for meanwhile follows.         *)
Listed ==
    /\ pass = "listing"
    /\ \E found \in Found, retried \in SUBSET Overdue(host, remembered) :
          LET s == Swept(host, pair, remembered, found, retried) IN
          IF again THEN Begin(s.host, s.pair, remembered, discover)
          ELSE /\ pass' = "idle" /\ host' = s.host /\ pair' = s.pair
               /\ again' = FALSE /\ aside' = flightDeck
    /\ UNCHANGED <<config, orphans, localOrigin, world, requests>>

(* The loop of main.                                                       *)
Tick ==
    /\ Reconcile(host, pair, remembered, discover)
    /\ UNCHANGED <<config, orphans, localOrigin, world, requests>>

-----------------------------------------------------------------------------
(* Checks                                                                  *)

(* What check leaves in the config when ssh connected.                     *)
RemembersNow(d) == d \in Parley \cup remembered

CheckEnds(d) ==
    /\ host[d].checking
    /\ \/ /\ d \in away
          /\ Reconcile([host EXCEPT ![d].state = "unreachable", ![d].checking = FALSE],
                       pair, remembered, discover)
          /\ UNCHANGED remembered
       \/ /\ d \notin away
          /\ LET rem == IF RemembersNow(d) THEN remembered \cup {d} ELSE remembered IN
             /\ remembered' = rem
             /\ Reconcile([host EXCEPT ![d].checking = FALSE, ![d].ssh = TRUE,
                              ![d].state = IF RemembersNow(d) THEN "waiting" ELSE "no-parley"],
                          pair, rem, discover)
    /\ UNCHANGED <<ignored, discover, orphans, localOrigin, world, requests>>

(* The same for a host that was forgotten: only the config is left.        *)
OrphanEnds(d) ==
    /\ orphans[d] > 0
    /\ orphans' = [orphans EXCEPT ![d] = @ - 1]
    /\ LET rem == IF d \notin away /\ RemembersNow(d) THEN remembered \cup {d} ELSE remembered
       IN  remembered' = rem /\ Reconcile(host, pair, rem, discover)
    /\ UNCHANGED <<ignored, discover, localOrigin, world, requests>>

-----------------------------------------------------------------------------
(* keepLinked                                                              *)

(* report: only a link of this computer says something of a host.          *)
Reported(p, state) == [d \in Dests |->
    IF Local \in p /\ d \in p /\ host[d].state # "same-computer"
    THEN [host[d] EXCEPT !.state = state] ELSE host[d]]

(* Mutant: only this computer is told apart.                               *)
TakenHereOnly(h, d, here) == here /\ computerOf[d] = Here

(* Whether a side's computer is present under another destination.         *)
Taken(h, d, here) ==
    \/ here /\ computerOf[d] = Here
    \/ \E e \in Dests \ {d} : h[e].origin /\ h[e].state # "same-computer"
                              /\ computerOf[e] = computerOf[d]

(* claimOrigin, for both sides in turn. The local side is always first;    *)
(* where it is not there, this computer's origin may still be unknown.     *)
Claim(h, d, here) == IF Taken(h, d, here)
    THEN [h EXCEPT ![d].origin = TRUE, ![d].state = "same-computer"]
    ELSE [h EXCEPT ![d].origin = TRUE]

Inspect(p) ==
    /\ pair[p] = "trying"
    /\ p \cap away = {}
    /\ localOrigin' = (localOrigin \/ Local \in p)
    /\ \E first \in p : \E second \in p \ {first} :
          LET lost == first # Local /\ Taken(host, first, localOrigin')
              one == IF first = Local THEN host ELSE Claim(host, first, localOrigin')
              two == IF lost THEN one ELSE Claim(one, second, localOrigin')
          IN  /\ Local \in p => first = Local
              /\ IF lost \/ Taken(one, second, localOrigin')
                 THEN Reconcile(two, [pair EXCEPT ![p] = "ended"], remembered, discover)
                 ELSE /\ host' = two /\ pair' = [pair EXCEPT ![p] = "attaching"]
                      /\ UNCHANGED <<pass, again, aside>>
    /\ UNCHANGED <<config, orphans, world, requests>>

(* The brokers refuse a second link between them (PeerLinks).              *)
Rivals(p) == {q \in Pairs \ {p} : pair[q] = "linked"
                 /\ {Computer(s) : s \in q} = {Computer(s) : s \in p}}

Attach(p) ==
    /\ pair[p] = "attaching"
    /\ p \cap away = {} /\ Rivals(p) = {}
    /\ pair' = [pair EXCEPT ![p] = "linked"] /\ host' = Reported(p, "linked")
    /\ UNCHANGED <<config, orphans, localOrigin, pass, again, world, requests, aside>>

(* Inspection or attachment fails, or a link ends. Some failures make it   *)
(* ask ssh about the sides.                                                *)
Fails(p) ==
    /\ \/ pair[p] \in {"trying", "attaching", "linked"} /\ p \cap away # {}
       \/ pair[p] = "attaching" /\ Rivals(p) # {}
    /\ \/ pair' = [pair EXCEPT ![p] = "asking"] /\ UNCHANGED host
       \/ pair' = [pair EXCEPT ![p] = "trying"] /\ host' = Reported(p, "waiting")
    /\ UNCHANGED <<config, orphans, localOrigin, pass, again, world, requests, aside>>

Ask(p) ==
    /\ pair[p] = "asking"
    /\ pair' = [pair EXCEPT ![p] = "trying"]
    /\ \/ host' = Reported(p, "waiting")
       \/ p \cap away # {} /\ host' = Reported(p, "unreachable")
    /\ UNCHANGED <<config, orphans, localOrigin, pass, again, world, requests, aside>>

-----------------------------------------------------------------------------
(* Requests                                                                *)

Discover(on) ==
    LET gone == IF on THEN {} ELSE Hosts(host) \ remembered IN
    /\ Request
    /\ discover' = on
    /\ orphans' = Orphaned(gone)
    /\ Reconcile(Without(host, gone), Unpaired(gone), remembered, on)
    /\ UNCHANGED <<remembered, ignored, localOrigin, world>>

(* add and recheck start with new host objects, unless linked.             *)
Renew(ds, rem) ==
    LET gone == {d \in ds \cap Hosts(host) : host[d].state # "linked"} IN
    /\ orphans' = Orphaned(gone)
    /\ Reconcile(With(Without(host, gone), ds), Unpaired(gone), rem, discover)

Add(d) ==
    /\ Request
    /\ ignored' = ignored \ {d} /\ remembered' = remembered \cup {d}
    /\ Renew({d}, remembered')
    /\ UNCHANGED <<discover, localOrigin, world>>

Recheck(ds) ==
    /\ Request
    /\ ds \subseteq Hosts(host) /\ ds # {}
    /\ Renew(ds, remembered)
    /\ UNCHANGED <<config, localOrigin, world>>

Remove(d) ==
    /\ Request
    /\ d \in Hosts(host) \cup remembered
    /\ remembered' = remembered \ {d} /\ ignored' = ignored \cup {d}
    /\ orphans' = Orphaned({d})
    /\ Reconcile(Without(host, {d}), Unpaired({d}), remembered', discover)
    /\ UNCHANGED <<discover, localOrigin, world>>

-----------------------------------------------------------------------------
(* Surroundings                                                            *)

(* A computer stops answering, or answers again.                           *)
Leave(d) ==
    /\ Fault
    /\ d \notin away /\ away' = away \cup {d}
    /\ UNCHANGED <<config, host, orphans, localOrigin, pair, pass, again, computerOf, flightDeck, requests, aside>>

Return(d) ==
    /\ d \in away /\ away' = away \ {d}
    /\ UNCHANGED <<config, host, orphans, localOrigin, pair, pass, again, computerOf, flightDeck, faults, requests, aside>>

FlightDeckStarts ==
    /\ Fault
    /\ ~flightDeck /\ flightDeck' = TRUE
    /\ UNCHANGED <<config, host, orphans, localOrigin, pair, pass, again, computerOf, away, requests, aside>>

FlightDeckStops ==
    /\ flightDeck /\ flightDeck' = FALSE
    /\ UNCHANGED <<config, host, orphans, localOrigin, pair, pass, again, computerOf, away, faults, requests, aside>>

(* The keeper dies or stops; the next one reads the config.                *)
Restart ==
    /\ Fault
    /\ orphans' = [d \in Dests |-> 0] /\ localOrigin' = FALSE
    /\ Begin([d \in Dests |-> Absent], [p \in Pairs |-> "none"], remembered, discover)
    /\ UNCHANGED <<config, computerOf, away, flightDeck, requests>>

-----------------------------------------------------------------------------
Next ==
    \/ Listed \/ Tick \/ FlightDeckStarts \/ FlightDeckStops \/ Restart
    \/ \E on \in BOOLEAN : Discover(on)
    \/ \E ds \in SUBSET Dests : Recheck(ds)
    \/ \E d \in Dests : CheckEnds(d) \/ OrphanEnds(d) \/ Add(d) \/ Remove(d) \/ Leave(d) \/ Return(d)
    \/ \E p \in Pairs : Inspect(p) \/ Attach(p) \/ Fails(p) \/ Ask(p)

Spec == Init /\ [][Next]_vars

(* An unreachable computer is tried again when a minute has passed.        *)
Retry(d) ==
    /\ d \in Overdue(host, remembered)
    /\ Tick \/ Listed
    /\ host'[d].checking

(* Timers fire, and whatever is asked of ssh or of a broker answers or     *)
(* times out. Nobody has to send a request.                                *)
Fairness ==
    /\ WF_vars(Listed) /\ WF_vars(Tick)
    /\ \A d \in Dests : WF_vars(CheckEnds(d)) /\ SF_vars(Retry(d))
    /\ \A p \in Pairs : WF_vars(Inspect(p)) /\ WF_vars(Attach(p)) /\ WF_vars(Fails(p)) /\ WF_vars(Ask(p))

FairSpec == Spec /\ Fairness

-----------------------------------------------------------------------------
(* Properties                                                              *)

(* No wakeup is lost: when no pass is under way, the pairs are those that  *)
(* the tables call for, every remembered computer is in the tables, and    *)
(* one that is said to be checked is.                                      *)
IdleKeeperIsDone ==
    pass = "idle" =>
        /\ aside = flightDeck => {p \in Pairs : pair[p] # "none"} = Wanted(host, remembered)
        /\ remembered \subseteq Hosts(host)
        /\ \A d \in Dests : host[d].state = "checking" <=> host[d].checking

(* This computer attaches to another under one destination at a time, and  *)
(* never to itself, in whatever order the spellings are added, found,      *)
(* checked, claimed and checked again: no two of its links compete. Only   *)
(* while a pass waits for its list may one more attach: a destination that *)
(* was told apart as a second name of a computer, when the first name was  *)
(* forgotten meanwhile. The pass ends its link.                            *)
Attaching(d) == pair[{Local, d}] \in {"attaching", "linked"}

ComputersLinkOnce ==
    \A d \in Dests : Attaching(d) =>
        /\ computerOf[d] # Here
        /\ \A e \in Dests \ {d} : Attaching(e) /\ computerOf[e] = computerOf[d] =>
              pass = "listing" /\ "same-computer" \in {host[d].state, host[e].state}

(* A remembered computer that answers gets linked in the end, or is known  *)
(* under another destination, whatever was asked and failed before.        *)
RememberedGetLinked ==
    \A d \in Dests :
        <>[](d \in remembered \ away /\ ~flightDeck)
            => <>[](host[d].state \in {"linked", "same-computer"})

=================================================================================
