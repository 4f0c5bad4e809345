--------------------------- MODULE LinkKeeper_proofs ---------------------------
(***************************************************************************)
(* Proofs about LinkKeeper, for any number of destinations, whatever they  *)
(* lead to, and any requests and faults: types, no wakeup is lost, and a   *)
(* computer is linked once.                                                *)
(*                                                                         *)
(* Every handler changes the tables and then asks for a pass, so that the  *)
(* invariant is one of the tables that a pass starts with (Fit) and one of *)
(* those that it leaves (Done).                                            *)
(***************************************************************************)
EXTENDS LinkKeeper, FiniteSetTheorems, TLAPS

HostStates ==
    {"none", "checking", "unreachable", "waiting", "no-parley", "linked", "same-computer"}
HostRecords == [state : HostStates, ssh : BOOLEAN, checking : BOOLEAN, origin : BOOLEAN]
PairStates == {"none", "trying", "attaching", "linked", "asking", "ended"}

(* A check runs until ssh connects, and nothing else is known before that. *)
HostOK(r) ==
    /\ r.ssh => ~r.checking /\ r.state \notin {"none", "checking"}
    /\ r.checking => r.state = "checking"
    /\ ~r.ssh => r.state \in {"none", "checking", "unreachable"} /\ ~r.origin

HostsOK(h) == h \in [Dests -> HostRecords] /\ \A d \in Dests : HostOK(h[d])

(* The sides of a pair are remembered and have been connected to.          *)
PairsFit(h, p, rem) ==
    /\ p \in [Pairs -> PairStates]
    /\ \A q \in Pairs : p[q] # "none" =>
          \A d \in q \ {Local} : d \in rem /\ h[d].ssh /\ h[d].state # "no-parley"

(* No two destinations that count as their computers lead to the same.     *)
Alone(h, com) ==
    \A d, e \in Dests :
        /\ d # e /\ h[d].origin /\ h[e].origin
        /\ h[d].state # "same-computer" /\ h[e].state # "same-computer"
        => com[d] # com[e]

(* What attaches has claimed, and does not lead back here.                 *)
Claimed(h, p, com) ==
    \A q \in Pairs : p[q] \in {"attaching", "linked"} =>
        \A d \in q \ {Local} : h[d].origin /\ (Local \in q => com[d] # Here)

Fit(h, p, rem, com) ==
    HostsOK(h) /\ PairsFit(h, p, rem) /\ Alone(h, com) /\ Claimed(h, p, com)

(* Sides and Wanted, for a pass that did or did not stand aside.           *)
SidesThen(h, rem, off) == {Local} \cup
    {d \in rem : ~off /\ h[d].ssh /\ ~h[d].checking
                 /\ h[d].state \notin {"same-computer", "no-parley"}}

Done(h, p, rem, off) ==
    /\ \A q \in Pairs : p[q] # "none" <=> q \subseteq SidesThen(h, rem, off)
    /\ \A d \in Dests : h[d].state = "checking" => h[d].checking

KeeperTypes ==
    /\ remembered \subseteq Dests /\ ignored \subseteq Dests /\ discover \in BOOLEAN
    /\ orphans \in [Dests -> Nat] /\ localOrigin \in BOOLEAN
    /\ pass \in {"idle", "listing"} /\ again \in BOOLEAN
    /\ away \subseteq Dests /\ flightDeck \in BOOLEAN /\ aside \in BOOLEAN
    /\ requests \in Nat /\ faults \in Nat

KeeperTypeOK ==
    /\ KeeperTypes
    /\ host \in [Dests -> HostRecords] /\ pair \in [Pairs -> PairStates]

(* What a pass that is asked for, or under way, leaves.                    *)
Kept(h, p, rem, now, more, off) ==
    /\ now = "idle" => Done(h, p, rem, off) /\ ~more
    /\ ~more => rem \subseteq Hosts(h)

KeeperInv ==
    /\ KeeperTypes
    /\ Fit(host, pair, remembered, computerOf)
    /\ Kept(host, pair, remembered, pass, again, aside)

-----------------------------------------------------------------------------
(* Tables                                                                  *)

LEMMA TwoElements == ASSUME NEW a, NEW b, a # b PROVE Cardinality({a, b}) = 2
<1>1. IsFiniteSet({a}) /\ Cardinality({a}) = 1
  BY FS_Singleton
<1>2. Cardinality({a} \cup {b}) = 2
  BY <1>1, FS_AddElement
<1>3. {a} \cup {b} = {a, b}
  OBVIOUS
<1> QED BY <1>2, <1>3

LEMMA PairSides ==
    ASSUME NEW p \in Pairs, NEW a \in p, NEW b \in p, a # b
    PROVE  p = {a, b}
<1>1. IsFiniteSet(Dests \cup {Local})
  BY KeeperAssumption, FS_AddElement
<1>2. IsFiniteSet(p) /\ Cardinality(p) = 2
  BY <1>1, FS_Subset DEF Pairs
<1>3. Cardinality({a, b}) = 2
  BY TwoElements
<1> QED BY <1>2, <1>3, FS_Subset

LEMMA PairOfLocal ==
    ASSUME NEW d \in Dests
    PROVE  {Local, d} \in Pairs /\ d \in {Local, d} \ {Local}
<1>1. d # Local
  BY KeeperAssumption
<1>2. Cardinality({Local, d}) = 2
  BY <1>1, TwoElements
<1> QED BY <1>1, <1>2 DEF Pairs

LEMMA PairDests == ASSUME NEW p \in Pairs PROVE p \ {Local} \subseteq Dests
BY DEF Pairs

LEMMA NewType ==
    /\ Absent \in HostRecords /\ HostOK(Absent) /\ New \in HostRecords /\ HostOK(New)
    /\ Absent.state = "none" /\ ~Absent.ssh /\ ~Absent.origin /\ ~Absent.checking
    /\ New.state = "checking" /\ ~New.ssh /\ ~New.origin /\ ~New.checking
BY DEF Absent, New, HostRecords, HostStates, HostOK

(* Tables that say the same of the connections and claims.                 *)
Keeps(k, h) ==
    /\ HostsOK(k)
    /\ \A d \in Dests :
          /\ k[d].ssh = h[d].ssh /\ k[d].origin = h[d].origin
          /\ k[d].state = "same-computer" <=> h[d].state = "same-computer"
          /\ k[d].state = "no-parley" => h[d].state = "no-parley"

LEMMA FitKeeps ==
    ASSUME NEW h, NEW k, NEW p, NEW rem, NEW rem2, NEW com, Fit(h, p, rem, com), Keeps(k, h),
           rem \subseteq rem2
    PROVE  Fit(k, p, rem2, com)
<1>1. PairsFit(k, p, rem2)
  BY PairDests DEF Fit, PairsFit, Keeps
<1>2. Alone(k, com)
  BY DEF Fit, Alone, Keeps
<1>3. Claimed(k, p, com)
  BY PairDests DEF Fit, Claimed, Keeps
<1> QED BY <1>1, <1>2, <1>3 DEF Fit, Keeps

LEMMA KeepsAll ==
    /\ \A h : HostsOK(h) => Keeps(h, h)
    /\ \A h, k, l : Keeps(k, h) /\ Keeps(l, k) => Keeps(l, h)
BY DEF Keeps

LEMMA WithKeeps ==
    ASSUME NEW h, HostsOK(h), NEW ds
    PROVE  /\ Keeps(With(h, ds), h) /\ Hosts(With(h, ds)) = Hosts(h) \cup (ds \cap Dests)
           /\ \A d \in Hosts(h) : With(h, ds)[d] = h[d]
<1> DEFINE k == With(h, ds)
<1>1. k \in [Dests -> HostRecords]
  BY NewType DEF With, HostsOK
<1>2. \A d \in Dests : k[d] = IF d \in ds /\ h[d].state = "none" THEN New ELSE h[d]
  BY DEF With
<1> HIDE DEF k
<1>3. \A d \in Dests : HostOK(k[d])
  BY <1>2, NewType DEF HostsOK
<1>4. Keeps(k, h)
  <2> SUFFICES ASSUME NEW d \in Dests
               PROVE  /\ k[d].ssh = h[d].ssh /\ k[d].origin = h[d].origin
                      /\ k[d].state = "same-computer" <=> h[d].state = "same-computer"
                      /\ k[d].state = "no-parley" => h[d].state = "no-parley"
    BY <1>1, <1>3 DEF Keeps, HostsOK
  <2>1. CASE k[d] = h[d]
    BY <2>1
  <2>2. CASE h[d].state = "none" /\ k[d] = New
    <3>1. h[d] \in HostRecords /\ HostOK(h[d])
      BY DEF HostsOK
    <3>2. h[d].ssh = FALSE /\ h[d].origin = FALSE /\ k[d].ssh = FALSE /\ k[d].origin = FALSE
      BY <2>2, <3>1 DEF HostOK, HostRecords, New, Absent
    <3> QED BY <2>2, <3>2, NewType
  <2> QED BY <1>2, <2>1, <2>2
<1>5. Hosts(k) = Hosts(h) \cup (ds \cap Dests) /\ \A d \in Hosts(h) : k[d] = h[d]
  BY <1>2, NewType DEF Hosts
<1> QED BY <1>4, <1>5 DEF k

LEMMA CheckedKeeps ==
    ASSUME NEW h, HostsOK(h), NEW retried
    PROVE  /\ Keeps(Checked(h, retried), h) /\ Hosts(h) \subseteq Hosts(Checked(h, retried))
           /\ \A d \in Dests : Checked(h, retried)[d].state = "checking" => Checked(h, retried)[d].checking
<1> DEFINE k == Checked(h, retried)
           C(d) == ~h[d].ssh /\ ~h[d].checking /\ (h[d].state = "checking" \/ d \in retried)
           new(d) == [h[d] EXCEPT !.state = "checking", !.checking = TRUE]
<1>1. \A d \in Dests : k[d] = IF C(d) THEN new(d) ELSE h[d]
  BY DEF Checked
<1>2. ASSUME NEW d \in Dests
      PROVE  /\ new(d) \in HostRecords /\ new(d).state = "checking" /\ new(d).checking = TRUE
             /\ new(d).ssh = h[d].ssh /\ new(d).origin = h[d].origin
  <2>1. h[d] \in HostRecords
    BY DEF HostsOK
  <2> QED BY <2>1 DEF HostRecords, HostStates
<1>3. k \in [Dests -> HostRecords]
  <2>1. k = [d \in Dests |-> IF C(d) THEN new(d) ELSE h[d]]
    BY DEF Checked
  <2>2. \A d \in Dests : (IF C(d) THEN new(d) ELSE h[d]) \in HostRecords
    BY <1>2 DEF HostsOK
  <2> HIDE DEF k, C, new
  <2> QED BY <2>1, <2>2
<1> HIDE DEF k, new
<1>4. ASSUME NEW d \in Dests
      PROVE  /\ HostOK(k[d])
             /\ k[d].ssh = h[d].ssh /\ k[d].origin = h[d].origin
             /\ k[d].state = "same-computer" <=> h[d].state = "same-computer"
             /\ k[d].state = "no-parley" => h[d].state = "no-parley"
             /\ k[d].state = "checking" => k[d].checking
             /\ h[d].state # "none" => k[d].state # "none"
  <2>0. h[d] \in HostRecords /\ HostOK(h[d])
    BY DEF HostsOK
  <2>1. CASE C(d)
    <3>1. k[d] = new(d)
      BY <1>1, <2>1
    <3>2. ~h[d].ssh /\ ~h[d].origin /\ h[d].state \in {"none", "checking", "unreachable"}
      BY <2>0, <2>1 DEF HostOK
    <3> QED BY <1>2, <3>1, <3>2 DEF HostOK
  <2>2. CASE ~C(d)
    <3>1. k[d] = h[d]
      BY <1>1, <2>2
    <3>2. h[d].state = "checking" => h[d].checking
      BY <2>0, <2>2 DEF HostOK
    <3> QED BY <2>0, <3>1, <3>2
  <2> QED BY <2>1, <2>2
<1> HIDE DEF C
<1>5. Keeps(k, h)
  BY <1>3, <1>4 DEF Keeps, HostsOK
<1>6. Hosts(h) \subseteq Hosts(k)
  BY <1>4 DEF Hosts
<1> QED BY <1>4, <1>5, <1>6 DEF k

LEMMA AsideKeeps ==
    ASSUME NEW h, HostsOK(h)
    PROVE  /\ Keeps(StandingAside(h), h) /\ Hosts(StandingAside(h)) = Hosts(h)
           /\ \A d \in Dests : /\ StandingAside(h)[d].checking = h[d].checking
                               /\ StandingAside(h)[d].state = "checking" => h[d].state = "checking"
<1> DEFINE k == StandingAside(h)
           C(d) == flightDeck /\ h[d].ssh /\ h[d].state # "same-computer"
           new(d) == [h[d] EXCEPT !.state = "waiting"]
<1>1. \A d \in Dests : k[d] = IF C(d) THEN new(d) ELSE h[d]
  BY DEF StandingAside
<1>2. ASSUME NEW d \in Dests
      PROVE  /\ new(d) \in HostRecords /\ new(d).state = "waiting" /\ new(d).checking = h[d].checking
             /\ new(d).ssh = h[d].ssh /\ new(d).origin = h[d].origin
  <2>1. h[d] \in HostRecords
    BY DEF HostsOK
  <2> QED BY <2>1 DEF HostRecords, HostStates
<1>3. k \in [Dests -> HostRecords]
  <2>1. k = [d \in Dests |-> IF C(d) THEN new(d) ELSE h[d]]
    BY DEF StandingAside
  <2>2. \A d \in Dests : (IF C(d) THEN new(d) ELSE h[d]) \in HostRecords
    BY <1>2 DEF HostsOK
  <2> HIDE DEF k, C, new
  <2> QED BY <2>1, <2>2
<1> HIDE DEF k, new
<1>4. ASSUME NEW d \in Dests
      PROVE  /\ HostOK(k[d])
             /\ k[d].ssh = h[d].ssh /\ k[d].origin = h[d].origin /\ k[d].checking = h[d].checking
             /\ k[d].state = "same-computer" <=> h[d].state = "same-computer"
             /\ k[d].state = "no-parley" => h[d].state = "no-parley"
             /\ k[d].state = "checking" => h[d].state = "checking"
             /\ h[d].state # "none" <=> k[d].state # "none"
  <2>0. HostOK(h[d])
    BY DEF HostsOK
  <2>1. CASE C(d)
    <3>1. k[d] = new(d)
      BY <1>1, <2>1
    <3>2. h[d].ssh /\ h[d].state \notin {"none", "checking", "same-computer"} /\ ~h[d].checking
      BY <2>0, <2>1 DEF HostOK
    <3> QED BY <1>2, <3>1, <3>2 DEF HostOK
  <2>2. CASE ~C(d)
    BY <1>1, <2>0, <2>2
  <2> QED BY <2>1, <2>2
<1> HIDE DEF C
<1>5. Keeps(k, h)
  BY <1>3, <1>4 DEF Keeps, HostsOK
<1>6. Hosts(h) = Hosts(k)
  BY <1>4 DEF Hosts
<1> QED BY <1>4, <1>5, <1>6 DEF k

-----------------------------------------------------------------------------
(* Passes                                                                  *)

LEMMA SweptFits ==
    ASSUME KeeperTypes, NEW h, NEW p, NEW rem \in SUBSET Dests, NEW com,
           NEW found \in SUBSET Dests, NEW retried,
           Fit(h, p, rem, com)
    PROVE  LET s == Swept(h, p, rem, found, retried) IN
           /\ Fit(s.host, s.pair, rem, com)
           /\ Done(s.host, s.pair, rem, flightDeck)
           /\ Hosts(h) \subseteq Hosts(s.host)
<1> DEFINE h1 == With(h, found)
           h2 == Checked(h1, retried)
           k == StandingAside(h2)
           wanted == Wanted(k, rem)
           q == Repaired(p, wanted)
<1>0. Swept(h, p, rem, found, retried).host = k /\ Swept(h, p, rem, found, retried).pair = q
  BY DEF Swept
<1>1. HostsOK(h) /\ PairsFit(h, p, rem)
  BY DEF Fit
<1>2. Keeps(h1, h) /\ HostsOK(h1) /\ Hosts(h) \subseteq Hosts(h1)
  BY <1>1, WithKeeps DEF Keeps
<1>3. /\ Keeps(h2, h1) /\ HostsOK(h2) /\ Hosts(h1) \subseteq Hosts(h2)
      /\ \A d \in Dests : h2[d].state = "checking" => h2[d].checking
  BY <1>2, CheckedKeeps DEF Keeps
<1>4. /\ Keeps(k, h2) /\ HostsOK(k) /\ Hosts(h2) = Hosts(k)
      /\ \A d \in Dests : k[d].checking = h2[d].checking /\ (k[d].state = "checking" => h2[d].state = "checking")
  BY <1>3, AsideKeeps DEF Keeps
<1>5. Keeps(k, h)
  BY <1>2, <1>3, <1>4, KeepsAll
<1>6. \A d \in Dests : k[d].state = "checking" => k[d].checking
  BY <1>3, <1>4
<1>7. \A x \in Pairs : x \in wanted <=> x \subseteq SidesThen(k, rem, flightDeck)
  BY DEF Wanted, Sides, SidesThen
<1> HIDE DEF h1, h2, k, wanted
<1>8. q = [x \in Pairs |-> IF x \notin wanted THEN "none" ELSE IF p[x] = "none" THEN "trying" ELSE p[x]]
  BY DEF Repaired
<1> HIDE DEF q
<1>9. q \in [Pairs -> PairStates]
  BY <1>1, <1>8 DEF PairStates, PairsFit
<1>10. \A x \in Pairs : q[x] # "none" <=> x \in wanted
  BY <1>8
<1>11. PairsFit(k, q, rem)
  BY <1>7, <1>9, <1>10 DEF PairsFit, SidesThen
<1>12. \A x \in Pairs : q[x] \in {"attaching", "linked"} => p[x] \in {"attaching", "linked"}
  BY <1>8
<1>13. Fit(k, p, rem, com)
  BY <1>5, FitKeeps
<1>14. Fit(k, q, rem, com)
  BY <1>11, <1>12, <1>13 DEF Fit, Claimed
<1>15. Done(k, q, rem, flightDeck)
  BY <1>6, <1>7, <1>10 DEF Done
<1>16. Hosts(h) \subseteq Hosts(k)
  BY <1>2, <1>3, <1>4
<1> QED BY <1>0, <1>14, <1>15, <1>16

(* What every handler ends with.                                           *)
Passed(rem, com) ==
    /\ Fit(host', pair', rem, com)
    /\ Kept(host', pair', rem, pass', again', aside')
    /\ pass' \in {"idle", "listing"} /\ again' \in BOOLEAN /\ aside' \in BOOLEAN

LEMMA BeginPasses ==
    ASSUME KeeperTypes, NEW h, NEW p, NEW rem \in SUBSET Dests, NEW com, NEW finding,
           Fit(h, p, rem, com), Begin(h, p, rem, finding)
    PROVE  Passed(rem, com)
<1> DEFINE h1 == With(h, rem)
<1>1. Keeps(h1, h) /\ rem \subseteq Hosts(h1)
  BY WithKeeps DEF Fit
<1>2. Fit(h1, p, rem, com)
  BY <1>1, FitKeeps
<1>3. again' = FALSE /\ aside' = flightDeck /\ aside' \in BOOLEAN
  BY DEF Begin, KeeperTypes
<1>4. CASE finding
  <2>1. pass' = "listing" /\ host' = h1 /\ pair' = p
    BY <1>4 DEF Begin
  <2> HIDE DEF h1
  <2> QED BY <1>1, <1>2, <1>3, <2>1 DEF Passed, Kept
<1>5. CASE ~finding
  <2>1. PICK retried \in SUBSET Overdue(h1, rem) :
           LET s == Swept(h1, p, rem, {}, retried)
           IN  pass' = "idle" /\ host' = s.host /\ pair' = s.pair
    BY <1>5 DEF Begin
  <2> HIDE DEF h1
  <2>2. /\ Fit(host', pair', rem, com) /\ Done(host', pair', rem, flightDeck)
        /\ Hosts(h1) \subseteq Hosts(host') /\ pass' = "idle"
    BY <1>2, <2>1, SweptFits
  <2>3. rem \subseteq Hosts(host')
    BY <1>1, <2>2
  <2> QED BY <1>3, <2>2, <2>3 DEF Passed, Kept
<1> QED BY <1>4, <1>5

LEMMA ReconcilePasses ==
    ASSUME KeeperTypes, NEW h, NEW p, NEW rem \in SUBSET Dests, NEW com, NEW finding,
           Fit(h, p, rem, com), Reconcile(h, p, rem, finding)
    PROVE  Passed(rem, com)
<1>1. CASE pass = "idle"
  BY <1>1, BeginPasses DEF Reconcile
<1>2. CASE pass # "idle"
  BY <1>2 DEF Reconcile, Passed, Kept, KeeperTypes
<1> QED BY <1>1, <1>2

LEMMA ListedPasses ==
    ASSUME KeeperInv, Listed
    PROVE  Passed(remembered, computerOf)
<1>0. KeeperTypes /\ Fit(host, pair, remembered, computerOf) /\ remembered \in SUBSET Dests
      /\ (~again => remembered \subseteq Hosts(host))
  BY DEF KeeperInv, Kept, KeeperTypes
<1>1. PICK found \in Found, retried \in SUBSET Overdue(host, remembered) :
          LET s == Swept(host, pair, remembered, found, retried) IN
          IF again THEN Begin(s.host, s.pair, remembered, discover)
          ELSE /\ pass' = "idle" /\ host' = s.host /\ pair' = s.pair
               /\ again' = FALSE /\ aside' = flightDeck
  BY DEF Listed
<1> DEFINE s == Swept(host, pair, remembered, found, retried)
<1>2. found \in SUBSET Dests
  BY DEF Found
<1>3. /\ Fit(s.host, s.pair, remembered, computerOf)
      /\ Done(s.host, s.pair, remembered, flightDeck)
      /\ Hosts(host) \subseteq Hosts(s.host)
  BY <1>0, <1>2, SweptFits
<1>4. CASE again
  <2>1. Begin(s.host, s.pair, remembered, discover)
    BY <1>1, <1>4
  <2> HIDE DEF s
  <2> QED BY <1>0, <1>3, <2>1, BeginPasses
<1>5. CASE ~again
  <2>1. pass' = "idle" /\ host' = s.host /\ pair' = s.pair /\ again' = FALSE /\ aside' = flightDeck
    BY <1>1, <1>5
  <2> HIDE DEF s
  <2>2. aside' \in BOOLEAN
    BY <1>0, <2>1 DEF KeeperTypes
  <2>3. remembered \subseteq Hosts(host')
    BY <1>0, <1>3, <1>5, <2>1
  <2> QED BY <1>3, <2>1, <2>2, <2>3 DEF Passed, Kept
<1> QED BY <1>4, <1>5

-----------------------------------------------------------------------------
(* Checks                                                                  *)

LEMMA PassedInv ==
    ASSUME KeeperInv, Passed(remembered', computerOf), computerOf' = computerOf,
           remembered' \subseteq Dests, ignored' \subseteq Dests, discover' \in BOOLEAN,
           orphans' \in [Dests -> Nat], localOrigin' \in BOOLEAN,
           away' \subseteq Dests, flightDeck' \in BOOLEAN, requests' \in Nat, faults' \in Nat
    PROVE  KeeperInv'
<1>1. KeeperTypes'
  BY DEF KeeperTypes, Passed
<1> QED BY <1>1 DEF KeeperInv, Passed

LEMMA CheckEndsStep ==
    ASSUME KeeperInv, NEW d \in Dests, CheckEnds(d)
    PROVE  KeeperInv'
<1>0. /\ KeeperTypes /\ Fit(host, pair, remembered, computerOf) /\ HostsOK(host)
      /\ PairsFit(host, pair, remembered)
      /\ host \in [Dests -> HostRecords] /\ host[d] \in HostRecords /\ HostOK(host[d])
      /\ remembered \in SUBSET Dests
  BY DEF KeeperInv, Fit, HostsOK, KeeperTypes
<1>1. ~host[d].ssh /\ ~host[d].origin /\ host[d].state = "checking"
  BY <1>0 DEF CheckEnds, HostOK
<1>2. CASE /\ Reconcile([host EXCEPT ![d].state = "unreachable", ![d].checking = FALSE],
                        pair, remembered, discover)
           /\ UNCHANGED remembered
  <2> DEFINE k == [host EXCEPT ![d].state = "unreachable", ![d].checking = FALSE]
  <2>1. /\ k \in [Dests -> HostRecords] /\ \A e \in Dests \ {d} : k[e] = host[e]
        /\ k[d].state = "unreachable" /\ k[d].checking = FALSE
        /\ k[d].ssh = host[d].ssh /\ k[d].origin = host[d].origin
    BY <1>0 DEF HostRecords, HostStates
  <2>2. Reconcile(k, pair, remembered, discover)
    BY <1>2
  <2> HIDE DEF k
  <2>3. HostOK(k[d])
    BY <1>1, <2>1 DEF HostOK
  <2>4. Keeps(k, host)
    BY <1>0, <1>1, <2>1, <2>3 DEF Keeps, HostsOK
  <2>5. Fit(k, pair, remembered, computerOf)
    BY <1>0, <2>4, FitKeeps
  <2>6. Passed(remembered, computerOf)
    BY <1>0, <2>2, <2>5, ReconcilePasses
  <2> QED BY <1>0, <1>2, <2>6, PassedInv DEF CheckEnds, KeeperTypes, world
<1>3. ASSUME NEW rem \in SUBSET Dests, NEW state \in {"waiting", "no-parley"},
             rem = remembered \cup {d} \/ rem = remembered, remembered' = rem,
             Reconcile([host EXCEPT ![d].checking = FALSE, ![d].ssh = TRUE, ![d].state = state],
                       pair, rem, discover)
      PROVE  KeeperInv'
  <2> DEFINE k == [host EXCEPT ![d].checking = FALSE, ![d].ssh = TRUE, ![d].state = state]
  <2>1. /\ k \in [Dests -> HostRecords] /\ \A e \in Dests \ {d} : k[e] = host[e]
        /\ k[d].state = state /\ k[d].checking = FALSE
        /\ k[d].ssh = TRUE /\ k[d].origin = host[d].origin
    BY <1>0 DEF HostRecords, HostStates
  <2>2. Reconcile(k, pair, rem, discover)
    BY <1>3
  <2> HIDE DEF k
  <2>3. HostsOK(k)
    BY <1>0, <2>1 DEF HostOK, HostsOK
  <2>4. \A q \in Pairs : pair[q] # "none" => \A e \in q \ {Local} : e \in Dests \ {d} /\ e \in rem
    BY <1>0, <1>1, <1>3, PairDests DEF PairsFit
  <2>5. PairsFit(k, pair, rem)
    BY <1>0, <2>1, <2>4 DEF PairsFit
  <2>6. Alone(k, computerOf)
    BY <1>0, <1>1, <2>1 DEF Alone, Fit
  <2>7. Claimed(k, pair, computerOf)
    BY <1>0, <2>1, <2>4 DEF Claimed, Fit
  <2>8. Passed(rem, computerOf)
    BY <1>0, <2>2, <2>3, <2>5, <2>6, <2>7, ReconcilePasses DEF Fit
  <2> QED BY <1>0, <1>3, <2>8, PassedInv DEF CheckEnds, KeeperTypes, world
<1>4. CASE /\ d \notin away
           /\ LET rem == IF RemembersNow(d) THEN remembered \cup {d} ELSE remembered IN
              /\ remembered' = rem
              /\ Reconcile([host EXCEPT ![d].checking = FALSE, ![d].ssh = TRUE,
                               ![d].state = IF RemembersNow(d) THEN "waiting" ELSE "no-parley"],
                           pair, rem, discover)
  <2>1. remembered \cup {d} \in SUBSET Dests
    BY <1>0
  <2>2. CASE RemembersNow(d)
    BY <1>0, <1>3, <1>4, <2>1, <2>2
  <2>3. CASE ~RemembersNow(d)
    BY <1>0, <1>3, <1>4, <2>3
  <2> QED BY <2>2, <2>3
<1> QED BY <1>2, <1>4 DEF CheckEnds

LEMMA OrphanEndsStep ==
    ASSUME KeeperInv, NEW d \in Dests, OrphanEnds(d)
    PROVE  KeeperInv'
<1>0. KeeperTypes /\ Fit(host, pair, remembered, computerOf) /\ remembered \in SUBSET Dests
  BY DEF KeeperInv, KeeperTypes
<1>1. /\ remembered' \in SUBSET Dests /\ remembered \subseteq remembered'
      /\ Reconcile(host, pair, remembered', discover)
  BY <1>0 DEF OrphanEnds
<1>2. Fit(host, pair, remembered', computerOf)
  BY <1>0, <1>1, FitKeeps, KeepsAll DEF Fit
<1>3. Passed(remembered', computerOf)
  BY <1>0, <1>1, <1>2, ReconcilePasses
<1>4. orphans' \in [Dests -> Nat]
  <2>1. orphans \in [Dests -> Nat] /\ orphans[d] \in Nat /\ orphans[d] > 0
    BY <1>0 DEF OrphanEnds, KeeperTypes
  <2>2. orphans[d] - 1 \in Nat
    BY <2>1
  <2> QED BY <2>1, <2>2 DEF OrphanEnds
<1> QED BY <1>0, <1>1, <1>3, <1>4, PassedInv DEF OrphanEnds, KeeperTypes, world

-----------------------------------------------------------------------------
(* Requests                                                                *)

LEMMA Forgotten ==
    ASSUME KeeperInv, NEW gone \in SUBSET Dests, NEW rem \in SUBSET Dests,
           remembered \ gone \subseteq rem
    PROVE  /\ Fit(Without(host, gone), Unpaired(gone), rem, computerOf)
           /\ Orphaned(gone) \in [Dests -> Nat]
<1> DEFINE k == Without(host, gone)
           q == Unpaired(gone)
<1>0. /\ Fit(host, pair, remembered, computerOf) /\ host \in [Dests -> HostRecords]
      /\ pair \in [Pairs -> PairStates] /\ orphans \in [Dests -> Nat]
  BY DEF KeeperInv, Fit, HostsOK, PairsFit, KeeperTypes
<1>1. k = [d \in Dests |-> IF d \in gone THEN Absent ELSE host[d]]
  BY DEF Without
<1>2. q = [p \in Pairs |-> IF p \cap gone # {} THEN "none" ELSE pair[p]]
  BY DEF Unpaired
<1> HIDE DEF k, q
<1>3. HostsOK(k)
  BY <1>0, <1>1, NewType DEF HostsOK, Fit
<1>4. q \in [Pairs -> PairStates]
  BY <1>0, <1>2 DEF PairStates
<1>5. \A p \in Pairs : q[p] # "none" => q[p] = pair[p] /\ \A d \in p \ {Local} : d \in Dests \ gone /\ k[d] = host[d]
  BY <1>1, <1>2, PairDests
<1>6. PairsFit(k, q, rem)
  BY <1>0, <1>4, <1>5 DEF PairsFit, Fit
<1>7. Alone(k, computerOf)
  BY <1>0, <1>1, NewType DEF Alone, Fit
<1>8. Claimed(k, q, computerOf)
  BY <1>0, <1>5 DEF Claimed, Fit
<1>9. Orphaned(gone) \in [Dests -> Nat]
  <2>1. \A d \in Dests : (IF d \in gone /\ host[d].checking THEN orphans[d] + 1 ELSE orphans[d]) \in Nat
    BY <1>0
  <2> QED BY <2>1 DEF Orphaned
<1> QED BY <1>3, <1>6, <1>7, <1>8, <1>9 DEF Fit, k, q

LEMMA RenewPasses ==
    ASSUME KeeperInv, NEW ds \in SUBSET Dests, NEW rem \in SUBSET Dests,
           remembered \subseteq rem, Renew(ds, rem)
    PROVE  Passed(rem, computerOf) /\ orphans' \in [Dests -> Nat]
<1> DEFINE gone == {d \in ds \cap Hosts(host) : host[d].state # "linked"}
           k == Without(host, gone)
<1>1. gone \in SUBSET Dests
  OBVIOUS
<1>2. orphans' = Orphaned(gone) /\ Reconcile(With(k, ds), Unpaired(gone), rem, discover)
  BY DEF Renew
<1> HIDE DEF gone
<1>3. Fit(k, Unpaired(gone), rem, computerOf) /\ Orphaned(gone) \in [Dests -> Nat]
  BY <1>1, Forgotten
<1> HIDE DEF k
<1>4. Fit(With(k, ds), Unpaired(gone), rem, computerOf)
  BY <1>3, WithKeeps, FitKeeps DEF Fit
<1>5. KeeperTypes
  BY DEF KeeperInv
<1>6. Passed(rem, computerOf)
  BY <1>2, <1>4, <1>5, ReconcilePasses
<1> QED BY <1>2, <1>3, <1>6

LEMMA RequestSteps ==
    ASSUME KeeperInv,
           \/ \E on \in BOOLEAN : Discover(on)
           \/ \E ds \in SUBSET Dests : Recheck(ds)
           \/ \E d \in Dests : Add(d) \/ Remove(d)
    PROVE  KeeperInv'
<1>0. KeeperTypes /\ remembered \in SUBSET Dests /\ requests \in Nat
  BY DEF KeeperInv, KeeperTypes
<1>1. ASSUME NEW on \in BOOLEAN, Discover(on) PROVE KeeperInv'
  <2> DEFINE gone == IF on THEN {} ELSE Hosts(host) \ remembered
  <2>1. gone \in SUBSET Dests
    BY DEF Hosts
  <2>2. /\ discover' = on /\ orphans' = Orphaned(gone) /\ requests' \in Nat
        /\ Reconcile(Without(host, gone), Unpaired(gone), remembered, on)
        /\ UNCHANGED <<remembered, ignored, localOrigin, world>>
    BY <1>0, <1>1 DEF Discover, Request
  <2>4. remembered \ gone \subseteq remembered
    OBVIOUS
  <2> HIDE DEF gone
  <2>3. Fit(Without(host, gone), Unpaired(gone), remembered, computerOf) /\ orphans' \in [Dests -> Nat]
    BY <1>0, <2>1, <2>2, <2>4, Forgotten
  <2>5. Passed(remembered, computerOf)
    BY <1>0, <2>2, <2>3, ReconcilePasses
  <2> QED BY <1>0, <2>2, <2>3, <2>5, PassedInv DEF KeeperTypes, world
<1>2. ASSUME NEW ds \in SUBSET Dests, Recheck(ds) PROVE KeeperInv'
  <2>1. /\ Renew(ds, remembered) /\ requests' \in Nat
        /\ UNCHANGED <<config, localOrigin, world>>
    BY <1>0, <1>2 DEF Recheck, Request
  <2>2. Passed(remembered, computerOf) /\ orphans' \in [Dests -> Nat]
    BY <1>0, <2>1, RenewPasses
  <2> QED BY <1>0, <2>1, <2>2, PassedInv DEF KeeperTypes, world, config
<1>3. ASSUME NEW d \in Dests, Add(d) PROVE KeeperInv'
  <2>1. /\ ignored' = ignored \ {d} /\ remembered' = remembered \cup {d}
        /\ Renew({d}, remembered')
        /\ UNCHANGED <<discover, localOrigin, world>>
    BY <1>3 DEF Add
  <2>4. requests' \in Nat
    BY <1>0, <1>3 DEF Add, Request
  <2>2. remembered' \in SUBSET Dests /\ {d} \in SUBSET Dests /\ remembered \subseteq remembered'
    BY <1>0, <2>1
  <2>3. Passed(remembered', computerOf) /\ orphans' \in [Dests -> Nat]
    BY <2>1, <2>2, RenewPasses
  <2> QED BY <1>0, <2>1, <2>2, <2>3, <2>4, PassedInv DEF KeeperTypes, world
<1>4. ASSUME NEW d \in Dests, Remove(d) PROVE KeeperInv'
  <2>1. /\ remembered' = remembered \ {d} /\ ignored' = ignored \cup {d}
        /\ orphans' = Orphaned({d}) /\ requests' \in Nat
        /\ Reconcile(Without(host, {d}), Unpaired({d}), remembered', discover)
        /\ UNCHANGED <<discover, localOrigin, world>>
    BY <1>0, <1>4 DEF Remove, Request
  <2>2. remembered' \in SUBSET Dests /\ {d} \in SUBSET Dests /\ remembered \ {d} \subseteq remembered'
    BY <1>0, <2>1
  <2>3. Fit(Without(host, {d}), Unpaired({d}), remembered', computerOf) /\ orphans' \in [Dests -> Nat]
    BY <2>1, <2>2, Forgotten
  <2>4. Passed(remembered', computerOf)
    BY <1>0, <2>1, <2>2, <2>3, ReconcilePasses
  <2> QED BY <1>0, <2>1, <2>2, <2>3, <2>4, PassedInv DEF KeeperTypes, world
<1> QED BY <1>1, <1>2, <1>3, <1>4

-----------------------------------------------------------------------------
(* Links                                                                   *)

(* Tables with the same sides.                                             *)
Alike(k, h) ==
    /\ HostsOK(k)
    /\ \A d \in Dests :
          /\ k[d].ssh = h[d].ssh /\ k[d].checking = h[d].checking
          /\ \A s \in {"none", "checking", "no-parley", "same-computer"} :
                k[d].state = s <=> h[d].state = s

LEMMA Unpassed ==
    ASSUME KeeperInv, UNCHANGED <<pass, again, aside>>,
           Alike(host', host), pair' \in [Pairs -> PairStates],
           \A q \in Pairs : pair'[q] = "none" <=> pair[q] = "none",
           Alone(host', computerOf), Claimed(host', pair', computerOf)
    PROVE  Passed(remembered, computerOf)
<1>0. /\ PairsFit(host, pair, remembered) /\ HostsOK(host') /\ remembered \subseteq Dests
      /\ Kept(host, pair, remembered, pass, again, aside)
      /\ pass \in {"idle", "listing"} /\ again \in BOOLEAN /\ aside \in BOOLEAN
  BY DEF KeeperInv, Fit, Alike, KeeperTypes
<1>1. PairsFit(host', pair', remembered)
  BY <1>0, PairDests DEF PairsFit, Alike
<1>2. SidesThen(host', remembered, aside) = SidesThen(host, remembered, aside)
  BY <1>0 DEF SidesThen, Alike
<1>3. Done(host, pair, remembered, aside) => Done(host', pair', remembered, aside)
  BY <1>2 DEF Done, Alike
<1>4. Hosts(host') = Hosts(host)
  BY DEF Hosts, Alike
<1>5. Kept(host', pair', remembered, pass', again', aside')
  BY <1>0, <1>3, <1>4 DEF Kept
<1> QED BY <1>0, <1>1, <1>5 DEF Passed, Fit

LEMMA ReportedAlike ==
    ASSUME KeeperInv, NEW p \in Pairs, pair[p] # "none",
           NEW state \in {"linked", "waiting", "unreachable"}
    PROVE  /\ Alike(Reported(p, state), host)
           /\ \A d \in Dests : Reported(p, state)[d].origin = host[d].origin
<1> DEFINE k == Reported(p, state)
           C(d) == Local \in p /\ d \in p /\ host[d].state # "same-computer"
           new(d) == [host[d] EXCEPT !.state = state]
<1>0. HostsOK(host) /\ PairsFit(host, pair, remembered)
  BY DEF KeeperInv, Fit
<1>1. k = [d \in Dests |-> IF C(d) THEN new(d) ELSE host[d]]
  BY DEF Reported
<1>2. ASSUME NEW d \in Dests
      PROVE  /\ new(d) \in HostRecords /\ new(d).state = state /\ new(d).checking = host[d].checking
             /\ new(d).ssh = host[d].ssh /\ new(d).origin = host[d].origin
  <2>1. host[d] \in HostRecords
    BY <1>0 DEF HostsOK
  <2> QED BY <2>1 DEF HostRecords, HostStates
<1> HIDE DEF k, new
<1>3. k \in [Dests -> HostRecords]
  <2>1. \A d \in Dests : (IF C(d) THEN new(d) ELSE host[d]) \in HostRecords
    BY <1>0, <1>2 DEF HostsOK
  <2> HIDE DEF C
  <2> QED BY <1>1, <2>1
<1>4. ASSUME NEW d \in Dests
      PROVE  /\ HostOK(k[d]) /\ k[d].origin = host[d].origin
             /\ k[d].ssh = host[d].ssh /\ k[d].checking = host[d].checking
             /\ \A s \in {"none", "checking", "no-parley", "same-computer"} :
                   k[d].state = s <=> host[d].state = s
  <2>0. HostOK(host[d])
    BY <1>0 DEF HostsOK
  <2>1. CASE C(d)
    <3>1. k[d] = new(d)
      BY <1>1, <2>1
    <3>2. d # Local
      BY KeeperAssumption
    <3>3. host[d].ssh /\ host[d].state # "no-parley"
      BY <1>0, <2>1, <3>2 DEF PairsFit
    <3>4. host[d].state \notin {"none", "checking", "no-parley", "same-computer"} /\ ~host[d].checking
      BY <2>0, <2>1, <3>3 DEF HostOK
    <3> QED BY <1>2, <3>1, <3>3, <3>4 DEF HostOK
  <2>2. CASE ~C(d)
    BY <1>1, <2>0, <2>2
  <2> QED BY <2>1, <2>2
<1> QED BY <1>3, <1>4 DEF Alike, HostsOK, k

LEMMA LinkSteps ==
    ASSUME KeeperInv, NEW p \in Pairs, Attach(p) \/ Fails(p) \/ Ask(p)
    PROVE  KeeperInv'
<1>0. /\ KeeperTypes /\ HostsOK(host) /\ Alone(host, computerOf) /\ Claimed(host, pair, computerOf)
      /\ pair \in [Pairs -> PairStates]
  BY DEF KeeperInv, Fit, PairsFit
<1>1. PICK new \in {"trying", "asking", "linked"} :
         /\ pair' = [pair EXCEPT ![p] = new] /\ pair[p] # "none"
         /\ new = "linked" => pair[p] = "attaching"
         /\ \/ host' = host
            \/ \E state \in {"linked", "waiting", "unreachable"} : host' = Reported(p, state)
         /\ UNCHANGED <<config, orphans, localOrigin, pass, again, world, requests, aside>>
  BY DEF Attach, Fails, Ask
<1>2. Alike(host', host) /\ \A d \in Dests : host'[d].origin = host[d].origin
  <2>1. CASE host' = host
    BY <1>0, <2>1 DEF Alike
  <2>2. ASSUME NEW state \in {"linked", "waiting", "unreachable"}, host' = Reported(p, state)
        PROVE  Alike(host', host) /\ \A d \in Dests : host'[d].origin = host[d].origin
    BY <1>1, <2>2, ReportedAlike
  <2> QED BY <1>1, <2>1, <2>2
<1>3. pair' \in [Pairs -> PairStates] /\ \A q \in Pairs : pair'[q] = "none" <=> pair[q] = "none"
  BY <1>0, <1>1 DEF PairStates
<1>4. Alone(host', computerOf)
  BY <1>0, <1>2 DEF Alone, Alike
<1>5. \A q \in Pairs : pair'[q] \in {"attaching", "linked"} => pair[q] \in {"attaching", "linked"}
  BY <1>0, <1>1
<1>6. Claimed(host', pair', computerOf)
  BY <1>0, <1>2, <1>5, PairDests DEF Claimed
<1>7. Passed(remembered, computerOf)
  BY <1>1, <1>2, <1>3, <1>4, <1>6, Unpassed
<1> QED BY <1>0, <1>1, <1>7, PassedInv DEF KeeperTypes, config, world

(* What claiming leaves: a claim, and the rest as it was.                  *)
Claims(k, h) ==
    /\ HostsOK(k)
    /\ \A d \in Dests :
          /\ k[d].ssh = h[d].ssh /\ k[d].checking = h[d].checking
          /\ h[d].origin => k[d].origin
          /\ k[d].state \in {h[d].state, "same-computer"}

LEMMA ClaimsOne ==
    ASSUME NEW h, HostsOK(h), Alone(h, computerOf), NEW d \in Dests, h[d].ssh, NEW here \in BOOLEAN
    PROVE  LET k == Claim(h, d, here) IN
           /\ Claims(k, h) /\ Alone(k, computerOf) /\ k[d].origin
           /\ ~Taken(h, d, here) => \A e \in Dests : k[e].state = h[e].state
<1> DEFINE k == Claim(h, d, here)
<1>0. h \in [Dests -> HostRecords] /\ HostOK(h[d])
  BY DEF HostsOK
<1>1. /\ k \in [Dests -> HostRecords] /\ \A e \in Dests \ {d} : k[e] = h[e]
      /\ k[d].ssh = h[d].ssh /\ k[d].checking = h[d].checking /\ k[d].origin = TRUE
      /\ k[d].state = IF Taken(h, d, here) THEN "same-computer" ELSE h[d].state
  <2>1. CASE Taken(h, d, here)
    <3>1. k = [h EXCEPT ![d].origin = TRUE, ![d].state = "same-computer"]
      BY <2>1 DEF Claim
    <3> HIDE DEF k
    <3> QED BY <1>0, <2>1, <3>1 DEF HostRecords, HostStates
  <2>2. CASE ~Taken(h, d, here)
    <3>1. k = [h EXCEPT ![d].origin = TRUE]
      BY <2>2 DEF Claim
    <3> HIDE DEF k
    <3> QED BY <1>0, <2>2, <3>1 DEF HostRecords, HostStates
  <2> QED BY <2>1, <2>2
<1> HIDE DEF k
<1>2. HostOK(k[d])
  BY <1>0, <1>1 DEF HostOK
<1>3. Claims(k, h)
  BY <1>1, <1>2 DEF Claims, HostsOK
<1>4. Alone(k, computerOf)
  <2>1. CASE Taken(h, d, here)
    BY <1>1, <2>1 DEF Alone
  <2>2. CASE ~Taken(h, d, here)
    BY <1>1, <2>2 DEF Alone, Taken
  <2> QED BY <2>1, <2>2
<1> QED BY <1>1, <1>3, <1>4 DEF k

LEMMA ClaimsAll ==
    /\ \A h : HostsOK(h) => Claims(h, h)
    /\ \A h, k, l : Claims(k, h) /\ Claims(l, k) => Claims(l, h)
BY DEF Claims

LEMMA InspectStep ==
    ASSUME KeeperInv, NEW p \in Pairs, Inspect(p)
    PROVE  KeeperInv'
<1>0. /\ KeeperTypes /\ HostsOK(host) /\ Alone(host, computerOf) /\ Claimed(host, pair, computerOf)
      /\ PairsFit(host, pair, remembered) /\ pair \in [Pairs -> PairStates]
      /\ pair[p] = "trying" /\ remembered \in SUBSET Dests
  BY DEF KeeperInv, Fit, PairsFit, KeeperTypes, Inspect
<1>1. localOrigin' \in BOOLEAN /\ (Local \in p => localOrigin' = TRUE)
  BY <1>0 DEF Inspect, KeeperTypes
<1>2. PICK first \in p : \E second \in p \ {first} :
         LET lost == first # Local /\ Taken(host, first, localOrigin')
             one == IF first = Local THEN host ELSE Claim(host, first, localOrigin')
             two == IF lost THEN one ELSE Claim(one, second, localOrigin')
         IN  /\ Local \in p => first = Local
             /\ IF lost \/ Taken(one, second, localOrigin')
                THEN Reconcile(two, [pair EXCEPT ![p] = "ended"], remembered, discover)
                ELSE /\ host' = two /\ pair' = [pair EXCEPT ![p] = "attaching"]
                     /\ UNCHANGED <<pass, again, aside>>
  BY DEF Inspect
<1>20. PICK second \in p \ {first} :
         LET lost == first # Local /\ Taken(host, first, localOrigin')
             one == IF first = Local THEN host ELSE Claim(host, first, localOrigin')
             two == IF lost THEN one ELSE Claim(one, second, localOrigin')
         IN  /\ Local \in p => first = Local
             /\ IF lost \/ Taken(one, second, localOrigin')
                THEN Reconcile(two, [pair EXCEPT ![p] = "ended"], remembered, discover)
                ELSE /\ host' = two /\ pair' = [pair EXCEPT ![p] = "attaching"]
                     /\ UNCHANGED <<pass, again, aside>>
  BY <1>2
<1> DEFINE here == localOrigin'
           lost == first # Local /\ Taken(host, first, here)
           one == IF first = Local THEN host ELSE Claim(host, first, here)
           two == IF lost THEN one ELSE Claim(one, second, here)
           ended == lost \/ Taken(one, second, here)
<1>3. /\ Local \in p => first = Local
      /\ ended => Reconcile(two, [pair EXCEPT ![p] = "ended"], remembered, discover)
      /\ ~ended => host' = two /\ pair' = [pair EXCEPT ![p] = "attaching"] /\ UNCHANGED <<pass, again, aside>>
  BY <1>20
<1>4. /\ p = {first, second} /\ second \in Dests /\ host[second].ssh
      /\ first # Local => first \in Dests /\ host[first].ssh
  <2>1. second # Local
    BY <1>3
  <2> QED BY <1>0, <2>1, PairSides, PairDests DEF PairsFit
<1> HIDE DEF here
<1>5. /\ Claims(one, host) /\ Alone(one, computerOf)
      /\ first # Local => one[first].origin
      /\ ~lost => \A e \in Dests : one[e].state = host[e].state
  BY <1>0, <1>1, <1>4, ClaimsOne, ClaimsAll DEF here
<1> HIDE DEF one
<1>6. HostsOK(one) /\ one[second].ssh
  BY <1>4, <1>5 DEF Claims
<1>7. /\ Claims(two, one) /\ Alone(two, computerOf)
      /\ ~lost => two[second].origin
      /\ ~ended => \A e \in Dests : two[e].state = one[e].state
  BY <1>1, <1>4, <1>5, <1>6, ClaimsOne, ClaimsAll DEF here
<1>8. Claims(two, host) /\ HostsOK(two)
  BY <1>5, <1>7, ClaimsAll DEF Claims
<1>9. ~ended /\ Local \in p => computerOf[second] # Here
  BY <1>1 DEF Taken, here
<1> HIDE DEF two, lost
<1>10. \A q \in Pairs : \A d \in q \ {Local} : host[d].origin => two[d].origin
  BY <1>8, PairDests DEF Claims
<1>11. Passed(remembered, computerOf)
  <2>1. CASE ended
    <3> DEFINE q == [pair EXCEPT ![p] = "ended"]
    <3>1. /\ q \in [Pairs -> PairStates]
          /\ \A x \in Pairs : q[x] # "none" => pair[x] # "none"
          /\ \A x \in Pairs : q[x] \in {"attaching", "linked"} => pair[x] \in {"attaching", "linked"}
      BY <1>0 DEF PairStates
    <3> HIDE DEF q
    <3>2. PairsFit(two, q, remembered)
      BY <1>0, <1>8, <3>1, PairDests DEF PairsFit, Claims
    <3>3. Claimed(two, q, computerOf)
      BY <1>0, <1>10, <3>1 DEF Claimed
    <3>4. Fit(two, q, remembered, computerOf)
      BY <1>7, <1>8, <3>2, <3>3 DEF Fit
    <3> QED BY <1>0, <1>3, <2>1, <3>4, ReconcilePasses DEF q
  <2>2. CASE ~ended
    <3>1. host' = two /\ pair' = [pair EXCEPT ![p] = "attaching"] /\ UNCHANGED <<pass, again, aside>> /\ ~lost
      BY <1>3, <2>2
    <3>2. Alike(host', host)
      BY <1>5, <1>7, <1>8, <2>2, <3>1 DEF Alike, Claims
    <3>3. /\ pair' \in [Pairs -> PairStates]
          /\ \A q \in Pairs : pair'[q] = "none" <=> pair[q] = "none"
          /\ \A q \in Pairs \ {p} : pair'[q] = pair[q]
      BY <1>0, <3>1 DEF PairStates
    <3>4. first # Local => two[first].origin
      BY <1>4, <1>5, <1>7 DEF Claims
    <3>5. \A d \in p \ {Local} : two[d].origin /\ (Local \in p => computerOf[d] # Here)
      BY <1>3, <1>4, <1>7, <1>9, <2>2, <3>1, <3>4
    <3>6. Claimed(host', pair', computerOf)
      BY <1>0, <1>10, <3>1, <3>3, <3>5 DEF Claimed
    <3> QED BY <1>7, <3>1, <3>2, <3>3, <3>6, Unpassed
  <2> QED BY <2>1, <2>2
<1> QED BY <1>0, <1>1, <1>11, PassedInv DEF Inspect, KeeperTypes, config, world

-----------------------------------------------------------------------------
(* The keeper                                                              *)

LEMMA OtherSteps ==
    ASSUME KeeperInv,
           \/ Listed \/ Tick \/ FlightDeckStarts \/ FlightDeckStops \/ Restart \/ UNCHANGED vars
           \/ \E d \in Dests : Leave(d) \/ Return(d)
    PROVE  KeeperInv'
<1>0. KeeperTypes /\ Fit(host, pair, remembered, computerOf) /\ remembered \in SUBSET Dests
  BY DEF KeeperInv, KeeperTypes
<1>1. CASE Listed
  BY <1>0, <1>1, ListedPasses, PassedInv DEF Listed, KeeperTypes, config, world
<1>2. CASE Tick
  <2>1. Passed(remembered, computerOf)
    BY <1>0, <1>2, ReconcilePasses DEF Tick
  <2> QED BY <1>0, <1>2, <2>1, PassedInv DEF Tick, KeeperTypes, config, world
<1>3. CASE Restart
  <2> DEFINE h == [d \in Dests |-> Absent]
             p == [q \in Pairs |-> "none"]
  <2>1. Begin(h, p, remembered, discover)
    BY <1>3 DEF Restart
  <2>2. Fit(h, p, remembered, computerOf)
    BY NewType DEF Fit, HostsOK, PairsFit, PairStates, Alone, Claimed
  <2> HIDE DEF h, p
  <2>3. Passed(remembered, computerOf)
    BY <1>0, <2>1, <2>2, BeginPasses
  <2>4. faults' \in Nat
    BY <1>0, <1>3 DEF Restart, Fault, KeeperTypes
  <2>5. orphans' \in [Dests -> Nat]
    BY <1>3 DEF Restart
  <2>6. localOrigin' \in BOOLEAN
    BY <1>3 DEF Restart
  <2> QED BY <1>0, <1>3, <2>3, <2>4, <2>5, <2>6, PassedInv DEF Restart, KeeperTypes, config
<1>4. ASSUME UNCHANGED <<config, host, orphans, localOrigin, pair, pass, again, computerOf, requests, aside>>,
             away' \subseteq Dests, flightDeck' \in BOOLEAN, faults' \in Nat
      PROVE  KeeperInv'
  <2>1. KeeperTypes'
    BY <1>0, <1>4 DEF KeeperTypes, config
  <2>2. Fit(host', pair', remembered', computerOf') /\ Kept(host', pair', remembered', pass', again', aside')
    BY <1>4 DEF KeeperInv, config
  <2> QED BY <2>1, <2>2 DEF KeeperInv
<1>5. CASE FlightDeckStarts \/ FlightDeckStops
  <2>1. /\ UNCHANGED <<config, host, orphans, localOrigin, pair, pass, again, computerOf, requests, aside>>
        /\ away' = away /\ flightDeck' \in BOOLEAN
    BY <1>5 DEF FlightDeckStarts, FlightDeckStops
  <2>2. faults' \in Nat
    BY <1>0, <1>5 DEF FlightDeckStarts, FlightDeckStops, Fault, KeeperTypes
  <2>3. away' \subseteq Dests
    BY <1>0, <2>1 DEF KeeperTypes
  <2> QED BY <1>4, <2>1, <2>2, <2>3
<1>6. ASSUME NEW d \in Dests, Leave(d) \/ Return(d) PROVE KeeperInv'
  <2>1. /\ UNCHANGED <<config, host, orphans, localOrigin, pair, pass, again, computerOf, requests, aside>>
        /\ away' \subseteq Dests /\ flightDeck' = flightDeck
    BY <1>0, <1>6 DEF Leave, Return, KeeperTypes
  <2>2. faults' \in Nat
    BY <1>0, <1>6 DEF Leave, Return, Fault, KeeperTypes
  <2>3. flightDeck' \in BOOLEAN
    BY <1>0, <2>1 DEF KeeperTypes
  <2> QED BY <1>4, <2>1, <2>2, <2>3
<1>7. CASE UNCHANGED vars
  BY <1>0, <1>4, <1>7 DEF vars, world, KeeperTypes
<1> QED BY <1>1, <1>2, <1>3, <1>5, <1>6, <1>7

LEMMA KeeperInit == Init => KeeperInv
<1> SUFFICES ASSUME Init PROVE KeeperInv
  OBVIOUS
<1>1. KeeperTypes
  BY DEF Init, KeeperTypes
<1>2. Fit(host, pair, remembered, computerOf)
  BY NewType DEF Init, Fit, HostsOK, PairsFit, PairStates, Alone, Claimed
<1>3. \A q \in Pairs : ~(q \subseteq {Local})
  <2> SUFFICES ASSUME NEW q \in Pairs, q \subseteq {Local} PROVE FALSE
    OBVIOUS
  <2>1. Cardinality(q) = 2 /\ (q = {} \/ q = {Local})
    BY DEF Pairs
  <2>2. Cardinality({Local}) = 1 /\ Cardinality({}) = 0
    BY FS_EmptySet, FS_Singleton
  <2> QED BY <2>1, <2>2
<1>4. Done(host, pair, remembered, aside)
  BY <1>3, NewType DEF Init, Done, SidesThen
<1>5. Kept(host, pair, remembered, pass, again, aside)
  BY <1>4 DEF Init, Kept
<1> QED BY <1>1, <1>2, <1>5 DEF KeeperInv

LEMMA KeeperInvHolds == Spec => []KeeperInv
<1>1. KeeperInv /\ [Next]_vars => KeeperInv'
  BY OtherSteps, RequestSteps, CheckEndsStep, OrphanEndsStep, InspectStep, LinkSteps DEF Next
<1> QED BY <1>1, KeeperInit, PTL DEF Spec

(* Every variable of the keeper and of its surroundings keeps its type,    *)
(* through every interleaving of checks, passes, links and requests.       *)
THEOREM KeeperTypesHold == Spec => []KeeperTypeOK
<1>1. KeeperInv => KeeperTypeOK
  BY DEF KeeperInv, KeeperTypeOK, Fit, HostsOK, PairsFit
<1> QED BY <1>1, KeeperInvHolds, PTL

(* No wakeup is lost: whatever asked for a pass while one was under way,   *)
(* a keeper that is idle has the pairs that its tables call for, knows     *)
(* every remembered computer and checks what it says it checks.            *)
THEOREM IdleIsDone == Spec => []IdleKeeperIsDone
<1>1. KeeperInv => IdleKeeperIsDone
  <2> SUFFICES ASSUME KeeperInv, pass = "idle"
               PROVE  /\ aside = flightDeck => {p \in Pairs : pair[p] # "none"} = Wanted(host, remembered)
                      /\ remembered \subseteq Hosts(host)
                      /\ \A d \in Dests : host[d].state = "checking" <=> host[d].checking
    BY DEF IdleKeeperIsDone
  <2>1. Done(host, pair, remembered, aside) /\ remembered \subseteq Hosts(host)
    BY DEF KeeperInv, Kept
  <2>2. SidesThen(host, remembered, flightDeck) = Sides(host, remembered)
    BY DEF SidesThen, Sides
  <2>3. aside = flightDeck => {p \in Pairs : pair[p] # "none"} = Wanted(host, remembered)
    BY <2>1, <2>2 DEF Done, Wanted
  <2>4. \A d \in Dests : host[d].checking => host[d].state = "checking"
    BY DEF KeeperInv, Fit, HostsOK, HostOK
  <2> QED BY <2>1, <2>3, <2>4 DEF Done
<1> QED BY <1>1, KeeperInvHolds, PTL

(* This computer attaches to another under one destination at a time, and  *)
(* never to itself, for any number of destinations in any order of checks  *)
(* and claims; what a pass is about to end is the one exception.           *)
THEOREM LinkedOnce == Spec => []ComputersLinkOnce
<1>1. KeeperInv => ComputersLinkOnce
  <2> SUFFICES ASSUME KeeperInv, NEW d \in Dests, Attaching(d)
               PROVE  /\ computerOf[d] # Here
                      /\ \A e \in Dests \ {d} : Attaching(e) /\ computerOf[e] = computerOf[d] =>
                            pass = "listing" /\ "same-computer" \in {host[d].state, host[e].state}
    BY DEF ComputersLinkOnce
  <2>1. ASSUME NEW e \in Dests, Attaching(e)
        PROVE  /\ host[e].origin /\ computerOf[e] # Here
               /\ host[e].state = "same-computer" => pass = "listing"
    <3>1. {Local, e} \in Pairs /\ e \in {Local, e} \ {Local} /\ pair[{Local, e}] \in {"attaching", "linked"}
      BY <2>1, PairOfLocal DEF Attaching
    <3>2. host[e].origin /\ computerOf[e] # Here
      BY <3>1 DEF KeeperInv, Fit, Claimed
    <3>3. Done(host, pair, remembered, aside) => e \in SidesThen(host, remembered, aside) /\ e # Local
      BY <3>1 DEF Done
    <3>4. pass = "idle" => host[e].state # "same-computer"
      BY <3>3 DEF KeeperInv, Kept, SidesThen
    <3> QED BY <3>2, <3>4 DEF KeeperInv, KeeperTypes
  <2>2. Alone(host, computerOf)
    BY DEF KeeperInv, Fit
  <2> QED BY <2>1, <2>2 DEF Alone
<1> QED BY <1>1, KeeperInvHolds, PTL
================================================================================
