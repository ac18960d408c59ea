------------------------- MODULE ObservatoryProofs -------------------------
(***************************************************************************)
(* Proofs about Observatory, for every set of axes, every threshold and    *)
(* window, and every weather.                                              *)
(*                                                                         *)
(* A cycle is a composition of steps on live records.  LInv is what each   *)
(* of them keeps, whatever the order: it relates the detectors' memory to  *)
(* the log.  Quiet says what a step leaves alone, so that what one step of *)
(* a cycle has established is still there when the cycle ends.  OInv adds  *)
(* the cycles of this boot: what the machine counts and the caches hold of *)
(* them.  HInv, about the recorded history and the cultivator's last act,  *)
(* is for the one action property.                                         *)
(***************************************************************************)
EXTENDS Observatory, FiniteSetTheorems, TLAPS

Kinds ==
    {"immune", "budget_exhausted", "compression_proposed", "self_euthanasia_proposal",
     "substrate_saturated", "substrate_normal_restored", "telos_alignment_pending",
     "telos_alignment_low", "telos_drift", "telos_drift_critical",
     "sycophancy_indicator_elevated", "bet_weakening_evaluation_suspended",
     "bet_weakening_quorum", "raw_material", "ci", "act"}

Tags == Axes \cup Detectors \cup {"none", "seed_rules", "metabolic_saturation"}
Events == [kind : Kinds, of : Tags, cycle : Nat, hidden : Nat]
Logs == Seq(Events)
Stamps == Nat \cup {Never}
Marks == [Axes -> Stamps]
Counts == [Detectors -> Nat]

Bodies ==
    [stage : Stages, exhausted : Nat, post : Nat, saturated : Nat,
     proposed : BOOLEAN, axisAt : Marks, telosAt : Stamps, strainAt : Stamps,
     sycoAt : Stamps, burstAt : Stamps, quorumAt : Stamps,
     open : SUBSET Detectors, hidden : Counts]

Lives == [dag : Logs, body : Bodies, heard : Counts, cycle : Nat, now : Nat]

-----------------------------------------------------------------------------
(* Logs; b is where the log of this boot begins. *)

\* A log that has only been appended to.
Extends(d, e) == Len(d) <= Len(e) /\ \A i \in DOMAIN d : i \in DOMAIN e /\ e[i] = d[i]

\* The immune events of a detector, and the detections they stand for.
Own(d, b, x) == {i \in DOMAIN d : i > b /\ d[i].kind = "immune" /\ d[i].of = x}
Carried(d, b, x) == UNION {{i} \X (0 .. d[i].hidden) : i \in Own(d, b, x)}

Proposals(d, b) == {i \in DOMAIN d : i > b /\ d[i].kind = "self_euthanasia_proposal"}

Plain(e) == e.kind \notin {"immune", "self_euthanasia_proposal"}

\* An event is a report of axis a at cycle c.
Report(e, a, c) == e.kind = "budget_exhausted" /\ e.of = a /\ e.cycle = c

Accounted(d, b, heard_, hidden) ==
    \A x \in Detectors : /\ IsFiniteSet(Carried(d, b, x))
                         /\ heard_[x] = hidden[x] + Cardinality(Carried(d, b, x))

\* A limiter's window was opened by an event of this boot.
Opened(d, b, open) == \A x \in open : Own(d, b, x) # {}

\* The cache that spaces the reports has been filled by reports.
Marked(d, axisAt, c) ==
    \A a \in Axes : axisAt[a] # Never =>
        axisAt[a] <= c /\ \E i \in DOMAIN d : Report(d[i], a, axisAt[a])

\* A proposal that no return to normal has answered is remembered.
Restored(d, i, j) == \E k \in i .. j : d[k].kind = "substrate_normal_restored"
Episodic(d, b, proposed) ==
    /\ \A i, j \in Proposals(d, b) : i < j => Restored(d, i, j)
    /\ ~proposed => \A i \in Proposals(d, b) : Restored(d, i, Len(d))

LEMMA LogElements ==
    ASSUME NEW d \in Logs, NEW i \in DOMAIN d
    PROVE  /\ Len(d) \in Nat /\ DOMAIN d = 1 .. Len(d) /\ i \in Nat
           /\ d[i] \in Events /\ d[i].kind \in Kinds
           /\ d[i].of \in Tags /\ d[i].cycle \in Nat /\ d[i].hidden \in Nat
<1>1. Len(d) \in Nat /\ DOMAIN d = 1 .. Len(d) /\ d[i] \in Events
  BY DEF Logs
<1> QED BY <1>1 DEF Events

\* A log is one, and a longer one is one.
LEMMA LogJoin ==
    ASSUME NEW d \in Logs, NEW r \in Logs
    PROVE  /\ d \o r \in Logs /\ Len(d \o r) = Len(d) + Len(r)
           /\ Len(d) \in Nat /\ Len(r) \in Nat
           /\ DOMAIN d = 1 .. Len(d) /\ DOMAIN (d \o r) = 1 .. Len(d) + Len(r)
           /\ \A i \in 1 .. Len(d) : (d \o r)[i] = d[i]
           /\ \A i \in Len(d) + 1 .. Len(d) + Len(r) :
                 i - Len(d) \in DOMAIN r /\ (d \o r)[i] = r[i - Len(d)]
           /\ \A i \in DOMAIN r : Len(d) + i \in DOMAIN (d \o r) /\ (d \o r)[Len(d) + i] = r[i]
           /\ Extends(d, d \o r)
BY DEF Logs, Extends

\* One event more.
LEMMA LogAppend ==
    ASSUME NEW d \in Logs, NEW e \in Events
    PROVE  /\ Append(d, e) = d \o <<e>> /\ <<e>> \in Logs
           /\ Append(d, e) \in Logs /\ Len(Append(d, e)) = Len(d) + 1
           /\ Len(d) \in Nat /\ DOMAIN d = 1 .. Len(d)
           /\ DOMAIN Append(d, e) = 1 .. Len(d) + 1
           /\ \A i \in 1 .. Len(d) : Append(d, e)[i] = d[i]
           /\ Append(d, e)[Len(d) + 1] = e
           /\ Extends(d, Append(d, e))
BY DEF Logs, Extends

\* Extension is an order.
LEMMA ExtendsOrder ==
    ASSUME NEW d \in Logs
    PROVE  /\ Extends(d, d)
           /\ \A e \in Logs, f \in Logs : Extends(d, e) /\ Extends(e, f) => Extends(d, f)
<1>1. \A e \in Logs : Len(e) \in Nat
  BY DEF Logs
<1> QED BY <1>1 DEF Extends

\* Marks and answered proposals are not lost.
LEMMA ExtendsKeeps ==
    ASSUME NEW d \in Logs, NEW e \in Logs, Extends(d, e)
    PROVE  /\ \A x, c : Marked(d, x, c) => Marked(e, x, c)
           /\ \A i \in DOMAIN d, j \in 1 .. Len(d) : Restored(d, i, j) => Restored(e, i, j)
           /\ \A i \in DOMAIN d : Restored(d, i, Len(d)) => Restored(e, i, Len(e))
<1>1. /\ Len(d) \in Nat /\ Len(e) \in Nat
      /\ DOMAIN d = 1 .. Len(d) /\ DOMAIN e = 1 .. Len(e)
  BY DEF Logs
<1> QED BY <1>1 DEF Extends, Marked, Restored

\* Events that are neither immune nor proposals change nothing of the accounts.
LEMMA PlainKeeps ==
    ASSUME NEW d \in Logs, NEW r \in Logs, \A i \in DOMAIN r : Plain(r[i]),
           NEW b \in Nat
    PROVE  /\ \A x : Own(d \o r, b, x) = Own(d, b, x)
           /\ \A x : Carried(d \o r, b, x) = Carried(d, b, x)
           /\ Proposals(d \o r, b) = Proposals(d, b)
<1> DEFINE e == d \o r
<1>1. /\ Len(d) \in Nat /\ Len(r) \in Nat /\ DOMAIN d = 1 .. Len(d)
      /\ DOMAIN e = 1 .. Len(d) + Len(r)
      /\ \A i \in 1 .. Len(d) : e[i] = d[i]
      /\ \A i \in Len(d) + 1 .. Len(d) + Len(r) : Plain(e[i])
  <2>1. /\ Len(d) \in Nat /\ Len(r) \in Nat /\ DOMAIN d = 1 .. Len(d)
        /\ DOMAIN e = 1 .. Len(d) + Len(r)
        /\ \A i \in 1 .. Len(d) : e[i] = d[i]
        /\ \A i \in Len(d) + 1 .. Len(d) + Len(r) :
              i - Len(d) \in DOMAIN r /\ e[i] = r[i - Len(d)]
    BY LogJoin, ZenonT(60)
  <2>2. ASSUME NEW i \in Len(d) + 1 .. Len(d) + Len(r)
        PROVE  Plain(e[i])
    BY <2>1, ZenonT(60)
  <2> QED BY <2>1, <2>2, ZenonT(60)
<1> HIDE DEF e
<1>2. \A x : Own(e, b, x) = Own(d, b, x)
  BY <1>1 DEF Own, Plain
<1>3. \A x : \A i \in Own(d, b, x) : e[i] = d[i]
  BY <1>1 DEF Own
<1>4. \A x : Carried(e, b, x) = Carried(d, b, x)
  BY <1>2, <1>3 DEF Carried
<1>5. Proposals(e, b) = Proposals(d, b)
  BY <1>1 DEF Proposals, Plain
<1> QED BY <1>2, <1>4, <1>5 DEF e

\* A log without an entry of this boot.
LEMMA NothingCarried ==
    ASSUME NEW d \in Logs, NEW b \in Nat, Len(d) <= b
    PROVE  /\ \A x : Own(d, b, x) = {} /\ Carried(d, b, x) = {}
           /\ Proposals(d, b) = {}
<1>1. Len(d) \in Nat /\ DOMAIN d = 1 .. Len(d)
  BY DEF Logs
<1>2. \A x : Own(d, b, x) = {}
  BY <1>1 DEF Own
<1> QED BY <1>1, <1>2 DEF Carried, Proposals

\* An immune event: its detector has one more, which stands for those it hid too.
LEMMA ImmuneCarries ==
    ASSUME NEW d \in Logs, NEW b \in Nat, b <= Len(d), NEW e \in Events,
           e.kind = "immune"
    PROVE  /\ Own(Append(d, e), b, e.of) = Own(d, b, e.of) \cup {Len(d) + 1}
           /\ \A x : x # e.of => Own(Append(d, e), b, x) = Own(d, b, x)
           /\ \A x : x # e.of => Carried(Append(d, e), b, x) = Carried(d, b, x)
           /\ Proposals(Append(d, e), b) = Proposals(d, b)
           /\ IsFiniteSet(Carried(d, b, e.of)) =>
                 /\ IsFiniteSet(Carried(Append(d, e), b, e.of))
                 /\ Cardinality(Carried(Append(d, e), b, e.of))
                       = Cardinality(Carried(d, b, e.of)) + e.hidden + 1
<1> DEFINE f == Append(d, e)
           n == Len(d) + 1
           w == {n} \X (0 .. e.hidden)
<1>1. /\ Len(d) \in Nat /\ DOMAIN d = 1 .. Len(d) /\ DOMAIN f = 1 .. Len(d) + 1
      /\ \A i \in 1 .. Len(d) : f[i] = d[i]
      /\ f[n] = e /\ e.hidden \in Nat
  BY LogAppend DEF Events
<1> HIDE DEF f
<1>2. Own(f, b, e.of) = Own(d, b, e.of) \cup {n}
  BY <1>1 DEF Own
<1>3. \A x : x # e.of => Own(f, b, x) = Own(d, b, x)
  BY <1>1 DEF Own
<1>4. \A x : \A i \in Own(d, b, x) : f[i] = d[i] /\ i # n
  BY <1>1 DEF Own
<1>5. \A x : x # e.of => Carried(f, b, x) = Carried(d, b, x)
  BY <1>3, <1>4 DEF Carried
<1>6. Proposals(f, b) = Proposals(d, b)
  BY <1>1 DEF Proposals
<1>7. Carried(f, b, e.of) = Carried(d, b, e.of) \cup w
  BY <1>1, <1>2, <1>4 DEF Carried
<1>8. Carried(d, b, e.of) \cap w = {}
  BY <1>4 DEF Carried
<1>9. IsFiniteSet(w) /\ Cardinality(w) = e.hidden + 1
  <2>1. IsFiniteSet({n}) /\ Cardinality({n}) = 1
    BY FS_Singleton
  <2>2. IsFiniteSet(0 .. e.hidden) /\ Cardinality(0 .. e.hidden) = e.hidden + 1
    <3>1. 0 \in Int /\ e.hidden \in Int /\ ~(0 > e.hidden)
      BY <1>1
    <3> HIDE DEF w
    <3>2. /\ IsFiniteSet(0 .. e.hidden)
          /\ Cardinality(0 .. e.hidden) = IF 0 > e.hidden THEN 0 ELSE e.hidden - 0 + 1
      BY <3>1, FS_Interval
    <3> QED BY <3>1, <3>2
  <2>3. IsFiniteSet(w) /\ Cardinality(w) = Cardinality({n}) * Cardinality(0 .. e.hidden)
    BY <2>1, <2>2, FS_Product
  <2> QED BY <1>1, <2>1, <2>2, <2>3
<1> HIDE DEF w
<1>10. ASSUME IsFiniteSet(Carried(d, b, e.of))
       PROVE  /\ IsFiniteSet(Carried(f, b, e.of))
              /\ Cardinality(Carried(f, b, e.of))
                    = Cardinality(Carried(d, b, e.of)) + e.hidden + 1
  <2>1. /\ IsFiniteSet(Carried(d, b, e.of) \cup w)
        /\ Cardinality(Carried(d, b, e.of) \cup w)
              = Cardinality(Carried(d, b, e.of)) + Cardinality(w) - Cardinality({})
    BY <1>8, <1>9, <1>10, FS_Union
  <2>2. Cardinality({}) = 0 /\ Cardinality(Carried(d, b, e.of)) \in Nat
    BY <1>10, FS_EmptySet, FS_CardinalityType
  <2> QED BY <1>1, <1>7, <1>9, <2>1, <2>2
<1> QED BY <1>2, <1>3, <1>5, <1>6, <1>10 DEF f

-----------------------------------------------------------------------------
(* Live records. *)

LInv(s, b) ==
    /\ s \in Lives /\ b \in Nat /\ b <= Len(s.dag)
    /\ Accounted(s.dag, b, s.heard, s.body.hidden)
    /\ Opened(s.dag, b, s.body.open)
    /\ Marked(s.dag, s.body.axisAt, s.cycle)
    /\ Episodic(s.dag, b, s.body.proposed)
    /\ s.body.proposed => s.body.stage # "normal"
    /\ ~mute => Own(s.dag, b, "C53") = {}
    /\ s.body.telosAt <= s.cycle

\* The cycle and the clock stand still, and the log grows.
After(s, t) == t.cycle = s.cycle /\ t.now = s.now /\ Extends(s.dag, t.dag)

\* The saturation machine and the caches of reports and grades are left alone.
Quiet(s, t) ==
    /\ After(s, t)
    /\ t.body.stage = s.body.stage /\ t.body.exhausted = s.body.exhausted
    /\ t.body.post = s.body.post /\ t.body.saturated = s.body.saturated
    /\ t.body.axisAt = s.body.axisAt /\ t.body.telosAt = s.body.telosAt

\* Steps can be composed.
LEMMA Compose ==
    ASSUME NEW s \in Lives, NEW t \in Lives, NEW u \in Lives
    PROVE  /\ Quiet(s, s)
           /\ After(s, t) /\ After(t, u) => After(s, u)
           /\ Quiet(s, t) /\ Quiet(t, u) => Quiet(s, u)
<1>1. s.dag \in Logs /\ t.dag \in Logs /\ u.dag \in Logs
  BY DEF Lives
<1>2. /\ Extends(s.dag, s.dag)
      /\ Extends(s.dag, t.dag) /\ Extends(t.dag, u.dag) => Extends(s.dag, u.dag)
  BY <1>1, ExtendsOrder
<1> QED BY <1>2 DEF After, Quiet

\* What a live record is made of.
LEMMA LiveFields ==
    ASSUME NEW s \in Lives
    PROVE  /\ s.dag \in Logs /\ s.body \in Bodies /\ s.heard \in Counts
           /\ s.cycle \in Nat /\ s.now \in Nat
           /\ s.body.open \in SUBSET Detectors /\ s.body.hidden \in Counts
           /\ s.body.axisAt \in Marks /\ s.body.stage \in Stages
           /\ s.body.proposed \in BOOLEAN
           /\ {s.body.exhausted, s.body.post, s.body.saturated} \subseteq Nat
           /\ {s.body.telosAt, s.body.strainAt, s.body.sycoAt, s.body.burstAt,
               s.body.quorumAt} \subseteq Stamps
<1>1. s.body \in Bodies
  BY DEF Lives
<1> QED BY <1>1 DEF Lives, Bodies

\* Events that are neither immune nor proposals, whatever they are.
LEMMA PlainStep ==
    ASSUME NEW s, NEW b, LInv(s, b), NEW r \in Logs, \A i \in DOMAIN r : Plain(r[i]),
           NEW t \in Lives, t.dag = s.dag \o r, t.body = s.body, t.heard = s.heard,
           t.cycle = s.cycle, t.now = s.now
    PROVE  LInv(t, b) /\ Quiet(s, t)
<1>1. s \in Lives /\ b \in Nat /\ b <= Len(s.dag) /\ s.dag \in Logs
  BY LiveFields DEF LInv
<1>2. /\ \A x : Own(t.dag, b, x) = Own(s.dag, b, x)
      /\ \A x : Carried(t.dag, b, x) = Carried(s.dag, b, x)
      /\ Proposals(t.dag, b) = Proposals(s.dag, b)
  BY <1>1, PlainKeeps
<1>3. /\ Extends(s.dag, t.dag) /\ t.dag \in Logs
      /\ Len(t.dag) = Len(s.dag) + Len(r) /\ Len(s.dag) \in Nat /\ Len(r) \in Nat
  BY <1>1, LogJoin, ZenonT(60)
<1>4. /\ Accounted(t.dag, b, t.heard, t.body.hidden)
      /\ Opened(t.dag, b, t.body.open)
  BY <1>2 DEF LInv, Accounted, Opened
<1>5. Marked(t.dag, t.body.axisAt, t.cycle)
  BY <1>1, <1>3, ExtendsKeeps DEF LInv
<1>6. Episodic(t.dag, b, t.body.proposed)
  <2>1. Proposals(s.dag, b) \subseteq DOMAIN s.dag /\ DOMAIN s.dag = 1 .. Len(s.dag)
    BY <1>1 DEF Proposals, Logs
  <2> QED BY <1>1, <1>2, <1>3, <2>1, ExtendsKeeps DEF LInv, Episodic
<1> QED BY <1>1, <1>2, <1>3, <1>4, <1>5, <1>6 DEF LInv, Quiet, After

\* An emission of such an event.
LEMMA EmitKeeps ==
    ASSUME NEW s, NEW b, LInv(s, b), NEW kind \in Kinds, NEW of \in Tags,
           kind \notin {"immune", "self_euthanasia_proposal"}
    PROVE  LET t == Emit(s, kind, of)
           IN  /\ LInv(t, b) /\ Quiet(s, t) /\ t.body = s.body
               /\ t.dag[Len(t.dag)] = Event(s, kind, of) /\ Len(t.dag) \in DOMAIN t.dag
<1> DEFINE e == Event(s, kind, of)
           d == Append(s.dag, e)
           t == Emit(s, kind, of)
<1>1. s \in Lives /\ s.dag \in Logs /\ s.cycle \in Nat
  BY LiveFields DEF LInv
<1>2. e \in Events /\ Plain(e)
  BY <1>1 DEF Event, Events, Plain
<1>3. t = [s EXCEPT !.dag = d]
  BY DEF Emit
<1> HIDE DEF e
<1>4. d \in Logs /\ d = s.dag \o <<e>> /\ <<e>> \in Logs /\ Len(d) \in DOMAIN d /\ d[Len(d)] = e
  <2>1. /\ d = s.dag \o <<e>> /\ <<e>> \in Logs /\ d \in Logs /\ Len(d) = Len(s.dag) + 1
        /\ Len(s.dag) \in Nat /\ DOMAIN d = 1 .. Len(s.dag) + 1 /\ d[Len(s.dag) + 1] = e
    BY <1>1, <1>2, LogAppend
  <2> HIDE DEF d
  <2> QED BY <2>1
<1>5. \A i \in DOMAIN <<e>> : Plain(<<e>>[i])
  BY <1>2
<1> HIDE DEF d, t
<1>6. /\ t \in Lives /\ t.dag = d /\ t.body = s.body /\ t.heard = s.heard
      /\ t.cycle = s.cycle /\ t.now = s.now
  BY <1>1, <1>3, <1>4 DEF Lives
<1>7. LInv(t, b) /\ Quiet(s, t)
  BY <1>4, <1>5, <1>6, PlainStep
<1>8. t.body = s.body /\ t.dag[Len(t.dag)] = Event(s, kind, of) /\ Len(t.dag) \in DOMAIN t.dag
  BY <1>4, <1>6 DEF e
<1> QED BY <1>7, <1>8 DEF t
\* A detection within an open window is counted, not written.
LEMMA SuppressKeeps ==
    ASSUME NEW s, NEW b, LInv(s, b), NEW x \in Detectors, NEW n \in Nat
    PROVE  LET t == Suppress(s, x, n)
           IN  LInv(t, b) /\ Quiet(s, t) /\ t.dag = s.dag
<1> DEFINE h == [s.heard EXCEPT ![x] = @ + n]
           c == [s.body.hidden EXCEPT ![x] = @ + n]
           m == [s.body EXCEPT !.hidden = c]
           t == Suppress(s, x, n)
<1>1. /\ s \in Lives /\ s.dag \in Logs /\ s.body \in Bodies /\ s.heard \in Counts
      /\ s.body.hidden \in Counts
  BY LiveFields DEF LInv
<1>2. /\ h \in Counts /\ h[x] = s.heard[x] + n /\ \A y \in Detectors \ {x} : h[y] = s.heard[y]
      /\ c \in Counts /\ c[x] = s.body.hidden[x] + n
      /\ \A y \in Detectors \ {x} : c[y] = s.body.hidden[y]
      /\ s.heard[x] \in Nat /\ s.body.hidden[x] \in Nat
  BY <1>1 DEF Counts
<1>3. t = [s EXCEPT !.heard = h, !.body = m]
  BY DEF Suppress
<1> HIDE DEF h, c
<1>4. /\ m \in Bodies /\ m.hidden = c /\ m.open = s.body.open /\ m.axisAt = s.body.axisAt
      /\ m.proposed = s.body.proposed /\ m.stage = s.body.stage
      /\ m.exhausted = s.body.exhausted /\ m.post = s.body.post
      /\ m.saturated = s.body.saturated /\ m.telosAt = s.body.telosAt
  BY <1>1, <1>2 DEF Bodies
<1> HIDE DEF m, t
<1>5. /\ t \in Lives /\ t.dag = s.dag /\ t.body = m /\ t.heard = h
      /\ t.cycle = s.cycle /\ t.now = s.now
  BY <1>1, <1>2, <1>3, <1>4 DEF Lives
<1>6. Accounted(t.dag, b, t.heard, t.body.hidden)
  <2> SUFFICES ASSUME NEW y \in Detectors
               PROVE  /\ IsFiniteSet(Carried(s.dag, b, y))
                      /\ h[y] = c[y] + Cardinality(Carried(s.dag, b, y))
    BY <1>4, <1>5 DEF Accounted
  <2>1. /\ IsFiniteSet(Carried(s.dag, b, y))
        /\ s.heard[y] = s.body.hidden[y] + Cardinality(Carried(s.dag, b, y))
    BY DEF LInv, Accounted
  <2>2. Cardinality(Carried(s.dag, b, y)) \in Nat
    BY <2>1, FS_CardinalityType
  <2> QED BY <1>2, <2>1, <2>2
<1>7. LInv(t, b)
  BY <1>4, <1>5, <1>6 DEF LInv
<1>8. Quiet(s, t)
  BY <1>1, <1>4, <1>5, ExtendsOrder DEF Quiet, After
<1> QED BY <1>5, <1>7, <1>8 DEF t

\* The detection that opens a window is an event, with the count of those before it.
LEMMA RaiseKeeps ==
    ASSUME NEW s, NEW b, LInv(s, b), NEW x \in Detectors, x = "C53" => mute
    PROVE  LET t == Raise(s, x)
           IN  LInv(t, b) /\ Quiet(s, t) /\ x \in t.body.open
<1> DEFINE e == [Event(s, "immune", x) EXCEPT !.hidden = s.body.hidden[x]]
           d == Append(s.dag, e)
           h == [s.heard EXCEPT ![x] = @ + 1]
           c == [s.body.hidden EXCEPT ![x] = 0]
           o == s.body.open \cup {x}
           m == [[s.body EXCEPT !.open = o] EXCEPT !.hidden = c]
           t == Raise(s, x)
<1>1. /\ s \in Lives /\ s.dag \in Logs /\ s.body \in Bodies /\ s.heard \in Counts
      /\ s.body.hidden \in Counts /\ s.body.open \in SUBSET Detectors /\ s.cycle \in Nat
      /\ b \in Nat /\ b <= Len(s.dag)
  BY LiveFields DEF LInv
<1>2. /\ h \in Counts /\ h[x] = s.heard[x] + 1 /\ \A y \in Detectors \ {x} : h[y] = s.heard[y]
      /\ c \in Counts /\ c[x] = 0 /\ \A y \in Detectors \ {x} : c[y] = s.body.hidden[y]
      /\ s.heard[x] \in Nat /\ s.body.hidden[x] \in Nat
  BY <1>1 DEF Counts
<1>3. t = [s EXCEPT !.heard = h, !.dag = d, !.body = m]
  BY DEF Raise
<1>4. e \in Events /\ e.kind = "immune" /\ e.of = x /\ e.hidden = s.body.hidden[x]
  <2> DEFINE z == Event(s, "immune", x)
             n == s.body.hidden[x]
  <2>0. x \in Tags /\ "immune" \in Kinds
    BY DEF Tags, Kinds
  <2>1. z \in Events /\ z.kind = "immune" /\ z.of = x
    BY <1>1, <2>0 DEF Event, Events
  <2>2. n \in Nat /\ e = [z EXCEPT !.hidden = n]
    BY <1>2
  <2> HIDE DEF z, n, e
  <2>3. e \in Events /\ e.kind = z.kind /\ e.of = z.of /\ e.hidden = n
    BY <2>1, <2>2 DEF Events
  <2> QED BY <2>1, <2>3 DEF n
<1>5. o \in SUBSET Detectors /\ x \in o
  BY <1>1
<1> HIDE DEF h, c, e, o
<1>6. /\ d \in Logs /\ Extends(s.dag, d) /\ Len(d) = Len(s.dag) + 1 /\ Len(s.dag) \in Nat
  BY <1>1, <1>4, LogAppend
<1>7. /\ Own(d, b, x) = Own(s.dag, b, x) \cup {Len(s.dag) + 1}
      /\ \A y : y # x => Own(d, b, y) = Own(s.dag, b, y)
      /\ \A y : y # x => Carried(d, b, y) = Carried(s.dag, b, y)
      /\ Proposals(d, b) = Proposals(s.dag, b)
      /\ IsFiniteSet(Carried(s.dag, b, x)) =>
            /\ IsFiniteSet(Carried(d, b, x))
            /\ Cardinality(Carried(d, b, x))
                  = Cardinality(Carried(s.dag, b, x)) + e.hidden + 1
  <2>1. /\ Own(d, b, e.of) = Own(s.dag, b, e.of) \cup {Len(s.dag) + 1}
        /\ \A y : y # e.of => Own(d, b, y) = Own(s.dag, b, y)
        /\ \A y : y # e.of => Carried(d, b, y) = Carried(s.dag, b, y)
        /\ Proposals(d, b) = Proposals(s.dag, b)
        /\ IsFiniteSet(Carried(s.dag, b, e.of)) =>
              /\ IsFiniteSet(Carried(d, b, e.of))
              /\ Cardinality(Carried(d, b, e.of))
                    = Cardinality(Carried(s.dag, b, e.of)) + e.hidden + 1
    BY <1>1, <1>4, ImmuneCarries
  <2> HIDE DEF d
  <2> QED BY <1>4, <2>1
<1> HIDE DEF d
<1>8. /\ m \in Bodies /\ m.hidden = c /\ m.open = o /\ m.axisAt = s.body.axisAt
      /\ m.proposed = s.body.proposed /\ m.stage = s.body.stage
      /\ m.exhausted = s.body.exhausted /\ m.post = s.body.post
      /\ m.saturated = s.body.saturated /\ m.telosAt = s.body.telosAt
  BY <1>1, <1>2, <1>5 DEF Bodies
<1> HIDE DEF m, t
<1>9. /\ t \in Lives /\ t.dag = d /\ t.body = m /\ t.heard = h
      /\ t.cycle = s.cycle /\ t.now = s.now
  BY <1>1, <1>2, <1>3, <1>6, <1>8 DEF Lives
<1>10. Accounted(t.dag, b, t.heard, t.body.hidden)
  <2> SUFFICES ASSUME NEW y \in Detectors
               PROVE  /\ IsFiniteSet(Carried(d, b, y))
                      /\ h[y] = c[y] + Cardinality(Carried(d, b, y))
    BY <1>8, <1>9 DEF Accounted
  <2>1. /\ IsFiniteSet(Carried(s.dag, b, y))
        /\ s.heard[y] = s.body.hidden[y] + Cardinality(Carried(s.dag, b, y))
    BY DEF LInv, Accounted
  <2>2. Cardinality(Carried(s.dag, b, y)) \in Nat
    BY <2>1, FS_CardinalityType
  <2> QED BY <1>2, <1>4, <1>7, <2>1, <2>2
<1>11. Opened(t.dag, b, t.body.open)
  BY <1>7, <1>8, <1>9 DEF LInv, Opened, o
<1>12. Marked(t.dag, t.body.axisAt, t.cycle)
  BY <1>1, <1>6, <1>8, <1>9, ExtendsKeeps DEF LInv
<1>13. Episodic(t.dag, b, t.body.proposed)
  <2>1. Proposals(s.dag, b) \subseteq DOMAIN s.dag /\ DOMAIN s.dag = 1 .. Len(s.dag)
    BY <1>1 DEF Proposals, Logs
  <2> QED BY <1>1, <1>6, <1>7, <1>8, <1>9, <2>1, ExtendsKeeps DEF LInv, Episodic
<1>14. ~mute => Own(t.dag, b, "C53") = {}
  BY <1>7, <1>9 DEF LInv
<1>15. LInv(t, b)
  BY <1>1, <1>6, <1>8, <1>9, <1>10, <1>11, <1>12, <1>13, <1>14 DEF LInv
<1>16. Quiet(s, t) /\ x \in t.body.open
  BY <1>5, <1>6, <1>8, <1>9 DEF Quiet, After
<1> QED BY <1>15, <1>16 DEF t

\* A detection, either way.
LEMMA DetectKeeps ==
    ASSUME NEW s, NEW b, LInv(s, b), NEW x \in Detectors, x = "C53" => mute
    PROVE  LET t == Detect(s, x)
           IN  LInv(t, b) /\ Quiet(s, t) /\ Own(t.dag, b, x) # {}
<1>1. CASE x \in s.body.open
  <2>1. LET t == Suppress(s, x, 1) IN LInv(t, b) /\ Quiet(s, t) /\ t.dag = s.dag
    BY SuppressKeeps
  <2>2. Own(s.dag, b, x) # {}
    BY <1>1 DEF LInv, Opened
  <2> QED BY <1>1, <2>1, <2>2 DEF Detect
<1>2. CASE x \notin s.body.open
  <2>1. LET t == Raise(s, x) IN LInv(t, b) /\ Quiet(s, t) /\ x \in t.body.open
    BY RaiseKeeps
  <2>2. Own(Raise(s, x).dag, b, x) # {}
    BY <2>1 DEF LInv, Opened
  <2> QED BY <1>2, <2>1, <2>2 DEF Detect
<1> QED BY <1>1, <1>2
\* What the invariant does not read of the memory may change.
LEMMA MemoryKeeps ==
    ASSUME NEW s, NEW b, LInv(s, b), NEW t \in Lives, t.dag = s.dag, t.heard = s.heard,
           t.cycle = s.cycle, t.now = s.now,
           t.body.hidden = s.body.hidden, t.body.open = s.body.open,
           t.body.axisAt = s.body.axisAt, t.body.telosAt <= t.cycle,
           Episodic(s.dag, b, t.body.proposed),
           t.body.proposed => t.body.stage # "normal"
    PROVE  LInv(t, b) /\ After(s, t)
<1>1. Extends(s.dag, s.dag)
  BY LiveFields, ExtendsOrder DEF LInv
<1> QED BY <1>1 DEF LInv, After

-----------------------------------------------------------------------------
(* P11.c. *)

\* The stage and the counters after a cycle.
Counted(m, s, over) ==
    /\ m.stage = Stage(s.body, s.cycle, over)
    /\ m.exhausted = (IF over = {} THEN 0 ELSE s.body.exhausted + 1)
    /\ m.post = (IF m.stage \in {"post_eligibility", "saturated"} THEN s.body.post + 1 ELSE 0)
    /\ m.saturated = (IF m.stage = "saturated" THEN s.body.saturated + 1 ELSE 0)

LEMMA StageType ==
    ASSUME NEW s \in Lives, NEW over
    PROVE  Stage(s.body, s.cycle, over) \in Stages
<1>1. s.body.post \in Nat /\ s.cycle \in Nat /\ Floor \in Nat /\ Sustained \in Nat
  BY LiveFields, ObservatoryAssumption
<1> QED BY <1>1 DEF Stage, Stages

\* The counting itself.
LEMMA CountFields ==
    ASSUME NEW s \in Lives, NEW over, NEW m,
           m = Count(s.body, Stage(s.body, s.cycle, over), over)
    PROVE  /\ m \in Bodies /\ Counted(m, s, over)
           /\ m.proposed = (s.body.proposed /\ m.stage # "normal")
           /\ m.hidden = s.body.hidden /\ m.open = s.body.open
           /\ m.axisAt = s.body.axisAt /\ m.telosAt = s.body.telosAt
<1> DEFINE g == Stage(s.body, s.cycle, over)
<1>1. s.body \in Bodies /\ g \in Stages
  BY LiveFields, StageType
<1>2. m = Count(s.body, g, over)
  OBVIOUS
<1>3. Counted(m, s, over) <=> 
         /\ m.stage = g
         /\ m.exhausted = (IF over = {} THEN 0 ELSE s.body.exhausted + 1)
         /\ m.post = (IF m.stage \in {"post_eligibility", "saturated"} THEN s.body.post + 1 ELSE 0)
         /\ m.saturated = (IF m.stage = "saturated" THEN s.body.saturated + 1 ELSE 0)
  BY DEF Counted
<1> DEFINE e == IF over = {} THEN 0 ELSE s.body.exhausted + 1
           p == IF g \in {"post_eligibility", "saturated"} THEN s.body.post + 1 ELSE 0
           u == IF g = "saturated" THEN s.body.saturated + 1 ELSE 0
           q == s.body.proposed /\ g # "normal"
<1>4. e \in Nat /\ p \in Nat /\ u \in Nat /\ q \in BOOLEAN
  BY LiveFields
<1>5. m = [s.body EXCEPT !.stage = g, !.exhausted = e, !.post = p, !.saturated = u,
                         !.proposed = q]
  BY <1>2 DEF Count
<1> HIDE DEF g, e, p, u, q
<1>6. /\ m \in Bodies /\ m.stage = g /\ m.exhausted = e /\ m.post = p /\ m.saturated = u
      /\ m.proposed = q
      /\ m.hidden = s.body.hidden /\ m.open = s.body.open
      /\ m.axisAt = s.body.axisAt /\ m.telosAt = s.body.telosAt
  BY <1>1, <1>4, <1>5, ZenonT(60) DEF Bodies
<1> QED BY <1>3, <1>6 DEF e, p, u, q

\* The transition of a cycle; a return to normal answers the proposals before it.
LEMMA TransitionKeeps ==
    ASSUME NEW s, NEW b, LInv(s, b), NEW over
    PROVE  LET t == Transition(s, over)
           IN  /\ LInv(t, b) /\ After(s, t) /\ Counted(t.body, s, over)
               /\ t.body.axisAt = s.body.axisAt /\ t.body.telosAt = s.body.telosAt
<1> DEFINE old == s.body.stage
           new == Stage(s.body, s.cycle, over)
           m == Count(s.body, new, over)
           s1 == [s EXCEPT !.body = m]
           t == Transition(s, over)
<1>1. s \in Lives /\ s.body.proposed \in BOOLEAN /\ s.dag \in Logs /\ s.cycle \in Nat
  BY LiveFields DEF LInv
<1>2. /\ m \in Bodies /\ Counted(m, s, over) /\ m.stage = new
      /\ m.proposed = (s.body.proposed /\ new # "normal")
      /\ m.hidden = s.body.hidden /\ m.open = s.body.open
      /\ m.axisAt = s.body.axisAt /\ m.telosAt = s.body.telosAt
  BY <1>1, CountFields DEF Counted
<1>3. t = LET s2 == EmitIf(new = "saturated" /\ old # new, s1, "substrate_saturated", "none")
          IN  EmitIf(new = "normal" /\ old # new, s2, "substrate_normal_restored", "none")
  BY DEF Transition
<1> HIDE DEF new, m
<1>4. /\ s1 \in Lives /\ s1.dag = s.dag /\ s1.body = m /\ s1.heard = s.heard
      /\ s1.cycle = s.cycle /\ s1.now = s.now
  BY <1>1, <1>2 DEF Lives
<1> HIDE DEF s1
<1>5. CASE new = "normal" /\ old # new
  <2> DEFINE u == Emit(s, "substrate_normal_restored", "none")
             v == Emit(s1, "substrate_normal_restored", "none")
             e == Event(s, "substrate_normal_restored", "none")
  <2>1. /\ LInv(u, b) /\ Quiet(s, u) /\ u.body = s.body
        /\ u.dag[Len(u.dag)] = e /\ Len(u.dag) \in DOMAIN u.dag
    BY EmitKeeps DEF Kinds, Tags
  <2>2. t = v
    BY <1>3, <1>5 DEF EmitIf
  <2>3. u.dag = Append(s.dag, e) /\ v.dag = Append(s.dag, e) /\ v.body = m
    BY <1>1, <1>4 DEF Emit, Event, Lives
  <2>4. u \in Lives
    BY <2>1 DEF LInv
  <2>5. /\ v \in Lives /\ v.dag = u.dag /\ v.body = m /\ v.heard = u.heard
        /\ v.cycle = u.cycle /\ v.now = u.now
    <3>1. v = [s1 EXCEPT !.dag = u.dag] /\ u = [s EXCEPT !.dag = u.dag] /\ u.dag \in Logs
      BY <1>1, <1>4, <2>3, <2>4, LiveFields DEF Emit, Event
    <3> HIDE DEF u, v
    <3> QED BY <1>1, <1>4, <2>3, <2>4, <3>1 DEF Lives
  <2>6. e.kind = "substrate_normal_restored"
    BY DEF Event
  <2> HIDE DEF u, v, e
  <2>7. Episodic(u.dag, b, FALSE)
    <3>1. u.dag \in Logs /\ Len(u.dag) \in Nat /\ DOMAIN u.dag = 1 .. Len(u.dag)
      BY <2>4, LiveFields DEF Logs
    <3>2. \A i \in DOMAIN u.dag : Restored(u.dag, i, Len(u.dag))
      BY <2>1, <2>6, <3>1 DEF Restored
    <3> QED BY <2>1, <3>2 DEF LInv, Episodic, Proposals
  <2>8. m.proposed = FALSE
    BY <1>2, <1>5
  <2>9. LInv(v, b) /\ After(u, v)
    <3>1. LInv(u, b) /\ v.body.telosAt <= v.cycle
      BY <1>2, <2>1, <2>5 DEF LInv
    <3>2. /\ v.body.hidden = u.body.hidden /\ v.body.open = u.body.open
          /\ v.body.axisAt = u.body.axisAt /\ ~v.body.proposed
          /\ Episodic(u.dag, b, v.body.proposed)
      BY <1>2, <2>1, <2>5, <2>7, <2>8
    <3> QED BY <2>5, <3>1, <3>2, MemoryKeeps
  <2>10. After(s, v)
    BY <1>1, <2>1, <2>4, <2>5, <2>9, Compose DEF Quiet
  <2> QED BY <1>2, <2>2, <2>5, <2>9, <2>10
<1>6. CASE ~(new = "normal" /\ old # new)
  <2> DEFINE u == Emit(s1, "substrate_saturated", "none")
  <2>1. m.proposed = s.body.proposed /\ (m.proposed => m.stage # "normal")
    BY <1>1, <1>2, <1>6 DEF LInv
  <2>2. LInv(s1, b) /\ After(s, s1)
    <3>1. s1.body.telosAt <= s1.cycle /\ Episodic(s.dag, b, s1.body.proposed)
      BY <1>2, <1>4, <2>1 DEF LInv
    <3> QED BY <1>2, <1>4, <2>1, <3>1, MemoryKeeps
  <2>3. LInv(u, b) /\ Quiet(s1, u) /\ u.body = s1.body
    BY <2>2, EmitKeeps DEF Kinds, Tags
  <2>4. t = u \/ t = s1
    BY <1>3, <1>6 DEF EmitIf
  <2> HIDE DEF u
  <2>5. u \in Lives /\ After(s, u)
    BY <1>1, <1>4, <2>2, <2>3, Compose DEF Quiet, LInv
  <2> QED BY <1>2, <1>4, <2>2, <2>3, <2>4, <2>5
<1> QED BY <1>5, <1>6

\* The death proposal: those before it have been answered.
LEMMA EscalateKeeps ==
    ASSUME NEW s, NEW b, LInv(s, b)
    PROVE  LET t == Escalate(s) IN LInv(t, b) /\ Quiet(s, t)
<1> DEFINE e == Event(s, "self_euthanasia_proposal", "metabolic_saturation")
           d == Append(s.dag, e)
           m == [s.body EXCEPT !.proposed = TRUE]
           t == Escalate(s)
<1>1. /\ s \in Lives /\ s.dag \in Logs /\ s.cycle \in Nat /\ s.body \in Bodies
      /\ b \in Nat /\ b <= Len(s.dag)
  BY LiveFields DEF LInv
<1>2. CASE s.body.stage = "saturated" /\ s.body.saturated >= Mortality /\ ~s.body.proposed
  <2>1. t = [s EXCEPT !.dag = d, !.body = m]
    BY <1>2 DEF Escalate, Emit
  <2>2. e \in Events /\ e.kind = "self_euthanasia_proposal"
    BY <1>1 DEF Event, Events, Kinds, Tags
  <2>3. /\ d \in Logs /\ Len(d) = Len(s.dag) + 1 /\ Len(s.dag) \in Nat
        /\ DOMAIN s.dag = 1 .. Len(s.dag) /\ DOMAIN d = 1 .. Len(s.dag) + 1
        /\ \A i \in 1 .. Len(s.dag) : d[i] = s.dag[i]
        /\ d[Len(s.dag) + 1] = e /\ Extends(s.dag, d)
    BY <1>1, <2>2, LogAppend
  <2> HIDE DEF d, e
  <2>4. /\ m \in Bodies /\ m.hidden = s.body.hidden /\ m.open = s.body.open
        /\ m.axisAt = s.body.axisAt /\ m.telosAt = s.body.telosAt
        /\ m.proposed = TRUE /\ m.stage = s.body.stage
        /\ m.exhausted = s.body.exhausted /\ m.post = s.body.post
        /\ m.saturated = s.body.saturated
    BY <1>1 DEF Bodies
  <2> HIDE DEF m, t
  <2>5. /\ t \in Lives /\ t.dag = d /\ t.body = m /\ t.heard = s.heard
        /\ t.cycle = s.cycle /\ t.now = s.now
    BY <1>1, <2>1, <2>3, <2>4 DEF Lives
  <2>6. \A x : Own(d, b, x) = Own(s.dag, b, x)
    BY <2>2, <2>3 DEF Own
  <2>7. \A x : Carried(d, b, x) = Carried(s.dag, b, x)
    <3>1. \A x : \A i \in Own(s.dag, b, x) : d[i] = s.dag[i]
      BY <2>3 DEF Own
    <3> QED BY <2>6, <3>1 DEF Carried
  <2>8. Accounted(d, b, t.heard, m.hidden) /\ Opened(d, b, m.open)
    BY <2>4, <2>5, <2>6, <2>7 DEF LInv, Accounted, Opened
  <2>9. Marked(d, m.axisAt, t.cycle)
    BY <1>1, <2>3, <2>4, <2>5, ExtendsKeeps DEF LInv
  <2>10. Episodic(d, b, TRUE)
    <3>1. Proposals(d, b) \subseteq Proposals(s.dag, b) \cup {Len(s.dag) + 1}
      BY <2>3 DEF Proposals
    <3>2. Proposals(s.dag, b) \subseteq 1 .. Len(s.dag)
      BY <2>3 DEF Proposals
    <3>3. \A i \in Proposals(s.dag, b) : Restored(d, i, Len(s.dag) + 1)
      <4>1. \A i \in Proposals(s.dag, b) : Restored(s.dag, i, Len(s.dag))
        BY <1>2 DEF LInv, Episodic
      <4> QED BY <1>1, <2>3, <3>2, <4>1, ExtendsKeeps
    <3>4. \A i, j \in Proposals(s.dag, b) : i < j => Restored(d, i, j)
      BY <1>1, <2>3, <3>2, ExtendsKeeps DEF LInv, Episodic
    <3> QED BY <3>1, <3>2, <3>3, <3>4 DEF Episodic
  <2>11. LInv(t, b)
    <3>1. ~mute => Own(d, b, "C53") = {}
      BY <2>6 DEF LInv
    <3>2. m.stage # "normal" /\ b <= Len(d) /\ t.body.telosAt <= t.cycle
      BY <1>1, <1>2, <2>3, <2>4, <2>5 DEF LInv
    <3> QED BY <1>1, <2>4, <2>5, <2>8, <2>9, <2>10, <3>1, <3>2 DEF LInv
  <2>12. Quiet(s, t)
    BY <2>3, <2>4, <2>5 DEF Quiet, After
  <2> QED BY <2>11, <2>12 DEF t
<1>3. CASE ~(s.body.stage = "saturated" /\ s.body.saturated >= Mortality /\ ~s.body.proposed)
  <2>1. t = s
    BY <1>3 DEF Escalate
  <2> QED BY <1>1, <2>1, Compose
<1> QED BY <1>2, <1>3
\* A finite set is listed once.
LEMMA Listing ==
    ASSUME NEW S, IsFiniteSet(S)
    PROVE  /\ SetToSeq(S) \in [1 .. Cardinality(S) -> S]
           /\ \A x \in S : \E i \in 1 .. Cardinality(S) : SetToSeq(S)[i] = x
<1> DEFINE n == Cardinality(S)
           q == SetToSeq(S)
<1>1. n \in Nat /\ ExistsBijection(1 .. n, S)
  BY FS_CardinalityType
<1>2. \E f \in [1 .. n -> S] : IsInjective(f)
  BY <1>1 DEF ExistsBijection, Bijection, Injection
<1>3. q \in [1 .. n -> S] /\ IsInjective(q)
  BY <1>2 DEF SetToSeq
<1> HIDE DEF q
<1>4. q \in Injection(1 .. n, S)
  BY <1>3 DEF Injection
<1>5. Cardinality(1 .. n) = n
  <2>1. 1 \in Int /\ n \in Int
    BY <1>1
  <2>2. Cardinality(1 .. n) = IF 1 > n THEN 0 ELSE n - 1 + 1
    BY <2>1, FS_Interval
  <2> QED BY <1>1, <2>2
<1>6. q \in Surjection(1 .. n, S)
  BY <1>4, <1>5, FS_Injection
<1>7. \A x \in S : \E i \in 1 .. n : q[i] = x
  BY <1>6 DEF Surjection
<1> QED BY <1>3, <1>7 DEF q

\* The reports of a cycle.
LEMMA ReportsType ==
    ASSUME NEW s \in Lives, NEW axes \in SUBSET Axes
    PROVE  /\ Reports(s, axes) \in Logs
           /\ \A i \in DOMAIN Reports(s, axes) : Plain(Reports(s, axes)[i])
           /\ \A a \in axes : \E i \in DOMAIN Reports(s, axes) :
                 Report(Reports(s, axes)[i], a, s.cycle)
<1> DEFINE q == SetToSeq(axes)
           n == Cardinality(axes)
           r == Reports(s, axes)
<1>1. IsFiniteSet(axes) /\ n \in Nat /\ s.cycle \in Nat
  BY FS_Subset, FS_CardinalityType, LiveFields, ObservatoryAssumption
<1>2. q \in [1 .. n -> axes] /\ \A a \in axes : \E i \in 1 .. n : q[i] = a
  BY <1>1, Listing
<1>3. r = [i \in 1 .. n |-> Event(s, "budget_exhausted", q[i])]
  BY <1>2 DEF Reports
<1> HIDE DEF q, n, r
<1>4. \A a \in axes : /\ Event(s, "budget_exhausted", a) \in Events
                      /\ Plain(Event(s, "budget_exhausted", a))
                      /\ Report(Event(s, "budget_exhausted", a), a, s.cycle)
  BY <1>1 DEF Event, Events, Plain, Report, Kinds, Tags
<1>5. r \in [1 .. n -> Events]
  BY <1>2, <1>3, <1>4
<1>6. r \in Logs
  BY <1>1, <1>5 DEF Logs
<1>7. /\ \A i \in DOMAIN r : Plain(r[i])
      /\ \A a \in axes : \E i \in DOMAIN r : Report(r[i], a, s.cycle)
  BY <1>2, <1>3, <1>4
<1> QED BY <1>6, <1>7 DEF r

\* The axes over budget have been reported within the cooldown.
Fresh(t, over) ==
    \A a \in over : t.body.axisAt[a] # Never /\ t.cycle - t.body.axisAt[a] < ExhaustedCooldown

\* The machine and the grade's cooldown are left alone.
SameMachine(s, t) ==
    /\ t.body.stage = s.body.stage /\ t.body.exhausted = s.body.exhausted
    /\ t.body.post = s.body.post /\ t.body.saturated = s.body.saturated
    /\ t.body.telosAt = s.body.telosAt

\* The reports, and the cache of their cycles.
LEMMA ExhaustKeeps ==
    ASSUME NEW s, NEW b, LInv(s, b), NEW over \in SUBSET Axes
    PROVE  LET t == Exhaust(s, over)
           IN  /\ LInv(t, b) /\ After(s, t) /\ SameMachine(s, t)
               /\ ~mute => Fresh(t, over)
<1> DEFINE x == Overdue(s, over)
           r == Reports(s, x)
           d == s.dag \o r
           k == ReportedAt(s, x)
           m == [s.body EXCEPT !.axisAt = k]
           u == [s EXCEPT !.dag = d]
           t == Exhaust(s, over)
<1>1. /\ s \in Lives /\ s.dag \in Logs /\ s.cycle \in Nat /\ s.body \in Bodies
      /\ s.body.axisAt \in Marks /\ x \in SUBSET Axes /\ ExhaustedCooldown \in Nat \ {0}
      /\ s.body.open \in SUBSET Detectors
  BY LiveFields, ObservatoryAssumption DEF LInv, Overdue
<1>2. CASE mute
  <2>1. t = s
    BY <1>2 DEF Exhaust
  <2> QED BY <1>1, <1>2, <2>1, Compose DEF SameMachine, Quiet
<1>3. CASE ~mute
  <2>1. t = [s EXCEPT !.dag = d, !.body = m]
    BY <1>3 DEF Exhaust
  <2>2. /\ r \in Logs /\ \A i \in DOMAIN r : Plain(r[i])
        /\ \A a \in x : \E i \in DOMAIN r : Report(r[i], a, s.cycle)
    BY <1>1, ReportsType
  <2> HIDE DEF r
  <2>3. /\ d \in Logs /\ DOMAIN d = 1 .. Len(s.dag) + Len(r)
        /\ Len(s.dag) \in Nat /\ Len(r) \in Nat
        /\ \A i \in DOMAIN r : Len(s.dag) + i \in DOMAIN d /\ d[Len(s.dag) + i] = r[i]
        /\ Extends(s.dag, d)
    BY <1>1, <2>2, LogJoin
  <2>4. /\ u \in Lives /\ u.dag = s.dag \o r /\ u.body = s.body /\ u.heard = s.heard
        /\ u.cycle = s.cycle /\ u.now = s.now
    BY <1>1, <2>3 DEF Lives
  <2> HIDE DEF u, d
  <2>5. LInv(u, b) /\ Quiet(s, u)
    BY <2>2, <2>4, PlainStep
  <2>6. k \in Marks /\ \A a \in Axes : k[a] = IF a \in x THEN s.cycle ELSE s.body.axisAt[a]
    BY <1>1 DEF ReportedAt, Marks, Stamps
  <2> HIDE DEF k
  <2>7. /\ m \in Bodies /\ m.axisAt = k /\ m.hidden = s.body.hidden /\ m.open = s.body.open
        /\ m.proposed = s.body.proposed /\ m.telosAt = s.body.telosAt
        /\ m.stage = s.body.stage /\ m.exhausted = s.body.exhausted
        /\ m.post = s.body.post /\ m.saturated = s.body.saturated
    BY <1>1, <2>6 DEF Bodies
  <2> HIDE DEF m, t, x
  <2>8. /\ t \in Lives /\ t.dag = d /\ t.body = m /\ t.heard = s.heard
        /\ t.cycle = s.cycle /\ t.now = s.now
    BY <1>1, <2>1, <2>3, <2>7 DEF Lives
  <2>9. u.dag = d
    BY <2>4 DEF d
  <2>10. Marked(d, k, s.cycle)
    <3> SUFFICES ASSUME NEW a \in Axes, k[a] # Never
                 PROVE  k[a] <= s.cycle /\ \E i \in DOMAIN d : Report(d[i], a, k[a])
      BY DEF Marked
    <3>1. CASE a \in x
      <4>1. PICK i \in DOMAIN r : Report(r[i], a, s.cycle)
        BY <2>2, <3>1
      <4>2. Report(d[Len(s.dag) + i], a, s.cycle) /\ Len(s.dag) + i \in DOMAIN d
        BY <2>3, <4>1
      <4> QED BY <1>1, <2>6, <3>1, <4>2
    <3>2. CASE a \notin x
      <4>1. Marked(u.dag, u.body.axisAt, u.cycle)
        BY <2>5 DEF LInv
      <4> QED BY <2>4, <2>6, <2>9, <3>2, <4>1 DEF Marked
    <3> QED BY <3>1, <3>2
  <2>11. LInv(t, b)
    <3>1. ~mute => Own(d, b, "C53") = {}
      BY <2>5, <2>9 DEF LInv
    <3>2. /\ Accounted(d, b, t.heard, m.hidden) /\ Opened(d, b, m.open)
          /\ Episodic(d, b, m.proposed) /\ (m.proposed => m.stage # "normal")
          /\ m.telosAt <= t.cycle /\ b \in Nat /\ b <= Len(d)
      BY <2>4, <2>5, <2>7, <2>8, <2>9 DEF LInv
    <3> QED BY <2>7, <2>8, <2>10, <3>1, <3>2 DEF LInv
  <2>12. After(s, t) /\ SameMachine(s, t)
    BY <2>3, <2>7, <2>8 DEF After, SameMachine
  <2>13. Fresh(t, over)
    <3> SUFFICES ASSUME NEW a \in over
                 PROVE  k[a] # Never /\ s.cycle - k[a] < ExhaustedCooldown
      BY <2>7, <2>8 DEF Fresh
    <3>1. a \in Axes /\ s.body.axisAt[a] \in Stamps
      BY <1>1 DEF Marks
    <3>2. CASE a \in x
      BY <1>1, <2>6, <3>1, <3>2 DEF Never
    <3>3. CASE a \notin x
      <4>1. ~Due(s.body.axisAt[a], s.cycle, ExhaustedCooldown)
        BY <3>3 DEF x, Overdue
      <4> QED BY <1>1, <2>6, <3>1, <3>3, <4>1 DEF Due, Stamps, Never
    <3> QED BY <3>2, <3>3
  <2> QED BY <2>11, <2>12, <2>13 DEF t
<1> QED BY <1>2, <1>3
\* The cost of every axis over budget is in the log, or its absence is.
Documented(t, b, over) ==
    \A a \in over :
        \/ Own(t.dag, b, "C53") # {}
        \/ \E i \in DOMAIN t.dag : /\ t.dag[i].kind = "budget_exhausted" /\ t.dag[i].of = a
                                   /\ t.dag[i].cycle >= t.cycle - SilentWindow

\* What the axes over budget have left stays through the rest of a cycle.
LEMMA QuietCosts ==
    ASSUME NEW s \in Lives, NEW t \in Lives, Quiet(s, t), NEW b, NEW over
    PROVE  /\ Documented(s, b, over) => Documented(t, b, over)
           /\ Fresh(s, over) => Fresh(t, over)
<1>1. t.cycle = s.cycle /\ t.body.axisAt = s.body.axisAt /\ Extends(s.dag, t.dag)
  BY DEF Quiet, After
<1>2. \A x : Own(s.dag, b, x) \subseteq Own(t.dag, b, x)
  BY <1>1 DEF Extends, Own
<1>3. Fresh(s, over) => Fresh(t, over)
  BY <1>1 DEF Fresh
<1>4. ASSUME Documented(s, b, over), NEW a \in over
      PROVE  \/ Own(t.dag, b, "C53") # {}
             \/ \E i \in DOMAIN t.dag : /\ t.dag[i].kind = "budget_exhausted" /\ t.dag[i].of = a
                                        /\ t.dag[i].cycle >= t.cycle - SilentWindow
  BY <1>1, <1>2, <1>4 DEF Documented, Extends
<1> QED BY <1>3, <1>4 DEF Documented

\* A report within the cooldown is one within the check window.
LEMMA FreshIsDocumented ==
    ASSUME NEW s, NEW b, LInv(s, b), NEW over \in SUBSET Axes, Fresh(s, over),
           NEW a \in over
    PROVE  ~Silent(s, a)
<1>1. /\ s.cycle \in Nat /\ s.body.axisAt[a] \in Stamps
      /\ ExhaustedCooldown \in Nat /\ SilentWindow \in Nat /\ ExhaustedCooldown <= SilentWindow
  BY LiveFields, ObservatoryAssumption DEF LInv, Marks
<1>2. s.body.axisAt[a] # Never /\ s.cycle - s.body.axisAt[a] < ExhaustedCooldown
  BY DEF Fresh
<1>3. PICK i \in DOMAIN s.dag : Report(s.dag[i], a, s.body.axisAt[a])
  BY <1>2 DEF LInv, Marked
<1>4. s.dag[i].cycle >= s.cycle - SilentWindow
  BY <1>1, <1>2, <1>3 DEF Report, Stamps, Never
<1> QED BY <1>3, <1>4 DEF Silent, Report

\* C53: every axis over budget is documented afterwards; a working path is not accused.
LEMMA SilenceCheckKeeps ==
    ASSUME NEW s, NEW b, LInv(s, b), NEW over \in SUBSET Axes, ~mute => Fresh(s, over)
    PROVE  LET t == SilenceCheck(s, over)
           IN  LInv(t, b) /\ Quiet(s, t) /\ Documented(t, b, over)
<1> DEFINE silent == {a \in over : Silent(s, a)}
           u == Detect(s, "C53")
           t == SilenceCheck(s, over)
<1>1. s \in Lives /\ t = Accuse(s, silent)
  BY DEF LInv, SilenceCheck
<1>2. IsFiniteSet(silent) /\ Cardinality(silent) \in Nat
  <2>1. silent \in SUBSET Axes /\ IsFiniteSet(Axes)
    BY ObservatoryAssumption
  <2> HIDE DEF silent
  <2> QED BY <2>1, FS_Subset, FS_CardinalityType
<1>3. silent # {} => mute
  BY FreshIsDocumented
<1>4. \A a \in over \ silent : \E i \in DOMAIN s.dag :
          /\ s.dag[i].kind = "budget_exhausted" /\ s.dag[i].of = a
          /\ s.dag[i].cycle >= s.cycle - SilentWindow
  BY DEF Silent
<1> HIDE DEF silent, t
<1>5. CASE silent = {}
  <2>1. t = s
    BY <1>1, <1>5 DEF Accuse
  <2>2. Documented(s, b, over)
    BY <1>4, <1>5 DEF Documented
  <2> QED BY <1>1, <2>1, <2>2, Compose DEF t
<1>6. CASE silent # {}
  <2> DEFINE n == Cardinality(silent) - 1
             v == Suppress(u, "C53", n)
  <2>1. n \in Nat /\ t = v
    <3>1. Cardinality(silent) # 0
      BY <1>2, <1>6, FS_EmptySet
    <3> QED BY <1>1, <1>2, <1>6, <3>1 DEF Accuse
  <2>2. LInv(u, b) /\ Quiet(s, u) /\ Own(u.dag, b, "C53") # {}
    BY <1>3, <1>6, DetectKeeps DEF Detectors
  <2> HIDE DEF n, u
  <2>3. LInv(v, b) /\ Quiet(u, v) /\ v.dag = u.dag
    BY <2>1, <2>2, SuppressKeeps DEF Detectors
  <2> HIDE DEF v
  <2>4. u \in Lives /\ v \in Lives
    BY <2>2, <2>3 DEF LInv
  <2>5. Quiet(s, v) /\ Documented(v, b, over)
    BY <1>1, <2>2, <2>3, <2>4, Compose DEF Documented
  <2> QED BY <2>1, <2>3, <2>5 DEF t
<1> QED BY <1>5, <1>6

\* apply_p11c_and_emit.
LEMMA MetaboliseKeeps ==
    ASSUME NEW s, NEW b, LInv(s, b), NEW over \in SUBSET Axes
    PROVE  LET t == Metabolise(s, over)
           IN  /\ LInv(t, b) /\ After(s, t) /\ Counted(t.body, s, over)
               /\ t.body.telosAt = s.body.telosAt
               /\ Documented(t, b, over) /\ (~mute => Fresh(t, over))
<1> DEFINE s0 == Transition(s, over)
           s1 == Escalate(s0)
           s2 == Exhaust(s1, over)
           s3 == SilenceCheck(s2, over)
           u == Emit(s3, "compression_proposed", "seed_rules")
           t == Metabolise(s, over)
<1>1. t = s3 \/ t = u
  BY DEF Metabolise, EmitIf
<1> HIDE DEF t
<1>2. /\ LInv(s0, b) /\ After(s, s0) /\ Counted(s0.body, s, over)
      /\ s0.body.axisAt = s.body.axisAt /\ s0.body.telosAt = s.body.telosAt
  BY TransitionKeeps
<1> HIDE DEF s0
<1>3. LInv(s1, b) /\ Quiet(s0, s1)
  BY <1>2, EscalateKeeps
<1> HIDE DEF s1
<1>4. LInv(s2, b) /\ After(s1, s2) /\ SameMachine(s1, s2) /\ (~mute => Fresh(s2, over))
  BY <1>3, ExhaustKeeps
<1> HIDE DEF s2
<1>5. LInv(s3, b) /\ Quiet(s2, s3) /\ Documented(s3, b, over)
  BY <1>4, SilenceCheckKeeps
<1> HIDE DEF s3
<1>6. LInv(u, b) /\ Quiet(s3, u)
  BY <1>5, EmitKeeps DEF Kinds, Tags
<1> HIDE DEF u
<1>7. /\ s \in Lives /\ s0 \in Lives /\ s1 \in Lives /\ s2 \in Lives /\ s3 \in Lives
      /\ u \in Lives
  BY <1>2, <1>3, <1>4, <1>5, <1>6 DEF LInv
<1>8. LInv(t, b) /\ Quiet(s3, t) /\ t \in Lives
  BY <1>1, <1>5, <1>6, <1>7, Compose
<1>9. Quiet(s2, t)
  BY <1>5, <1>7, <1>8, Compose
<1>10. After(s0, s1) /\ After(s2, t)
  BY <1>3, <1>9 DEF Quiet
<1>11. After(s, t)
  <2>1. After(s, s1)
    BY <1>2, <1>7, <1>10, Compose
  <2>2. After(s, s2)
    BY <1>4, <1>7, <2>1, Compose
  <2> QED BY <1>7, <1>8, <1>10, <2>2, Compose
<1>12. Counted(t.body, s, over) /\ t.body.telosAt = s.body.telosAt
  <2>1. /\ t.body.stage = s0.body.stage /\ t.body.exhausted = s0.body.exhausted
        /\ t.body.post = s0.body.post /\ t.body.saturated = s0.body.saturated
        /\ t.body.telosAt = s0.body.telosAt
    BY <1>3, <1>4, <1>9 DEF Quiet, SameMachine
  <2> QED BY <1>2, <2>1 DEF Counted
<1>13. Documented(t, b, over) /\ (~mute => Fresh(t, over))
  BY <1>4, <1>5, <1>7, <1>8, <1>9, QuietCosts
<1> QED BY <1>8, <1>11, <1>12, <1>13 DEF t
-----------------------------------------------------------------------------
(* P14.c, C75, C71 and the queries. *)

\* The detectors' other cooldowns.
LEMMA StampsKeep ==
    ASSUME NEW s, NEW b, LInv(s, b), NEW c \in Nat, NEW t,
           \/ t = [s EXCEPT !.body.strainAt = c]
           \/ t = [s EXCEPT !.body.sycoAt = c]
           \/ t = [s EXCEPT !.body.burstAt = c]
           \/ t = [s EXCEPT !.body.quorumAt = c]
    PROVE  LInv(t, b) /\ Quiet(s, t) /\ t.dag = s.dag
<1>1. s \in Lives /\ s.body \in Bodies /\ s.dag \in Logs /\ c \in Stamps
  BY LiveFields DEF LInv, Stamps
<1>2. PICK m : /\ t = [s EXCEPT !.body = m]
               /\ \/ m = [s.body EXCEPT !.strainAt = c]
                  \/ m = [s.body EXCEPT !.sycoAt = c]
                  \/ m = [s.body EXCEPT !.burstAt = c]
                  \/ m = [s.body EXCEPT !.quorumAt = c]
  OBVIOUS
<1>3. /\ m \in Bodies /\ m.axisAt = s.body.axisAt /\ m.hidden = s.body.hidden
      /\ m.open = s.body.open /\ m.proposed = s.body.proposed
      /\ m.telosAt = s.body.telosAt /\ m.stage = s.body.stage
      /\ m.exhausted = s.body.exhausted /\ m.post = s.body.post
      /\ m.saturated = s.body.saturated
  BY <1>1, <1>2 DEF Bodies
<1>4. /\ t \in Lives /\ t.dag = s.dag /\ t.body = m /\ t.heard = s.heard
      /\ t.cycle = s.cycle /\ t.now = s.now
  BY <1>1, <1>2, <1>3 DEF Lives
<1>5. /\ t.body.telosAt <= t.cycle /\ Episodic(s.dag, b, t.body.proposed)
      /\ t.body.proposed => t.body.stage # "normal"
  BY <1>3, <1>4 DEF LInv
<1>6. LInv(t, b) /\ After(s, t)
  BY <1>3, <1>4, <1>5, MemoryKeeps
<1> QED BY <1>3, <1>4, <1>6 DEF Quiet

\* The machine and the cache of reports are left alone.
SameCosts(s, t) ==
    /\ t.body.stage = s.body.stage /\ t.body.exhausted = s.body.exhausted
    /\ t.body.post = s.body.post /\ t.body.saturated = s.body.saturated
    /\ t.body.axisAt = s.body.axisAt

Critical(d, c) == \E k \in DOMAIN d : d[k].kind = "telos_drift_critical" /\ d[k].cycle = c

\* After critical drift there is an event of this cycle, or the cooldown still runs.
Warned(s, t) ==
    \/ Critical(t.dag, s.cycle)
    \/ /\ t.body.telosAt = s.body.telosAt /\ s.body.telosAt # Never
       /\ s.cycle - s.body.telosAt < Cooldown

\* The event of a grade.
LEMMA GradeKeeps ==
    ASSUME NEW s, NEW b, LInv(s, b), NEW g \in Grades, g # "none"
    PROVE  LET t == Grade(s, g)
           IN  /\ LInv(t, b) /\ After(s, t) /\ SameCosts(s, t)
               /\ g = "critical" => Warned(s, t)
<1> DEFINE t == Grade(s, g)
<1>1. /\ s \in Lives /\ s.cycle \in Nat /\ s.body.telosAt \in Stamps /\ s.dag \in Logs
      /\ Cooldown \in Nat
  BY LiveFields, ObservatoryAssumption DEF LInv
<1>2. CASE g = "aligned" \/ ~Due(s.body.telosAt, s.cycle, Cooldown)
  <2>1. t = s
    BY <1>2 DEF Grade
  <2>2. g = "critical" => s.body.telosAt # Never /\ s.cycle - s.body.telosAt < Cooldown
    BY <1>1, <1>2 DEF Due, Stamps, Never
  <2>3. After(s, s)
    BY <1>1, Compose DEF Quiet
  <2> QED BY <2>1, <2>2, <2>3 DEF SameCosts, Warned
<1>3. CASE ~(g = "aligned" \/ ~Due(s.body.telosAt, s.cycle, Cooldown))
  <2> DEFINE s1 == Emit(s, Named[g], "none")
             s2 == IF g = "critical" THEN Detect(s1, "C24") ELSE s1
  <2>1. t = [s2 EXCEPT !.body.telosAt = s.cycle]
    BY <1>3 DEF Grade
  <2>2. g \in {"low", "drift_elevated", "critical"}
    BY <1>3 DEF Grades
  <2>3. /\ Named[g] \in {"telos_alignment_low", "telos_drift", "telos_drift_critical"}
        /\ g = "critical" => Named[g] = "telos_drift_critical"
    BY <2>2 DEF Named
  <2>4. /\ LInv(s1, b) /\ Quiet(s, s1) /\ s1.dag[Len(s1.dag)] = Event(s, Named[g], "none")
        /\ Len(s1.dag) \in DOMAIN s1.dag
    <3> DEFINE k == Named[g]
    <3>1. k \in Kinds /\ k \notin {"immune", "self_euthanasia_proposal"} /\ "none" \in Tags
      BY <2>3 DEF Kinds, Tags
    <3> HIDE DEF k
    <3>2. LET u == Emit(s, k, "none")
          IN  /\ LInv(u, b) /\ Quiet(s, u) /\ u.dag[Len(u.dag)] = Event(s, k, "none")
              /\ Len(u.dag) \in DOMAIN u.dag
      BY <3>1, EmitKeeps
    <3> QED BY <3>2 DEF k
  <2>5. g = "critical" => Critical(s1.dag, s.cycle)
    BY <2>3, <2>4 DEF Critical, Event
  <2> HIDE DEF s1
  <2>6. LInv(Detect(s1, "C24"), b) /\ Quiet(s1, Detect(s1, "C24"))
    BY <2>4, DetectKeeps DEF Detectors
  <2>7. s1 \in Lives /\ Detect(s1, "C24") \in Lives
    BY <2>4, <2>6 DEF LInv
  <2>8. LInv(s2, b) /\ Quiet(s1, s2) /\ s2 \in Lives
    BY <2>4, <2>6, <2>7, Compose
  <2> HIDE DEF s2, t
  <2>9. Quiet(s, s2)
    BY <1>1, <2>4, <2>7, <2>8, Compose
  <2> DEFINE m == [s2.body EXCEPT !.telosAt = s.cycle]
  <2>10. t = [s2 EXCEPT !.body = m] /\ s2.body \in Bodies /\ s.cycle \in Stamps
    BY <1>1, <2>1, <2>8, LiveFields DEF Stamps
  <2>11. /\ m \in Bodies /\ m.axisAt = s2.body.axisAt /\ m.hidden = s2.body.hidden
         /\ m.open = s2.body.open /\ m.proposed = s2.body.proposed
         /\ m.telosAt = s.cycle /\ m.stage = s2.body.stage
         /\ m.exhausted = s2.body.exhausted /\ m.post = s2.body.post
         /\ m.saturated = s2.body.saturated
    BY <2>10 DEF Bodies
  <2> HIDE DEF m
  <2>12. /\ t \in Lives /\ t.dag = s2.dag /\ t.body = m /\ t.heard = s2.heard
         /\ t.cycle = s2.cycle /\ t.now = s2.now
    BY <2>8, <2>10, <2>11 DEF Lives
  <2>13. /\ t.body.telosAt <= t.cycle /\ Episodic(s2.dag, b, t.body.proposed)
         /\ t.body.proposed => t.body.stage # "normal"
    BY <1>1, <2>8, <2>9, <2>11, <2>12 DEF LInv, Quiet, After
  <2>14. LInv(t, b) /\ After(s2, t)
    BY <2>8, <2>11, <2>12, <2>13, MemoryKeeps
  <2>15. After(s, t) /\ SameCosts(s, t)
    <3>1. After(s, s2)
      BY <2>9 DEF Quiet
    <3> QED BY <1>1, <2>8, <2>9, <2>11, <2>12, <2>14, <3>1, Compose DEF SameCosts, Quiet
  <2>16. g = "critical" => Critical(t.dag, s.cycle)
    BY <2>5, <2>8, <2>12 DEF Critical, Quiet, After, Extends
  <2> QED BY <2>14, <2>15, <2>16 DEF Warned, t
<1> QED BY <1>2, <1>3

\* C75.
LEMMA WitnessKeeps ==
    ASSUME NEW s, NEW b, LInv(s, b), NEW h
    PROVE  LET t == Witness(s, h) IN LInv(t, b) /\ Quiet(s, t)
<1> DEFINE u == Detect(s, "C75")
           t == Witness(s, h)
<1>1. s \in Lives /\ s.cycle \in Nat
  BY LiveFields DEF LInv
<1>2. t = s \/ t = [u EXCEPT !.body.strainAt = s.cycle]
  BY DEF Witness
<1>3. LInv(u, b) /\ Quiet(s, u)
  BY DetectKeeps DEF Detectors
<1> HIDE DEF t, u
<1>4. CASE t = s
  BY <1>1, <1>4, Compose DEF t
<1>5. CASE t = [u EXCEPT !.body.strainAt = s.cycle]
  <2>1. LInv(t, b) /\ Quiet(u, t)
    BY <1>1, <1>3, <1>5, StampsKeep
  <2>2. Quiet(s, t)
    BY <1>1, <1>3, <2>1, Compose DEF LInv
  <2> QED BY <2>1, <2>2 DEF t
<1> QED BY <1>2, <1>4, <1>5

\* apply_p14c_telos_drift.
LEMMA AlignKeeps ==
    ASSUME NEW s, NEW b, LInv(s, b), NEW g \in Grades, NEW h
    PROVE  LET t == Align(s, g, h)
           IN  /\ LInv(t, b) /\ After(s, t) /\ SameCosts(s, t)
               /\ g = "critical" => Warned(s, t)
<1> DEFINE t == Align(s, g, h)
<1>1. s \in Lives
  BY DEF LInv
<1>2. CASE g = "none"
  <2> DEFINE u == Emit(s, "telos_alignment_pending", "none")
  <2>1. LInv(u, b) /\ Quiet(s, u)
    BY EmitKeeps DEF Kinds, Tags
  <2>2. t = u \/ t = s
    BY <1>2 DEF Align, EmitIf
  <2> HIDE DEF u, t
  <2>3. LInv(t, b) /\ Quiet(s, t)
    BY <1>1, <2>1, <2>2, Compose
  <2> QED BY <1>2, <2>3 DEF SameCosts, Quiet, t
<1>3. CASE g # "none"
  <2> DEFINE u == Grade(s, g)
             v == Witness(u, h)
  <2>1. t = v
    BY <1>3 DEF Align
  <2>2. /\ LInv(u, b) /\ After(s, u) /\ SameCosts(s, u)
        /\ g = "critical" => Warned(s, u)
    BY <1>3, GradeKeeps
  <2> HIDE DEF u
  <2>3. LInv(v, b) /\ Quiet(u, v)
    BY <2>2, WitnessKeeps
  <2> HIDE DEF v, t
  <2>4. u \in Lives /\ v \in Lives /\ After(u, v)
    BY <2>2, <2>3 DEF LInv, Quiet
  <2>5. After(s, v)
    BY <1>1, <2>2, <2>4, Compose
  <2>6. SameCosts(s, v)
    BY <2>2, <2>3 DEF SameCosts, Quiet
  <2>7. g = "critical" => Warned(s, v)
    BY <2>2, <2>3 DEF Warned, Critical, Quiet, After, Extends
  <2> QED BY <2>1, <2>3, <2>5, <2>6, <2>7 DEF t
<1> QED BY <1>2, <1>3

\* C71.
LEMMA FlatterKeeps ==
    ASSUME NEW s, NEW b, LInv(s, b), NEW dissent
    PROVE  LET t == Flatter(s, dissent) IN LInv(t, b) /\ Quiet(s, t)
<1> DEFINE u == Emit(s, "sycophancy_indicator_elevated", "none")
           t == Flatter(s, dissent)
<1>1. s \in Lives /\ s.cycle \in Nat
  BY LiveFields DEF LInv
<1>2. t = s \/ t = [u EXCEPT !.body.sycoAt = s.cycle]
  BY DEF Flatter
<1>3. LInv(u, b) /\ Quiet(s, u)
  BY EmitKeeps DEF Kinds, Tags
<1> HIDE DEF t, u
<1>4. CASE t = s
  BY <1>1, <1>4, Compose DEF t
<1>5. CASE t = [u EXCEPT !.body.sycoAt = s.cycle]
  <2>1. LInv(t, b) /\ Quiet(u, t)
    BY <1>1, <1>3, <1>5, StampsKeep
  <2>2. Quiet(s, t)
    BY <1>1, <1>3, <2>1, Compose DEF LInv
  <2> QED BY <2>1, <2>2 DEF t
<1> QED BY <1>2, <1>4, <1>5

\* append_observatory_snapshot_to_state: what a whole cycle does.
LEMMA ObserveKeeps ==
    ASSUME NEW s, NEW b, LInv(s, b), NEW w \in Weather
    PROVE  LET t == Observe(s, w)
           IN  /\ LInv(t, b) /\ After(s, t) /\ Counted(t.body, s, w.over)
               /\ Documented(t, b, w.over) /\ (~mute => Fresh(t, w.over))
               /\ w.grade = "critical" => Warned(s, t)
<1> DEFINE u == Metabolise(s, w.over)
           h == Record(s)
           v == Align(u, w.grade, h)
           t == Flatter(v, Dissent(s))
<1>1. t = Observe(s, w)
  BY DEF Observe
<1>2. w.over \in SUBSET Axes /\ w.grade \in Grades
  BY ObservatoryAssumption DEF Costs
<1>3. /\ LInv(u, b) /\ After(s, u) /\ Counted(u.body, s, w.over)
      /\ u.body.telosAt = s.body.telosAt
      /\ Documented(u, b, w.over) /\ (~mute => Fresh(u, w.over))
  BY <1>2, MetaboliseKeeps
<1> HIDE DEF u, h
<1>4. /\ LInv(v, b) /\ After(u, v) /\ SameCosts(u, v)
      /\ w.grade = "critical" => Warned(u, v)
  BY <1>2, <1>3, AlignKeeps
<1> HIDE DEF v
<1>5. LInv(t, b) /\ Quiet(v, t)
  BY <1>4, FlatterKeeps
<1> HIDE DEF t
<1>6. s \in Lives /\ u \in Lives /\ v \in Lives /\ t \in Lives /\ After(v, t)
  BY <1>3, <1>4, <1>5 DEF LInv, Quiet
<1>7. After(s, t)
  <2>1. After(s, v)
    BY <1>3, <1>4, <1>6, Compose
  <2> QED BY <1>6, <2>1, Compose
<1>8. Counted(t.body, s, w.over)
  BY <1>3, <1>4, <1>5 DEF Counted, SameCosts, Quiet
<1>9. Documented(v, b, w.over) /\ (~mute => Fresh(v, w.over))
  <2>1. v.cycle = u.cycle /\ v.body.axisAt = u.body.axisAt /\ Extends(u.dag, v.dag)
    BY <1>4 DEF After, SameCosts
  <2>2. Own(u.dag, b, "C53") \subseteq Own(v.dag, b, "C53")
    BY <2>1 DEF Extends, Own
  <2>3. Documented(v, b, w.over)
    BY <1>3, <2>1, <2>2 DEF Documented, Extends
  <2> QED BY <1>3, <2>1, <2>3 DEF Fresh
<1>10. Documented(t, b, w.over) /\ (~mute => Fresh(t, w.over))
  BY <1>5, <1>6, <1>9, QuietCosts
<1>11. w.grade = "critical" => Warned(s, t)
  BY <1>3, <1>4, <1>5 DEF Warned, Critical, Quiet, After, Extends
<1> QED BY <1>1, <1>5, <1>7, <1>8, <1>10, <1>11

\* The operator's query.
LEMMA QueryKeeps ==
    ASSUME NEW s, NEW b, LInv(s, b), NEW weak
    PROVE  LET t == Burst(Weaken(s, weak)) IN LInv(t, b) /\ Quiet(s, t)
<1> DEFINE x == Emit(s, "bet_weakening_evaluation_suspended", "none")
           y == Detect(s, "C40")
           z == Emit(y, "bet_weakening_quorum", "none")
           v == Weaken(s, weak)
           u == Detect(v, "C37")
           t == Burst(v)
<1>1. s \in Lives /\ s.cycle \in Nat
  BY LiveFields DEF LInv
<1>2. LInv(x, b) /\ Quiet(s, x)
  BY EmitKeeps DEF Kinds, Tags
<1>3. LInv(y, b) /\ Quiet(s, y)
  BY DetectKeeps DEF Detectors
<1>4. LInv(z, b) /\ Quiet(s, z)
  <2> HIDE DEF y
  <2>1. LInv(z, b) /\ Quiet(y, z)
    BY <1>3, EmitKeeps DEF Kinds, Tags
  <2> QED BY <1>1, <1>3, <2>1, Compose DEF LInv
<1>5. \/ v = s
      \/ v = [x EXCEPT !.body.quorumAt = s.cycle]
      \/ v = [z EXCEPT !.body.quorumAt = s.cycle]
  BY DEF Weaken
<1>6. t = v \/ t = [u EXCEPT !.body.burstAt = v.cycle]
  BY DEF Burst
<1> HIDE DEF x, z, v, u, t
<1>7. LInv(v, b) /\ Quiet(s, v)
  <2>1. ASSUME NEW k, LInv(k, b), Quiet(s, k), v = [k EXCEPT !.body.quorumAt = s.cycle]
        PROVE  LInv(v, b) /\ Quiet(s, v)
    <3>1. LInv(v, b) /\ Quiet(k, v)
      BY <1>1, <2>1, StampsKeep
    <3> QED BY <1>1, <2>1, <3>1, Compose DEF LInv
  <2>2. CASE v = s
    BY <1>1, <2>2, Compose
  <2> QED BY <1>2, <1>4, <1>5, <2>1, <2>2
<1>8. LInv(u, b) /\ Quiet(v, u)
  BY <1>7, DetectKeeps DEF u, Detectors
<1>9. u \in Lives /\ v \in Lives /\ v.cycle \in Nat
  BY <1>7, <1>8, LiveFields DEF LInv
<1>10. Quiet(s, u)
  BY <1>1, <1>7, <1>8, <1>9, Compose
<1>11. CASE t = v
  BY <1>7, <1>11 DEF t, v
<1>12. CASE t = [u EXCEPT !.body.burstAt = v.cycle]
  <2>1. LInv(t, b) /\ Quiet(u, t)
    BY <1>8, <1>9, <1>12, StampsKeep
  <2>2. Quiet(s, t)
    BY <1>1, <1>9, <1>10, <2>1, Compose DEF LInv
  <2> QED BY <2>1, <2>2 DEF t, v
<1> QED BY <1>6, <1>11, <1>12

\* Time goes by, and the limiter's windows may close.
LEMMA LaterKeeps ==
    ASSUME NEW s, NEW b, LInv(s, b), NEW t \in Lives, t.dag = s.dag, t.heard = s.heard,
           t.cycle >= s.cycle, NEW o \in SUBSET s.body.open,
           t.body = [s.body EXCEPT !.open = o]
    PROVE  LInv(t, b) /\ t.body.telosAt = s.body.telosAt /\ SameCosts(s, t)
<1>1. s \in Lives /\ s.cycle \in Nat /\ t.cycle \in Nat /\ s.body \in Bodies
  BY LiveFields DEF LInv
<1>2. /\ t.body.hidden = s.body.hidden /\ t.body.open = o
      /\ t.body.axisAt = s.body.axisAt /\ t.body.proposed = s.body.proposed
      /\ t.body.stage = s.body.stage /\ t.body.telosAt = s.body.telosAt
      /\ t.body.exhausted = s.body.exhausted /\ t.body.post = s.body.post
      /\ t.body.saturated = s.body.saturated
  BY <1>1 DEF Bodies
<1>3. Opened(t.dag, b, o)
  BY DEF LInv, Opened
<1>4. Marked(t.dag, t.body.axisAt, t.cycle)
  <2>1. \A a \in Axes : s.body.axisAt[a] # Never => s.body.axisAt[a] \in Nat
    BY <1>1, LiveFields DEF Marks, Stamps
  <2> QED BY <1>1, <1>2, <2>1 DEF LInv, Marked
<1>5. t.body.telosAt <= t.cycle
  BY <1>1, <1>2, LiveFields, SMTT(30) DEF LInv, Stamps, Never
<1> QED BY <1>2, <1>3, <1>4, <1>5 DEF LInv, SameCosts

-----------------------------------------------------------------------------
(* The cycles of this boot. *)

Cycles == [over : Costs, grade : Grades, cycle : Nat]
Pasts == Seq(Cycles)

Run(p, n, from) ==
    /\ n <= Len(p)
    /\ \A i \in Len(p) - n + 1 .. Len(p) : p[i].over # {} /\ p[i].cycle >= from
    /\ n < Len(p) => p[Len(p) - n].over = {} \/ p[Len(p) - n].cycle < from

\* The saturation machine is what the run that ends now makes it.
RunOf(m, p) ==
    /\ Run(p, m.exhausted, 0)
    /\ Run(p, m.post, Floor)
    /\ m.stage = "normal" <=> m.exhausted = 0
    /\ m.stage = "saturated" <=> m.post >= Sustained
    /\ m.saturated = IF m.post >= Sustained THEN m.post - Sustained + 1 ELSE 0

LEMMA PastAppend ==
    ASSUME NEW p \in Pasts, NEW r \in Cycles
    PROVE  /\ Append(p, r) \in Pasts /\ Len(Append(p, r)) = Len(p) + 1 /\ Len(p) \in Nat
           /\ DOMAIN p = 1 .. Len(p) /\ DOMAIN Append(p, r) = 1 .. Len(p) + 1
           /\ Append(p, r)[Len(p) + 1] = r
           /\ \A i \in 1 .. Len(p) : Append(p, r)[i] = p[i]
           /\ r.over \in SUBSET Axes /\ r.grade \in Grades /\ r.cycle \in Nat
           /\ \A i \in 1 .. Len(p) : p[i].cycle \in Nat
<1>1. p \in Seq(Cycles)
  BY DEF Pasts
<1>2. /\ Append(p, r) \in Seq(Cycles) /\ Len(Append(p, r)) = Len(p) + 1 /\ Len(p) \in Nat
      /\ DOMAIN p = 1 .. Len(p) /\ DOMAIN Append(p, r) = 1 .. Len(p) + 1
      /\ Append(p, r)[Len(p) + 1] = r
      /\ \A i \in 1 .. Len(p) : Append(p, r)[i] = p[i]
      /\ \A i \in 1 .. Len(p) : p[i] \in Cycles
  BY <1>1
<1>3. \A c \in Cycles : c.over \in SUBSET Axes /\ c.grade \in Grades /\ c.cycle \in Nat
  BY DEF Cycles, Costs
<1> QED BY <1>2, <1>3 DEF Pasts

\* One more cycle of the run, or its end.
LEMMA RunSteps ==
    ASSUME NEW p \in Pasts, NEW r \in Cycles, NEW from, NEW n \in Nat
    PROVE  /\ Run(p, n, from) /\ r.over # {} /\ r.cycle >= from => Run(Append(p, r), n + 1, from)
           /\ r.over = {} \/ r.cycle < from => Run(Append(p, r), 0, from)
<1> DEFINE q == Append(p, r)
<1>1. /\ Len(p) \in Nat /\ Len(q) = Len(p) + 1 /\ q[Len(p) + 1] = r
      /\ \A i \in 1 .. Len(p) : q[i] = p[i]
  BY PastAppend
<1> HIDE DEF q
<1>2. ASSUME Run(p, n, from), r.over # {}, r.cycle >= from
      PROVE  Run(q, n + 1, from)
  <2>1. n <= Len(p) /\ n + 1 <= Len(q) /\ Len(q) - (n + 1) = Len(p) - n
    BY <1>1, <1>2 DEF Run
  <2>2. \A i \in Len(p) - n + 1 .. Len(q) : q[i].over # {} /\ q[i].cycle >= from
    BY <1>1, <1>2, <2>1 DEF Run
  <2>3. n + 1 < Len(q) => q[Len(p) - n].over = {} \/ q[Len(p) - n].cycle < from
    BY <1>1, <1>2, <2>1 DEF Run
  <2> QED BY <1>1, <2>1, <2>2, <2>3 DEF Run
<1>3. ASSUME r.over = {} \/ r.cycle < from
      PROVE  Run(q, 0, from)
  BY <1>1, <1>3 DEF Run
<1> QED BY <1>2, <1>3 DEF q

\* The machine's step.
LEMMA MachineSteps ==
    ASSUME NEW s \in Lives, NEW p \in Pasts, RunOf(s.body, p), NEW r \in Cycles,
           r.cycle = s.cycle, NEW m \in Bodies, Counted(m, s, r.over)
    PROVE  RunOf(m, Append(p, r))
<1> DEFINE e == s.body.exhausted
           n == s.body.post
           high == r.over # {} /\ s.cycle >= Floor
<1>1. /\ e \in Nat /\ n \in Nat /\ s.body.saturated \in Nat /\ s.cycle \in Nat
      /\ Floor \in Nat /\ Sustained \in Nat \ {0} /\ r.cycle \in Nat
  BY LiveFields, ObservatoryAssumption DEF Cycles
<1>2. /\ m.stage = (CASE r.over = {} -> "normal"
                    [] r.over # {} /\ s.cycle < Floor -> "pre_eligibility"
                    [] r.over # {} /\ s.cycle >= Floor /\ n + 1 < Sustained -> "post_eligibility"
                    [] r.over # {} /\ s.cycle >= Floor /\ n + 1 >= Sustained -> "saturated")
      /\ m.exhausted = (IF r.over = {} THEN 0 ELSE e + 1)
      /\ m.post = (IF m.stage \in {"post_eligibility", "saturated"} THEN n + 1 ELSE 0)
      /\ m.saturated = (IF m.stage = "saturated" THEN s.body.saturated + 1 ELSE 0)
  BY DEF Counted, Stage
<1>3. /\ m.stage = "normal" <=> r.over = {}
      /\ m.stage \in {"post_eligibility", "saturated"} <=> high
      /\ m.stage = "saturated" <=> high /\ n + 1 >= Sustained
  BY <1>1, <1>2
<1>4. Run(Append(p, r), m.exhausted, 0)
  BY <1>1, <1>2, RunSteps DEF RunOf
<1>5. Run(Append(p, r), m.post, Floor)
  <2>1. CASE high
    BY <1>1, <1>2, <1>3, <2>1, RunSteps DEF RunOf
  <2>2. CASE ~high
    BY <1>1, <1>2, <1>3, <2>2, RunSteps
  <2> QED BY <2>1, <2>2
<1>6. m.stage = "normal" <=> m.exhausted = 0
  BY <1>1, <1>2, <1>3
<1>7. m.post = IF high THEN n + 1 ELSE 0
  BY <1>2, <1>3
<1>8. m.stage = "saturated" <=> m.post >= Sustained
  BY <1>1, <1>3, <1>7
<1>9. m.saturated = IF m.post >= Sustained THEN m.post - Sustained + 1 ELSE 0
  <2>1. s.body.saturated = IF n >= Sustained THEN n - Sustained + 1 ELSE 0
    BY DEF RunOf
  <2> QED BY <1>1, <1>2, <1>3, <1>7, <1>8, <2>1
<1> QED BY <1>4, <1>5, <1>6, <1>8, <1>9 DEF RunOf

\* Every run of critical cycles has left its event, or is within the cooldown of an
\* event before it.
Haunted(p, d, telosAt) ==
    \A i \in DOMAIN p : (\A j \in i .. Len(p) : p[j].grade = "critical") =>
        \/ \E k \in DOMAIN d : d[k].kind = "telos_drift_critical" /\ d[k].cycle >= p[i].cycle
        \/ telosAt # Never /\ telosAt <= p[i].cycle /\ p[Len(p)].cycle - telosAt < Cooldown

\* A cycle more.
LEMMA HauntedSteps ==
    ASSUME NEW s, NEW b, LInv(s, b), NEW t, LInv(t, b), After(s, t),
           NEW p \in Pasts, \A i \in DOMAIN p : p[i].cycle <= s.cycle,
           Haunted(p, s.dag, s.body.telosAt), NEW r \in Cycles, r.cycle = s.cycle,
           r.grade = "critical" => Warned(s, t)
    PROVE  Haunted(Append(p, r), t.dag, t.body.telosAt)
<1> DEFINE q == Append(p, r)
<1>1. /\ Len(p) \in Nat /\ Len(q) = Len(p) + 1 /\ q[Len(p) + 1] = r
      /\ DOMAIN p = 1 .. Len(p) /\ DOMAIN q = 1 .. Len(p) + 1
      /\ \A i \in 1 .. Len(p) : q[i] = p[i] /\ p[i].cycle \in Nat
  BY PastAppend
<1>2. /\ s \in Lives /\ s.cycle \in Nat /\ s.body.telosAt \in Stamps
      /\ s.body.telosAt <= s.cycle /\ Extends(s.dag, t.dag)
  BY LiveFields DEF LInv, After
<1> HIDE DEF q
<1> SUFFICES ASSUME NEW i \in DOMAIN q, \A j \in i .. Len(q) : q[j].grade = "critical"
             PROVE  \/ \E k \in DOMAIN t.dag : /\ t.dag[k].kind = "telos_drift_critical"
                                               /\ t.dag[k].cycle >= q[i].cycle
                    \/ /\ t.body.telosAt # Never /\ t.body.telosAt <= q[i].cycle
                       /\ q[Len(q)].cycle - t.body.telosAt < Cooldown
  BY DEF Haunted, q
<1>3. Warned(s, t)
  BY <1>1
<1>4. q[i].cycle <= s.cycle
  BY <1>1, <1>2
<1>5. CASE Critical(t.dag, s.cycle)
  <2>1. PICK k \in DOMAIN t.dag : t.dag[k].kind = "telos_drift_critical" /\ t.dag[k].cycle = s.cycle
    BY <1>5 DEF Critical
  <2> QED BY <1>4, <2>1
<1>6. CASE /\ t.body.telosAt = s.body.telosAt /\ s.body.telosAt # Never
           /\ s.cycle - s.body.telosAt < Cooldown
  <2>1. CASE i = Len(p) + 1
    BY <1>1, <1>2, <1>6, <2>1
  <2>2. CASE i # Len(p) + 1
    <3>1. i \in DOMAIN p /\ \A j \in i .. Len(p) : p[j].grade = "critical"
      BY <1>1, <2>2
    <3>2. CASE \E k \in DOMAIN s.dag : /\ s.dag[k].kind = "telos_drift_critical"
                                       /\ s.dag[k].cycle >= p[i].cycle
      BY <1>1, <1>2, <3>1, <3>2 DEF Extends
    <3>3. CASE s.body.telosAt <= p[i].cycle
      BY <1>1, <1>6, <3>1, <3>3
    <3> QED BY <3>1, <3>2, <3>3 DEF Haunted
  <2> QED BY <2>1, <2>2
<1> QED BY <1>3, <1>5, <1>6 DEF Warned
-----------------------------------------------------------------------------
(* The invariant. *)

\* What the last cycle cost is in the log, or its absence is.
Told(p, d, b) == p # <<>> => \A a \in p[Len(p)].over :
    \/ Own(d, b, "C53") # {}
    \/ \E i \in DOMAIN d : /\ d[i].kind = "budget_exhausted" /\ d[i].of = a
                           /\ d[i].cycle >= p[Len(p)].cycle - SilentWindow

\* The last cycle's axes over budget are in the cache.
Spaced(p, axisAt) == p # <<>> => \A a \in p[Len(p)].over :
    axisAt[a] # Never /\ p[Len(p)].cycle - axisAt[a] < ExhaustedCooldown

\* LInv between the steps, and how the memory and the log relate to the cycles
\* of this boot.
OInv ==
    /\ LInv(Live, born) /\ mute \in BOOLEAN
    /\ durable \in Nat /\ born <= durable /\ durable <= Len(dag)
    /\ past \in Pasts /\ \A i \in DOMAIN past : past[i].cycle <= cycle
    /\ RunOf(body, past)
    /\ Told(past, dag, born)
    /\ ~mute => Spaced(past, body.axisAt)
    /\ Haunted(past, dag, body.telosAt)

\* What the first cycle of a process finds.
LEMMA FreshBodyIs ==
    /\ FreshBody \in Bodies /\ FreshBody.stage = "normal" /\ FreshBody.open = {}
    /\ FreshBody.exhausted = 0 /\ FreshBody.post = 0 /\ FreshBody.saturated = 0
    /\ FreshBody.proposed = FALSE /\ FreshBody.telosAt = Never
    /\ FreshBody.axisAt = [a \in Axes |-> Never]
    /\ FreshBody.hidden = [d \in Detectors |-> 0]
BY DEF FreshBody, Bodies, Stages, Marks, Stamps, Counts, Never

\* A process that starts, over the log d that it finds.
LEMMA StartKeeps ==
    ASSUME NEW d \in Logs, NEW s, s.dag = d, s.body = FreshBody, s \in Lives,
           s.heard = [x \in Detectors |-> 0]
    PROVE  /\ LInv(s, Len(d)) /\ <<>> \in Pasts /\ RunOf(FreshBody, <<>>)
           /\ Haunted(<<>>, d, FreshBody.telosAt)
<1>1. Len(d) \in Nat /\ s.cycle \in Nat /\ {Floor, Sustained} \subseteq Nat \ {0}
  BY LiveFields, ObservatoryAssumption DEF Logs
<1>2. /\ \A x : Own(d, Len(d), x) = {} /\ Carried(d, Len(d), x) = {}
      /\ Proposals(d, Len(d)) = {}
  BY <1>1, NothingCarried
<1>3. Accounted(d, Len(d), s.heard, FreshBody.hidden)
  <2>1. ASSUME NEW x \in Detectors
        PROVE  /\ IsFiniteSet(Carried(d, Len(d), x))
               /\ s.heard[x] = FreshBody.hidden[x] + Cardinality(Carried(d, Len(d), x))
    <3>1. Carried(d, Len(d), x) = {}
      BY <1>2
    <3>2. IsFiniteSet({}) /\ Cardinality({}) = 0
      BY FS_EmptySet
    <3>3. s.heard[x] = 0 /\ FreshBody.hidden[x] = 0
      BY FreshBodyIs
    <3> QED BY <3>1, <3>2, <3>3
  <2> QED BY <2>1 DEF Accounted
<1>4. /\ Opened(d, Len(d), FreshBody.open) /\ Marked(d, FreshBody.axisAt, s.cycle)
      /\ Episodic(d, Len(d), FreshBody.proposed) /\ FreshBody.telosAt <= s.cycle
  BY <1>1, <1>2, FreshBodyIs DEF Opened, Marked, Episodic, Never
<1>5. LInv(s, Len(d))
  BY <1>1, <1>2, <1>3, <1>4, FreshBodyIs DEF LInv
<1>6. <<>> \in Pasts /\ RunOf(FreshBody, <<>>)
  BY <1>1, FreshBodyIs DEF Pasts, RunOf, Run
<1> QED BY <1>5, <1>6 DEF Haunted

\* The live record of a state and what becomes of it.
LEMMA LiveIs ==
    ASSUME Live \in Lives
    PROVE  /\ Live.dag = dag /\ Live.body = body /\ Live.heard = heard
           /\ Live.cycle = cycle /\ Live.now = now
           /\ dag \in Logs /\ body \in Bodies /\ heard \in Counts
           /\ cycle \in Nat /\ now \in Nat
BY DEF Live, Lives

LEMMA InitO == Init => OInv
<1> SUFFICES ASSUME Init PROVE OInv
  OBVIOUS
<1>1. <<>> \in Logs /\ Len(<<>>) = 0
  BY DEF Logs
<1>2. Live \in Lives
  BY <1>1, FreshBodyIs DEF Init, Live, Lives, Counts
<1>3. /\ LInv(Live, born) /\ past \in Pasts /\ RunOf(body, past)
      /\ Haunted(past, dag, body.telosAt)
  BY <1>1, <1>2, LiveIs, StartKeeps DEF Init
<1> QED BY <1>1, <1>3 DEF Init, OInv, Told, Spaced

\* A step between cycles that leaves the machine and its caches alone.
LEMMA QuietStep ==
    ASSUME OInv, NEW t, LInv(t, born), Quiet(Live, t),
           dag' = t.dag, body' = t.body, heard' = t.heard, cycle' \in Nat, cycle' >= cycle,
           now' \in Nat, UNCHANGED <<mute, past, born>>,
           durable' \in Nat, durable <= durable', durable' <= Len(dag')
    PROVE  OInv'
<1>1. /\ Live \in Lives /\ t \in Lives /\ born \in Nat /\ cycle \in Nat
      /\ t.cycle = cycle /\ t.now = now /\ Extends(dag, t.dag)
  BY LiveIs DEF OInv, LInv, Quiet, After
<1>2. /\ Live' \in Lives /\ Live'.dag = t.dag /\ Live'.body = t.body
      /\ Live'.heard = t.heard /\ Live'.cycle = cycle'
  BY <1>1, LiveFields DEF Live, Lives
<1>3. LInv(Live, born)'
  <2>1. Marked(t.dag, t.body.axisAt, cycle')
    <3>1. \A a \in Axes : t.body.axisAt[a] # Never => t.body.axisAt[a] \in Nat
      BY <1>1, LiveFields DEF Marks, Stamps
    <3> QED BY <1>1, <3>1 DEF LInv, Marked
  <2>2. t.body.telosAt <= cycle'
    BY <1>1, LiveFields, SMTT(30) DEF LInv, Stamps, Never
  <2> QED BY <1>1, <1>2, <2>1, <2>2 DEF LInv
<1>4. /\ t.body.stage = body.stage /\ t.body.exhausted = body.exhausted
      /\ t.body.post = body.post /\ t.body.saturated = body.saturated
      /\ t.body.axisAt = body.axisAt /\ t.body.telosAt = body.telosAt
  BY <1>1, LiveIs DEF Quiet
<1>5. RunOf(body', past) /\ (~mute => Spaced(past, t.body.axisAt))
  BY <1>4 DEF OInv, RunOf
<1>6. Told(past, t.dag, born)
  <2>1. Own(dag, born, "C53") \subseteq Own(t.dag, born, "C53")
    BY <1>1 DEF Extends, Own
  <2> QED BY <1>1, <2>1 DEF OInv, Told, Extends
<1>7. Haunted(past, t.dag, body.telosAt)
  BY <1>1 DEF OInv, Haunted, Extends
<1>8. past \in Pasts /\ \A i \in DOMAIN past : past[i].cycle <= cycle'
  <2>1. \A i \in DOMAIN past : past[i].cycle \in Nat
    <3>1. \A i \in DOMAIN past : past[i] \in Cycles
      BY DEF OInv, Pasts
    <3> QED BY <3>1 DEF Cycles
  <2> QED BY <1>1, <2>1 DEF OInv
<1>9. durable' \in Nat /\ born <= durable' /\ durable' <= Len(dag')
  BY <1>1 DEF OInv
<1> QED BY <1>3, <1>4, <1>5, <1>6, <1>7, <1>8, <1>9 DEF OInv

\* A pause: the limiter's windows lapse.
LEMMA PauseKeeps ==
    ASSUME OInv, Pause
    PROVE  LET t == [Live EXCEPT !.body = [body EXCEPT !.open = {}]]
           IN  /\ LInv(t, born) /\ Quiet(Live, t) /\ t.dag = dag /\ t.heard = heard
               /\ t.body = body' /\ now' \in Nat /\ now <= now'
<1> DEFINE m == [body EXCEPT !.open = {}]
           t == [Live EXCEPT !.body = m]
<1>1. /\ Live \in Lives /\ LInv(Live, born) /\ dag \in Logs /\ body \in Bodies
      /\ heard \in Counts /\ cycle \in Nat /\ now \in Nat
      /\ Live.dag = dag /\ Live.body = body /\ Live.heard = heard
      /\ Live.cycle = cycle /\ Live.now = now
  BY LiveIs DEF OInv, LInv
<1>2. m \in Bodies /\ m = [Live.body EXCEPT !.open = {}] /\ body' = m
  BY <1>1 DEF Bodies, Pause
<1>3. m.stage = body.stage /\ m.exhausted = body.exhausted /\ m.post = body.post
      /\ m.saturated = body.saturated /\ m.axisAt = body.axisAt /\ m.telosAt = body.telosAt
  BY <1>1 DEF Bodies
<1> HIDE DEF m
<1>4. /\ t.dag = dag /\ t.body = m /\ t.heard = heard /\ t.cycle = cycle /\ t.now = now
      /\ t \in Lives
  BY <1>1, <1>2 DEF Live, Lives
<1> HIDE DEF t
<1>5. LInv(t, born)
  <2>1. {} \in SUBSET Live.body.open /\ t.cycle >= Live.cycle
    BY <1>1, <1>4
  <2> QED BY <1>1, <1>2, <1>4, <2>1, LaterKeeps
<1>6. Quiet(Live, t)
  BY <1>1, <1>3, <1>4, ExtendsOrder DEF Quiet, After
<1>7. now' \in Nat /\ now <= now'
  BY <1>1, ObservatoryAssumption DEF Pause
<1> QED BY <1>2, <1>4, <1>5, <1>6, <1>7 DEF t, m

\* What the steps of a cycle start from.
LEMMA CycleStarts ==
    ASSUME OInv, NEW w \in Weather
    PROVE  LET s == [Later(w) EXCEPT !.cycle = @ + 1]
           IN  /\ LInv(s, born) /\ s \in Lives /\ SameCosts(Live, s)
               /\ s.dag = dag /\ s.body.telosAt = body.telosAt
               /\ s.cycle = cycle + 1 /\ s.now = now + w.days
<1> DEFINE s == [Later(w) EXCEPT !.cycle = @ + 1]
           o == IF w.lapse THEN {} ELSE body.open
<1>1. /\ Live \in Lives /\ LInv(Live, born) /\ born \in Nat /\ past \in Pasts
      /\ dag \in Logs /\ body \in Bodies /\ heard \in Counts /\ cycle \in Nat /\ now \in Nat
      /\ body.open \in SUBSET Detectors
  BY LiveIs, LiveFields DEF OInv, LInv
<1>2. w.over \in SUBSET Axes /\ w.grade \in Grades /\ w.days \in Nat
  BY ObservatoryAssumption DEF Costs
<1>3. /\ s.dag = dag /\ s.heard = heard /\ s.cycle = cycle + 1 /\ s.now = now + w.days
      /\ s.body = [body EXCEPT !.open = o]
      /\ s = [dag |-> dag, body |-> [body EXCEPT !.open = o], heard |-> heard,
              cycle |-> cycle + 1, now |-> now + w.days]
  <2>1. Later(w) = [Live EXCEPT !.now = now + w.days, !.body = [body EXCEPT !.open = o]]
    BY DEF Later, Live
  <2>2. Later(w) = [dag |-> dag, body |-> [body EXCEPT !.open = o], heard |-> heard,
                    cycle |-> cycle, now |-> now + w.days]
    BY <2>1 DEF Live
  <2>3. s = [dag |-> dag, body |-> [body EXCEPT !.open = o], heard |-> heard,
             cycle |-> cycle + 1, now |-> now + w.days]
    <3> DEFINE m == [body EXCEPT !.open = o]
               l == [dag |-> dag, body |-> m, heard |-> heard, cycle |-> cycle,
                     now |-> now + w.days]
    <3>1. s = [l EXCEPT !.cycle = l.cycle + 1]
      BY <2>2
    <3> HIDE DEF m, s
    <3>2. s = [dag |-> dag, body |-> m, heard |-> heard, cycle |-> cycle + 1,
               now |-> now + w.days]
      BY <3>1
    <3> QED BY <3>2 DEF m
  <2> HIDE DEF s
  <2> QED BY <2>3
<1>4. o \in SUBSET body.open
  BY <1>1
<1> HIDE DEF s, o
<1>5. s \in Lives
  <2>1. [body EXCEPT !.open = o] \in Bodies
    BY <1>1, <1>4 DEF Bodies
  <2> QED BY <1>1, <1>2, <1>3, <2>1 DEF Lives
<1>6. LInv(s, born) /\ s.body.telosAt = body.telosAt /\ SameCosts(Live, s)
  <2>1. /\ s.dag = Live.dag /\ s.heard = Live.heard /\ s.cycle >= Live.cycle
        /\ o \in SUBSET Live.body.open /\ s.body = [Live.body EXCEPT !.open = o]
        /\ Live.body.telosAt = body.telosAt
    BY <1>1, <1>3, <1>4, LiveIs
  <2> QED BY <1>1, <1>5, <2>1, LaterKeeps
<1> QED BY <1>3, <1>5, <1>6 DEF s

\* The cycle: one more in the past, and the machine and the log follow it.
LEMMA CycleO == OInv /\ Cycle => OInv'
<1> SUFFICES ASSUME OInv, NEW w \in Weather,
                    cycle' = cycle + 1, now' = now + w.days,
                    Become(Observe([Later(w) EXCEPT !.cycle = @ + 1], w)),
                    durable' = Len(dag'),
                    past' = Append(past, [over |-> w.over, grade |-> w.grade, cycle |-> cycle']),
                    UNCHANGED <<mute, born, acted, ops>>
             PROVE  OInv'
  BY DEF Cycle
<1> DEFINE s == [Later(w) EXCEPT !.cycle = @ + 1]
           t == Observe(s, w)
           r == [over |-> w.over, grade |-> w.grade, cycle |-> cycle']
<1>1. /\ Live \in Lives /\ born \in Nat /\ past \in Pasts /\ cycle \in Nat /\ now \in Nat
  BY LiveIs DEF OInv, LInv
<1>2. w.over \in SUBSET Axes /\ w.grade \in Grades /\ w.days \in Nat
  BY ObservatoryAssumption DEF Costs
<1>3. /\ s.dag = dag /\ s.cycle = cycle + 1 /\ s.now = now + w.days
      /\ s.body.telosAt = body.telosAt
  BY CycleStarts
<1>4. s \in Lives
  BY CycleStarts
<1>5. LInv(s, born) /\ s.body.telosAt = body.telosAt /\ SameCosts(Live, s)
  BY CycleStarts
<1> HIDE DEF s
<1>6. /\ LInv(t, born) /\ After(s, t) /\ Counted(t.body, s, w.over)
      /\ Documented(t, born, w.over) /\ (~mute => Fresh(t, w.over))
      /\ w.grade = "critical" => Warned(s, t)
  BY <1>5, ObserveKeeps
<1> HIDE DEF t
<1>7. dag' = t.dag /\ body' = t.body /\ heard' = t.heard
  BY DEF Become, t, s
<1>8. /\ t \in Lives /\ t.cycle = cycle' /\ t.now = now' /\ cycle' \in Nat /\ now' \in Nat
      /\ t.dag \in Logs /\ t.body \in Bodies
  BY <1>1, <1>2, <1>3, <1>6, LiveFields DEF LInv, After
<1>9. LInv(Live, born)'
  <2>1. Live' = t
    BY <1>7, <1>8 DEF Live, Lives
  <2> QED BY <1>6, <2>1 DEF LInv
<1>10. /\ r \in Cycles /\ r.cycle = s.cycle /\ r.over = w.over /\ r.grade = w.grade
       /\ r.cycle = cycle' /\ past' = Append(past, r)
  BY <1>2, <1>3, <1>8 DEF Cycles, Costs
<1> HIDE DEF r
<1>11. /\ past' \in Pasts /\ DOMAIN past = 1 .. Len(past) /\ Len(past) \in Nat
       /\ DOMAIN past' = 1 .. Len(past) + 1 /\ Len(past') = Len(past) + 1
       /\ past'[Len(past')] = r
       /\ \A i \in 1 .. Len(past) : past'[i] = past[i] /\ past[i].cycle \in Nat
  <2>1. /\ Append(past, r) \in Pasts /\ DOMAIN past = 1 .. Len(past) /\ Len(past) \in Nat
        /\ DOMAIN Append(past, r) = 1 .. Len(past) + 1
        /\ Len(Append(past, r)) = Len(past) + 1 /\ Append(past, r)[Len(past) + 1] = r
        /\ \A i \in 1 .. Len(past) : Append(past, r)[i] = past[i] /\ past[i].cycle \in Nat
    BY <1>1, <1>10, PastAppend
  <2> QED BY <1>10, <2>1
<1>12. \A i \in DOMAIN past : past[i].cycle <= s.cycle
  BY <1>1, <1>3, <1>11 DEF OInv
<1>13. \A i \in DOMAIN past' : past'[i].cycle <= cycle'
  BY <1>1, <1>3, <1>10, <1>11, <1>12
<1>14. RunOf(body', past')
  <2>1. RunOf(s.body, past)
    BY <1>1, <1>5, LiveIs DEF OInv, RunOf, SameCosts
  <2> QED BY <1>1, <1>4, <1>6, <1>7, <1>8, <1>10, <2>1, MachineSteps
<1>15. Told(past', dag', born)
  BY <1>6, <1>7, <1>8, <1>10, <1>11 DEF Told, Documented
<1>16. ~mute => Spaced(past', body'.axisAt)
  BY <1>6, <1>7, <1>8, <1>10, <1>11 DEF Spaced, Fresh
<1>17. Haunted(past', dag', body'.telosAt)
  <2>1. Haunted(past, s.dag, s.body.telosAt)
    BY <1>3, <1>5 DEF OInv
  <2> QED BY <1>1, <1>5, <1>6, <1>7, <1>10, <1>12, <2>1, HauntedSteps
<1>18. durable' \in Nat /\ born <= durable'
  <2>1. Len(dag') \in Nat
    BY <1>7, <1>8 DEF Logs
  <2> QED BY <1>6, <1>7, <2>1 DEF LInv
<1> QED BY <1>9, <1>11, <1>13, <1>14, <1>15, <1>16, <1>17, <1>18 DEF OInv

\* The process starts again: the log is cut at what was on disk.
LEMMA RestartO == OInv /\ Restart => OInv'
<1> SUFFICES ASSUME OInv, Restart PROVE OInv'
  OBVIOUS
<1>1. /\ dag \in Logs /\ cycle \in Nat /\ now \in Nat /\ durable \in Nat
      /\ durable <= Len(dag) /\ mute \in BOOLEAN
  BY LiveIs DEF OInv, LInv
<1>2. dag' \in Logs /\ Len(dag') = durable
  BY <1>1 DEF Restart, Logs
<1>3. Live' \in Lives /\ body' = FreshBody /\ past' = <<>> /\ born' = durable
  BY <1>1, <1>2, FreshBodyIs DEF Restart, Live, Lives, Counts
<1>4. /\ Live'.dag = dag' /\ Live'.body = FreshBody
      /\ Live'.heard = [x \in Detectors |-> 0]
  BY DEF Live, Restart
<1>5. /\ LInv(Live', durable) /\ <<>> \in Pasts /\ RunOf(FreshBody, <<>>)
      /\ Haunted(<<>>, dag', FreshBody.telosAt)
  BY <1>2, <1>3, <1>4, StartKeeps
<1>6. LInv(Live, born)'
  BY <1>3, <1>5 DEF LInv, Restart
<1> QED BY <1>1, <1>2, <1>3, <1>5, <1>6 DEF OInv, Told, Spaced, Restart

LEMMA StepO == OInv /\ [Next]_vars => OInv'
<1> SUFFICES ASSUME OInv, [Next]_vars PROVE OInv'
  OBVIOUS
<1>1. /\ LInv(Live, born) /\ Live \in Lives /\ durable \in Nat /\ durable <= Len(dag)
      /\ dag \in Logs /\ Len(dag) \in Nat /\ cycle \in Nat /\ now \in Nat
      /\ Quiet(Live, Live)
      /\ Live.dag = dag /\ Live.body = body /\ Live.heard = heard
  BY LiveIs, Compose DEF OInv, LInv, Logs
<1>2. ASSUME NEW t, LInv(t, born), Quiet(Live, t)
      PROVE  Len(t.dag) \in Nat /\ durable <= Len(t.dag)
  <2>1. t.dag \in Logs /\ Extends(dag, t.dag)
    BY <1>1, <1>2, LiveFields DEF LInv, Quiet, After
  <2> QED BY <1>1, <2>1 DEF Extends, Logs
<1>3. CASE Cycle
  BY <1>3, CycleO
<1>4. CASE Idle
  <2>1. cycle' \in Nat /\ cycle' >= cycle
    BY <1>1, <1>4, ObservatoryAssumption DEF Idle
  <2>2. /\ UNCHANGED <<dag, body, heard, now, mute, past, born>>
        /\ durable' = Len(dag)
    BY <1>4 DEF Idle
  <2> QED BY <1>1, <2>1, <2>2, QuietStep
<1>5. CASE Request
  <2>1. PICK kind \in {"raw_material", "ci", "act"} :
           /\ Become(Emit(Live, kind, "none")) /\ durable' = Len(dag')
           /\ UNCHANGED <<cycle, now, mute, past, born>>
    BY <1>5 DEF Request
  <2> DEFINE t == Emit(Live, kind, "none")
  <2>2. LInv(t, born) /\ Quiet(Live, t)
    BY <1>1, EmitKeeps DEF Kinds, Tags
  <2> QED BY <1>1, <1>2, <2>1, <2>2, QuietStep DEF Become
<1>6. CASE Breach
  <2> DEFINE t == Detect(Live, "C14")
  <2>1. LInv(t, born) /\ Quiet(Live, t)
    BY <1>1, DetectKeeps DEF Detectors
  <2> HIDE DEF t
  <2>2. /\ dag' = t.dag /\ body' = t.body /\ heard' = t.heard /\ durable' = Len(dag')
        /\ UNCHANGED <<cycle, now, mute, past, born>>
    BY <1>6 DEF Breach, Become, t
  <2> QED BY <1>1, <1>2, <2>1, <2>2, QuietStep
<1>7. CASE Query
  <2>1. PICK weak \in Verdicts :
           /\ Become(Burst(Weaken(Live, weak)))
           /\ UNCHANGED <<cycle, now, mute, durable, past, born>>
    BY <1>7 DEF Query
  <2> DEFINE t == Burst(Weaken(Live, weak))
  <2>2. LInv(t, born) /\ Quiet(Live, t)
    BY <1>1, QueryKeeps
  <2> HIDE DEF t
  <2>3. dag' = t.dag /\ body' = t.body /\ heard' = t.heard
    BY <2>1 DEF Become, t
  <2> QED BY <1>1, <1>2, <2>1, <2>2, <2>3, QuietStep
<1>8. CASE Restart
  BY <1>8, RestartO
<1>9. CASE UNCHANGED vars
  BY <1>1, <1>9, QuietStep DEF vars
<1>10. CASE Pause
  <2> DEFINE t == [Live EXCEPT !.body = [body EXCEPT !.open = {}]]
  <2>1. /\ LInv(t, born) /\ Quiet(Live, t) /\ t.dag = dag /\ t.heard = heard
        /\ t.body = body' /\ now' \in Nat
    BY <1>10, PauseKeeps
  <2> HIDE DEF t
  <2>2. UNCHANGED <<cycle, mute, dag, durable, past, heard, born>>
    BY <1>10 DEF Pause
  <2> QED BY <1>1, <2>1, <2>2, QuietStep
<1> QED BY <1>3, <1>4, <1>5, <1>6, <1>7, <1>8, <1>9, <1>10 DEF Next

LEMMA Observed == Spec => []OInv
BY InitO, StepO, PTL DEF Spec
-----------------------------------------------------------------------------
(* What the invariant says of the properties that the run checks. *)

LEMMA InvariantFacts ==
    ASSUME OInv
    PROVE  /\ LInv(Live, born) /\ Live \in Lives /\ born \in Nat /\ past \in Pasts
           /\ dag \in Logs /\ DOMAIN dag = 1 .. Len(dag) /\ Len(dag) \in Nat
           /\ body \in Bodies /\ cycle \in Nat /\ Len(past) \in Nat
           /\ Live.dag = dag /\ Live.body = body /\ Live.heard = heard /\ Live.cycle = cycle
           /\ DOMAIN past = 1 .. Len(past) /\ past # <<>> <=> Len(past) # 0
           /\ \A i \in DOMAIN past : past[i].cycle \in Nat /\ past[i].over \in SUBSET Axes
<1>1. LInv(Live, born) /\ Live \in Lives /\ born \in Nat /\ past \in Pasts
  BY DEF OInv, LInv
<1>2. /\ past \in Seq(Cycles) /\ Len(past) \in Nat /\ DOMAIN past = 1 .. Len(past)
      /\ past # <<>> <=> Len(past) # 0 /\ \A i \in DOMAIN past : past[i] \in Cycles
  BY <1>1 DEF Pasts
<1>3. \A c \in Cycles : c.cycle \in Nat /\ c.over \in SUBSET Axes
  BY DEF Cycles, Costs
<1>4. dag \in Logs /\ DOMAIN dag = 1 .. Len(dag) /\ Len(dag) \in Nat
  BY <1>1, LiveIs DEF Logs
<1> QED BY <1>1, <1>2, <1>3, <1>4, LiveIs

\* The saturation machine counts runs, not totals: the stage and the counters are
\* those of the unbroken run of over-budget cycles that ends now, for every floor and
\* threshold (p11c_advance_stage and the counters of apply_p11c_and_emit).
THEOREM MachineIsTheRun == Spec => []StageIsTheRun
<1>1. OInv => StageIsTheRun
  <2> SUFFICES ASSUME OInv PROVE StageIsTheRun
    OBVIOUS
  <2>1. RunOf(body, past)
    BY DEF OInv
  <2> QED BY <2>1 DEF StageIsTheRun, Trailing, RunOf, Run
<1> QED BY <1>1, Observed, PTL

\* No cost is hidden: an axis over budget in the last cycle is in the DAG within the
\* check window, or C53 has been raised; and a working emission path is never accused,
\* across restarts that empty the cache (emission and C53 check of apply_p11c_and_emit).
THEOREM CostsAreShown == Spec => []NoHiddenCost
<1>1. OInv => NoHiddenCost
  <2> SUFFICES ASSUME OInv PROVE NoHiddenCost
    OBVIOUS
  <2>1. {i \in DOMAIN dag : i > born /\ dag[i].kind = "immune" /\ dag[i].of = "C53"}
           = Own(dag, born, "C53")
    BY DEF Own
  <2>2. ~mute => Own(dag, born, "C53") = {}
    BY InvariantFacts DEF LInv
  <2>3. Told(past, dag, born)
    BY DEF OInv
  <2> QED BY <2>1, <2>2, <2>3 DEF NoHiddenCost, Told
<1> QED BY <1>1, Observed, PTL

\* Between two proposals of the substrate's own death, while the process lives, the
\* budget was restored (escalate_saturation_to_p7).
THEOREM ProposalsAreRare == Spec => []OneProposalPerEpisode
<1>1. OInv => OneProposalPerEpisode
  <2> SUFFICES ASSUME OInv PROVE OneProposalPerEpisode
    OBVIOUS
  <2>1. \A i, j \in Proposals(dag, born) : i < j => Restored(dag, i, j)
    BY InvariantFacts DEF LInv, Episodic
  <2> QED BY <2>1 DEF OneProposalPerEpisode, Proposals, Restored
<1> QED BY <1>1, Observed, PTL

\* Critical drift that lasts over a cooldown is raised, although the three grades share
\* one cooldown and a milder grade may have taken it (apply_p14c_telos_drift).
THEOREM DriftIsRaised == Spec => []LastingDriftIsRaised
<1>1. OInv => LastingDriftIsRaised
  <2> SUFFICES ASSUME OInv, NEW i \in DOMAIN past,
                      \A j \in i .. Len(past) : past[j].grade = "critical",
                      past[Len(past)].cycle - past[i].cycle >= Cooldown
               PROVE  \E k \in DOMAIN dag : /\ dag[k].kind = "telos_drift_critical"
                                            /\ dag[k].cycle >= past[i].cycle
    BY DEF LastingDriftIsRaised
  <2>1. /\ past[i].cycle \in Nat /\ past[Len(past)].cycle \in Nat
        /\ body.telosAt \in Stamps /\ Cooldown \in Nat
    <3>1. i \in 1 .. Len(past) /\ Len(past) \in 1 .. Len(past) /\ DOMAIN past = 1 .. Len(past)
      BY InvariantFacts
    <3>2. past[i].cycle \in Nat /\ past[Len(past)].cycle \in Nat
      BY <3>1, InvariantFacts
    <3>3. body.telosAt \in Stamps
      BY InvariantFacts, LiveFields
    <3> QED BY <3>2, <3>3, ObservatoryAssumption
  <2>2. ~(/\ body.telosAt # Never /\ body.telosAt <= past[i].cycle
          /\ past[Len(past)].cycle - body.telosAt < Cooldown)
    BY <2>1 DEF Stamps, Never
  <2> QED BY <2>2 DEF OInv, Haunted
<1> QED BY <1>1, Observed, PTL

\* The immune limiter loses nothing while the process lives: detections are events, the
\* suppressed ones those carry, and the ones still held back (emit_immune_sporocarp).
THEOREM NothingIsSuppressed == Spec => []DetectionsAreAccounted
<1>1. OInv => DetectionsAreAccounted
  <2> SUFFICES ASSUME OInv, NEW d \in Detectors
               PROVE  heard[d] = body.hidden[d]
                        + Cardinality(UNION {{i} \X (0 .. dag[i].hidden) :
                             i \in {i \in DOMAIN dag : /\ i > born /\ dag[i].kind = "immune"
                                                       /\ dag[i].of = d}})
    BY DEF DetectionsAreAccounted
  <2>1. heard[d] = body.hidden[d] + Cardinality(Carried(dag, born, d))
    BY InvariantFacts DEF LInv, Accounted
  <2> QED BY <2>1 DEF Carried, Own
<1> QED BY <1>1, Observed, PTL

\* The natural numbers are well ordered, so a bounded set of them has a greatest element.
Less == {p \in Nat \X Nat : p[1] < p[2]}

LEMMA LessWellFounded == IsWellFoundedOn(Less, Nat)
<1>1. IsWellFoundedOn(OpToRel(<, Nat), Nat)
  BY NatLessThanWellFounded
<1>2. OpToRel(<, Nat) = Less
  BY DEF OpToRel, Less
<1> QED BY <1>1, <1>2

LEMMA Greatest ==
    ASSUME NEW n \in Nat, NEW S \in SUBSET (0 .. n), S # {}
    PROVE  \E m \in S : \A i \in S : i <= m
<1> DEFINE T == {k \in Nat : n - k \in S}
<1>1. PICK s \in S : s \in 0 .. n
  OBVIOUS
<1>2. n - s \in Nat /\ n - (n - s) = s
  BY <1>1
<1>3. n - s \in T
  BY <1>1, <1>2
<1>4. PICK m \in T : \A k \in T : ~(<<k, m>> \in Less)
  BY <1>3, LessWellFounded, WFMin
<1>5. ASSUME NEW i \in S
      PROVE  i <= n - m
  <2>1. i \in 0 .. n
    OBVIOUS
  <2>2. n - i \in Nat /\ n - (n - i) = i
    BY <2>1
  <2>3. n - i \in T
    BY <2>2
  <2>4. <<n - i, m>> \in Nat \X Nat /\ <<n - i, m>>[1] = n - i /\ <<n - i, m>>[2] = m
    BY <2>3
  <2>5. ~(n - i < m)
    BY <1>4, <2>3, <2>4 DEF Less
  <2> QED BY <2>1, <2>2, <2>5
<1> QED BY <1>4, <1>5

\* An ingestion is refused only with evidence: the axes that the refusal may name have
\* a report in the DAG no older than the cooldown at the last cycle, whatever restarts
\* and idle batches came in between (handle_ingest_raw_material).
THEOREM RefusalsAreVerifiable == Spec => []RefusalIsVerifiable
<1>1. OInv => RefusalIsVerifiable
  <2> SUFFICES ASSUME OInv, Refusing, ~mute
               PROVE  /\ RefusedAxis # {}
                      /\ \A a \in RefusedAxis : \E i \in DOMAIN dag :
                            /\ dag[i].kind = "budget_exhausted" /\ dag[i].of = a
                            /\ dag[i].cycle > past[Len(past)].cycle - ExhaustedCooldown
    BY DEF RefusalIsVerifiable
  <2> DEFINE last == past[Len(past)]
             at == body.axisAt
             S == {at[a] : a \in {a \in Axes : at[a] # Never}}
  <2>1. /\ ExhaustedCooldown \in Nat /\ RefusalAfter \in Nat \ {0} /\ cycle \in Nat
        /\ body.exhausted \in Nat /\ at \in Marks
    BY InvariantFacts, LiveFields, ObservatoryAssumption
  <2>2. Marked(dag, at, cycle)
    BY InvariantFacts DEF LInv
  <2>3. \A a \in Axes : at[a] = Never \/ at[a] \in Nat
    BY <2>1 DEF Marks, Stamps
  <2>4. /\ past # <<>> /\ last.over # {} /\ last.cycle \in Nat /\ last.over \in SUBSET Axes
    <3>1. Run(past, body.exhausted, 0) /\ body.exhausted >= 1
      BY <2>1 DEF OInv, RunOf, Refusing
    <3>2. Len(past) \in Nat /\ Len(past) >= 1 /\ Len(past) \in DOMAIN past
      BY <2>1, <3>1, InvariantFacts DEF Run
    <3>3. Len(past) \in Len(past) - body.exhausted + 1 .. Len(past)
      BY <2>1, <3>1, <3>2
    <3> QED BY <3>1, <3>2, <3>3, InvariantFacts DEF Run
  <2>5. PICK a \in last.over : TRUE
    BY <2>4
  <2>6. a \in Axes /\ at[a] # Never /\ last.cycle - at[a] < ExhaustedCooldown
    BY <2>4, <2>5 DEF OInv, Spaced
  <2>7. S \in SUBSET (0 .. cycle) /\ at[a] \in S
    <3>1. \A b \in Axes : at[b] # Never => at[b] \in 0 .. cycle
      BY <2>1, <2>2, <2>3 DEF Marked
    <3> QED BY <2>6, <3>1
  <2>8. PICK m \in S : \A i \in S : i <= m
    BY <2>1, <2>7, Greatest
  <2>9. PICK b \in Axes : at[b] # Never /\ m = at[b]
    BY <2>8
  <2>10. RefusedAxis # {}
    <3>1. ASSUME NEW c \in Axes
          PROVE  at[c] <= at[b]
      <4>1. at[c] # Never => at[c] \in S
        OBVIOUS
      <4> HIDE DEF S
      <4> QED BY <2>3, <2>8, <2>9, <4>1 DEF Never
    <3> QED BY <2>9, <3>1 DEF RefusedAxis
  <2>11. ASSUME NEW c \in RefusedAxis
         PROVE  \E i \in DOMAIN dag : /\ dag[i].kind = "budget_exhausted" /\ dag[i].of = c
                                      /\ dag[i].cycle > last.cycle - ExhaustedCooldown
    <3>1. c \in Axes /\ at[c] # Never /\ at[a] <= at[c]
      BY <2>6 DEF RefusedAxis
    <3>2. PICK i \in DOMAIN dag : Report(dag[i], c, at[c])
      BY <2>2, <3>1 DEF Marked
    <3>3. at[c] \in Nat /\ at[a] \in Nat
      BY <2>3, <2>6, <3>1
    <3>4. at[c] > last.cycle - ExhaustedCooldown
      BY <2>1, <2>4, <2>6, <3>1, <3>3
    <3> QED BY <3>2, <3>4 DEF Report
  <2> QED BY <2>10, <2>11
<1> QED BY <1>1, Observed, PTL
-----------------------------------------------------------------------------
(* The cultivator who is accused. *)

Accusing(e) == e.kind = "immune" /\ e.of = "C75"

\* A step that accuses nobody.
Calm(s, t) == Accusations(t.dag) = Accusations(s.dag)

\* Events of other kinds.
LEMMA CalmLog ==
    ASSUME NEW d \in Logs, NEW r \in Logs, \A i \in DOMAIN r : ~Accusing(r[i])
    PROVE  Accusations(d \o r) = Accusations(d)
<1> DEFINE e == d \o r
<1>1. /\ Len(d) \in Nat /\ Len(r) \in Nat /\ DOMAIN d = 1 .. Len(d)
      /\ DOMAIN e = 1 .. Len(d) + Len(r)
      /\ \A i \in 1 .. Len(d) : e[i] = d[i]
      /\ \A i \in Len(d) + 1 .. Len(d) + Len(r) : ~Accusing(e[i])
  BY LogJoin
<1> HIDE DEF e
<1>2. Accusations(e) = Accusations(d)
  BY <1>1 DEF Accusations, Accusing
<1> QED BY <1>2 DEF e

LEMMA CalmAppend ==
    ASSUME NEW d \in Logs, NEW e \in Events, ~Accusing(e)
    PROVE  Accusations(Append(d, e)) = Accusations(d)
<1>1. Append(d, e) = d \o <<e>> /\ <<e>> \in Logs
  BY LogAppend
<1>2. \A i \in DOMAIN <<e>> : <<e>>[i] = e
  OBVIOUS
<1> QED BY <1>1, <1>2, CalmLog

LEMMA CalmEmit ==
    ASSUME NEW s \in Lives, NEW kind \in Kinds, kind # "immune", NEW of \in Tags
    PROVE  Calm(s, Emit(s, kind, of))
<1> DEFINE e == Event(s, kind, of)
<1>1. s.dag \in Logs /\ s.cycle \in Nat
  BY LiveFields
<1>2. e \in Events /\ ~Accusing(e)
  BY <1>1 DEF Event, Events, Accusing
<1> HIDE DEF e
<1>3. Emit(s, kind, of).dag = Append(s.dag, e)
  BY DEF Emit, Lives, e
<1> QED BY <1>1, <1>2, <1>3, CalmAppend DEF Calm

\* Another detector.
LEMMA CalmDetect ==
    ASSUME NEW s \in Lives, NEW x \in Detectors, x # "C75"
    PROVE  Calm(s, Detect(s, x))
<1> DEFINE e == [Event(s, "immune", x) EXCEPT !.hidden = s.body.hidden[x]]
<1>1. s.dag \in Logs /\ s.cycle \in Nat /\ s.body.hidden \in Counts
  BY LiveFields
<1>2. e \in Events /\ ~Accusing(e)
  BY <1>1 DEF Event, Events, Accusing, Kinds, Tags, Counts
<1> HIDE DEF e
<1>3. Raise(s, x).dag = Append(s.dag, e)
  BY DEF Raise, Lives, e
<1>4. Suppress(s, x, 1).dag = s.dag
  BY DEF Suppress, Lives
<1>5. Calm(s, Raise(s, x))
  BY <1>1, <1>2, <1>3, CalmAppend DEF Calm
<1> QED BY <1>4, <1>5 DEF Detect, Calm

\* Costs accuse nobody.
LEMMA CalmMetabolise ==
    ASSUME NEW s, NEW b, LInv(s, b), NEW over \in SUBSET Axes
    PROVE  Calm(s, Metabolise(s, over))
<1> DEFINE s0 == Transition(s, over)
           s1 == Escalate(s0)
           s2 == Exhaust(s1, over)
           s3 == SilenceCheck(s2, over)
           u == Emit(s3, "compression_proposed", "seed_rules")
           t == Metabolise(s, over)
<1>1. t = s3 \/ t = u
  BY DEF Metabolise, EmitIf
<1>2. LInv(s0, b) /\ LInv(s1, b) /\ LInv(s2, b) /\ LInv(s3, b)
  <2> HIDE DEF s0
  <2>1. LInv(s0, b)
    BY TransitionKeeps DEF s0
  <2> HIDE DEF s1
  <2>2. LInv(s1, b)
    BY <2>1, EscalateKeeps DEF s1
  <2> HIDE DEF s2
  <2>3. LInv(s2, b) /\ (~mute => Fresh(s2, over))
    BY <2>2, ExhaustKeeps DEF s2
  <2>4. LInv(s3, b)
    BY <2>3, SilenceCheckKeeps
  <2> QED BY <2>1, <2>2, <2>3, <2>4
<1>3. s \in Lives /\ s0 \in Lives /\ s1 \in Lives /\ s2 \in Lives /\ s3 \in Lives
  BY <1>2 DEF LInv
<1>4. Calm(s, s0)
  <2> DEFINE new == Stage(s.body, s.cycle, over)
             k == [s EXCEPT !.body = Count(s.body, new, over)]
             x == Emit(k, "substrate_saturated", "none")
             y == Emit(k, "substrate_normal_restored", "none")
             z == Emit(x, "substrate_normal_restored", "none")
  <2>1. s0 = k \/ s0 = x \/ s0 = y \/ s0 = z
    BY DEF Transition, EmitIf
  <2>2. k \in Lives /\ k.dag = s.dag
    BY <1>3, CountFields DEF Lives, LInv
  <2> HIDE DEF k
  <2>3. Calm(k, x) /\ Calm(k, y)
    BY <2>2, CalmEmit DEF Kinds, Tags
  <2>4. x \in Lives
    <3> DEFINE e == Event(k, "substrate_saturated", "none")
    <3>1. e \in Events /\ k.dag \in Logs
      BY <2>2, LiveFields DEF Event, Events, Kinds, Tags
    <3> HIDE DEF e
    <3>2. Append(k.dag, e) \in Logs
      BY <3>1, LogAppend
    <3> QED BY <2>2, <3>2 DEF Emit, Lives, e
  <2> HIDE DEF x, y
  <2>5. Calm(x, z)
    BY <2>4, CalmEmit DEF Kinds, Tags
  <2> QED BY <2>1, <2>2, <2>3, <2>5 DEF Calm
<1> HIDE DEF s0, t
<1>5. Calm(s0, s1)
  <2> DEFINE x == Emit(s0, "self_euthanasia_proposal", "metabolic_saturation")
  <2>1. Calm(s0, x)
    BY <1>3, CalmEmit DEF Kinds, Tags
  <2>2. s1 = s0 \/ s1.dag = x.dag
    BY DEF Escalate
  <2> QED BY <2>1, <2>2 DEF Calm
<1> HIDE DEF s1
<1>6. Calm(s1, s2)
  <2> DEFINE r == Reports(s1, Overdue(s1, over))
  <2>1. Overdue(s1, over) \in SUBSET Axes
    BY DEF Overdue
  <2>2. r \in Logs /\ \A i \in DOMAIN r : Plain(r[i])
    BY <1>3, <2>1, ReportsType
  <2> HIDE DEF r
  <2>3. \A i \in DOMAIN r : ~Accusing(r[i])
    BY <2>2 DEF Plain, Accusing
  <2>4. s2.dag = s1.dag \/ s2.dag = s1.dag \o r
    BY <1>3 DEF Exhaust, Lives, r
  <2>5. Accusations(s1.dag \o r) = Accusations(s1.dag)
    BY <1>3, <2>2, <2>3, CalmLog, LiveFields
  <2> QED BY <2>4, <2>5 DEF Calm
<1> HIDE DEF s2
<1>7. Calm(s2, s3)
  <2> DEFINE x == Detect(s2, "C53")
             n == Cardinality({a \in over : Silent(s2, a)}) - 1
  <2>1. Calm(s2, x)
    BY <1>3, CalmDetect DEF Detectors
  <2>2. s3 = s2 \/ s3 = Suppress(x, "C53", n)
    BY DEF SilenceCheck, Accuse
  <2>3. "dag" \in DOMAIN x
    BY <1>3 DEF Detect, Raise, Suppress, Lives
  <2> HIDE DEF x, n
  <2>4. s3 = s2 \/ s3.dag = x.dag
    BY <2>2, <2>3 DEF Suppress
  <2> QED BY <2>1, <2>4 DEF Calm
<1> HIDE DEF s3
<1>8. Calm(s3, u)
  BY <1>3, CalmEmit DEF Kinds, Tags
<1> QED BY <1>1, <1>4, <1>5, <1>6, <1>7, <1>8 DEF Calm, t

\* A cycle accuses only out of a strained state: one of the same cycle and the
\* same time, whose log extends the one the cycle began with.
LEMMA OnlyStrainAccuses ==
    ASSUME NEW s, NEW b, LInv(s, b), NEW w \in Weather
    PROVE  \/ Calm(s, Observe(s, w))
           \/ \E u \in Lives : /\ u.cycle = s.cycle /\ u.now = s.now /\ Extends(s.dag, u.dag)
                               /\ Strain(u, Record(s))
<1> DEFINE u == Metabolise(s, w.over)
           h == Record(s)
           g == Grade(u, w.grade)
           v == Align(u, w.grade, h)
           t == Flatter(v, Dissent(s))
<1>1. t = Observe(s, w) /\ s \in Lives
  BY DEF Observe, LInv
<1>2. w.over \in SUBSET Axes /\ w.grade \in Grades
  BY ObservatoryAssumption DEF Costs
<1>3. LInv(u, b) /\ After(s, u) /\ Calm(s, u) /\ u \in Lives
  BY <1>2, MetaboliseKeeps, CalmMetabolise DEF LInv
<1> HIDE DEF u, h
<1>4. LInv(v, b) /\ v \in Lives
  BY <1>2, <1>3, AlignKeeps DEF LInv
<1>5. Calm(v, t)
  <2> HIDE DEF v
  <2> DEFINE x == Emit(v, "sycophancy_indicator_elevated", "none")
  <2>1. Calm(v, x)
    BY <1>4, CalmEmit DEF Kinds, Tags
  <2>2. t = v \/ t.dag = x.dag
    BY DEF Flatter
  <2> QED BY <2>1, <2>2 DEF Calm
<1> HIDE DEF t
<1>6. CASE w.grade = "none"
  <2> DEFINE x == Emit(u, "telos_alignment_pending", "none")
  <2>1. Calm(u, x)
    BY <1>3, CalmEmit DEF Kinds, Tags
  <2>2. v = u \/ v = x
    BY <1>6 DEF Align, EmitIf
  <2> QED BY <1>1, <1>3, <1>5, <2>1, <2>2 DEF Calm
<1>7. CASE w.grade # "none"
  <2>1. v = Witness(g, h) /\ LInv(g, b) /\ After(u, g) /\ g \in Lives
    BY <1>2, <1>3, <1>7, GradeKeeps DEF Align, LInv
  <2>2. Calm(u, g)
    <3> DEFINE x == Emit(u, Named[w.grade], "none")
               y == Detect(x, "C24")
    <3>1. CASE w.grade = "aligned" \/ ~Due(u.body.telosAt, u.cycle, Cooldown)
      BY <3>1 DEF Grade, Calm
    <3>2. CASE ~(w.grade = "aligned" \/ ~Due(u.body.telosAt, u.cycle, Cooldown))
      <4> DEFINE k == Named[w.grade]
      <4>1. /\ k \in Kinds /\ k \notin {"immune", "self_euthanasia_proposal"}
            /\ "none" \in Tags
        BY <1>2, <1>7, <3>2 DEF Grades, Named, Kinds, Tags
      <4>2. g.dag = x.dag \/ g.dag = y.dag
        BY <3>2 DEF Grade
      <4> HIDE DEF k, y
      <4>3. Calm(u, x) /\ LInv(x, b)
        <5>1. Calm(u, Emit(u, k, "none")) /\ LInv(Emit(u, k, "none"), b)
          BY <1>3, <4>1, CalmEmit, EmitKeeps
        <5> QED BY <5>1 DEF k
      <4> HIDE DEF x
      <4>4. Calm(x, y)
        BY <4>3, CalmDetect DEF Detectors, LInv, y
      <4> QED BY <4>2, <4>3, <4>4 DEF Calm
    <3> QED BY <3>1, <3>2
  <2> HIDE DEF g
  <2>3. v = g \/ Strain(g, h)
    BY <2>1 DEF Witness
  <2>4. After(s, g)
    BY <1>1, <1>3, <2>1, Compose
  <2> QED BY <1>1, <1>3, <1>5, <2>1, <2>2, <2>3, <2>4 DEF Calm, After, h
<1> QED BY <1>6, <1>7

\* A query accuses nobody.
LEMMA CalmQuery ==
    ASSUME NEW s, NEW b, LInv(s, b), NEW weak
    PROVE  Calm(s, Burst(Weaken(s, weak)))
<1> DEFINE x == Emit(s, "bet_weakening_evaluation_suspended", "none")
           y == Detect(s, "C40")
           z == Emit(y, "bet_weakening_quorum", "none")
           v == Weaken(s, weak)
           u == Detect(v, "C37")
           t == Burst(v)
<1>1. s \in Lives /\ s.cycle \in Nat
  BY LiveFields DEF LInv
<1>2. Calm(s, x) /\ LInv(x, b)
  BY <1>1, CalmEmit, EmitKeeps DEF Kinds, Tags
<1>3. Calm(s, y) /\ LInv(y, b)
  BY <1>1, CalmDetect, DetectKeeps DEF Detectors
<1>4. Calm(y, z) /\ LInv(z, b)
  <2> HIDE DEF y
  <2>1. y \in Lives
    BY <1>3 DEF LInv
  <2>2. Calm(y, z)
    BY <2>1, CalmEmit DEF Kinds, Tags
  <2> QED BY <1>3, <2>2, EmitKeeps DEF Kinds, Tags
<1>5. \/ v = s
      \/ v = [x EXCEPT !.body.quorumAt = s.cycle]
      \/ v = [z EXCEPT !.body.quorumAt = s.cycle]
  BY DEF Weaken
<1> HIDE DEF x, z
<1>6. v \in Lives /\ (v.dag = s.dag \/ v.dag = x.dag \/ v.dag = z.dag)
  <2> HIDE DEF v
  <2>1. ASSUME NEW k, LInv(k, b), v = [k EXCEPT !.body.quorumAt = s.cycle]
        PROVE  v \in Lives /\ v.dag = k.dag
    <3>1. LInv(v, b) /\ v.dag = k.dag
      BY <1>1, <2>1, StampsKeep
    <3> QED BY <3>1 DEF LInv
  <2> QED BY <1>1, <1>2, <1>4, <1>5, <2>1
<1>7. Calm(s, v)
  BY <1>2, <1>3, <1>4, <1>6 DEF Calm
<1> HIDE DEF v
<1>8. Calm(v, u)
  BY <1>6, CalmDetect DEF Detectors
<1>9. t = v \/ t.dag = u.dag
  BY DEF Burst
<1> QED BY <1>7, <1>8, <1>9 DEF Calm, t, v

Entries == [cycle : Nat, at : Nat]
Histories == Seq(Entries)

Sorted(h) == \A i, j \in DOMAIN h : i <= j => h[i].at <= h[j].at

\* What was recorded of the cycles up to c, where the clock stands at n.
Recorded(h, c, n) ==
    /\ h \in Histories
    /\ \A i \in DOMAIN h : h[i].cycle <= c /\ h[i].at <= n
    /\ Sorted(h)

\* An act of cycle c at time t stands where a history says.
Dated(h, c, t) ==
    \A i \in DOMAIN h : /\ h[i].cycle <= c => h[i].at <= t
                        /\ h[i].cycle > c => t <= h[i].at

\* The last act is on disk, and both histories agree with it.
Witnessed == \E k \in 1 .. durable :
    /\ dag[k].kind = "act" /\ dag[k].cycle <= cycle
    /\ Dated(history, dag[k].cycle, acted) /\ Dated(cached, dag[k].cycle, acted)

HInv ==
    /\ Recorded(history, cycle, now) /\ Recorded(cached, cycle, now)
    /\ acted = Never \/ (acted \in Nat /\ acted <= now /\ Witnessed)

\* A window of days has an oldest record.
LEMMA Oldest ==
    ASSUME NEW n \in Nat, NEW S \in SUBSET (1 .. n), S # {}
    PROVE  \E i \in S : \A j \in S : i <= j
<1>1. S \in SUBSET Nat
  OBVIOUS
<1>2. PICK m \in S : \A k \in S : ~(<<k, m>> \in Less)
  BY <1>1, LessWellFounded, WFMin
<1>3. \A k \in S : ~(k < m)
  BY <1>1, <1>2 DEF Less
<1> QED BY <1>1, <1>2, <1>3

LEMMA HistoryIs ==
    ASSUME NEW h \in Histories
    PROVE  /\ Len(h) \in Nat /\ DOMAIN h = 1 .. Len(h) /\ (h = <<>> <=> Len(h) = 0)
           /\ \A i \in DOMAIN h : h[i].cycle \in Nat /\ h[i].at \in Nat
<1>1. /\ Len(h) \in Nat /\ DOMAIN h = 1 .. Len(h) /\ (h = <<>> <=> Len(h) = 0)
      /\ \A i \in DOMAIN h : h[i] \in Entries
  BY DEF Histories
<1>2. \A e \in Entries : e.cycle \in Nat /\ e.at \in Nat
  BY DEF Entries
<1> QED BY <1>1, <1>2

\* What Record makes of a history: its elements, and a last one.
LEMMA RecordIs ==
    ASSUME history \in Histories, NEW s, s.cycle \in Nat, s.now \in Nat,
           Sorted(history), \A i \in DOMAIN history : history[i].at <= s.now
    PROVE  LET h == Record(s)
               e == [cycle |-> s.cycle, at |-> s.now]
           IN  /\ h \in Histories
               /\ \A i \in DOMAIN h : h[i] = e \/ \E j \in DOMAIN history : h[i] = history[j]
               /\ h # <<>> => h[Len(h)] = e
               /\ Sorted(h)
<1> DEFINE e == [cycle |-> s.cycle, at |-> s.now]
           g == Append(history, e)
           h == Record(s)
<1>1. e \in Entries /\ (h = g \/ h = Tail(g))
  BY DEF Record, Entries
<1> HIDE DEF e, h
<1>2. /\ g \in Seq(Entries) /\ Len(g) = Len(history) + 1 /\ Len(history) \in Nat
      /\ DOMAIN g = 1 .. Len(history) + 1 /\ DOMAIN history = 1 .. Len(history)
      /\ \A i \in 1 .. Len(history) : g[i] = history[i]
      /\ g[Len(history) + 1] = e
  BY <1>1 DEF Histories
<1> HIDE DEF g
<1>3. /\ Tail(g) \in Seq(Entries) /\ Len(Tail(g)) = Len(history)
      /\ DOMAIN Tail(g) = 1 .. Len(history)
      /\ \A i \in 1 .. Len(history) : Tail(g)[i] = g[i + 1]
  BY <1>2
<1>4. \A i \in DOMAIN g : g[i] = e \/ \E j \in DOMAIN history : g[i] = history[j]
  BY <1>2
<1>5. \A i \in DOMAIN Tail(g) : i + 1 \in DOMAIN g /\ Tail(g)[i] = g[i + 1]
  BY <1>2, <1>3
<1>6. \A i \in DOMAIN h : h[i] = e \/ \E j \in DOMAIN history : h[i] = history[j]
  BY <1>1, <1>4, <1>5
<1>7. h # <<>> => h[Len(h)] = e
  <2>1. CASE h = g
    BY <1>2, <2>1
  <2>2. CASE h = Tail(g)
    <3> SUFFICES ASSUME h # <<>> PROVE h[Len(h)] = e
      OBVIOUS
    <3>1. Len(history) # 0
      BY <1>3, <2>2
    <3> QED BY <1>2, <1>3, <2>2, <3>1
  <2> QED BY <1>1, <2>1, <2>2
<1>8. h \in Histories
  BY <1>1, <1>2, <1>3 DEF Histories
<1>9. Sorted(g)
  <2>1. e.at = s.now
    BY DEF e
  <2>2. \A i \in DOMAIN history : history[i].at <= e.at
    BY <2>1
  <2>3. \A i \in DOMAIN g : i \in DOMAIN history \/ i = Len(history) + 1
    BY <1>2
  <2>4. e.at <= e.at
    BY <2>1
  <2>5. ASSUME NEW i \in DOMAIN g, NEW j \in DOMAIN g, i <= j
        PROVE  g[i].at <= g[j].at
    <3>1. CASE j \in DOMAIN history
      <4>1. i \in DOMAIN history
        BY <1>2, <2>5, <3>1
      <4> QED BY <1>2, <2>5, <3>1, <4>1 DEF Sorted
    <3>2. CASE j = Len(history) + 1
      <4>1. g[j] = e /\ (g[i] = e \/ (i \in DOMAIN history /\ g[i] = history[i]))
        BY <1>2, <2>3, <3>2
      <4> QED BY <2>2, <2>4, <4>1
    <3> QED BY <2>3, <3>1, <3>2
  <2> QED BY <2>5 DEF Sorted
<1>10. Sorted(h)
  <2>1. CASE h = Tail(g)
    <3>1. \A i, j \in DOMAIN Tail(g) : i <= j => i + 1 <= j + 1
      BY <1>3
    <3> QED BY <1>5, <1>9, <2>1, <3>1 DEF Sorted
  <2> QED BY <1>1, <1>9, <2>1
<1> QED BY <1>6, <1>7, <1>8, <1>10 DEF e, h

\* A strained state whose act is overlooked: the act is older than the window,
\* or in the gap at its edge.
LEMMA Neglected ==
    ASSUME NEW u \in Lives, NEW h \in Histories, Strain(u, h),
           h # <<>> => h[Len(h)].at = u.now,
           NEW k \in DOMAIN u.dag, u.dag[k].kind = "act",
           Dated(h, u.dag[k].cycle, acted), acted \in Nat, Sorted(h)
    PROVE  acted < u.now - StrainWindow \/ InTheGap(h, u.now - StrainWindow, acted)
<1> DEFINE c == u.dag[k].cycle
           edge == u.now - StrainWindow
           inside == {i \in DOMAIN h : h[i].at >= edge}
           start == WindowStart(u, h, StrainWindow)
           first == CHOOSE i \in inside : \A j \in inside : i <= j
<1>1. /\ c \in Nat /\ u.now \in Nat /\ u.cycle \in Nat /\ StrainWindow \in Nat /\ edge \in Int
      /\ u.dag \in Logs
  BY LiveFields, LogElements, ObservatoryAssumption, SMTT(30)
<1>2. /\ Len(h) \in Nat /\ DOMAIN h = 1 .. Len(h) /\ (h = <<>> <=> Len(h) = 0)
      /\ \A i \in DOMAIN h : h[i].cycle \in Nat /\ h[i].at \in Nat
  BY HistoryIs
<1>3. ~(c >= start)
  BY DEF Strain, Since
<1>4. start = IF h = <<>> \/ 1 \in inside THEN 0
              ELSE IF inside = {} THEN u.cycle + 1 ELSE h[first].cycle
  BY DEF WindowStart
<1> HIDE DEF start, c
<1>5. h # <<>> /\ 1 \notin inside
  BY <1>1, <1>3, <1>4
<1>6. Len(h) \in inside
  BY <1>1, <1>2, <1>5
<1> HIDE DEF inside, edge
<1>7. first \in inside /\ \A j \in inside : first <= j
  <2>1. inside \in SUBSET (1 .. Len(h))
    BY <1>2 DEF inside
  <2> QED BY <1>2, <1>6, <2>1, Oldest
<1> HIDE DEF first
<1>8. c < h[first].cycle /\ first \in DOMAIN h
  <2>1. first \in DOMAIN h
    BY <1>7 DEF inside
  <2> QED BY <1>1, <1>2, <1>3, <1>4, <1>5, <1>6, <2>1
<1>9. 1 \in DOMAIN h /\ h[1].at < edge
  <2>1. 1 \in DOMAIN h /\ h[1].at \in Nat
    BY <1>2, <1>5
  <2>2. ~(h[1].at >= edge)
    BY <1>5, <2>1 DEF inside
  <2> QED BY <1>1, <2>1, <2>2, Z3
<1>10. ASSUME NEW i \in DOMAIN h, ~(h[i].at < edge)
       PROVE  acted <= h[i].at
  <2>1. i \in inside /\ h[i].at \in Nat
    BY <1>1, <1>2, <1>10 DEF inside
  <2>2. h[first].at <= h[i].at
    BY <1>7, <1>8, <2>1 DEF Sorted
  <2>3. acted <= h[first].at /\ h[first].at \in Nat
    BY <1>2, <1>8 DEF Dated, c
  <2> QED BY <2>1, <2>2, <2>3, Z3
<1> QED BY <1>9, <1>10 DEF InTheGap, edge

\* A step that records nothing and loses nothing on disk; time may pass.
LEMMA HistoryKeeps ==
    ASSUME OInv, HInv, cycle' \in Nat, cycle' >= cycle, durable' \in Nat, durable' >= durable,
           now' \in Nat, now' >= now, UNCHANGED <<cached, acted>>, history' = history \/ history' = cached,
           \A k \in 1 .. durable : dag'[k] = dag[k]
    PROVE  HInv'
<1>1. /\ dag \in Logs /\ Len(dag) \in Nat /\ durable \in Nat /\ durable <= Len(dag)
      /\ cycle \in Nat /\ now \in Nat
  BY LiveIs DEF OInv, LInv, Logs
<1>2. /\ Recorded(history, cycle, now) /\ Recorded(cached, cycle, now)
      /\ acted = Never \/ (acted \in Nat /\ acted <= now /\ Witnessed)
  BY DEF HInv
<1>3. ASSUME NEW h, Recorded(h, cycle, now)
      PROVE  Recorded(h, cycle', now')
  <2>1. h \in Histories
    BY <1>3 DEF Recorded
  <2>2. \A i \in DOMAIN h : h[i].cycle \in Nat /\ h[i].at \in Nat
    BY <2>1, HistoryIs
  <2> QED BY <1>1, <1>3, <2>1, <2>2 DEF Recorded
<1>4. ASSUME Witnessed
      PROVE  Witnessed'
  <2>1. PICK k \in 1 .. durable :
           /\ dag[k].kind = "act" /\ dag[k].cycle <= cycle
           /\ Dated(history, dag[k].cycle, acted) /\ Dated(cached, dag[k].cycle, acted)
    BY <1>4 DEF Witnessed
  <2>2. k \in 1 .. durable' /\ dag'[k] = dag[k] /\ k \in DOMAIN dag
    BY <1>1 DEF Logs
  <2>3. dag[k].cycle <= cycle'
    BY <1>1, <2>1, <2>2, LogElements
  <2>4. Dated(history', dag[k].cycle, acted) /\ Dated(cached', dag[k].cycle, acted)
    BY <2>1
  <2> QED BY <2>1, <2>2, <2>3, <2>4 DEF Witnessed
<1>5. Recorded(history', cycle', now') /\ Recorded(cached', cycle', now')
  BY <1>2, <1>3
<1>6. acted = Never \/ acted <= now'
  BY <1>1, <1>2
<1> QED BY <1>2, <1>4, <1>5, <1>6 DEF HInv

\* A step of the log between the cycles.
LEMMA LogGrows ==
    ASSUME OInv, NEW t, LInv(t, born), Quiet(Live, t)
    PROVE  /\ t.dag \in Logs /\ Len(t.dag) \in Nat /\ durable <= Len(t.dag)
           /\ \A k \in 1 .. durable : k \in DOMAIN t.dag /\ t.dag[k] = dag[k]
<1>1. /\ dag \in Logs /\ Len(dag) \in Nat /\ durable \in Nat /\ durable <= Len(dag)
      /\ Live.dag = dag
  BY LiveIs DEF OInv, LInv, Logs
<1>2. t.dag \in Logs /\ Extends(dag, t.dag)
  BY <1>1, LiveFields DEF LInv, Quiet, After
<1>3. Len(t.dag) \in Nat /\ DOMAIN dag = 1 .. Len(dag)
  BY <1>1, <1>2 DEF Logs
<1> QED BY <1>1, <1>2, <1>3 DEF Extends

\* A cycle records the time that it ended at; the last act agrees with that.
LEMMA CycleH ==
    ASSUME OInv, HInv, Cycle
    PROVE  /\ HInv'
           /\ acted # Never => \E k \in 1 .. durable :
                 dag[k].kind = "act" /\ Dated(history', dag[k].cycle, acted)
<1>1. PICK w \in Weather :
         /\ cycle' = cycle + 1 /\ now' = now + w.days
         /\ Become(Observe([Later(w) EXCEPT !.cycle = @ + 1], w))
         /\ history' = Record([Later(w) EXCEPT !.cycle = @ + 1])
         /\ durable' = Len(dag')
         /\ cached' = history' \/ cached' = cached
         /\ acted' = acted
  BY DEF Cycle
<1> DEFINE s == [Later(w) EXCEPT !.cycle = @ + 1]
           t == Observe(s, w)
           e == [cycle |-> cycle + 1, at |-> now']
<1>2. /\ dag \in Logs /\ Len(dag) \in Nat /\ DOMAIN dag = 1 .. Len(dag)
      /\ durable \in Nat /\ durable <= Len(dag) /\ cycle \in Nat /\ now \in Nat
      /\ cycle' = cycle + 1 /\ now' \in Nat /\ now <= now' /\ cycle' \in Nat
  <2>1. /\ dag \in Logs /\ durable \in Nat /\ durable <= Len(dag) /\ cycle \in Nat
        /\ now \in Nat
    BY LiveIs DEF OInv, LInv
  <2>2. Len(dag) \in Nat /\ DOMAIN dag = 1 .. Len(dag)
    BY <2>1 DEF Logs
  <2>3. w.days \in Nat
    BY ObservatoryAssumption
  <2>4. cycle' = cycle + 1 /\ now' = now + w.days
    BY <1>1
  <2> QED BY <2>1, <2>2, <2>3, <2>4
<1>3. durable' = Len(dag') /\ (cached' = history' \/ cached' = cached) /\ acted' = acted
  BY <1>1
<1>4. /\ LInv(s, born) /\ s.dag = dag /\ s.cycle = cycle + 1 /\ s.now = now'
  BY <1>1, CycleStarts
<1>5. dag' = t.dag /\ history' = Record(s)
  BY <1>1 DEF Become
<1> HIDE DEF s
<1>6. LInv(t, born) /\ After(s, t)
  BY <1>4, ObserveKeeps
<1> HIDE DEF t
<1>7. /\ Len(dag') \in Nat /\ durable <= durable' /\ durable' \in Nat
      /\ \A k \in 1 .. durable : k \in DOMAIN dag /\ dag'[k] = dag[k]
  <2>1. dag' \in Logs /\ Extends(dag, dag')
    BY <1>4, <1>5, <1>6, LiveFields DEF LInv, After
  <2>2. Len(dag') \in Nat
    BY <2>1 DEF Logs
  <2> QED BY <1>2, <1>3, <2>1, <2>2 DEF Extends
<1>8. /\ history \in Histories /\ Recorded(history, cycle, now)
      /\ cached \in Histories /\ Recorded(cached, cycle, now)
      /\ acted = Never \/ (acted \in Nat /\ acted <= now /\ Witnessed)
  BY DEF HInv, Recorded
<1>11. \A h \in {history, cached} : \A i \in DOMAIN h :
          h[i].cycle \in Nat /\ h[i].at \in Nat /\ h[i].cycle <= cycle /\ h[i].at <= now
  BY <1>8, HistoryIs DEF Recorded
<1>9. /\ history' \in Histories /\ Sorted(history')
      /\ \A i \in DOMAIN history' :
            history'[i] = e \/ \E j \in DOMAIN history : history'[i] = history[j]
  <2>1. s.cycle = cycle + 1 /\ s.now = now' /\ s.cycle \in Nat /\ s.now \in Nat
    BY <1>2, <1>4
  <2>2. LET h == Record(s)
            x == [cycle |-> s.cycle, at |-> s.now]
        IN  /\ h \in Histories /\ Sorted(h)
            /\ \A i \in DOMAIN h : h[i] = x \/ \E j \in DOMAIN history : h[i] = history[j]
    <3>1. Sorted(history)
      BY <1>8 DEF Recorded
    <3>2. \A i \in DOMAIN history : history[i].at <= s.now
      BY <1>2, <1>11, <2>1
    <3> QED BY <1>8, <2>1, <3>1, <3>2, RecordIs
  <2> QED BY <1>5, <2>1, <2>2
<1>10. e.cycle = cycle' /\ e.at = now'
  BY <1>2
<1> HIDE DEF e
<1>12. ASSUME NEW h \in {history, cached}
       PROVE  Recorded(h, cycle', now')
  <2>1. h \in Histories
    BY <1>8
  <2>2. \A i \in DOMAIN h :
           h[i].cycle \in Nat /\ h[i].at \in Nat /\ h[i].cycle <= cycle /\ h[i].at <= now
    BY <1>11
  <2>3. Sorted(h)
    BY <1>8 DEF Recorded
  <2> QED BY <1>2, <2>1, <2>2, <2>3 DEF Recorded
<1>13. Recorded(history', cycle', now')
  <2>1. ASSUME NEW i \in DOMAIN history'
        PROVE  /\ history'[i].cycle <= cycle' /\ history'[i].at <= now'
    <3>1. CASE history'[i] = e
      BY <1>2, <1>10, <3>1
    <3>2. CASE \E j \in DOMAIN history : history'[i] = history[j]
      <4>1. PICK j \in DOMAIN history : history'[i] = history[j]
        BY <3>2
      <4>2. /\ history[j].cycle \in Nat /\ history[j].at \in Nat
            /\ history[j].cycle <= cycle /\ history[j].at <= now
        BY <1>11
      <4>3. history[j].cycle <= cycle' /\ history[j].cycle # cycle'
        BY <1>2, <4>2
      <4>4. history[j].at <= now'
        BY <1>2, <4>2
      <4> QED BY <4>1, <4>3, <4>4
    <3> QED BY <1>9, <3>1, <3>2
  <2> QED BY <1>9, <2>1 DEF Recorded
<1>14. ASSUME Witnessed, acted \in Nat, acted <= now
       PROVE  /\ Witnessed'
              /\ \E k \in 1 .. durable :
                    dag[k].kind = "act" /\ Dated(history', dag[k].cycle, acted)
  <2>1. PICK k \in 1 .. durable :
           /\ dag[k].kind = "act" /\ dag[k].cycle <= cycle
           /\ Dated(history, dag[k].cycle, acted) /\ Dated(cached, dag[k].cycle, acted)
    BY <1>14 DEF Witnessed
  <2>2. k \in 1 .. durable' /\ dag'[k] = dag[k] /\ dag[k].cycle \in Nat
    BY <1>2, <1>7, LogElements
  <2>3. dag[k].cycle <= cycle'
    BY <1>2, <2>1, <2>2
  <2>4. Dated(history', dag[k].cycle, acted)
    <3>1. ASSUME NEW i \in DOMAIN history'
          PROVE  /\ history'[i].cycle <= dag[k].cycle => history'[i].at <= acted
                 /\ history'[i].cycle > dag[k].cycle => acted <= history'[i].at
      <4>1. CASE history'[i] = e
        BY <1>2, <1>10, <1>14, <2>1, <2>2, <4>1
      <4>2. CASE \E j \in DOMAIN history : history'[i] = history[j]
        BY <2>1, <4>2 DEF Dated
      <4> QED BY <1>9, <4>1, <4>2
    <3> QED BY <3>1 DEF Dated
  <2>5. Dated(cached', dag[k].cycle, acted)
    BY <1>3, <2>1, <2>4
  <2> QED BY <1>3, <2>1, <2>2, <2>3, <2>4, <2>5 DEF Witnessed
<1>15. Recorded(cached', cycle', now')
  BY <1>3, <1>12, <1>13
<1>16. acted' = Never \/ (acted' \in Nat /\ acted' <= now' /\ Witnessed')
  BY <1>2, <1>3, <1>8, <1>14
<1> QED BY <1>8, <1>13, <1>14, <1>15, <1>16 DEF HInv

LEMMA StepH == OInv /\ HInv /\ [Next]_vars => HInv'
<1> SUFFICES ASSUME OInv, HInv, [Next]_vars PROVE HInv'
  OBVIOUS
<1>1. /\ LInv(Live, born) /\ Live \in Lives /\ durable \in Nat /\ durable <= Len(dag)
      /\ dag \in Logs /\ Len(dag) \in Nat /\ cycle \in Nat /\ now \in Nat
      /\ Live.dag = dag /\ Live.cycle = cycle
  BY LiveIs DEF OInv, LInv, Logs
<1>2. CASE Cycle
  BY <1>2, CycleH
<1>3. CASE Idle
  <2>1. cycle' \in Nat /\ cycle' >= cycle
    BY <1>1, <1>3, ObservatoryAssumption, SMTT(30) DEF Idle
  <2>2. UNCHANGED <<dag, now, history, cached, acted>> /\ durable' = Len(dag)
    BY <1>3 DEF Idle
  <2> QED BY <1>1, <2>1, <2>2, HistoryKeeps
<1>4. CASE Request
  <2>1. PICK kind \in {"raw_material", "ci", "act"} :
           /\ Become(Emit(Live, kind, "none")) /\ durable' = Len(dag')
           /\ acted' = (IF kind = "act" THEN now ELSE acted)
           /\ UNCHANGED <<cycle, now, history, cached>>
    BY <1>4 DEF Request
  <2> DEFINE t == Emit(Live, kind, "none")
  <2>2. /\ LInv(t, born) /\ Quiet(Live, t)
        /\ t.dag[Len(t.dag)] = Event(Live, kind, "none") /\ Len(t.dag) \in DOMAIN t.dag
    BY <1>1, EmitKeeps DEF Kinds, Tags
  <2>3. dag' = t.dag
    BY <2>1 DEF Become
  <2> HIDE DEF t
  <2>4. /\ Len(dag') \in Nat /\ durable <= Len(dag')
        /\ \A k \in 1 .. durable : dag'[k] = dag[k]
    BY <2>2, <2>3, LogGrows
  <2>5. CASE kind # "act"
    BY <1>1, <2>1, <2>4, <2>5, HistoryKeeps
  <2>6. CASE kind = "act"
    <3>1. Recorded(history, cycle, now) /\ Recorded(cached, cycle, now)
      BY DEF HInv
    <3>2. ASSUME NEW h, Recorded(h, cycle, now)
          PROVE  Dated(h, cycle, now)
      <4>1. \A i \in DOMAIN h : h[i].cycle \in Nat /\ h[i].at \in Nat
        BY <3>2, HistoryIs DEF Recorded
      <4> QED BY <1>1, <3>2, <4>1 DEF Recorded, Dated
    <3> DEFINE n == Len(dag')
    <3>3. n \in 1 .. durable' /\ dag'[n].kind = "act" /\ dag'[n].cycle = cycle
      <4>1. n \in 1 .. n
        BY <2>2, <2>3, <2>4, LogGrows DEF Logs
      <4> QED BY <1>1, <2>1, <2>2, <2>3, <2>6, <4>1 DEF Event
    <3>4. /\ acted' = now /\ cycle' = cycle /\ now' = now
          /\ history' = history /\ cached' = cached
      BY <2>1, <2>6
    <3>5. Dated(history', dag'[n].cycle, acted') /\ Dated(cached', dag'[n].cycle, acted')
      BY <3>1, <3>2, <3>3, <3>4
    <3>6. dag'[n].cycle <= cycle'
      BY <1>1, <3>3, <3>4
    <3> HIDE DEF n
    <3>7. Witnessed'
      BY <3>3, <3>5, <3>6 DEF Witnessed
    <3> QED BY <1>1, <3>1, <3>4, <3>7 DEF HInv
  <2> QED BY <2>5, <2>6
<1>5. CASE Breach
  <2> DEFINE t == Detect(Live, "C14")
  <2>1. LInv(t, born) /\ Quiet(Live, t)
    BY <1>1, DetectKeeps DEF Detectors
  <2>2. /\ dag' = t.dag /\ durable' = Len(dag')
        /\ UNCHANGED <<cycle, now, history, cached, acted>>
    BY <1>5 DEF Breach, Become
  <2> HIDE DEF t
  <2>3. /\ Len(dag') \in Nat /\ durable <= Len(dag')
        /\ \A k \in 1 .. durable : dag'[k] = dag[k]
    BY <2>1, <2>2, LogGrows
  <2> QED BY <1>1, <2>2, <2>3, HistoryKeeps
<1>6. CASE Query
  <2>1. PICK weak \in Verdicts :
           /\ Become(Burst(Weaken(Live, weak)))
           /\ UNCHANGED <<cycle, now, durable, history, cached, acted>>
    BY <1>6 DEF Query
  <2> DEFINE t == Burst(Weaken(Live, weak))
  <2>2. LInv(t, born) /\ Quiet(Live, t)
    BY <1>1, QueryKeeps
  <2>3. dag' = t.dag
    BY <2>1 DEF Become
  <2> HIDE DEF t
  <2>4. \A k \in 1 .. durable : dag'[k] = dag[k]
    BY <2>2, <2>3, LogGrows
  <2> QED BY <1>1, <2>1, <2>4, HistoryKeeps
<1>7. CASE Restart
  <2>1. /\ dag' = SubSeq(dag, 1, durable) /\ history' = cached
        /\ UNCHANGED <<cycle, now, durable, cached, acted>>
    BY <1>7 DEF Restart
  <2>2. \A k \in 1 .. durable : dag'[k] = dag[k]
    BY <1>1, <2>1 DEF Logs
  <2> QED BY <1>1, <2>1, <2>2, HistoryKeeps
<1>8. CASE UNCHANGED vars
  <2>1. UNCHANGED <<dag, cycle, now, durable, history, cached, acted>>
    BY <1>8 DEF vars
  <2> QED BY <1>1, <2>1, HistoryKeeps
<1>9. CASE Pause
  <2>1. now' \in Nat /\ now' >= now
    <3>1. now' \in Nat /\ now <= now'
      BY <1>9, PauseKeeps
    <3> QED BY <1>1, <3>1
  <2>2. UNCHANGED <<dag, cycle, durable, history, cached, acted>>
    BY <1>9 DEF Pause
  <2> QED BY <1>1, <2>1, <2>2, HistoryKeeps
<1> QED BY <1>2, <1>3, <1>4, <1>5, <1>6, <1>7, <1>8, <1>9 DEF Next

LEMMA InitH == Init => HInv
<1> SUFFICES ASSUME Init PROVE HInv
  OBVIOUS
<1>1. history = <<>> /\ cached = <<>> /\ acted = Never
  BY DEF Init
<1>2. <<>> \in Histories /\ DOMAIN <<>> = {}
  BY DEF Histories
<1> QED BY <1>1, <1>2 DEF HInv, Recorded, Sorted

\* When C75 is raised, the last act of the cultivator is older than the window
\* or in the gap of the recorded history at its edge: no snapshot that the
\* history has was taken in the window before the act.  For every window, cap
\* of the history, cadence of snapshot.cb, pace of the cycles and pauses
\* between them (apply_c75_cultivator_fiduciary_strain, c75_window_start_cycle).
THEOREM AccusedRightly == Spec => AccusedOnlyOfNeglect
<1> DEFINE Grown == Cardinality(Accusations(dag')) > Cardinality(Accusations(dag))
           Excused == \/ acted = Never \/ acted < now' - StrainWindow
                      \/ InTheGap(history', now' - StrainWindow, acted)
<1>1. ASSUME OInv, HInv, HInv', [Next]_vars, Grown
      PROVE  Excused
  <2>1. /\ LInv(Live, born) /\ Live \in Lives /\ durable \in Nat /\ durable <= Len(dag)
        /\ dag \in Logs /\ Len(dag) \in Nat /\ DOMAIN dag = 1 .. Len(dag)
        /\ cycle \in Nat /\ now \in Nat /\ Live.dag = dag
    BY <1>1, LiveIs DEF OInv, LInv, Logs
  <2>2. IsFiniteSet(Accusations(dag)) /\ Cardinality(Accusations(dag)) \in Nat
    <3>1. Accusations(dag) \subseteq 1 .. Len(dag)
      BY <2>1 DEF Accusations
    <3>2. IsFiniteSet(1 .. Len(dag))
      BY <2>1, FS_Interval
    <3>3. IsFiniteSet(Accusations(dag))
      BY <3>1, <3>2, FS_Subset
    <3> QED BY <3>3, FS_CardinalityType
  <2>3. ~(Accusations(dag') \subseteq Accusations(dag))
    <3>1. SUFFICES ASSUME Accusations(dag') \subseteq Accusations(dag) PROVE FALSE
      OBVIOUS
    <3>2. /\ IsFiniteSet(Accusations(dag'))
          /\ Cardinality(Accusations(dag')) <= Cardinality(Accusations(dag))
      BY <2>2, <3>1, FS_Subset
    <3>3. Cardinality(Accusations(dag')) \in Nat
      BY <3>2, FS_CardinalityType
    <3> QED BY <1>1, <2>2, <3>2, <3>3
  <2>4. CASE Cycle
    <3>1. PICK w \in Weather :
             /\ now' = now + w.days
             /\ Become(Observe([Later(w) EXCEPT !.cycle = @ + 1], w))
             /\ history' = Record([Later(w) EXCEPT !.cycle = @ + 1])
      BY <2>4 DEF Cycle
    <3> DEFINE s == [Later(w) EXCEPT !.cycle = @ + 1]
    <3>2. /\ LInv(s, born) /\ s \in Lives /\ s.dag = dag
          /\ s.cycle = cycle + 1 /\ s.now = now'
      BY <1>1, <3>1, CycleStarts
    <3>3. dag' = Observe(s, w).dag /\ history' = Record(s)
      BY <3>1 DEF Become
    <3> HIDE DEF s
    <3>4. ~Calm(s, Observe(s, w))
      BY <2>3, <3>2, <3>3 DEF Calm
    <3>5. PICK u \in Lives : /\ u.cycle = s.cycle /\ u.now = s.now /\ Extends(s.dag, u.dag)
                             /\ Strain(u, Record(s))
      BY <3>2, <3>4, OnlyStrainAccuses
    <3>6. s.cycle \in Nat /\ s.now \in Nat
      BY <3>2, LiveFields
    <3>7. /\ history' \in Histories /\ Sorted(history')
          /\ history' # <<>> => history'[Len(history')].at = u.now
      <4>1. history \in Histories /\ Sorted(history)
        BY <1>1 DEF HInv, Recorded
      <4>5. Sorted(history')
        BY <1>1 DEF HInv, Recorded
      <4>6. \A i \in DOMAIN history : history[i].at <= s.now
        <5>1. w.days \in Nat /\ s.now = now + w.days
          BY <3>1, <3>2, ObservatoryAssumption
        <5>2. \A i \in DOMAIN history : history[i].at \in Nat /\ history[i].at <= now
          BY <1>1, <4>1, HistoryIs DEF HInv, Recorded
        <5> QED BY <2>1, <5>1, <5>2
      <4> DEFINE h == Record(s)
                 e == [cycle |-> s.cycle, at |-> s.now]
      <4>2. h \in Histories /\ (h # <<>> => h[Len(h)] = e)
        BY <3>6, <4>1, <4>6, RecordIs
      <4>3. e.at = s.now
        OBVIOUS
      <4> HIDE DEF e, h
      <4>4. history' = h
        BY <3>3 DEF h
      <4> QED BY <3>5, <4>2, <4>3, <4>4, <4>5
    <3>8. SUFFICES ASSUME acted # Never PROVE Excused
      OBVIOUS
    <3>9. acted \in Nat
      BY <1>1, <3>8 DEF HInv
    <3>10. PICK k \in 1 .. durable : /\ dag[k].kind = "act"
                                    /\ Dated(history', dag[k].cycle, acted)
      BY <1>1, <2>4, <3>8, CycleH
    <3>11. k \in DOMAIN u.dag /\ u.dag[k] = dag[k]
      BY <2>1, <3>2, <3>5 DEF Extends
    <3>12. Strain(u, history')
      BY <3>3, <3>5
    <3>13. Dated(history', u.dag[k].cycle, acted) /\ u.dag[k].kind = "act"
      BY <3>10, <3>11
    <3> DEFINE h == history'
    <3>14. h \in Histories /\ Strain(u, h) /\ Dated(h, u.dag[k].cycle, acted)
           /\ (h # <<>> => h[Len(h)].at = u.now) /\ Sorted(h)
      BY <3>7, <3>12, <3>13
    <3> HIDE DEF h
    <3>15. acted < u.now - StrainWindow \/ InTheGap(h, u.now - StrainWindow, acted)
      BY <3>9, <3>11, <3>13, <3>14, Neglected
    <3>16. u.now = now'
      BY <3>2, <3>5
    <3> QED BY <3>15, <3>16 DEF h
  <2>5. CASE Idle \/ UNCHANGED vars
    BY <2>3, <2>5 DEF Idle, vars
  <2>6. CASE Request
    <3>1. PICK kind \in {"raw_material", "ci", "act"} : Become(Emit(Live, kind, "none"))
      BY <2>6 DEF Request
    <3>2. Calm(Live, Emit(Live, kind, "none"))
      BY <2>1, CalmEmit DEF Kinds, Tags
    <3> QED BY <2>1, <2>3, <3>1, <3>2 DEF Become, Calm
  <2>7. CASE Breach
    <3>1. Calm(Live, Detect(Live, "C14"))
      BY <2>1, CalmDetect DEF Detectors
    <3>2. dag' = Detect(Live, "C14").dag
      BY <2>7 DEF Breach, Become
    <3> QED BY <2>1, <2>3, <3>1, <3>2 DEF Calm
  <2>8. CASE Query
    <3>1. PICK weak \in Verdicts : Become(Burst(Weaken(Live, weak)))
      BY <2>8 DEF Query
    <3>2. Calm(Live, Burst(Weaken(Live, weak)))
      BY <2>1, CalmQuery
    <3>3. dag' = Burst(Weaken(Live, weak)).dag
      BY <3>1 DEF Become
    <3> QED BY <2>1, <2>3, <3>2, <3>3 DEF Calm
  <2>10. CASE Pause
    BY <2>3, <2>10 DEF Pause
  <2>9. CASE Restart
    <3>1. dag' = SubSeq(dag, 1, durable)
      BY <2>9 DEF Restart
    <3>2. DOMAIN dag' = 1 .. durable /\ \A i \in 1 .. durable : dag'[i] = dag[i]
      BY <2>1, <3>1 DEF Logs
    <3>3. Accusations(dag') \subseteq Accusations(dag)
      BY <2>1, <3>2 DEF Accusations
    <3> QED BY <2>3, <3>3
  <2> QED BY <1>1, <2>4, <2>5, <2>6, <2>7, <2>8, <2>9, <2>10 DEF Next
<1>2. OInv /\ HInv /\ HInv' /\ [Next]_vars
         => [Grown => Excused]_vars
  BY <1>1
<1>3. Spec => [](OInv /\ HInv)
  BY InitO, StepO, InitH, StepH, PTL DEF Spec
<1> QED BY <1>2, <1>3, PTL DEF Spec, AccusedOnlyOfNeglect
=============================================================================
