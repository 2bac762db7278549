-------------------------- MODULE AtomReportProofs --------------------------
(***************************************************************************)
(* What an app reports, for any number of replicas and any bounds: while   *)
(* no replica fails, an app at rest that is reported as running runs the   *)
(* version the atom names.  The argument is that as long as it does not,   *)
(* somebody is about to do something about it (Cared): a notification that *)
(* makes the handler apply or roll back is on its way, or the handler is.  *)
(***************************************************************************)
EXTENDS AtomProofs

(* The replicas run undisturbed, kubectl succeeds, no release waits for a  *)
(* dependency and no reader refreshes the release cache.                   *)
Healthy == Env \subseteq {"overlap", "cancel"}

-----------------------------------------------------------------------------
(* What is in a queue q of snapshots, delivered after one with status s. *)

Last(q)      == q[Len(q)]
Latest(q, s) == IF q = <<>> THEN s ELSE Last(q).status

(* A notification that makes the handler apply the current version ...     *)
Due(a)     == a.status = "Pending" /\ a.cur # NoVersion
DueIn(q)   == \E i \in DOMAIN q : Due(q[i])

(* ... and one that makes it roll back.                                    *)
Before(q, s, i) == IF i = 1 THEN s ELSE q[i - 1].status
NewsIn(q, s)    == \E i \in DOMAIN q :
                     /\ q[i].status \in Failing
                     /\ q[i].status # Before(q, s, i)

(* Between two promotes a previous version is only ever cleared.           *)
Clearing(q) ==
  \A i, j \in DOMAIN q :
    i < j /\ (\A m \in (i + 1)..j : ~Due(q[m]))
      => q[j].prev \in {NoVersion, q[i].prev}

(* No other version than v is left to go back to.                          *)
OnlyPrev(q, v) == \A i \in DOMAIN q : q[i].prev \in {NoVersion, v}

LEMMA AppendFacts ==
  ASSUME NEW q \in Seq(Snapshot), NEW a \in Snapshot
  PROVE  /\ Append(q, a) \in Seq(Snapshot) /\ Len(q) \in Nat
         /\ DOMAIN q = 1..Len(q)
         /\ DOMAIN Append(q, a) = 1..(Len(q) + 1)
         /\ Len(Append(q, a)) = Len(q) + 1
         /\ \A i \in 1..Len(q) : Append(q, a)[i] = q[i]
         /\ Append(q, a)[Len(q) + 1] = a
         /\ Append(q, a) # <<>> /\ Last(Append(q, a)) = a
<1>1. /\ Append(q, a) \in Seq(Snapshot) /\ Len(q) \in Nat
      /\ Len(Append(q, a)) = Len(q) + 1
      /\ \A i \in 1..Len(q) : Append(q, a)[i] = q[i]
      /\ Append(q, a)[Len(q) + 1] = a
  BY AppendProperties, LenProperties
<1>2. DOMAIN q = 1..Len(q) /\ DOMAIN Append(q, a) = 1..(Len(q) + 1)
  BY <1>1, LenProperties
<1>3. Append(q, a) # <<>> BY <1>1, EmptySeq
<1>4. QED BY <1>1, <1>2, <1>3 DEF Last

LEMMA EmptyFacts == \A q : q = <<>> => DOMAIN q = {}
<1>1. <<>> \in Seq(Snapshot) /\ Len(<<>>) = 0 BY EmptySeq
<1>2. DOMAIN <<>> = 1..0 BY <1>1, LenProperties
<1>3. QED BY <1>2

LEMMA AppendDue ==
  ASSUME NEW q \in Seq(Snapshot), NEW a \in Snapshot
  PROVE  DueIn(Append(q, a)) <=> DueIn(q) \/ Due(a)
BY AppendFacts DEF DueIn

LEMMA AppendNews ==
  ASSUME NEW q \in Seq(Snapshot), NEW a \in Snapshot, NEW s,
         NewsIn(q, s) \/ (a.status \in Failing /\ a.status # Latest(q, s))
  PROVE  NewsIn(Append(q, a), s)
<1>1. CASE NewsIn(q, s)
  <2>1. PICK i \in DOMAIN q :
          q[i].status \in Failing /\ q[i].status # Before(q, s, i)
    BY <1>1 DEF NewsIn
  <2>2. i \in DOMAIN Append(q, a) /\ Append(q, a)[i] = q[i]
    BY AppendFacts
  <2>3. Before(Append(q, a), s, i) = Before(q, s, i)
    BY AppendFacts DEF Before
  <2>4. QED BY <2>1, <2>2, <2>3 DEF NewsIn
<1>2. CASE a.status \in Failing /\ a.status # Latest(q, s)
  <2> DEFINE i == Len(q) + 1
  <2>1. i \in DOMAIN Append(q, a) /\ Append(q, a)[i] = a
    BY AppendFacts
  <2>2. CASE q = <<>>
    <3>1. Len(q) = 0 BY <2>2, EmptySeq
    <3>2. Before(Append(q, a), s, i) = s BY <3>1 DEF Before
    <3>3. QED BY <1>2, <2>1, <2>2, <3>2 DEF NewsIn, Latest
  <2>3. CASE q # <<>>
    <3>1. Len(q) > 0 /\ Len(q) \in 1..Len(q) BY <2>3, AppendFacts, EmptySeq
    <3>2. Before(Append(q, a), s, i) = Last(q).status
      BY <3>1, AppendFacts DEF Before, Last
    <3>3. QED BY <1>2, <2>1, <2>3, <3>2 DEF NewsIn, Latest
  <2>4. QED BY <2>2, <2>3
<1>3. QED BY <1>1, <1>2

LEMMA AppendPrev ==
  ASSUME NEW q \in Seq(Snapshot), NEW a \in Snapshot, NEW v,
         OnlyPrev(q, v), a.prev \in {NoVersion, v}
  PROVE  OnlyPrev(Append(q, a), v)
BY AppendFacts DEF OnlyPrev

LEMMA AppendClearing ==
  ASSUME NEW q \in Seq(Snapshot), NEW a \in Snapshot, Clearing(q),
         q = <<>> \/ Due(a) \/ a.prev \in {NoVersion, Last(q).prev}
  PROVE  Clearing(Append(q, a))
<1> DEFINE r == Append(q, a)
<1> SUFFICES ASSUME NEW i \in DOMAIN r, NEW j \in DOMAIN r, i < j,
                    \A m \in (i + 1)..j : ~Due(r[m])
             PROVE  r[j].prev \in {NoVersion, r[i].prev}
  BY DEF Clearing
<1>1. /\ Len(q) \in Nat /\ DOMAIN q = 1..Len(q)
      /\ DOMAIN r = 1..(Len(q) + 1) /\ r[Len(q) + 1] = a
      /\ \A m \in 1..Len(q) : r[m] = q[m]
  BY AppendFacts
<1> HIDE DEF r
<1>2. i \in DOMAIN q /\ r[i] = q[i] BY <1>1
<1>3. \A m \in (i + 1)..j : m \in 1..Len(q) => ~Due(q[m])
  BY <1>1
<1>4. CASE j \in 1..Len(q)
  BY <1>1, <1>2, <1>3, <1>4 DEF Clearing
<1>5. CASE j = Len(q) + 1
  <2>1. ~Due(a) BY <1>1, <1>5
  <2>2. q # <<>> BY <1>1, <1>2, EmptySeq
  <2>3. a.prev \in {NoVersion, Last(q).prev} BY <2>1, <2>2
  <2>4. Last(q).prev \in {NoVersion, q[i].prev}
    <3>1. CASE i = Len(q) BY <3>1 DEF Last
    <3>2. CASE i < Len(q)
      <4>1. \A m \in (i + 1)..Len(q) : ~Due(q[m]) BY <1>1, <1>3, <1>5
      <4>2. Len(q) \in DOMAIN q BY <1>1, <3>2
      <4>3. QED BY <1>2, <3>2, <4>1, <4>2 DEF Clearing, Last
    <3>3. QED BY <1>1, <1>2, <3>1, <3>2
  <2>5. QED BY <1>1, <1>2, <1>5, <2>3, <2>4
<1>6. QED BY <1>1, <1>4, <1>5

LEMMA TailFacts ==
  ASSUME NEW q \in Seq(Snapshot), q # <<>>
  PROVE  /\ Tail(q) \in Seq(Snapshot) /\ Head(q) \in Snapshot
         /\ Head(q) = q[1] /\ Len(q) \in Nat \ {0}
         /\ DOMAIN q = 1..Len(q) /\ DOMAIN Tail(q) = 1..(Len(q) - 1)
         /\ \A i \in 1..(Len(q) - 1) : Tail(q)[i] = q[i + 1]
         /\ Tail(q) = <<>> => Last(q) = Head(q)
         /\ Tail(q) # <<>> => Last(Tail(q)) = Last(q)
<1>1. /\ Tail(q) \in Seq(Snapshot) /\ Head(q) \in Snapshot
      /\ Len(Tail(q)) = Len(q) - 1
      /\ \A i \in 1..Len(Tail(q)) : Tail(q)[i] = q[i + 1]
  BY HeadTailProperties
<1>2. /\ Head(q) = q[1] /\ Len(q) \in Nat \ {0}
      /\ DOMAIN q = 1..Len(q) /\ DOMAIN Tail(q) = 1..(Len(q) - 1)
  <2>1. Head(q) = q[1] OBVIOUS
  <2>2. Len(q) \in Nat /\ DOMAIN q = 1..Len(q) BY LenProperties
  <2>3. Len(q) # 0 BY EmptySeq
  <2>4. DOMAIN Tail(q) = 1..Len(Tail(q)) BY <1>1, LenProperties
  <2>5. QED BY <1>1, <2>1, <2>2, <2>3, <2>4
<1>3. Tail(q) = <<>> => Last(q) = Head(q)
  <2> DEFINE r == Tail(q)
             n == Len(q)
  <2>1. Len(r) = n - 1 /\ n \in Nat BY <1>1, <1>2
  <2> HIDE DEF r, n
  <2>2. r = <<>> => n = 1
    <3>1. Len(<<>>) = 0 BY EmptySeq
    <3>2. QED BY <2>1, <3>1
  <2>3. QED BY <1>2, <2>2 DEF r, n, Last
<1>4. Tail(q) # <<>> => Last(Tail(q)) = Last(q)
  <2>1. Tail(q) # <<>> => Len(q) - 1 \in 1..(Len(q) - 1)
    BY <1>1, <1>2, EmptySeq
  <2>2. QED BY <1>1, <1>2, <2>1 DEF Last
<1>5. QED BY <1>1, <1>2, <1>3, <1>4

LEMMA TailDue ==
  ASSUME NEW q \in Seq(Snapshot), q # <<>>
  PROVE  /\ DueIn(Tail(q)) => DueIn(q)
         /\ DueIn(q) /\ ~Due(Head(q)) => DueIn(Tail(q))
<1>1. ASSUME NEW i \in DOMAIN q, i # 1, Due(q[i]) PROVE DueIn(Tail(q))
  <2>1. i - 1 \in DOMAIN Tail(q) /\ Tail(q)[i - 1] = q[i]
    BY <1>1, TailFacts
  <2>2. QED BY <1>1, <2>1 DEF DueIn
<1>2. DueIn(Tail(q)) => DueIn(q)
  BY TailFacts DEF DueIn
<1>3. QED BY <1>1, <1>2, TailFacts DEF DueIn

LEMMA TailNews ==
  ASSUME NEW q \in Seq(Snapshot), q # <<>>, NEW s, NewsIn(q, s),
         Head(q).status \in Failing => Head(q).status = s
  PROVE  NewsIn(Tail(q), Head(q).status)
<1>1. PICK i \in DOMAIN q :
        q[i].status \in Failing /\ q[i].status # Before(q, s, i)
  BY DEF NewsIn
<1>2. i # 1 BY <1>1, TailFacts DEF Before
<1> DEFINE j == i - 1
<1>3. j \in DOMAIN Tail(q) /\ Tail(q)[j] = q[i]
  BY <1>2, TailFacts
<1>4. Before(Tail(q), Head(q).status, j) = Before(q, s, i)
  <2>1. CASE j = 1 BY <1>2, <2>1, TailFacts DEF Before
  <2>2. CASE j # 1
    <3>1. j - 1 \in 1..(Len(q) - 1) BY <1>2, <2>2, TailFacts
    <3>2. Tail(q)[j - 1] = q[i - 1] BY <3>1, TailFacts
    <3>3. QED BY <1>2, <2>2, <3>2 DEF Before
  <2>3. QED BY <2>1, <2>2
<1>5. QED BY <1>1, <1>3, <1>4 DEF NewsIn

LEMMA TailPrev ==
  ASSUME NEW q \in Seq(Snapshot), q # <<>>
  PROVE  /\ \A v : OnlyPrev(q, v) => OnlyPrev(Tail(q), v)
                                     /\ Head(q).prev \in {NoVersion, v}
         /\ Clearing(q) => Clearing(Tail(q))
         /\ Clearing(q) /\ ~DueIn(Tail(q)) => OnlyPrev(Tail(q), Head(q).prev)
<1>1. \A v : OnlyPrev(q, v) => OnlyPrev(Tail(q), v)
                               /\ Head(q).prev \in {NoVersion, v}
  BY TailFacts DEF OnlyPrev
<1>2. ASSUME Clearing(q) PROVE Clearing(Tail(q))
  <2> SUFFICES ASSUME NEW i \in DOMAIN Tail(q), NEW j \in DOMAIN Tail(q),
                      i < j, \A m \in (i + 1)..j : ~Due(Tail(q)[m])
               PROVE  Tail(q)[j].prev \in {NoVersion, Tail(q)[i].prev}
    BY DEF Clearing
  <2>1. /\ i + 1 \in DOMAIN q /\ j + 1 \in DOMAIN q /\ i + 1 < j + 1
        /\ Tail(q)[i] = q[i + 1] /\ Tail(q)[j] = q[j + 1]
    BY TailFacts
  <2>2. ASSUME NEW m \in ((i + 1) + 1)..(j + 1) PROVE ~Due(q[m])
    <3>1. /\ m - 1 \in (i + 1)..j /\ m - 1 \in 1..(Len(q) - 1)
          /\ (m - 1) + 1 = m
      BY TailFacts
    <3>2. Tail(q)[m - 1] = q[m] BY <3>1, TailFacts
    <3>3. QED BY <3>1, <3>2
  <2>3. QED BY <1>2, <2>1, <2>2 DEF Clearing
<1>3. ASSUME Clearing(q), ~DueIn(Tail(q)) PROVE OnlyPrev(Tail(q), Head(q).prev)
  <2> SUFFICES ASSUME NEW j \in DOMAIN Tail(q)
               PROVE  Tail(q)[j].prev \in {NoVersion, Head(q).prev}
    BY DEF OnlyPrev
  <2>1. 1 \in DOMAIN q /\ j + 1 \in DOMAIN q /\ 1 < j + 1
        /\ Tail(q)[j] = q[j + 1] /\ Head(q) = q[1]
    BY TailFacts
  <2>2. ASSUME NEW m \in (1 + 1)..(j + 1) PROVE ~Due(q[m])
    <3>1. /\ m - 1 \in 1..(Len(q) - 1) /\ (m - 1) + 1 = m
          /\ m - 1 \in DOMAIN Tail(q)
      BY TailFacts
    <3>2. Tail(q)[m - 1] = q[m] BY <3>1, TailFacts
    <3>3. QED BY <1>3, <3>1, <3>2 DEF DueIn
  <2>3. QED BY <1>3, <2>1, <2>2 DEF Clearing
<1>4. QED BY <1>1, <1>2, <1>3

(* Time that passes makes nothing else of a queue.                         *)
Aged(q) == [i \in DOMAIN q |-> Expire(q[i])]

LEMMA ExpireFacts ==
  ASSUME NEW a \in Snapshot
  PROVE  /\ Expire(a) \in Snapshot
         /\ Expire(a).status = a.status /\ Expire(a).cur = a.cur
         /\ Expire(a).prev = a.prev /\ Expire(a).deps = a.deps
BY DEF Expire, Snapshot

LEMMA AgedFacts ==
  ASSUME NEW q \in Seq(Snapshot)
  PROVE  /\ Aged(q) \in Seq(Snapshot) /\ Len(Aged(q)) = Len(q)
         /\ DOMAIN Aged(q) = DOMAIN q
         /\ \A i \in DOMAIN q :
              /\ Aged(q)[i] = Expire(q[i])
              /\ Aged(q)[i].status = q[i].status
              /\ Aged(q)[i].cur = q[i].cur /\ Aged(q)[i].prev = q[i].prev
              /\ Aged(q)[i].deps = q[i].deps
         /\ Aged(q) = <<>> <=> q = <<>>
<1>1. Len(q) \in Nat /\ DOMAIN q = 1..Len(q) BY LenProperties
<1>2. \A i \in DOMAIN q : q[i] \in Snapshot BY <1>1, ElementOfSeq
<1>3. \A i \in 1..Len(q) : Expire(q[i]) \in Snapshot
  BY <1>1, <1>2, ExpireFacts
<1>4. Aged(q) = [i \in 1..Len(q) |-> Expire(q[i])] BY <1>1 DEF Aged
<1>5. Aged(q) \in Seq(Snapshot) /\ Len(Aged(q)) = Len(q)
  BY <1>1, <1>3, <1>4, SeqDef, LenProperties
<1>6. \A i \in DOMAIN q : Aged(q)[i] = Expire(q[i]) BY DEF Aged
<1>7. Aged(q) = <<>> <=> q = <<>> BY <1>1, <1>5, EmptySeq
<1>8. QED BY <1>1, <1>2, <1>5, <1>6, <1>7, ExpireFacts DEF Aged

LEMMA AgedSame ==
  ASSUME NEW q \in Seq(Snapshot)
  PROVE  /\ DueIn(Aged(q)) <=> DueIn(q)
         /\ \A s : NewsIn(q, s) => NewsIn(Aged(q), s)
         /\ \A v : OnlyPrev(q, v) => OnlyPrev(Aged(q), v)
         /\ Clearing(q) => Clearing(Aged(q))
<1>1. DueIn(Aged(q)) <=> DueIn(q) BY AgedFacts DEF DueIn, Due
<1>2. \A v : OnlyPrev(q, v) => OnlyPrev(Aged(q), v)
  BY AgedFacts DEF OnlyPrev
<1>3. ASSUME NEW s, NewsIn(q, s) PROVE NewsIn(Aged(q), s)
  <2>1. PICK i \in DOMAIN q :
          q[i].status \in Failing /\ q[i].status # Before(q, s, i)
    BY <1>3 DEF NewsIn
  <2>2. i # 1 => i - 1 \in DOMAIN q BY LenProperties
  <2>3. Before(Aged(q), s, i) = Before(q, s, i)
    BY <2>2, AgedFacts DEF Before
  <2>4. QED BY <2>1, <2>3, AgedFacts DEF NewsIn
<1>4. ASSUME Clearing(q) PROVE Clearing(Aged(q))
  <2>1. \A i, j \in DOMAIN q : \A m \in (i + 1)..j : m \in DOMAIN q
    BY LenProperties
  <2>2. \A m \in DOMAIN q : Due(Aged(q)[m]) <=> Due(q[m])
    BY AgedFacts DEF Due
  <2>3. QED BY <1>4, <2>1, <2>2, AgedFacts DEF Clearing
<1>5. QED BY <1>1, <1>2, <1>3, <1>4

-----------------------------------------------------------------------------
(* The invariant. *)

Waits(c) == DueIn(queue[c])
News(c)  == NewsIn(queue[c], seen[c])

OnlyBackTo(c, v) == atom.prev \in {NoVersion, v} /\ OnlyPrev(queue[c], v)

(* The queue of the replica that leads ends in the stored atom.            *)
Follows(c) ==
  IF queue[c] = <<>> THEN seen[c] = atom.status ELSE Last(queue[c]) = atom

(* A handler that applies what is current and has not recorded it yet, and *)
(* one that does so for a rollback.                                        *)
Applying(c) ==
  \/ ctl[c].step \in {"start", "template"} /\ ctl[c].path = "apply"
  \/ ctl[c].step = "status" /\ ctl[c].status \in {"Updating", "Error"}

RollingBack(c) ==
  \/ ctl[c].step \in {"start", "template"} /\ ctl[c].path = "rollback"
  \/ ctl[c].step = "status" /\ ctl[c].status = "Rollback"

(* Unless a promote is waiting, a rollback leaves no other version to go   *)
(* back to than the one it makes current.                                  *)
BackInv(c) ==
  ~Waits(c) =>
    /\ ctl[c].step = "rollback" => OnlyBackTo(c, ctl[c].ver)
    /\ RollingBack(c) => OnlyBackTo(c, atom.cur)
    /\ atom.status = "Rollback" /\ ~Applying(c) =>
         /\ OnlyBackTo(c, atom.cur)
         /\ ctl[c].step = "rollback" => ctl[c].ver \in {NoVersion, atom.cur}

(* What a handler holds is current unless it was overtaken or cancelled.   *)
HoldInv(c) ==
  /\ ctl[c].got = "stale" => Waits(c) \/ atom.status \in {"Cancelled", "Failure"}
  /\ ctl[c].step = "template" =>
       /\ ctl[c].got = "no" /\ ctl[c].ver # NoVersion
       /\ Waits(c) \/ ctl[c].ver = atom.cur

Leading(c) == Follows(c) /\ Clearing(queue[c]) /\ BackInv(c) /\ HoldInv(c)
Resting(c) == ctl[c] = Idle /\ queue[c] = <<>>

(* At most one replica leads; nobody but it and the users writes.          *)
LeadInv ==
  /\ \A c, d \in Controllers : leader[c] /\ leader[d] => c = d
  /\ \A c \in Controllers : IF leader[c] THEN Leading(c) ELSE Resting(c)
  /\ (\A c \in Controllers : ~leader[c]) => atom.status \in {"", "Pending"}
  /\ ~atom.deps /\ \A c \in Controllers : \A i \in DOMAIN queue[c] :
                     ~queue[c][i].deps
  /\ reader = NoVersion /\ resolver = NoVersion

(* A handler on its way to apply the current version, ...                  *)
OnItsWay(c) ==
  /\ ctl[c].got # "stale"
  /\ \/ ctl[c].step = "template"
     \/ ctl[c].step = "start" /\ ctl[c].path = "apply"
     \/ ctl[c].step \in {"rollback", "start"} /\ atom.status # "Rollback"

(* ... one that was cancelled, ...                                         *)
Overtaken(c) ==
  /\ ctl[c].got = "stale" /\ ctl[c].step \in {"rollback", "start"}
  /\ News(c) \/ (ctl[c].path = "apply" /\ atom.status = "Failure")

(* ... one that records that, or an outcome with more news behind, ...     *)
Recording(c) ==
  /\ ctl[c].step = "status" /\ ctl[c].status # "Rollback"
  /\ atom.status # "Rollback"
  /\ \/ News(c)
     \/ /\ ctl[c].status = "Error" /\ ctl[c].got # "stale"
        /\ atom.status = "Failure"

(* ... and one that will be told to roll back.                             *)
ToRollBack(c) ==
  ctl[c].step = "idle" /\ News(c) /\ atom.status # "Rollback"

Cares(c) == Waits(c) \/ OnItsWay(c) \/ Overtaken(c) \/ Recording(c)
              \/ ToRollBack(c)

Missing == atom.cur # NoVersion /\ live # atom.cur

(* As long as the cluster does not run the current version, somebody is    *)
(* about to do something about it.                                         *)
Cared ==
  Missing =>
    \/ atom.status = "Pending" /\ AtRest
    \/ \E c \in Controllers : leader[c] /\ Cares(c)

-----------------------------------------------------------------------------
(* Values a handler can have. *)

LEMMA HandlerFields ==
  /\ Idle.step = "idle" /\ Idle.got = "no"
  /\ \A s : /\ WriteStatus(s).step = "status" /\ WriteStatus(s).status = s
            /\ WriteStatus(s).got = "no"
  /\ \A p : /\ StartApply(p).step = "start" /\ StartApply(p).path = p
            /\ StartApply(p).got = "no"
  /\ \A v : /\ RollBackTo(v).step = "rollback" /\ RollBackTo(v).ver = v
            /\ RollBackTo(v).path = "rollback" /\ RollBackTo(v).got = "no"
BY DEF Idle, WriteStatus, StartApply, RollBackTo

LEMMA OutcomeFields ==
  ASSUME NEW p \in {"apply", "rollback"}
  PROVE  /\ Succeeded(p).step = "status" /\ Succeeded(p).got = "no"
         /\ Succeeded(p).status = IF p = "apply" THEN "Updating" ELSE "Rollback"
         /\ Failed(p).step = "status" /\ Failed(p).got = "no"
         /\ Failed(p).status = IF p = "apply" THEN "Error" ELSE "Failure"
BY HandlerFields DEF Succeeded, Failed

LEMMA VerdictFields ==
  ASSUME NEW a, NEW first, NEW second \in {"ok", "wait"}
  PROVE  \/ Verdict(a, first, second) = Idle
         \/ \E s \in {"Deadline", "Failure", "Running", "Reverted"} :
              Verdict(a, first, second) = WriteStatus(s)
<1>1. CASE Expired(a, first)
  <2>1. Verdict(a, first, second)
          = WriteStatus(IF a.status = "Updating" THEN "Deadline" ELSE "Failure")
    BY <1>1 DEF Verdict
  <2>2. QED BY <2>1
<1>2. CASE ~Expired(a, first) /\ second = "ok"
  <2>1. Verdict(a, first, second)
          = WriteStatus(IF a.status = "Updating" THEN "Running" ELSE "Reverted")
    BY <1>2 DEF Verdict
  <2>2. QED BY <2>1
<1>3. CASE ~Expired(a, first) /\ second = "wait"
  BY <1>3 DEF Verdict
<1>4. QED BY <1>1, <1>2, <1>3

(* The replica a handler runs on leads, and the others rest.               *)
LEMMA HandlerLeads ==
  ASSUME LeadInv, NEW c \in Controllers, Handle(c)
  PROVE  /\ leader[c] /\ Leading(c) /\ ~AtRest
         /\ \A d \in Controllers \ {c} : ~leader[d] /\ Resting(d)
         /\ ~atom.deps /\ \A i \in DOMAIN queue[c] : ~queue[c][i].deps
         /\ Cared /\ Missing => Cares(c)
<1>1. ctl[c].step # "idle" \/ queue[c] # <<>>
  BY DEF Handle, ExamineRollout, BeginRollback, BeginApply, Ignore, Notified,
         Ready, GetAtom, RollbackUpdate, StartUpdate, ApplyTemplate,
         StatusUpdate, Conflict
<1>2. ~Resting(c) /\ ~AtRest BY <1>1, HandlerFields DEF Resting, AtRest
<1>3. leader[c] /\ Leading(c) BY <1>2 DEF LeadInv
<1>4. \A d \in Controllers \ {c} : ~leader[d] /\ Resting(d)
  BY <1>3 DEF LeadInv
<1>5. Cared /\ Missing => Cares(c)
  BY <1>2, <1>3, <1>4 DEF Cared
<1>6. QED BY <1>2, <1>3, <1>4, <1>5 DEF LeadInv

(* Enough to preserve the invariant in a step of the replica that leads.   *)
LEMMA LeaderStep ==
  ASSUME LeadInv, Cared, NEW c \in Controllers, leader[c], leader' = leader,
         \A d \in Controllers \ {c} : ctl'[d] = ctl[d] /\ queue'[d] = queue[d],
         UNCHANGED <<reader, resolver>>, ~atom'.deps,
         \A i \in DOMAIN queue'[c] : ~queue'[c][i].deps,
         Leading(c)', Missing' => Cares(c)'
  PROVE  LeadInv' /\ Cared'
<1>1. \A d \in Controllers \ {c} : ~leader[d] /\ Resting(d)
  BY DEF LeadInv
<1>2. \A d \in Controllers \ {c} : Resting(d)'
  BY <1>1 DEF Resting
<1>3. \A d \in Controllers : \A i \in DOMAIN queue'[d] : ~queue'[d][i].deps
  BY DEF LeadInv
<1>4. LeadInv' BY <1>1, <1>2, <1>3 DEF LeadInv
<1>5. Cared' BY DEF Cared
<1>6. QED BY <1>4, <1>5

(* The leader's queue after a write, and after a delivery.                 *)
LEMMA Published ==
  ASSUME TypeOK, LeadInv, NEW c \in Controllers, leader[c], Leading(c),
         NEW new \in Snapshot, Publish(new), seen' = seen, ~new.deps,
         Due(new) \/ new.prev \in {NoVersion, atom.prev}
  PROVE  /\ Follows(c)' /\ Clearing(queue'[c])
         /\ Waits(c)' <=> Waits(c) \/ Due(new)
         /\ News(c) => News(c)'
         /\ new.status \in Failing /\ new.status # atom.status => News(c)'
         /\ \A v : OnlyBackTo(c, v) /\ new.prev \in {NoVersion, v}
                   => new.prev \in {NoVersion, v} /\ OnlyPrev(queue'[c], v)
         /\ \A i \in DOMAIN queue'[c] : ~queue'[c][i].deps
         /\ \A d \in Controllers \ {c} : queue'[d] = queue[d]
<1> DEFINE q == queue[c]
<1>1. q \in Seq(Snapshot) BY DEF TypeOK
<1>2. queue'[c] = Append(q, new) /\ atom' = new BY DEF Publish
<1>3. \A i \in DOMAIN q : ~q[i].deps BY DEF LeadInv
<1>4. Latest(q, seen[c]) = atom.status
      /\ (q # <<>> => Last(q).prev = atom.prev)
  BY DEF Leading, Follows, Latest
<1>5. Clearing(q) BY DEF Leading
<1>6. \A d \in Controllers \ {c} : queue'[d] = queue[d]
  BY DEF Publish, LeadInv
<1>7. /\ Append(q, new) # <<>> /\ Last(Append(q, new)) = new
      /\ \A i \in DOMAIN Append(q, new) : ~Append(q, new)[i].deps
  BY <1>1, <1>3, AppendFacts
<1>8. Follows(c)' BY <1>2, <1>7 DEF Follows
<1>9. Clearing(queue'[c]) BY <1>1, <1>2, <1>4, <1>5, AppendClearing
<1>10. Waits(c)' <=> Waits(c) \/ Due(new)
  BY <1>1, <1>2, AppendDue DEF Waits
<1>11. /\ News(c) => News(c)'
       /\ new.status \in Failing /\ new.status # atom.status => News(c)'
  BY <1>1, <1>2, <1>4, AppendNews DEF News
<1>12. \A v : OnlyBackTo(c, v) /\ new.prev \in {NoVersion, v}
              => new.prev \in {NoVersion, v} /\ OnlyPrev(queue'[c], v)
  BY <1>1, <1>2, AppendPrev DEF OnlyBackTo
<1>13. QED
  BY <1>2, <1>6, <1>7, <1>8, <1>9, <1>10, <1>11, <1>12

LEMMA Delivered ==
  ASSUME TypeOK, LeadInv, NEW c \in Controllers, leader[c], Leading(c),
         queue[c] # <<>>, NEW k, Deliver(c, k)
  PROVE  LET a == Head(queue[c]) IN
         /\ a \in Snapshot /\ ~a.deps
         /\ Follows(c)' /\ Clearing(queue'[c])
         /\ Waits(c)' => Waits(c)
         /\ Waits(c) /\ ~Due(a) => Waits(c)'
         /\ News(c) /\ (a.status \in Failing => a.status = seen[c]) => News(c)'
         /\ \A v : OnlyBackTo(c, v) => OnlyBackTo(c, v)' /\ a.prev \in {NoVersion, v}
         /\ ~Waits(c)' => /\ atom.prev \in {NoVersion, a.prev}
                          /\ OnlyPrev(queue'[c], a.prev)
         /\ \A i \in DOMAIN queue'[c] : ~queue'[c][i].deps
         /\ atom' = atom /\ ctl'[c] = k /\ UNCHANGED <<live, leader>>
         /\ UNCHANGED <<reader, resolver>>
         /\ \A d \in Controllers \ {c} : ctl'[d] = ctl[d] /\ queue'[d] = queue[d]
<1> DEFINE q == queue[c]
           a == Head(q)
<1>1. q \in Seq(Snapshot) /\ q # <<>> BY DEF TypeOK
<1>2. /\ queue'[c] = Tail(q) /\ seen'[c] = a.status
      /\ atom' = atom /\ ctl'[c] = k /\ UNCHANGED <<live, leader>>
      /\ UNCHANGED <<reader, resolver>>
      /\ \A d \in Controllers \ {c} : ctl'[d] = ctl[d] /\ queue'[d] = queue[d]
  BY DEF Deliver, TypeOK, store
<1>3. \A i \in DOMAIN q : ~q[i].deps BY DEF LeadInv
<1>4. a \in Snapshot /\ ~a.deps
      /\ \A i \in DOMAIN Tail(q) : ~Tail(q)[i].deps
  BY <1>1, <1>3, TailFacts
<1>5. Last(q) = atom BY <1>1 DEF Leading, Follows
<1>6. Follows(c)' BY <1>1, <1>2, <1>5, TailFacts DEF Follows
<1>7. Clearing(q) BY DEF Leading
<1>8. Clearing(queue'[c]) BY <1>1, <1>2, <1>7, TailPrev
<1>9. /\ Waits(c)' => Waits(c)
      /\ Waits(c) /\ ~Due(a) => Waits(c)'
  BY <1>1, <1>2, TailDue DEF Waits
<1>10. News(c) /\ (a.status \in Failing => a.status = seen[c]) => News(c)'
  BY <1>1, <1>2, TailNews DEF News
<1>11. ASSUME NEW v, OnlyBackTo(c, v)
       PROVE  OnlyBackTo(c, v)' /\ a.prev \in {NoVersion, v}
  BY <1>1, <1>2, <1>11, TailPrev DEF OnlyBackTo
<1>12. ASSUME ~Waits(c)'
       PROVE  atom.prev \in {NoVersion, a.prev} /\ OnlyPrev(queue'[c], a.prev)
  <2>1. OnlyPrev(Tail(q), a.prev)
    BY <1>1, <1>2, <1>7, <1>12, TailPrev DEF Waits
  <2>2. atom.prev \in {NoVersion, a.prev}
    <3>1. CASE Tail(q) = <<>> BY <1>1, <1>5, <3>1, TailFacts
    <3>2. CASE Tail(q) # <<>>
      <4>1. Last(Tail(q)) = atom BY <1>1, <1>5, <3>2, TailFacts
      <4>2. Tail(q) \in Seq(Snapshot) BY <1>1, TailFacts
      <4> DEFINE r == Tail(q)
      <4> HIDE DEF r
      <4>3. r \in Seq(Snapshot) /\ r # <<>> /\ Last(r) = atom
        BY <3>2, <4>1, <4>2 DEF r
      <4>4. Len(r) \in DOMAIN r BY <4>3, LenProperties, EmptySeq
      <4>5. OnlyPrev(r, a.prev) BY <2>1 DEF r
      <4> HIDE DEF a
      <4>6. r[Len(r)].prev \in {NoVersion, a.prev} BY <4>4, <4>5 DEF OnlyPrev
      <4>7. QED BY <4>3, <4>6 DEF Last
    <3>3. QED BY <3>1, <3>2
  <2>3. QED BY <1>2, <2>1, <2>2
<1>13. QED
  BY <1>2, <1>4, <1>6, <1>8, <1>9, <1>10, <1>11, <1>12

(* The handlers after a write: the leader's goes on with k, or holds a     *)
(* copy that is no longer the stored atom; the others have none.           *)
LEMMA WrittenBy ==
  ASSUME TypeOK, LeadInv, NEW c \in Controllers, leader[c]
  PROVE  /\ \A new, k : HandlerWrite(c, new, k) =>
              /\ Publish(new) /\ ctl'[c] = k
              /\ \A d \in Controllers \ {c} : ctl'[d] = ctl[d]
         /\ \A new : ExternalWrite(new) =>
              /\ Publish(new) /\ ctl'[c].step = ctl[c].step
              /\ ctl'[c].path = ctl[c].path /\ ctl'[c].ver = ctl[c].ver
              /\ ctl'[c].status = ctl[c].status
              /\ ctl'[c].got = IF ctl[c].got = "fresh" THEN "stale" ELSE ctl[c].got
              /\ \A d \in Controllers \ {c} : ctl'[d] = ctl[d]
<1>1. \A d \in Controllers \ {c} : Outdated[d] = ctl[d]
  <2>1. \A d \in Controllers \ {c} : ctl[d] = Idle BY DEF LeadInv, Resting
  <2>2. QED BY <2>1, HandlerFields DEF Outdated
<1>2. ctl[c] \in Handler BY DEF TypeOK
<1>3. /\ Outdated[c].step = ctl[c].step /\ Outdated[c].path = ctl[c].path
      /\ Outdated[c].ver = ctl[c].ver /\ Outdated[c].status = ctl[c].status
      /\ Outdated[c].got = IF ctl[c].got = "fresh" THEN "stale" ELSE ctl[c].got
  BY <1>2 DEF Outdated, Handler
<1>4. Outdated \in [Controllers -> Handler] BY OutdatedType
<1>5. QED BY <1>1, <1>3, <1>4 DEF HandlerWrite, ExternalWrite

(* What a step that writes nothing leaves as it was.                       *)
LEMMA Unwritten ==
  ASSUME NEW c \in Controllers, UNCHANGED <<atom, queue, seen>>
  PROVE  /\ Follows(c)' <=> Follows(c)
         /\ Waits(c)' <=> Waits(c)
         /\ News(c)' <=> News(c)
         /\ \A v : OnlyBackTo(c, v)' <=> OnlyBackTo(c, v)
BY DEF Follows, Waits, News, OnlyBackTo

-----------------------------------------------------------------------------
(* The handler of the replica that leads. *)

LEMMA GetAtomCared ==
  ASSUME TypeOK, LeadInv, Cared, NEW c \in Controllers, Handle(c), GetAtom(c)
  PROVE  LeadInv' /\ Cared'
<1>1. /\ leader[c] /\ Leading(c) /\ ~atom.deps
      /\ \A i \in DOMAIN queue[c] : ~queue[c][i].deps
      /\ Missing => Cares(c)
  BY HandlerLeads
<1>2. /\ UNCHANGED <<atom, queue, seen, leader, live, reader, resolver>>
      /\ \A d \in Controllers \ {c} : ctl'[d] = ctl[d]
      /\ ctl'[c].step = ctl[c].step /\ ctl'[c].path = ctl[c].path
      /\ ctl'[c].ver = ctl[c].ver /\ ctl'[c].status = ctl[c].status
      /\ ctl'[c].got = "fresh" /\ ctl[c].got = "no"
      /\ ctl[c].step \in {"rollback", "start", "status"}
  BY DEF GetAtom, TypeOK, Handler, store, lease
<1>3. /\ Follows(c)' /\ Clearing(queue'[c])
      /\ Waits(c)' <=> Waits(c)
      /\ News(c)' <=> News(c)
      /\ \A v : OnlyBackTo(c, v)' <=> OnlyBackTo(c, v)
  BY <1>1, <1>2, Unwritten DEF Leading
<1>4. BackInv(c)'
  BY <1>1, <1>2, <1>3 DEF Leading, BackInv, Applying, RollingBack
<1>5. HoldInv(c)' BY <1>2 DEF HoldInv
<1>6. Missing' => Cares(c)'
  BY <1>1, <1>2, <1>3
     DEF Missing, Cares, OnItsWay, Overtaken, Recording, ToRollBack
<1>7. Leading(c)' BY <1>3, <1>4, <1>5 DEF Leading
<1>8. QED BY <1>1, <1>2, <1>6, <1>7, LeaderStep

LEMMA RollbackUpdateCared ==
  ASSUME TypeOK, LeadInv, Cared, NEW c \in Controllers, Handle(c),
         RollbackUpdate(c)
  PROVE  LeadInv' /\ Cared'
<1> DEFINE v   == ctl[c].ver
           new == RolledBack(v)
           k   == AfterRollback(v)
<1>1. leader[c] /\ Leading(c) /\ (Missing => Cares(c))
  BY HandlerLeads
<1>2. /\ ctl[c].step = "rollback" /\ ctl[c].got = "fresh"
      /\ UNCHANGED <<seen, leader, live, reader, resolver>>
      /\ HandlerWrite(c, new, k)
  BY DEF RollbackUpdate, store, lease
<1>3. /\ new \in Snapshot /\ new.status = atom.status /\ new.cur = v
      /\ new.prev = NoVersion /\ new.deps = FALSE
  BY VersionType DEF TypeOK, Handler, Snapshot, RolledBack
<1>4. /\ k.got = "no" /\ k.step \notin {"rollback", "template"}
      /\ k.step = "start" \/ v = NoVersion
      /\ k.step = "start" => k.path = "rollback"
      /\ k.step = "status" => k.status = "Rollback"
  BY HandlerFields, OutcomeFields DEF AfterRollback
<1> HIDE DEF new, k
<1>5. /\ Publish(new) /\ ctl'[c] = k /\ atom' = new
      /\ \A d \in Controllers \ {c} : ctl'[d] = ctl[d]
  BY <1>1, <1>2, WrittenBy DEF Publish
<1>6. /\ Follows(c)' /\ Clearing(queue'[c])
      /\ Waits(c)' <=> Waits(c) \/ Due(new)
      /\ \A w : OnlyBackTo(c, w) => OnlyPrev(queue'[c], w)
      /\ \A i \in DOMAIN queue'[c] : ~queue'[c][i].deps
      /\ \A d \in Controllers \ {c} : queue'[d] = queue[d]
  BY <1>1, <1>2, <1>3, <1>5, Published
<1>7. BackInv(c)'
  <2>1. ASSUME ~Waits(c)' PROVE OnlyBackTo(c, v)
    BY <1>1, <1>2, <1>6, <2>1 DEF Leading, BackInv
  <2>2. ASSUME ~Waits(c)' PROVE OnlyBackTo(c, atom.cur)'
    BY <1>3, <1>5, <1>6, <2>1, <2>2 DEF OnlyBackTo
  <2>3. QED BY <1>4, <1>5, <2>2 DEF BackInv
<1>8. HoldInv(c)' BY <1>4, <1>5 DEF HoldInv
<1>9. Missing' => Cares(c)'
  <2> SUFFICES ASSUME Missing', ~Waits(c)' PROVE Cares(c)'
    BY DEF Cares
  <2>1. v # NoVersion /\ live # v /\ ~Waits(c)
    BY <1>2, <1>3, <1>5, <1>6 DEF Missing
  <2>2. CASE atom.status # "Rollback"
    BY <1>3, <1>4, <1>5, <2>1, <2>2 DEF Cares, OnItsWay
  <2>3. CASE atom.status = "Rollback"
    <3>1. v = atom.cur
      BY <1>1, <1>2, <2>1, <2>3 DEF Leading, BackInv, Applying
    <3>2. Cares(c) BY <1>1, <2>1, <3>1 DEF Missing
    <3>3. QED
      BY <1>2, <2>1, <2>3, <3>2
         DEF Cares, OnItsWay, Overtaken, Recording, ToRollBack
  <2>4. QED BY <2>2, <2>3
<1>10. Leading(c)' BY <1>6, <1>7, <1>8 DEF Leading
<1>11. QED BY <1>1, <1>2, <1>3, <1>5, <1>6, <1>9, <1>10, LeaderStep

LEMMA StartUpdateCared ==
  ASSUME TypeOK, LeadInv, Cared, NEW c \in Controllers, Handle(c),
         StartUpdate(c)
  PROVE  LeadInv' /\ Cared'
<1> DEFINE new == [atom EXCEPT !.late = FALSE]
           go  == [ctl[c] EXCEPT !.step = "template", !.got = "no", !.ver = atom.cur]
           k   == IF atom.cur = NoVersion THEN Failed(ctl[c].path) ELSE go
<1>1. leader[c] /\ Leading(c) /\ ~atom.deps
  BY HandlerLeads
<1>2. /\ ctl[c].step = "start"
      /\ UNCHANGED <<seen, leader, live, reader, resolver>>
      /\ HandlerWrite(c, new, k)
  BY DEF StartUpdate, store, lease
<1>3. /\ new \in Snapshot /\ new.status = atom.status /\ new.cur = atom.cur
      /\ new.prev = atom.prev /\ ~new.deps
  BY <1>1 DEF TypeOK, Snapshot
<1>4. ctl[c] \in Handler /\ ctl[c].path \in {"apply", "rollback"}
  BY DEF TypeOK, Handler
<1>5. /\ atom.cur = NoVersion =>
           /\ k.step = "status" /\ k.got = "no"
           /\ k.status = IF ctl[c].path = "apply" THEN "Error" ELSE "Failure"
      /\ atom.cur # NoVersion =>
           /\ k.step = "template" /\ k.got = "no" /\ k.ver = atom.cur
           /\ k.path = ctl[c].path
  BY <1>4, OutcomeFields DEF Handler
<1> HIDE DEF new, k, go
<1>6. /\ Publish(new) /\ ctl'[c] = k /\ atom' = new
      /\ \A d \in Controllers \ {c} : ctl'[d] = ctl[d]
  BY <1>1, <1>2, WrittenBy DEF Publish
<1>7. /\ Follows(c)' /\ Clearing(queue'[c])
      /\ Waits(c) => Waits(c)'
      /\ \A w : OnlyBackTo(c, w) /\ new.prev \in {NoVersion, w}
                  => OnlyPrev(queue'[c], w)
      /\ \A i \in DOMAIN queue'[c] : ~queue'[c][i].deps
      /\ \A d \in Controllers \ {c} : queue'[d] = queue[d]
  BY <1>1, <1>2, <1>3, <1>6, Published
<1>8. OnlyBackTo(c, atom.cur) => OnlyBackTo(c, atom.cur)'
  BY <1>3, <1>6, <1>7 DEF OnlyBackTo
<1>9. BackInv(c)'
  BY <1>1, <1>2, <1>3, <1>4, <1>5, <1>6, <1>7, <1>8
     DEF Leading, BackInv, Applying, RollingBack
<1>10. HoldInv(c)' BY <1>3, <1>5, <1>6 DEF HoldInv
<1>11. Missing' => Cares(c)'
  BY <1>3, <1>5, <1>6 DEF Missing, Cares, OnItsWay
<1>12. Leading(c)' BY <1>7, <1>9, <1>10 DEF Leading
<1>13. QED BY <1>1, <1>2, <1>3, <1>6, <1>7, <1>11, <1>12, LeaderStep

LEMMA ApplyTemplateCared ==
  ASSUME TypeOK, LeadInv, Cared, NEW c \in Controllers, Handle(c),
         ApplyTemplate(c), Healthy
  PROVE  LeadInv' /\ Cared'
<1>1. /\ leader[c] /\ Leading(c) /\ ~atom.deps
      /\ \A i \in DOMAIN queue[c] : ~queue[c][i].deps
  BY HandlerLeads
<1>2. ctl[c] \in Handler /\ ctl[c].path \in {"apply", "rollback"}
  BY DEF TypeOK, Handler
<1>3. /\ UNCHANGED <<atom, queue, seen, leader, reader, resolver>>
      /\ \A d \in Controllers \ {c} : ctl'[d] = ctl[d]
      /\ ctl'[c] = Succeeded(ctl[c].path) /\ live' = ctl[c].ver
      /\ ctl[c].step = "template"
  BY DEF ApplyTemplate, Healthy, TypeOK, store, lease
<1>4. /\ ctl'[c].step = "status" /\ ctl'[c].got = "no"
      /\ ctl'[c].status = IF ctl[c].path = "apply" THEN "Updating" ELSE "Rollback"
  BY <1>2, <1>3, OutcomeFields
<1>5. /\ Follows(c)' /\ Clearing(queue'[c])
      /\ Waits(c)' <=> Waits(c)
      /\ \A v : OnlyBackTo(c, v)' <=> OnlyBackTo(c, v)
  BY <1>1, <1>3, Unwritten DEF Leading
<1>6. BackInv(c)'
  BY <1>1, <1>2, <1>3, <1>4, <1>5 DEF Leading, BackInv, Applying, RollingBack
<1>7. HoldInv(c)' BY <1>4 DEF HoldInv
<1>8. Missing' => Cares(c)'
  BY <1>1, <1>3, <1>5 DEF Leading, HoldInv, Missing, Cares
<1>9. Leading(c)' BY <1>5, <1>6, <1>7 DEF Leading
<1>10. QED BY <1>1, <1>3, <1>8, <1>9, LeaderStep

LEMMA StatusUpdateCared ==
  ASSUME TypeOK, LeadInv, Cared, NEW c \in Controllers, Handle(c),
         StatusUpdate(c)
  PROVE  LeadInv' /\ Cared'
<1> DEFINE s   == ctl[c].status
           new == [atom EXCEPT !.status = s]
<1>1. /\ leader[c] /\ Leading(c) /\ ~atom.deps
      /\ \A i \in DOMAIN queue[c] : ~queue[c][i].deps
      /\ Missing => Cares(c)
  BY HandlerLeads
<1>2. /\ ctl[c].step = "status" /\ ctl[c].got = "fresh"
      /\ UNCHANGED <<seen, leader, live, reader, resolver>>
  BY DEF StatusUpdate, store, lease
<1>3. Idle.step = "idle" /\ Idle.got = "no" BY HandlerFields
<1>4. Missing => \/ Waits(c)
                 \/ /\ s # "Rollback" /\ atom.status # "Rollback"
                    /\ News(c) \/ (s = "Error" /\ atom.status = "Failure")
  BY <1>1, <1>2 DEF Cares, OnItsWay, Overtaken, Recording, ToRollBack
<1>5. ~Waits(c) /\ s = "Rollback" => OnlyBackTo(c, atom.cur)
  BY <1>1, <1>2 DEF Leading, BackInv, RollingBack
<1>6. CASE atom.status = s
  <2>1. /\ UNCHANGED <<atom, queue>> /\ ctl'[c] = Idle
        /\ \A d \in Controllers \ {c} : ctl'[d] = ctl[d]
    BY <1>6 DEF StatusUpdate, TypeOK
  <2>2. /\ Follows(c)' /\ Clearing(queue'[c])
        /\ Waits(c)' <=> Waits(c)
        /\ News(c)' <=> News(c)
        /\ \A v : OnlyBackTo(c, v)' <=> OnlyBackTo(c, v)
    BY <1>1, <1>2, <2>1, Unwritten DEF Leading
  <2>3. BackInv(c)' /\ HoldInv(c)'
    BY <1>3, <1>5, <1>6, <2>1, <2>2 DEF BackInv, RollingBack, HoldInv
  <2>4. Missing' => Cares(c)'
    BY <1>2, <1>3, <1>4, <1>6, <2>1, <2>2 DEF Missing, Cares, ToRollBack
  <2>5. Leading(c)' BY <2>2, <2>3 DEF Leading
  <2>6. QED BY <1>1, <1>2, <2>1, <2>4, <2>5, LeaderStep
<1>7. CASE atom.status # s
  <2>1. /\ new \in Snapshot /\ new.status = s /\ new.cur = atom.cur
        /\ new.prev = atom.prev /\ ~new.deps
    BY <1>1 DEF TypeOK, Handler, Snapshot
  <2>2. HandlerWrite(c, new, Idle) BY <1>7 DEF StatusUpdate
  <2> HIDE DEF new
  <2>3. /\ Publish(new) /\ ctl'[c] = Idle /\ atom' = new
        /\ \A d \in Controllers \ {c} : ctl'[d] = ctl[d]
    BY <1>1, <2>2, WrittenBy DEF Publish
  <2>4. /\ Follows(c)' /\ Clearing(queue'[c])
        /\ Waits(c) => Waits(c)'
        /\ News(c) => News(c)'
        /\ s \in Failing => News(c)'
        /\ \A w : OnlyBackTo(c, w) /\ new.prev \in {NoVersion, w}
                    => OnlyPrev(queue'[c], w)
        /\ \A i \in DOMAIN queue'[c] : ~queue'[c][i].deps
        /\ \A d \in Controllers \ {c} : queue'[d] = queue[d]
    BY <1>1, <1>2, <1>7, <2>1, <2>3, Published
  <2>5. OnlyBackTo(c, atom.cur) => OnlyBackTo(c, atom.cur)'
    BY <2>1, <2>3, <2>4 DEF OnlyBackTo
  <2>6. BackInv(c)' /\ HoldInv(c)'
    BY <1>3, <1>5, <2>1, <2>3, <2>4, <2>5 DEF BackInv, RollingBack, HoldInv
  <2>7. Missing' => Cares(c)'
    <3>1. Missing' => Missing BY <1>2, <2>1, <2>3 DEF Missing
    <3>2. "Error" \in Failing BY DEF Failing
    <3>3. QED
      BY <1>3, <1>4, <2>1, <2>3, <2>4, <3>1, <3>2 DEF Cares, ToRollBack
  <2>8. Leading(c)' BY <2>4, <2>6 DEF Leading
  <2>9. QED BY <1>1, <1>2, <2>1, <2>3, <2>4, <2>7, <2>8, LeaderStep
<1>8. QED BY <1>6, <1>7

LEMMA ConflictCared ==
  ASSUME TypeOK, LeadInv, Cared, NEW c \in Controllers, Handle(c), Conflict(c)
  PROVE  LeadInv' /\ Cared'
<1>1. /\ leader[c] /\ Leading(c) /\ ~atom.deps
      /\ \A i \in DOMAIN queue[c] : ~queue[c][i].deps
      /\ Missing => Cares(c)
  BY HandlerLeads
<1>2. ctl[c] \in Handler /\ ctl[c].path \in {"apply", "rollback"}
  BY DEF TypeOK, Handler
<1>3. /\ UNCHANGED <<atom, queue, seen, leader, live, reader, resolver>>
      /\ \A d \in Controllers \ {c} : ctl'[d] = ctl[d]
      /\ ctl'[c] = IF ctl[c].step = "status" THEN Idle ELSE Failed(ctl[c].path)
      /\ ctl[c].step # "idle" /\ ctl[c].got = "stale"
  BY DEF Conflict, GiveUp, TypeOK, store, lease
<1>4. /\ ctl'[c].got = "no"
      /\ ctl[c].step = "status" => ctl'[c].step = "idle"
      /\ ctl[c].step # "status" =>
           /\ ctl'[c].step = "status"
           /\ ctl'[c].status = IF ctl[c].path = "apply" THEN "Error" ELSE "Failure"
  BY <1>2, <1>3, HandlerFields, OutcomeFields
<1>5. /\ ctl[c].step # "template"
      /\ Waits(c) \/ atom.status \in {"Cancelled", "Failure"}
  BY <1>1, <1>3 DEF Leading, HoldInv
<1>6. /\ Follows(c)' /\ Clearing(queue'[c])
      /\ Waits(c)' <=> Waits(c)
      /\ News(c)' <=> News(c)
  BY <1>1, <1>3, Unwritten DEF Leading
<1>7. BackInv(c)' /\ HoldInv(c)'
  BY <1>3, <1>4, <1>5, <1>6 DEF BackInv, RollingBack, HoldInv
<1>8. Missing' => Cares(c)'
  <2> SUFFICES ASSUME Missing', ~Waits(c)' PROVE Cares(c)'
    BY DEF Cares
  <2>1. Cares(c) /\ ~Waits(c) /\ atom.status # "Rollback"
    BY <1>1, <1>3, <1>5, <1>6 DEF Missing
  <2>2. Overtaken(c) \/ (Recording(c) /\ News(c))
    BY <1>3, <2>1 DEF Cares, OnItsWay, Recording, ToRollBack
  <2>3. CASE Overtaken(c)
    BY <1>3, <1>4, <1>6, <2>1, <2>3 DEF Overtaken, Cares, Recording
  <2>4. CASE Recording(c) /\ News(c)
    BY <1>3, <1>4, <1>6, <2>1, <2>4 DEF Recording, Cares, ToRollBack
  <2>5. QED BY <2>2, <2>3, <2>4
<1>9. Leading(c)' BY <1>6, <1>7 DEF Leading
<1>10. QED BY <1>1, <1>3, <1>8, <1>9, LeaderStep

(* Enough when the leader's handler is given the first snapshot waiting:   *)
(* the handler k it starts and what is left of the queue.                  *)
LEMMA DeliveredCared ==
  ASSUME TypeOK, LeadInv, Cared, NEW c \in Controllers, Handle(c), Ready(c),
         NEW k, Deliver(c, k), k.got = "no", k.step # "template",
         ~Waits(c)' => /\ k.step = "rollback" => k.ver = Head(queue[c]).prev
                       /\ ~(k.step = "start" /\ k.path = "rollback")
                       /\ ~(k.step = "status" /\ k.status = "Rollback"),
         Due(Head(queue[c])) => k.step = "start" /\ k.path = "apply",
         ~Due(Head(queue[c])) /\ News(c) /\ atom.status # "Rollback" =>
           \/ k.step \in {"rollback", "start"}
           \/ News(c)' /\ (k.step = "idle" \/
                           (k.step = "status" /\ k.status # "Rollback"))
  PROVE  LeadInv' /\ Cared'
<1> DEFINE a == Head(queue[c])
<1>1. /\ leader[c] /\ Leading(c) /\ ~atom.deps
      /\ Missing => Cares(c)
  BY HandlerLeads
<1>2. ctl[c].step = "idle" /\ queue[c] # <<>> BY DEF Ready
<1>3. /\ Follows(c)' /\ Clearing(queue'[c])
      /\ Waits(c) /\ ~Due(a) => Waits(c)'
      /\ \A v : OnlyBackTo(c, v) => OnlyBackTo(c, v)' /\ a.prev \in {NoVersion, v}
      /\ ~Waits(c)' => /\ atom.prev \in {NoVersion, a.prev}
                       /\ OnlyPrev(queue'[c], a.prev)
      /\ \A i \in DOMAIN queue'[c] : ~queue'[c][i].deps
      /\ atom' = atom /\ ctl'[c] = k /\ UNCHANGED <<live, leader>>
      /\ UNCHANGED <<reader, resolver>>
      /\ \A d \in Controllers \ {c} : ctl'[d] = ctl[d] /\ queue'[d] = queue[d]
  BY <1>1, <1>2, Delivered
<1> HIDE DEF a
<1>4. BackInv(c)'
  <2> SUFFICES ASSUME ~Waits(c)'
               PROVE  /\ k.step = "rollback" => OnlyBackTo(c, k.ver)'
                      /\ atom.status = "Rollback" /\ ~Applying(c)' =>
                           /\ OnlyBackTo(c, atom.cur)'
                           /\ k.step = "rollback" => k.ver \in {NoVersion, atom.cur}
    BY <1>3 DEF BackInv, RollingBack
  <2>1. ASSUME k.step = "rollback" PROVE OnlyBackTo(c, k.ver)'
    BY <1>3, <2>1 DEF OnlyBackTo, a
  <2>2. ASSUME atom.status = "Rollback", ~Applying(c)'
        PROVE  /\ OnlyBackTo(c, atom.cur)'
               /\ k.step = "rollback" => k.ver \in {NoVersion, atom.cur}
    <3>1. ~Due(a) BY <1>3, <2>2 DEF Applying, a
    <3>2. ~Waits(c) BY <1>3, <3>1
    <3>3. OnlyBackTo(c, atom.cur)
      BY <1>1, <1>2, <2>2, <3>2 DEF Leading, BackInv, Applying
    <3>4. atom' = atom BY <1>3
    <3>5. OnlyBackTo(c, atom.cur)' /\ a.prev \in {NoVersion, atom.cur}
      BY <1>3, <3>3, <3>4
    <3>6. QED BY <3>5 DEF a
  <2>3. QED BY <2>1, <2>2
<1>5. HoldInv(c)' BY <1>3 DEF HoldInv
<1>6. Missing' => Cares(c)'
  <2> SUFFICES ASSUME Missing', ~Waits(c)' PROVE Cares(c)'
    BY DEF Cares
  <2>1. Cares(c) BY <1>1, <1>3 DEF Missing
  <2>2. CASE Due(a)
    BY <1>3, <2>2 DEF Cares, OnItsWay, a
  <2>3. CASE ~Due(a)
    <3>1. ~Waits(c) BY <1>3, <2>3
    <3>2. News(c) /\ atom.status # "Rollback"
      BY <1>1, <1>2, <2>1, <3>1
         DEF Cares, OnItsWay, Overtaken, Recording, ToRollBack
    <3>3. QED
      BY <1>3, <2>3, <3>2 DEF Cares, OnItsWay, Recording, ToRollBack, a
  <2>4. QED BY <2>2, <2>3
<1>7. Leading(c)' BY <1>3, <1>4, <1>5 DEF Leading
<1>8. QED BY <1>1, <1>3, <1>6, <1>7, LeaderStep

LEMMA NotifiedCared ==
  ASSUME TypeOK, LeadInv, Cared, NEW c \in Controllers, Handle(c), Healthy,
         \/ \E first, second \in {"ok", "wait", "error"} :
              ExamineRollout(c, first, second)
         \/ BeginRollback(c) \/ BeginApply(c) \/ Ignore(c)
  PROVE  LeadInv' /\ Cared'
<1> DEFINE a == Head(queue[c])
<1>1. leader[c] /\ Leading(c) BY HandlerLeads
<1>2. Ready(c) /\ queue[c] # <<>>
  BY DEF ExamineRollout, BeginRollback, BeginApply, Ignore, Notified, Ready
<1>3. ASSUME NEW k, Deliver(c, k), News(c),
             a.status \in Failing => a.status = seen[c]
      PROVE  News(c)'
  BY <1>1, <1>2, <1>3, Delivered
<1>4. a \in Snapshot /\ ~a.deps
  <2>1. queue[c] \in Seq(Snapshot) BY DEF TypeOK
  <2>2. \A i \in DOMAIN queue[c] : ~queue[c][i].deps BY DEF LeadInv
  <2>3. QED BY <1>2, <2>1, <2>2, TailFacts
<1>5. /\ Rollouts \cap Failing = {}
      /\ "Pending" \notin Rollouts /\ "Pending" \notin Failing
  BY DEF Rollouts, Failing
<1>6. ASSUME NEW first \in {"ok", "wait", "error"},
             NEW second \in {"ok", "wait", "error"},
             ExamineRollout(c, first, second)
      PROVE  LeadInv' /\ Cared'
  <2> DEFINE k == Verdict(a, first, second)
  <2>1. Deliver(c, k) /\ a.status \in Rollouts /\ ~Due(a)
    BY <1>5, <1>6 DEF ExamineRollout, Due
  <2>2. second \in {"ok", "wait"}
    BY <1>6 DEF ExamineRollout, Answers, Healthy
  <2>3. /\ k.got = "no" /\ k.step \in {"idle", "status"}
        /\ k.step = "status" => k.status # "Rollback"
    BY <2>2, VerdictFields, HandlerFields
  <2> HIDE DEF k
  <2>4. News(c) => News(c)' BY <1>3, <1>5, <2>1
  <2>5. QED BY <1>2, <2>1, <2>3, <2>4, DeliveredCared
<1>7. CASE BeginRollback(c)
  <2> DEFINE k == RollBackTo(a.prev)
  <2>1. Deliver(c, k) /\ ~Due(a)
    BY <1>5, <1>7 DEF BeginRollback, Due, Target
  <2>2. k.got = "no" /\ k.step = "rollback" /\ k.ver = a.prev
    BY HandlerFields
  <2> HIDE DEF k
  <2>3. QED BY <1>2, <2>1, <2>2, DeliveredCared
<1>8. CASE BeginApply(c)
  <2> DEFINE k == IF a.cur = NoVersion THEN Succeeded("apply")
                                       ELSE StartApply("apply")
  <2>1. Deliver(c, k) /\ a.status = "Pending"
    BY <1>8 DEF BeginApply
  <2>2. /\ k.got = "no" /\ k.step \in {"start", "status"}
        /\ k.step = "start" => k.path = "apply"
        /\ k.step = "status" => k.status = "Updating"
        /\ Due(a) => k.step = "start"
    BY HandlerFields, OutcomeFields DEF Due
  <2> HIDE DEF k
  <2>3. News(c) => News(c)' BY <1>3, <1>5, <2>1
  <2>4. QED BY <1>2, <2>1, <2>2, <2>3, DeliveredCared
<1>9. CASE Ignore(c)
  <2>1. Deliver(c, Idle) /\ ~Relevant(a, seen[c]) BY <1>9 DEF Ignore
  <2>2. ~Due(a) /\ (a.status \in Failing => a.status = seen[c])
    BY <1>4, <2>1 DEF Relevant, Due
  <2>3. News(c) => News(c)' BY <1>3, <2>1, <2>2
  <2>4. Idle.step = "idle" /\ Idle.got = "no" BY HandlerFields
  <2>5. QED BY <1>2, <2>1, <2>2, <2>3, <2>4, DeliveredCared
<1>10. QED BY <1>6, <1>7, <1>8, <1>9

LEMMA HandleCared ==
  ASSUME TypeOK, LeadInv, Cared, NEW c \in Controllers, Handle(c), Healthy
  PROVE  LeadInv' /\ Cared'
BY NotifiedCared, GetAtomCared, RollbackUpdateCared, StartUpdateCared,
   ApplyTemplateCared, StatusUpdateCared, ConflictCared DEF Handle

-----------------------------------------------------------------------------
(* The users, time, and the start of a leader. *)

(* A promote always makes the leader apply, ...                            *)
LEMMA PromoteCared ==
  ASSUME TypeOK, LeadInv, Cared, NEW d \in BOOLEAN, Promote(d), Healthy
  PROVE  LeadInv' /\ Cared'
<1> DEFINE new == [status |-> "Pending", cur |-> issued + 1, prev |-> atom.cur,
                   deps |-> d, late |-> FALSE]
<1>1. /\ ExternalWrite(new) /\ ~d
      /\ UNCHANGED <<seen, leader, live, reader, resolver>>
  BY DEF Promote, Healthy, lease
<1>2. /\ new \in Snapshot /\ new.status = "Pending" /\ new.cur # NoVersion
      /\ ~new.deps /\ Due(new)
  <2>1. issued + 1 \in Version /\ issued + 1 # NoVersion
    BY Assumptions DEF TypeOK, Promote, Version, NoVersion
  <2>2. new \in Snapshot
    BY <2>1 DEF TypeOK, Snapshot, Status
  <2>3. QED BY <1>1, <2>1, <2>2 DEF Due
<1> HIDE DEF new
<1>3. atom' = new BY <1>1 DEF ExternalWrite, Publish
<1>4. CASE \E c \in Controllers : leader[c]
  <2>1. PICK c \in Controllers : leader[c] BY <1>4
  <2>2. Leading(c) BY <2>1 DEF LeadInv
  <2>3. /\ Publish(new) /\ ctl'[c].step = ctl[c].step
        /\ ctl'[c].ver = ctl[c].ver
        /\ ctl'[c].got = IF ctl[c].got = "fresh" THEN "stale" ELSE ctl[c].got
        /\ \A e \in Controllers \ {c} : ctl'[e] = ctl[e]
    BY <1>1, <2>1, WrittenBy
  <2>4. /\ Follows(c)' /\ Clearing(queue'[c])
        /\ Waits(c)'
        /\ \A i \in DOMAIN queue'[c] : ~queue'[c][i].deps
        /\ \A e \in Controllers \ {c} : queue'[e] = queue[e]
    BY <1>1, <1>2, <2>1, <2>2, <2>3, Published
  <2>5. BackInv(c)' /\ HoldInv(c)'
    BY <2>2, <2>3, <2>4 DEF Leading, BackInv, HoldInv
  <2>6. Leading(c)' /\ Cares(c)' BY <2>4, <2>5 DEF Leading, Cares
  <2>7. QED BY <1>1, <1>2, <1>3, <2>1, <2>3, <2>4, <2>6, LeaderStep
<1>5. CASE \A c \in Controllers : ~leader[c]
  <2>1. \A c \in Controllers : Resting(c) BY <1>5 DEF LeadInv
  <2>2. \A c \in Controllers : queue'[c] = queue[c] /\ ctl'[c] = ctl[c]
    BY <1>1, <1>5, <2>1, HandlerFields
       DEF ExternalWrite, Publish, Outdated, Resting
  <2>3. \A c \in Controllers : Resting(c)' BY <2>1, <2>2 DEF Resting
  <2>4. LeadInv'
    BY <1>1, <1>2, <1>3, <1>5, <2>2, <2>3 DEF LeadInv
  <2>5. Cared' BY <1>2, <1>3, <2>3 DEF Cared, AtRest, Resting
  <2>6. QED BY <2>4, <2>5
<1>6. QED BY <1>4, <1>5

(* ... and a cancel is news to it, unless a rollback is cancelled.         *)
LEMMA CancelCared ==
  ASSUME TypeOK, LeadInv, Cared, Cancel
  PROVE  LeadInv' /\ Cared'
<1> DEFINE s   == IF atom.status = "Rollback" THEN "Failure" ELSE "Cancelled"
           new == [atom EXCEPT !.status = s]
<1>1. /\ ExternalWrite(new) /\ atom.status \in {"Updating", "Rollback"}
      /\ UNCHANGED <<seen, leader, live, reader, resolver>>
  BY DEF Cancel, lease, store, Rollouts, TypeOK, Snapshot
<1>2. /\ new \in Snapshot /\ new.status = s /\ new.cur = atom.cur
      /\ new.prev = atom.prev /\ ~new.deps
  BY DEF TypeOK, LeadInv, Snapshot, Status, Settled, Failing
<1>3. ~Due(new) BY <1>2 DEF Due
<1> HIDE DEF new
<1>4. atom' = new BY <1>1 DEF ExternalWrite, Publish
<1>5. PICK c \in Controllers : leader[c] BY <1>1 DEF LeadInv
<1>6. Leading(c) /\ \A d \in Controllers \ {c} : ~leader[d]
  BY <1>5 DEF LeadInv
<1>7. /\ Publish(new) /\ ctl'[c].step = ctl[c].step
      /\ ctl'[c].path = ctl[c].path /\ ctl'[c].ver = ctl[c].ver
      /\ ctl'[c].status = ctl[c].status
      /\ ctl'[c].got = IF ctl[c].got = "fresh" THEN "stale" ELSE ctl[c].got
      /\ \A d \in Controllers \ {c} : ctl'[d] = ctl[d]
  BY <1>1, <1>5, WrittenBy
<1>8. /\ Follows(c)' /\ Clearing(queue'[c])
      /\ Waits(c)' <=> Waits(c)
      /\ News(c) => News(c)'
      /\ s = "Cancelled" => News(c)'
      /\ \A w : OnlyBackTo(c, w) => OnlyBackTo(c, w)'
      /\ \A i \in DOMAIN queue'[c] : ~queue'[c][i].deps
      /\ \A d \in Controllers \ {c} : queue'[d] = queue[d]
  <2>1. s = "Cancelled" => s \in Failing /\ s # atom.status
    BY <1>1 DEF Failing
  <2>2. QED
    BY <1>1, <1>2, <1>3, <1>4, <1>5, <1>6, <1>7, <2>1, Published DEF OnlyBackTo
<1>9. BackInv(c)'
  BY <1>2, <1>4, <1>6, <1>7, <1>8 DEF Leading, BackInv, RollingBack
<1>10. HoldInv(c)'
  BY <1>2, <1>4, <1>6, <1>7, <1>8 DEF Leading, HoldInv
<1>11. Missing' => Cares(c)'
  <2> SUFFICES ASSUME Missing', ~Waits(c)' PROVE Cares(c)'
    BY DEF Cares
  <2>1. Missing BY <1>1, <1>2, <1>4 DEF Missing
  <2>2. atom.status # "Pending" BY <1>1
  <2>3. Cares(c) /\ ~Waits(c)
    BY <1>6, <1>8, <2>1, <2>2 DEF Cared
  <2>4. atom'.status = s BY <1>2, <1>4
  <2>5. CASE OnItsWay(c)
    BY <1>1, <1>7, <1>8, <1>6, <2>4, <2>5
       DEF Cares, OnItsWay, Overtaken, Leading, HoldInv
  <2>6. CASE Overtaken(c)
    BY <1>1, <1>7, <1>8, <2>4, <2>6 DEF Cares, Overtaken
  <2>7. CASE Recording(c)
    BY <1>1, <1>7, <1>8, <2>4, <2>7 DEF Cares, Recording
  <2>8. CASE ToRollBack(c)
    BY <1>1, <1>7, <1>8, <2>4, <2>8 DEF Cares, ToRollBack
  <2>9. QED BY <2>3, <2>5, <2>6, <2>7, <2>8 DEF Cares
<1>12. Leading(c)' BY <1>8, <1>9, <1>10 DEF Leading
<1>13. QED
  BY <1>1, <1>2, <1>4, <1>5, <1>7, <1>8, <1>11, <1>12, LeaderStep

LEMMA DeadlineCared ==
  ASSUME TypeOK, LeadInv, Cared, DeadlinePasses
  PROVE  LeadInv' /\ Cared'
<1>1. /\ atom' = Expire(atom)
      /\ \A c \in Controllers : queue'[c] = Aged(queue[c])
      /\ UNCHANGED <<seen, leader, live, reader, resolver, ctl>>
  BY DEF DeadlinePasses, Aged, store, lease
<1>2. /\ atom'.status = atom.status /\ atom'.cur = atom.cur
      /\ atom'.prev = atom.prev /\ ~atom'.deps
  BY <1>1, ExpireFacts DEF TypeOK, LeadInv
<1>3. PICK c \in Controllers : leader[c]
  <2>1. SUFFICES ASSUME \A c \in Controllers : ~leader[c] PROVE FALSE
    OBVIOUS
  <2>2. \A c \in Controllers : queue[c] = <<>>
    BY <2>1 DEF LeadInv, Resting
  <2>3. \A c \in Controllers : DOMAIN queue[c] = {} BY <2>2, EmptyFacts
  <2>4. atom.status \notin Rollouts BY <2>1 DEF LeadInv, Rollouts
  <2>5. QED BY <2>3, <2>4 DEF DeadlinePasses
<1>4. Leading(c) /\ \A d \in Controllers \ {c} : ~leader[d] /\ Resting(d)
  BY <1>3 DEF LeadInv
<1>5. \A d \in Controllers : queue[d] \in Seq(Snapshot) BY DEF TypeOK
<1>6. \A d \in Controllers \ {c} : queue'[d] = queue[d]
  <2>1. \A d \in Controllers \ {c} : queue[d] = <<>> BY <1>4 DEF Resting
  <2>2. QED BY <1>1, <1>5, <2>1, AgedFacts
<1>7. \A i \in DOMAIN queue'[c] : ~queue'[c][i].deps
  <2> DEFINE q == queue[c]
  <2>1. q \in Seq(Snapshot) /\ \A i \in DOMAIN q : ~q[i].deps
    BY <1>5 DEF LeadInv
  <2>2. queue'[c] = Aged(q) BY <1>1
  <2> HIDE DEF q
  <2>3. QED BY <2>1, <2>2, AgedFacts
<1>8. /\ Waits(c)' <=> Waits(c)
      /\ News(c) => News(c)'
      /\ \A v : OnlyBackTo(c, v) => OnlyBackTo(c, v)'
      /\ Clearing(queue'[c])
  BY <1>1, <1>2, <1>4, <1>5, AgedSame DEF Waits, News, OnlyBackTo, Leading
<1>9. Follows(c)'
  <2> DEFINE q == queue[c]
  <2>1. q \in Seq(Snapshot) /\ queue'[c] = Aged(q) BY <1>1, <1>5
  <2>2. CASE q = <<>>
    BY <1>1, <1>2, <1>4, <2>1, <2>2, AgedFacts DEF Leading, Follows
  <2>3. CASE q # <<>>
    <3>1. Last(q) = atom BY <1>4, <2>3 DEF Leading, Follows
    <3> HIDE DEF q
    <3>2. Len(q) \in DOMAIN q BY <2>1, <2>3, LenProperties, EmptySeq
    <3>3. Last(Aged(q)) = Expire(Last(q)) /\ Aged(q) # <<>>
      BY <2>1, <2>3, <3>2, AgedFacts DEF Last
    <3>4. QED BY <1>1, <2>1, <3>1, <3>3 DEF Follows
  <2>4. QED BY <2>2, <2>3
<1>10. Leading(c)'
  BY <1>1, <1>2, <1>4, <1>8, <1>9
     DEF Leading, BackInv, HoldInv, Applying, RollingBack
<1>11. Missing' => Cares(c)'
  <2> SUFFICES ASSUME Missing', ~Waits(c)' PROVE Cares(c)'
    BY DEF Cares
  <2>1. Missing /\ ~Waits(c) BY <1>1, <1>2, <1>8 DEF Missing
  <2>2. CASE Cares(c)
    BY <1>1, <1>2, <1>8, <2>1, <2>2
       DEF Cares, OnItsWay, Overtaken, Recording, ToRollBack
  <2>3. CASE AtRest /\ atom.status = "Pending"
    <3>1. \A d \in Controllers : DOMAIN queue[d] = {} BY <2>3 DEF AtRest
    <3>2. QED BY <2>3, <3>1 DEF DeadlinePasses, Rollouts
  <2>4. QED BY <1>4, <2>1, <2>2, <2>3 DEF Cared
<1>12. QED BY <1>1, <1>2, <1>3, <1>6, <1>7, <1>10, <1>11, LeaderStep

LEMMA ResyncCared ==
  ASSUME TypeOK, LeadInv, Cared, NEW c \in Controllers, Resync(c)
  PROVE  LeadInv' /\ Cared'
<1>1. /\ leader[c] /\ atom' = atom
      /\ queue' = [queue EXCEPT ![c] = Append(queue[c], atom)]
      /\ UNCHANGED <<seen, leader, live, reader, resolver, ctl>>
  BY DEF Resync, store, lease
<1>2. Leading(c) /\ \A d \in Controllers \ {c} : ~leader[d]
  BY <1>1 DEF LeadInv
<1>3. atom \in Snapshot /\ ~atom.deps BY DEF TypeOK, LeadInv
<1>4. Publish(atom) BY <1>1, <1>2 DEF Publish, TypeOK
<1>5. /\ Follows(c)' /\ Clearing(queue'[c])
      /\ Waits(c) => Waits(c)'
      /\ News(c) => News(c)'
      /\ \A v : OnlyBackTo(c, v) => OnlyBackTo(c, v)'
      /\ \A i \in DOMAIN queue'[c] : ~queue'[c][i].deps
      /\ \A d \in Controllers \ {c} : queue'[d] = queue[d]
  BY <1>1, <1>2, <1>3, <1>4, Published DEF OnlyBackTo
<1>6. Leading(c)'
  BY <1>1, <1>2, <1>5
     DEF Leading, BackInv, HoldInv, Applying, RollingBack
<1>7. Missing' => Cares(c)'
  <2> SUFFICES ASSUME Missing', ~Waits(c)' PROVE Cares(c)'
    BY DEF Cares
  <2>1. Missing /\ ~Waits(c) BY <1>1, <1>5 DEF Missing
  <2>2. CASE Cares(c)
    BY <1>1, <1>5, <2>1, <2>2
       DEF Cares, OnItsWay, Overtaken, Recording, ToRollBack
  <2>3. CASE AtRest /\ atom.status = "Pending"
    <3>1. Due(atom) BY <2>1, <2>3 DEF Missing, Due
    <3>2. Waits(c)' BY <1>1, <1>2, <1>3, <1>4, <3>1, Published
    <3>3. QED BY <3>2 DEF Cares
  <2>4. QED BY <1>2, <2>1, <2>2, <2>3 DEF Cared
<1>8. QED BY <1>1, <1>3, <1>5, <1>6, <1>7, LeaderStep

LEMMA LeadCared ==
  ASSUME TypeOK, LeadInv, Cared, NEW c \in Controllers, Lead(c)
  PROVE  LeadInv' /\ Cared'
<1>1. /\ \A d \in Controllers : ~leader[d] /\ Resting(d)
      /\ atom.status \in {"", "Pending"}
  BY DEF Lead, LeadInv
<1>2. /\ UNCHANGED <<atom, live, reader, resolver, ctl>>
      /\ leader'[c] /\ seen'[c] = atom.status
      /\ \A d \in Controllers \ {c} : ~leader'[d]
      /\ \A d \in Controllers : queue'[d] = <<>>
  BY <1>1 DEF Lead, TypeOK, store, Resting
<1>3. \A d \in Controllers : Resting(d)' BY <1>1, <1>2 DEF Resting
<1>4. ctl'[c].step = "idle" /\ ctl'[c].got = "no"
  BY <1>3, HandlerFields DEF Resting
<1>5. Leading(c)'
  <2>1. Follows(c)' /\ Clearing(queue'[c])
    BY <1>2 DEF Follows, Clearing
  <2>2. BackInv(c)' /\ HoldInv(c)'
    BY <1>1, <1>2, <1>4 DEF BackInv, HoldInv, RollingBack
  <2>3. QED BY <2>1, <2>2 DEF Leading
<1>6. \A d \in Controllers : DOMAIN queue'[d] = {} BY <1>2
<1>7. LeadInv' BY <1>2, <1>3, <1>5, <1>6 DEF LeadInv
<1>8. Cared'
  <2>1. Missing' => atom'.status = "Pending"
    BY <1>1, <1>2 DEF Missing, Cared
  <2>2. AtRest' BY <1>3 DEF AtRest, Resting
  <2>3. QED BY <2>1, <2>2 DEF Cared
<1>9. QED BY <1>7, <1>8

LEMMA OthersCared ==
  ASSUME TypeOK, LeadInv, Cared, Others, Healthy
  PROVE  LeadInv' /\ Cared'
<1>1. ~ReadStaleCache BY DEF ReadStaleCache, Healthy
<1>2. ~PatchReleaseCache /\ ~ClearDependencies /\ ~AbandonResolver
  BY DEF PatchReleaseCache, ClearDependencies, AbandonResolver, LeadInv
<1>3. ~StartResolver BY DEF StartResolver, LeadInv
<1>4. QED
  BY <1>1, <1>2, <1>3, PromoteCared, CancelCared DEF Others

LEMMA NobodyDisturbs ==
  ASSUME Healthy
  PROVE  \A c \in Controllers : ~Disturb(c)
BY DEF Healthy, Disturb, ApiError, Relist, LoseLead, Crash, Fault

LEMMA CaredStep ==
  ASSUME TypeOK, LeadInv, Cared, [Next]_vars, Healthy
  PROVE  LeadInv' /\ Cared'
<1>1. CASE Others BY <1>1, OthersCared
<1>2. CASE DeadlinePasses BY <1>2, DeadlineCared
<1>3. ASSUME NEW c \in Controllers, Handle(c) \/ Resync(c) \/ Lead(c)
      PROVE  LeadInv' /\ Cared'
  BY <1>3, HandleCared, ResyncCared, LeadCared
<1>4. CASE UNCHANGED vars
  BY <1>4
     DEF vars, LeadInv, Leading, Resting, Follows, BackInv, HoldInv, Applying,
         RollingBack, OnlyBackTo, Waits, News, Cared, Cares, OnItsWay,
         Overtaken, Recording, ToRollBack, Missing, AtRest
<1>5. QED BY <1>1, <1>2, <1>3, <1>4, NobodyDisturbs DEF Next

LEMMA CaredInit == Init => LeadInv /\ Cared
<1> SUFFICES ASSUME Init PROVE LeadInv /\ Cared
  OBVIOUS
<1>1. atom.status = "" /\ atom.cur = NoVersion /\ ~atom.deps
  BY DEF Init, NoAtom
<1>2. \A c \in Controllers : ~leader[c] /\ Resting(c) /\ DOMAIN queue[c] = {}
  BY EmptyFacts DEF Init, Resting
<1>3. LeadInv BY <1>1, <1>2 DEF LeadInv, Init
<1>4. Cared BY <1>1 DEF Cared, Missing
<1>5. QED BY <1>3, <1>4

(* While the replicas run undisturbed and kubectl succeeds, with promotes  *)
(* and cancels at any time, an app at rest that is reported as running or  *)
(* reverted runs the version its atom names (AtomController.Update,        *)
(* Client.apply, rollback, Cancel).                                        *)
THEOREM ReportsRunning == Healthy => (Spec => []ReportsWhatRuns)
<1> SUFFICES ASSUME Healthy PROVE Spec => []ReportsWhatRuns
  OBVIOUS
<1>1. TypeOK /\ LeadInv /\ Cared /\ [Next]_vars => LeadInv' /\ Cared'
  BY CaredStep
<1>2. Cared => ReportsWhatRuns
  <2> SUFFICES ASSUME Cared, AtRest, Missing,
                      atom.status \in {"Running", "Reverted"}
               PROVE  FALSE
    BY DEF ReportsWhatRuns, Missing
  <2>1. PICK c \in Controllers : Cares(c) BY DEF Cared
  <2>2. /\ ctl[c].step = "idle" /\ ctl[c].got = "no" /\ DOMAIN queue[c] = {}
    BY HandlerFields DEF AtRest
  <2>3. ~Waits(c) /\ ~News(c) BY <2>2 DEF Waits, DueIn, News, NewsIn
  <2>4. QED
    BY <2>1, <2>2, <2>3
       DEF Cares, OnItsWay, Overtaken, Recording, ToRollBack
<1>3. QED BY <1>1, <1>2, CaredInit, TypeCorrect, PTL DEF Spec
=============================================================================
