-------------------- MODULE NotificationCardSafetyProofs --------------------
(***************************************************************************)
(* Proofs of the safety invariants of the notification-card model beyond  *)
(* its type: the persisted log holds the latest views, and with storage    *)
(* working every rendered card is mounted whenever the page is idle.      *)
(***************************************************************************)
EXTENDS NotificationCardProofs

\* The last LogCap elements of a sequence: what logs.slice(-LogCap) keeps.
Latest(s) == IF Len(s) > LogCap THEN SubSeq(s, Len(s) - LogCap + 1, Len(s))
             ELSE s

-----------------------------------------------------------------------------
(* The log is the last LogCap views.                                       *)

\* Pushing onto the latest LogCap elements and slicing keeps the latest
\* LogCap elements of the longer history.
LEMMA LatestPush ==
    ASSUME NEW S, NEW s \in Seq(S), NEW c \in S
    PROVE  LogPush(Latest(s), c) = Latest(Append(s, c))
<1>. DEFINE n == Len(s)
            t == Append(s, c)
<1>1. LogCap \in Nat \ {0} BY BoundAssumption
<1>2. t \in Seq(S) /\ Len(t) = n + 1 BY AppendProperties
<1>3. CASE n > LogCap
  <2>. DEFINE l == SubSeq(s, n - LogCap + 1, n)
              u == Append(l, c)
  <2>1. l \in Seq(S) /\ Len(l) = LogCap
        /\ \A i \in 1..LogCap : l[i] = s[n - LogCap + i]
    BY <1>1, <1>3, SubSeqProperties
  <2>2. Latest(s) = l BY <1>3 DEF Latest
  <2>3. u \in Seq(S) /\ Len(u) = LogCap + 1
        /\ \A i \in 1..LogCap : u[i] = l[i]
        /\ u[LogCap + 1] = c
    BY <2>1, AppendProperties
  <2>4. LogPush(l, c) = SubSeq(u, 2, LogCap + 1)
    BY <1>1, <2>3 DEF LogPush
  <2>5. Latest(t) = SubSeq(t, n - LogCap + 2, n + 1)
    BY <1>1, <1>2, <1>3 DEF Latest
  <2>6. /\ SubSeq(u, 2, LogCap + 1) \in Seq(S)
        /\ Len(SubSeq(u, 2, LogCap + 1)) = LogCap
        /\ \A i \in 1..LogCap : SubSeq(u, 2, LogCap + 1)[i] = u[i + 1]
    BY <1>1, <2>3, SubSeqProperties
  <2>7. /\ SubSeq(t, n - LogCap + 2, n + 1) \in Seq(S)
        /\ Len(SubSeq(t, n - LogCap + 2, n + 1)) = LogCap
        /\ \A i \in 1..LogCap :
             SubSeq(t, n - LogCap + 2, n + 1)[i] = t[n - LogCap + 1 + i]
    BY <1>1, <1>2, <1>3, SubSeqProperties
  <2>8. \A i \in 1..LogCap : u[i + 1] = t[n - LogCap + 1 + i]
    <3>1. (\A i \in 1..n : t[i] = s[i]) /\ t[n + 1] = c BY AppendProperties
    <3>2. SUFFICES ASSUME NEW i \in 1..LogCap
                   PROVE  u[i + 1] = t[n - LogCap + 1 + i]
      OBVIOUS
    <3>3. CASE i < LogCap
      <4>1. u[i + 1] = s[n - LogCap + i + 1] BY <1>1, <2>1, <2>3, <3>3
      <4>2. t[n - LogCap + 1 + i] = s[n - LogCap + 1 + i]
        BY <1>1, <1>3, <3>1, <3>3
      <4>3. n - LogCap + i + 1 = n - LogCap + 1 + i BY <1>1, <1>3
      <4>. QED BY <4>1, <4>2, <4>3, Zenon
    <3>4. CASE i = LogCap
      <4>1. i + 1 = LogCap + 1 /\ n - LogCap + 1 + i = n + 1 BY <1>1, <1>3, <3>4
      <4>. QED BY <2>3, <3>1, <4>1, Zenon
    <3>5. i < LogCap \/ i = LogCap BY <1>1
    <3>. QED BY <3>3, <3>4, <3>5
  <2>9. SubSeq(u, 2, LogCap + 1) = SubSeq(t, n - LogCap + 2, n + 1)
    BY <2>6, <2>7, <2>8, SeqEqual
  <2>. QED BY <2>2, <2>4, <2>5, <2>9
<1>4. CASE ~(n > LogCap)
  <2>1. Latest(s) = s BY <1>4 DEF Latest
  <2>. QED BY <1>2, <2>1 DEF LogPush, Latest
<1>. QED BY <1>3, <1>4

\* initializeCard's logNotification keeps the log the latest views.
LEMMA InitializeCardLog ==
    ASSUME TypeOK, LogHoldsLatest, NEW c \in Cards, NEW cls, NEW more,
           InitializeCard(c, cls, more)
    PROVE  LogHoldsLatest'
<1>1. log = Latest(mounted) BY DEF LogHoldsLatest, Latest
<1>2. CASE StorageBroken
  BY <1>2 DEF InitializeCard, LogNotification, LogHoldsLatest
<1>3. CASE ~StorageBroken
  <2>1. log' = LogPush(log, c) /\ mounted' = Append(mounted, c)
    BY <1>3 DEF InitializeCard, LogNotification
  <2>2. mounted \in Seq(Cards) BY DEF TypeOK
  <2>3. log' = Latest(mounted') BY <1>1, <2>1, <2>2, LatestPush
  <2>. QED BY <2>3 DEF LogHoldsLatest, Latest
<1>. QED BY <1>2, <1>3

\* Every action keeps the log the latest views.
LEMMA LogStep ==
    ASSUME TypeOK, LogHoldsLatest, [Next]_vars
    PROVE  LogHoldsLatest'
<1>. DEFINE Same == UNCHANGED <<log, mounted>>
<1>1. Same => LogHoldsLatest' BY DEF LogHoldsLatest
<1>2. work \in Seq(WorkItem) BY DEF TypeOK
<1>3. ASSUME NEW c \in Cards, GuardedInit(c) PROVE LogHoldsLatest'
  <2>1. CASE initFlag[c] BY <1>1, <1>3, <2>1 DEF GuardedInit
  <2>2. CASE ~initFlag[c]
    BY <1>3, <2>2, InitializeCardLog DEF GuardedInit
  <2>. QED BY <2>1, <2>2
<1>4. ASSUME NEW v, NEW d, NEW dis, Show(v, d, dis) PROVE LogHoldsLatest'
  <2>1. (CHOOSE x \in ShownCards : place[x] = "absent") \in Cards
    BY <1>4 DEF Show, Cards
  <2>. QED BY <1>4, <2>1, InitializeCardLog DEF Show
<1>5. CASE InitAllStep \/ AttachCardStep
  <2>1. PICK c \in Head(work).todo :
          /\ Head(work).op \in {"init", "attachCard"}
          /\ \/ GuardedInit(c)
             \/ UNCHANGED <<initFlag, inits, opacity, timers, log, mounted>>
    BY <1>5, SMTT(30) DEF InitAllStep, AttachCardStep
  <2>2. c \in Cards BY <1>2, <1>5, <2>1, HeadTodo DEF InitAllStep, AttachCardStep
  <2>. QED BY <1>1, <1>3, <2>1, <2>2
<1>6. CASE ConvertStep
  <2>1. \/ \E v, d, dis : Show(v, d, dis)
        \/ UNCHANGED <<log, mounted>>
    BY <1>6 DEF ConvertStep, cardVars
  <2>. QED BY <1>1, <1>4, <2>1
<1>7. CASE \E v \in ShowVariants, d \in ShowDurations, dis \in BOOLEAN :
               ApiShow(v, d, dis)
  BY <1>4, <1>7 DEF ApiShow
<1>8. CASE \E c \in Cards : ApiInitOne(c)
  BY <1>3, <1>8 DEF ApiInitOne
<1>9. CASE \/ LoadNative \/ LoadDrupal \/ ContentLoaded \/ RunListener
           \/ \E c \in AjaxCards : AjaxInsert(c)
           \/ ApiInitAll
           \/ \E c \in Cards : ClickDismiss(c)
           \/ Tick \/ FireAnim \/ FireAuto \/ FireDuration \/ FireRemove
           \/ UNCHANGED vars
  <2>1. Same
    BY <1>9 DEF LoadNative, LoadDrupal, ContentLoaded, RunListener, AjaxInsert,
                ApiInitAll, ClickDismiss, Tick, FireAnim, FireAuto, FireDuration,
                FireDismiss, FireRemove, vars
  <2>. QED BY <1>1, <2>1
<1>. QED BY <1>5, <1>6, <1>7, <1>8, <1>9 DEF Next

\* localStorage.notificationLogs always holds exactly the last LogCap cards
\* logNotification recorded, oldest first: push-then-slice(-50) never
\* loses a recent view nor keeps an old one, for every cap and history.
THEOREM LogHoldsLatestInvariant == Spec => []LogHoldsLatest
<1>1. Init => LogHoldsLatest
  BY BoundAssumption DEF Init, LogHoldsLatest
<1>2. TypeOK /\ LogHoldsLatest /\ [Next]_vars => LogHoldsLatest'
  BY LogStep
<1>. QED BY <1>1, <1>2, TypeCorrect, PTL DEF Spec

-----------------------------------------------------------------------------
(* Pending timers belong to initialized cards.                             *)

\* Every timer in ts belongs to a card with a positive count in n, and a
\* removal timer to a card with a positive count in de.
Owned(ts, n, de) ==
    \A i \in 1..Len(ts) :
        /\ n[ts[i].card] > 0
        /\ ts[i].kind = "remove" => de[ts[i].card] > 0

\* Two owned queues concatenated are owned.
LEMMA OwnedConcat ==
    ASSUME NEW s \in Seq(TimerRec), NEW t \in Seq(TimerRec), NEW n, NEW de,
           Owned(s, n, de), Owned(t, n, de)
    PROVE  Owned(s \o t, n, de)
<1>1. SUFFICES ASSUME NEW i \in 1..Len(s \o t)
               PROVE  /\ n[(s \o t)[i].card] > 0
                      /\ (s \o t)[i].kind = "remove" => de[(s \o t)[i].card] > 0
  BY DEF Owned
<1>2. CASE i <= Len(s)
  <2>1. (s \o t)[i] = s[i] /\ i \in 1..Len(s) BY <1>2, ConcatProperties
  <2>. QED BY <2>1 DEF Owned
<1>3. CASE i > Len(s)
  <2>1. (s \o t)[i] = t[i - Len(s)] /\ i - Len(s) \in 1..Len(t)
    BY <1>3, ConcatProperties
  <2>. QED BY <2>1 DEF Owned
<1>. QED BY <1>2, <1>3

\* Counts that only grow keep a queue owned.
LEMMA OwnedGrow ==
    ASSUME NEW ts \in Seq(TimerRec), NEW n, NEW de, NEW n2, NEW de2,
           Owned(ts, n, de),
           \A c \in Cards : n[c] > 0 => n2[c] > 0,
           \A c \in Cards : de[c] > 0 => de2[c] > 0
    PROVE  Owned(ts, n2, de2)
<1>1. ASSUME NEW i \in 1..Len(ts) PROVE ts[i].card \in Cards
  <2>1. ts[i] \in TimerRec BY ElementOfSeq
  <2>. QED BY <2>1 DEF TimerRec
<1>. QED BY <1>1 DEF Owned

\* The queue without the timer that fires is owned.
LEMMA OwnedRest ==
    ASSUME timers \in Seq(TimerRec), Due # {}, NEW n, NEW de,
           Owned(timers, n, de)
    PROVE  Owned(Rest, n, de)
<1>1. First \in 1..Len(timers) BY FirstDue
<1>. DEFINE s == SubSeq(timers, 1, First - 1)
            t == SubSeq(timers, First + 1, Len(timers))
<1>2. s \in Seq(TimerRec) /\ t \in Seq(TimerRec) BY <1>1, SubSeqProperties
<1>3. Owned(s, n, de)
  <2>1. Len(s) = First - 1 /\ \A i \in 1..Len(s) : s[i] = timers[i]
    BY <1>1, SubSeqProperties
  <2>. QED BY <1>1, <2>1 DEF Owned
<1>4. Owned(t, n, de)
  <2>1. /\ Len(t) = Len(timers) - First
        /\ \A i \in 1..Len(t) : t[i] = timers[First + i]
    BY <1>1, SubSeqProperties
  <2>. QED BY <1>1, <2>1 DEF Owned
<1>. QED BY <1>2, <1>3, <1>4, OwnedConcat DEF Rest

\* A timer of a card with a positive count, not a removal, is owned.
LEMMA OwnedSingle ==
    ASSUME NEW k \in TimerKinds \ {"remove"}, NEW c \in Cards, NEW d \in Nat,
           NEW n, NEW de, n[c] > 0
    PROVE  /\ <<Timer(k, c, d)>> \in Seq(TimerRec)
           /\ Owned(<<Timer(k, c, d)>>, n, de)
BY DEF Owned, Timer, TimerRec

\* initializeCard counts its card and queues timers of that card only:
\* the auto-dismiss, animateIn, and its caller's `more`.
LEMMA InitializeCardOwned ==
    ASSUME TypeOK, NEW c \in Cards, NEW cls, NEW more \in Seq(TimerRec),
           InitializeCard(c, cls, more),
           Owned(timers, inits, dismissEvents),
           Owned(more, inits', dismissEvents),
           UNCHANGED dismissEvents
    PROVE  /\ Owned(timers', inits', dismissEvents')
           /\ \A d \in Cards : inits'[d] >= inits[d]
<1>1. timers \in Seq(TimerRec) /\ inits \in [Cards -> Nat]
  BY DEF TypeOK, TimerRec
<1>2. inits' = [inits EXCEPT ![c] = @ + 1] BY DEF InitializeCard
<1>3. \A d \in Cards : inits'[d] >= inits[d] /\ (inits[d] > 0 => inits'[d] > 0)
  BY <1>1, <1>2
<1>4. inits'[c] > 0 BY <1>1, <1>2
<1>5. Owned(timers, inits', dismissEvents) BY <1>1, <1>3, OwnedGrow
<1>6. AutoTimer(c, cls) \in Seq(TimerRec) /\ Owned(AutoTimer(c, cls), inits', dismissEvents)
  <2>1. CASE AutoTimer(c, cls) = <<>> BY <2>1 DEF Owned
  <2>2. CASE AutoTimer(c, cls) = <<Timer("auto", c, AutoDelay)>>
    BY <1>4, <2>2, DelayAssumption, OwnedSingle DEF TimerKinds
  <2>. QED BY <2>1, <2>2 DEF AutoTimer
<1>7. <<Timer("anim", c, AnimDelay)>> \in Seq(TimerRec)
      /\ Owned(<<Timer("anim", c, AnimDelay)>>, inits', dismissEvents)
  BY <1>4, DelayAssumption, OwnedSingle DEF TimerKinds
<1>8. (IF StorageBroken THEN <<>> ELSE more) \in Seq(TimerRec)
      /\ Owned(IF StorageBroken THEN <<>> ELSE more, inits', dismissEvents)
  BY DEF Owned
<1>9. Owned(timers \o AutoTimer(c, cls), inits', dismissEvents)
  BY <1>1, <1>5, <1>6, OwnedConcat
<1>10. Owned(timers \o AutoTimer(c, cls) \o <<Timer("anim", c, AnimDelay)>>,
              inits', dismissEvents)
  BY <1>1, <1>6, <1>7, <1>9, ConcatProperties, OwnedConcat
<1>11. Owned(timers \o AutoTimer(c, cls) \o <<Timer("anim", c, AnimDelay)>>
               \o (IF StorageBroken THEN <<>> ELSE more), inits', dismissEvents)
  BY <1>1, <1>6, <1>7, <1>8, <1>10, ConcatProperties, OwnedConcat
<1>. QED BY <1>3, <1>11 DEF InitializeCard

\* dismissCard counts its dismissals and queues removals of its card only.
LEMMA DismissTimesOwned ==
    ASSUME TypeOK, NEW c \in Cards, NEW k \in Nat \ {0},
           NEW pending \in Seq(TimerRec), DismissTimes(c, k, pending),
           inits[c] > 0, Owned(pending, inits, dismissEvents)
    PROVE  /\ Owned(timers', inits, dismissEvents')
           /\ \A d \in Cards : dismissEvents'[d] >= dismissEvents[d]
<1>1. dismissEvents \in [Cards -> Nat] BY DEF TypeOK
<1>2. dismissEvents' = [dismissEvents EXCEPT ![c] = @ + k] BY DEF DismissTimes
<1>3. \A d \in Cards : dismissEvents'[d] >= dismissEvents[d]
                       /\ (dismissEvents[d] > 0 => dismissEvents'[d] > 0)
  BY <1>1, <1>2
<1>4. Owned(pending, inits, dismissEvents') BY <1>3, OwnedGrow
<1>. DEFINE rm == [i \in 1..k |-> Timer("remove", c, RemoveDelay)]
<1>5. rm \in Seq(TimerRec) BY DelayAssumption DEF Timer, TimerRec, TimerKinds
<1>6. Owned(rm, inits, dismissEvents') BY <1>1, <1>2 DEF Owned, Timer
<1>. QED BY <1>3, <1>4, <1>5, <1>6, OwnedConcat DEF DismissTimes

\* The counts of initializations and of dismissals never go down.
Grow == \A c \in Cards : inits'[c] >= inits[c] /\ dismissEvents'[c] >= dismissEvents[c]

\* init(element) keeps the queue owned.
LEMMA GuardedInitOwned ==
    ASSUME TypeOK, NEW c \in Cards, GuardedInit(c), UNCHANGED dismissEvents,
           Owned(timers, inits, dismissEvents)
    PROVE  Owned(timers', inits', dismissEvents') /\ Grow
<1>1. inits \in [Cards -> Nat] /\ dismissEvents \in [Cards -> Nat] BY DEF TypeOK
<1>2. CASE initFlag[c] BY <1>1, <1>2 DEF GuardedInit, Grow
<1>3. CASE ~initFlag[c]
  <2>1. InitializeCard(c, classes[c], <<>>) BY <1>3 DEF GuardedInit
  <2>2. <<>> \in Seq(TimerRec) /\ Owned(<<>>, inits', dismissEvents) BY DEF Owned
  <2>3. Owned(timers', inits', dismissEvents') /\ \A d \in Cards : inits'[d] >= inits[d]
    BY <2>1, <2>2, InitializeCardOwned
  <2>4. \A d \in Cards : dismissEvents'[d] >= dismissEvents[d] BY <1>1
  <2>. QED BY <2>3, <2>4 DEF Grow
<1>. QED BY <1>2, <1>3

\* show() keeps the queue owned: its duration timer is its own card's.
LEMMA ShowOwned ==
    ASSUME TypeOK, NEW v, NEW d \in Nat, NEW dis, Show(v, d, dis),
           UNCHANGED dismissEvents, Owned(timers, inits, dismissEvents)
    PROVE  Owned(timers', inits', dismissEvents') /\ Grow
<1>1. inits \in [Cards -> Nat] /\ dismissEvents \in [Cards -> Nat] BY DEF TypeOK
<1>2. PICK c \in Cards : c = CHOOSE x \in ShownCards : place[x] = "absent"
  BY DEF Show, Cards
<1>. DEFINE more == IF d > 0 THEN <<Timer("duration", c, d)>> ELSE <<>>
<1>3. InitializeCard(c, {v} \cap Modifiers, more) BY <1>2 DEF Show
<1>4. inits'[c] > 0 BY <1>1, <1>3 DEF InitializeCard
<1>5. more \in Seq(TimerRec) /\ Owned(more, inits', dismissEvents)
  <2>1. CASE d > 0 BY <1>4, <2>1, OwnedSingle DEF TimerKinds
  <2>2. CASE ~(d > 0) BY <2>2 DEF Owned
  <2>. QED BY <2>1, <2>2
<1>6. Owned(timers', inits', dismissEvents') /\ \A x \in Cards : inits'[x] >= inits[x]
  BY <1>3, <1>5, InitializeCardOwned
<1>7. \A x \in Cards : dismissEvents'[x] >= dismissEvents[x] BY <1>1
<1>. QED BY <1>6, <1>7 DEF Grow

\* Every action keeps the pending timers owned and the counts growing.
LEMMA OwnedStep ==
    ASSUME TypeOK, Owned(timers, inits, dismissEvents), [Next]_vars
    PROVE  Owned(timers', inits', dismissEvents') /\ Grow
<1>1. timers \in Seq(TimerRec) /\ work \in Seq(WorkItem)
      /\ inits \in [Cards -> Nat] /\ dismissEvents \in [Cards -> Nat]
  BY DEF TypeOK, TimerRec
<1>. DEFINE Same == UNCHANGED <<timers, inits, dismissEvents>>
<1>2. Same => Owned(timers', inits', dismissEvents') /\ Grow BY <1>1 DEF Grow
<1>3. CASE InitAllStep \/ AttachCardStep
  <2>1. PICK c \in Head(work).todo :
          /\ Head(work).op \in {"init", "attachCard"}
          /\ \/ GuardedInit(c)
             \/ UNCHANGED <<initFlag, inits, opacity, timers, log, mounted>>
    BY <1>3, SMTT(30) DEF InitAllStep, AttachCardStep
  <2>2. c \in Cards BY <1>1, <1>3, <2>1, HeadTodo DEF InitAllStep, AttachCardStep
  <2>3. UNCHANGED dismissEvents BY <1>3 DEF InitAllStep, AttachCardStep, eventVars
  <2>. QED BY <1>2, <2>1, <2>2, <2>3, GuardedInitOwned
<1>4. CASE ConvertStep
  <2>1. UNCHANGED dismissEvents BY <1>4 DEF ConvertStep, eventVars
  <2>2. \/ \E d \in {0, SuccessDuration} : \E v, dis : Show(v, d, dis)
        \/ UNCHANGED <<timers, inits>>
    BY <1>4 DEF ConvertStep, cardVars
  <2>3. {0, SuccessDuration} \subseteq Nat BY DelayAssumption
  <2>. QED BY <1>2, <2>1, <2>2, <2>3, ShowOwned
<1>5. CASE \E v \in ShowVariants, d \in ShowDurations, dis \in BOOLEAN :
               ApiShow(v, d, dis)
  <2>1. PICK v \in ShowVariants, d \in ShowDurations, dis \in BOOLEAN :
          ApiShow(v, d, dis)
    BY <1>5
  <2>2. d \in Nat BY DelayAssumption
  <2>. QED BY <2>1, <2>2, ShowOwned DEF ApiShow, eventVars
<1>6. CASE \E c \in Cards : ApiInitOne(c)
  BY <1>6, GuardedInitOwned DEF ApiInitOne, eventVars
<1>7. CASE \E c \in Cards : ClickDismiss(c)
  <2>1. PICK c \in Cards : ClickDismiss(c) BY <1>7
  <2>2. inits[c] \in Nat \ {0} BY <1>1, <2>1 DEF ClickDismiss
  <2>3. DismissTimes(c, inits[c], timers) /\ UNCHANGED inits
    BY <2>1 DEF ClickDismiss
  <2>4. inits[c] > 0 BY <2>2
  <2>. QED BY <1>1, <2>2, <2>3, <2>4, DismissTimesOwned DEF Grow
<1>8. CASE FireAuto \/ FireDuration
  <2>1. PICK k \in {"auto", "duration"} : FireDismiss(k)
    BY <1>8 DEF FireAuto, FireDuration
  <2>2. Due # {} BY <2>1 DEF FireDismiss, FireGuard
  <2>3. PICK c \in Cards : c = timers[First].card
    <3>1. First \in 1..Len(timers) BY <1>1, <2>2, FirstDue
    <3>2. timers[First] \in TimerRec BY <1>1, <3>1, ElementOfSeq
    <3>. QED BY <3>2 DEF TimerRec
  <2>4. inits[c] > 0
    <3>1. First \in 1..Len(timers) BY <1>1, <2>2, FirstDue
    <3>. QED BY <2>3, <3>1 DEF Owned
  <2>5. Rest \in Seq(TimerRec) /\ Owned(Rest, inits, dismissEvents)
    BY <1>1, <2>2, RestType, OwnedRest
  <2>6. DismissTimes(c, 1, Rest) /\ UNCHANGED inits
    BY <2>1, <2>3 DEF FireDismiss
  <2>. QED BY <1>1, <2>4, <2>5, <2>6, DismissTimesOwned DEF Grow
<1>9. CASE FireAnim \/ FireRemove
  <2>1. Due # {} BY <1>9 DEF FireAnim, FireRemove, FireGuard
  <2>2. timers' = Rest /\ UNCHANGED <<inits, dismissEvents>>
    BY <1>9 DEF FireAnim, FireRemove, eventVars
  <2>. QED BY <1>1, <2>1, <2>2, OwnedRest DEF Grow
<1>10. CASE Tick
  <2>1. timers' = [i \in 1..Len(timers) |-> [timers[i] EXCEPT !.left = @ - 1]]
        /\ UNCHANGED <<inits, dismissEvents>>
    BY <1>10 DEF Tick, eventVars
  <2>2. \A i \in 1..Len(timers) :
          /\ [timers[i] EXCEPT !.left = @ - 1].card = timers[i].card
          /\ [timers[i] EXCEPT !.left = @ - 1].kind = timers[i].kind
    <3>1. SUFFICES ASSUME NEW i \in 1..Len(timers)
                   PROVE  /\ [timers[i] EXCEPT !.left = @ - 1].card = timers[i].card
                          /\ [timers[i] EXCEPT !.left = @ - 1].kind = timers[i].kind
      OBVIOUS
    <3>2. timers[i] \in TimerRec BY <1>1, ElementOfSeq
    <3>. QED BY <3>2 DEF TimerRec
  <2>3. Owned(timers', inits, dismissEvents) BY <2>1, <2>2 DEF Owned
  <2>. QED BY <1>1, <2>1, <2>3 DEF Grow
<1>11. CASE \/ LoadNative \/ LoadDrupal \/ ContentLoaded \/ RunListener
            \/ \E c \in AjaxCards : AjaxInsert(c)
            \/ ApiInitAll
            \/ UNCHANGED vars
  <2>1. Same
    BY <1>11 DEF LoadNative, LoadDrupal, ContentLoaded, RunListener, AjaxInsert,
                 ApiInitAll, vars, eventVars
  <2>. QED BY <1>2, <2>1
<1>. QED BY <1>3, <1>4, <1>5, <1>6, <1>7, <1>8, <1>9, <1>10, <1>11 DEF Next

-----------------------------------------------------------------------------
(* With storage working, a rendered card is mounted whenever the page is   *)
(* idle.                                                                   *)

\* The engine's DOMContentLoaded listener is still queued in ls.
NativeQueued(ls) == \E i \in 1..Len(ls) : ls[i] = "native"

\* A loop of initializeAll or of the card behavior in w still has card c
\* to handle.
InLoop(c, w) ==
    \E i \in 1..Len(w) : w[i].op \in {"init", "attachCard"} /\ c \in w[i].todo

\* once() never marked a card that is not yet in the document.
NotOnce == \A c \in Rendered : place[c] = "absent" => c \notin onceCard

\* A rendered card in the document that initializeCard has not reached is
\* still in the document, and its initialization is on its way: the engine
\* has not loaded yet, its DOMContentLoaded listener is queued, or a running
\* loop still has the card to handle.
Covered ==
    \A c \in Rendered :
        place[c] # "absent" /\ inits[c] = 0 =>
            /\ place[c] = "in"
            /\ \/ ~nativeLoaded
               \/ NativeQueued(listeners)
               \/ InLoop(c, work)

\* The inductive invariant behind MountedWhenIdle.
MountInv == Owned(timers, inits, dismissEvents) /\ NotOnce /\ Covered

\* Handling element e keeps the rest of the running loops' cards.
LEMMA AdvanceInLoop ==
    ASSUME work \in Seq(WorkItem), work # <<>>, NEW c, NEW e, c # e,
           InLoop(c, work)
    PROVE  InLoop(c, Advance(e))
<1>. DEFINE h == [Head(work) EXCEPT !.todo = @ \ {e}]
<1>1. Head(work) \in WorkItem /\ Tail(work) \in Seq(WorkItem)
      /\ Len(Tail(work)) = Len(work) - 1
      /\ \A j \in 1..Len(Tail(work)) : Tail(work)[j] = work[j + 1]
  BY HeadTailProperties
<1>2. h \in WorkItem /\ h.op = Head(work).op /\ h.todo = Head(work).todo \ {e}
  BY <1>1 DEF WorkItem
<1>3. PICK i \in 1..Len(work) :
        work[i].op \in {"init", "attachCard"} /\ c \in work[i].todo
  BY DEF InLoop
<1>4. CASE h.todo = {}
  <2>1. Advance(e) = Tail(work) BY <1>4 DEF Advance
  <2>2. i # 1 BY <1>2, <1>3, <1>4
  <2>3. i - 1 \in 1..Len(Tail(work)) /\ Tail(work)[i - 1] = work[i]
    BY <1>1, <2>2
  <2>. QED BY <1>3, <2>1, <2>3 DEF InLoop
<1>5. CASE h.todo # {}
  <2>1. Advance(e) = <<h>> \o Tail(work) BY <1>5 DEF Advance
  <2>2. <<h>> \in Seq(WorkItem) BY <1>2
  <2>3. Len(<<h>> \o Tail(work)) = Len(work)
        /\ \A j \in 1..Len(work) :
             (<<h>> \o Tail(work))[j] = IF j <= 1 THEN h ELSE Tail(work)[j - 1]
    <3>1. Len(work) \in Nat \ {0} BY EmptySeq
    <3>2. /\ Len(<<h>> \o Tail(work)) = Len(<<h>>) + Len(Tail(work))
          /\ \A j \in 1..Len(<<h>>) + Len(Tail(work)) :
               (<<h>> \o Tail(work))[j] =
                 IF j <= Len(<<h>>) THEN <<h>>[j] ELSE Tail(work)[j - Len(<<h>>)]
      BY <1>1, <2>2, ConcatProperties
    <3>3. Len(<<h>>) = 1 /\ <<h>>[1] = h OBVIOUS
    <3>4. Len(<<h>> \o Tail(work)) = Len(work) BY <1>1, <3>1, <3>2, <3>3
    <3>5. ASSUME NEW j \in 1..Len(work)
          PROVE  (<<h>> \o Tail(work))[j] = IF j <= 1 THEN h ELSE Tail(work)[j - 1]
      <4>1. j \in 1..Len(<<h>>) + Len(Tail(work)) BY <1>1, <3>1, <3>3
      <4>2. (<<h>> \o Tail(work))[j] =
              IF j <= Len(<<h>>) THEN <<h>>[j] ELSE Tail(work)[j - Len(<<h>>)]
        BY <3>2, <4>1
      <4>3. CASE j = 1 BY <3>3, <4>2, <4>3
      <4>4. CASE j # 1
        <5>1. ~(j <= 1) /\ ~(j <= Len(<<h>>)) BY <3>3, <4>4
        <5>. QED BY <3>3, <4>2, <5>1
      <4>. QED BY <4>3, <4>4
    <3>. QED BY <3>4, <3>5
  <2>4. CASE i = 1
    <3>1. (<<h>> \o Tail(work))[1] = h BY <2>3
    <3>2. h.op \in {"init", "attachCard"} /\ c \in h.todo BY <1>2, <1>3, <2>4
    <3>3. 1 \in 1..Len(work) BY <1>3, <2>4
    <3>. QED BY <2>1, <2>3, <3>1, <3>2, <3>3 DEF InLoop
  <2>5. CASE i # 1
    <3>1. (<<h>> \o Tail(work))[i] = work[i] BY <1>1, <2>3, <2>5
    <3>. QED BY <1>3, <2>1, <2>3, <3>1 DEF InLoop
  <2>. QED BY <2>4, <2>5
<1>. QED BY <1>4, <1>5

\* Running the first DOMContentLoaded listener, when it is not the
\* engine's, keeps the engine's queued.
LEMMA TailQueued ==
    ASSUME NEW S, NEW ls \in Seq(S), ls # <<>>, Head(ls) # "native",
           NativeQueued(ls)
    PROVE  NativeQueued(Tail(ls))
<1>1. PICK i \in 1..Len(ls) : ls[i] = "native" BY DEF NativeQueued
<1>2. i # 1 BY <1>1
<1>3. i - 1 \in 1..Len(Tail(ls)) /\ Tail(ls)[i - 1] = ls[i]
  BY <1>2, HeadTailProperties
<1>. QED BY <1>1, <1>3 DEF NativeQueued

\* Registering a listener keeps the engine's queued, and registering the
\* engine's queues it.
LEMMA AppendQueued ==
    ASSUME NEW S, NEW ls \in Seq(S), NEW x \in S
    PROVE  /\ NativeQueued(ls) => NativeQueued(Append(ls, x))
           /\ x = "native" => NativeQueued(Append(ls, x))
<1>1. Len(Append(ls, x)) = Len(ls) + 1
      /\ \A j \in 1..Len(ls) : Append(ls, x)[j] = ls[j]
      /\ Append(ls, x)[Len(ls) + 1] = x
  BY AppendProperties
<1>. QED BY <1>1 DEF NativeQueued

\* initializeAll's loop over the document has every card in it.
LEMMA LoopInDoc ==
    ASSUME NEW c \in InDoc
    PROVE  InLoop(c, Loop("init", InDoc))
BY DEF Loop, InLoop

\* show() places a card of its own, never a rendered one.
LEMMA ShowPlace ==
    ASSUME TypeOK, NEW v, NEW d, NEW dis, Show(v, d, dis)
    PROVE  \A c \in Rendered : place'[c] = place[c]
<1>1. PICK x \in ShownCards : x = CHOOSE y \in ShownCards : place[y] = "absent"
  BY DEF Show
<1>2. place' = [place EXCEPT ![x] = "in"] BY <1>1 DEF Show
<1>3. x \notin Rendered BY CardsAssumption
<1>. QED BY <1>2, <1>3 DEF TypeOK

\* Every action keeps once() off the cards not yet in the document.
LEMMA NotOnceStep ==
    ASSUME TypeOK, NotOnce, [Next]_vars
    PROVE  NotOnce'
<1>1. place \in [Cards -> {"absent", "in", "removed"}] /\ Rendered \subseteq Cards
  BY DEF TypeOK, Cards
<1>2. CASE RunListener
  <2>1. UNCHANGED place /\ (onceCard' = onceCard \/ onceCard' = onceCard \cup InDoc)
    BY <1>2 DEF RunListener, Attach
  <2>. QED BY <2>1 DEF NotOnce, InDoc
<1>3. CASE \E a \in AjaxCards : AjaxInsert(a)
  <2>1. PICK a \in AjaxCards : AjaxInsert(a) BY <1>3
  <2>2. place' = [place EXCEPT ![a] = "in"] /\ onceCard' = onceCard \cup {a}
    BY <2>1 DEF AjaxInsert, Attach
  <2>. QED BY <1>1, <2>2 DEF NotOnce, Rendered
<1>4. CASE ConvertStep \/ \E v \in ShowVariants, d \in ShowDurations,
                                dis \in BOOLEAN : ApiShow(v, d, dis)
  <2>1. UNCHANGED onceCard BY <1>4 DEF ConvertStep, ApiShow
  <2>2. \A c \in Rendered : place'[c] = place[c]
    <3>1. CASE ConvertStep
      <4>1. \/ \E v, d, dis : Show(v, d, dis)
            \/ UNCHANGED place
        BY <3>1 DEF ConvertStep, cardVars
      <4>. QED BY <4>1, ShowPlace
    <3>2. CASE \E v \in ShowVariants, d \in ShowDurations, dis \in BOOLEAN :
                 ApiShow(v, d, dis)
      BY <3>2, ShowPlace DEF ApiShow
    <3>. QED BY <1>4, <3>1, <3>2
  <2>. QED BY <2>1, <2>2 DEF NotOnce
<1>5. CASE FireRemove
  <2>1. PICK x \in Cards :
          place' = [place EXCEPT ![x] = IF @ = "in" THEN "removed" ELSE @]
    <3>1. Due # {} BY <1>5 DEF FireRemove, FireGuard
    <3>2. timers \in Seq(TimerRec) BY DEF TypeOK, TimerRec
    <3>3. First \in 1..Len(timers) BY <3>1, <3>2, FirstDue
    <3>4. timers[First].card \in Cards
      <4>1. timers[First] \in TimerRec BY <3>2, <3>3, ElementOfSeq
      <4>. QED BY <4>1 DEF TimerRec
    <3>. QED BY <1>5, <3>4 DEF FireRemove
  <2>2. UNCHANGED onceCard BY <1>5 DEF FireRemove
  <2>. QED BY <1>1, <2>1, <2>2 DEF NotOnce
<1>6. CASE \/ LoadNative \/ LoadDrupal \/ ContentLoaded
           \/ InitAllStep \/ AttachCardStep
           \/ ApiInitAll \/ \E c \in Cards : ApiInitOne(c)
           \/ \E c \in Cards : ClickDismiss(c)
           \/ Tick \/ FireAnim \/ FireAuto \/ FireDuration \/ UNCHANGED vars
  <2>1. UNCHANGED <<place, onceCard>>
    BY <1>6 DEF LoadNative, LoadDrupal, ContentLoaded, InitAllStep, AttachCardStep,
                ApiInitAll, ApiInitOne, ClickDismiss, Tick, FireAnim, FireAuto,
                FireDuration, FireDismiss, vars
  <2>. QED BY <2>1 DEF NotOnce
<1>. QED BY <1>2, <1>3, <1>4, <1>5, <1>6 DEF Next

\* A step that leaves the engine's load, the listeners and the loops alone,
\* and the place of every uninitialized rendered card, keeps Covered.
LEMMA KeepCovered ==
    ASSUME TypeOK, Covered, Grow,
           UNCHANGED <<nativeLoaded, listeners, work>>,
           \A c \in Rendered : inits[c] = 0 => place'[c] = place[c]
    PROVE  Covered'
<1>1. inits \in [Cards -> Nat] /\ Rendered \subseteq Cards BY DEF TypeOK, Cards
<1>2. SUFFICES ASSUME NEW c \in Rendered, place'[c] # "absent", inits'[c] = 0
               PROVE  /\ place'[c] = "in"
                      /\ \/ ~nativeLoaded'
                         \/ NativeQueued(listeners')
                         \/ InLoop(c, work')
  BY DEF Covered
<1>3. inits[c] = 0 BY <1>1, <1>2 DEF Grow
<1>4. place'[c] = place[c] BY <1>3
<1>. QED BY <1>2, <1>3, <1>4 DEF Covered

\* One iteration of a running loop on element e keeps Covered when it
\* either initializes e, or e is no rendered card, or the engine has not
\* loaded (the behavior then does nothing).
LEMMA LoopCovered ==
    ASSUME TypeOK, InitCountsFlag, Covered, Grow, work # <<>>, NEW e,
           \/ e \notin Rendered
           \/ ~nativeLoaded
           \/ e \in Cards /\ GuardedInit(e),
           work' = Advance(e), UNCHANGED <<nativeLoaded, listeners>>,
           \A c \in Rendered : place'[c] = place[c]
    PROVE  Covered'
<1>1. /\ inits \in [Cards -> Nat] /\ initFlag \in [Cards -> BOOLEAN]
      /\ work \in Seq(WorkItem) /\ Rendered \subseteq Cards
  BY DEF TypeOK, Cards
<1>2. SUFFICES ASSUME NEW c \in Rendered, place'[c] # "absent", inits'[c] = 0
               PROVE  /\ place'[c] = "in"
                      /\ \/ ~nativeLoaded'
                         \/ NativeQueued(listeners')
                         \/ InLoop(c, work')
  BY DEF Covered
<1>3. inits[c] = 0 /\ place'[c] = place[c] BY <1>1, <1>2 DEF Grow
<1>4. /\ place[c] = "in"
      /\ \/ ~nativeLoaded \/ NativeQueued(listeners) \/ InLoop(c, work)
  BY <1>2, <1>3 DEF Covered
<1>5. CASE ~nativeLoaded \/ NativeQueued(listeners) BY <1>3, <1>4, <1>5
<1>6. CASE InLoop(c, work) /\ nativeLoaded
  <2>1. c # e
    <3>1. SUFFICES ASSUME c = e PROVE FALSE OBVIOUS
    <3>2. e \in Cards /\ GuardedInit(e) BY <1>6, <3>1
    <3>3. ~initFlag[c] BY <1>3 DEF InitCountsFlag
    <3>4. inits' = [inits EXCEPT ![c] = @ + 1]
      BY <3>1, <3>2, <3>3 DEF GuardedInit, InitializeCard
    <3>. QED BY <1>1, <1>2, <1>3, <3>4
  <2>2. InLoop(c, Advance(e)) BY <1>1, <1>6, <2>1, AdvanceInLoop
  <2>. QED BY <1>3, <1>4, <2>2
<1>. QED BY <1>4, <1>5, <1>6

\* On an idle page no loop or listener is pending: a rendered card in the
\* document that is not initialized waits for the engine to load.
LEMMA IdleCovered ==
    ASSUME Covered, Idle
    PROVE  \A c \in Rendered : place[c] # "absent" /\ inits[c] = 0 => ~nativeLoaded
BY DEF Covered, Idle, NativeQueued, InLoop

\* With storage working, every action keeps Covered.
LEMMA CoveredStep ==
    ASSUME TypeOK, InitCountsFlag, MountInv, ~StorageBroken, [Next]_vars
    PROVE  Covered'
<1>1. Grow BY OwnedStep DEF MountInv
<1>2. Covered /\ NotOnce /\ Owned(timers, inits, dismissEvents) BY DEF MountInv
<1>3. /\ inits \in [Cards -> Nat] /\ place \in [Cards -> {"absent", "in", "removed"}]
      /\ work \in Seq(WorkItem) /\ listeners \in Seq({"native", "drupal"})
      /\ timers \in Seq(TimerRec) /\ Rendered \subseteq Cards
  BY DEF TypeOK, TimerRec, Cards
<1>. DEFINE Pending(c) == place'[c] # "absent" /\ inits'[c] = 0
            Goal(c) == /\ place'[c] = "in"
                       /\ \/ ~nativeLoaded'
                          \/ NativeQueued(listeners')
                          \/ InLoop(c, work')
<1>4. (\A c \in Rendered : Pending(c) => Goal(c)) => Covered' BY DEF Covered
<1>5. CASE \/ ContentLoaded \/ \E c \in Cards : ApiInitOne(c)
           \/ \E c \in Cards : ClickDismiss(c)
           \/ Tick \/ FireAnim \/ FireAuto \/ FireDuration \/ UNCHANGED vars
  <2>1. UNCHANGED <<nativeLoaded, listeners, work, place>>
    BY <1>5 DEF ContentLoaded, ApiInitOne, ClickDismiss, Tick, FireAnim, FireAuto,
                FireDuration, FireDismiss, vars, pageVars
  <2>. QED BY <1>1, <1>2, <2>1, KeepCovered
<1>6. CASE \E v \in ShowVariants, d \in ShowDurations, dis \in BOOLEAN :
             ApiShow(v, d, dis)
  <2>1. PICK v \in ShowVariants, d \in ShowDurations, dis \in BOOLEAN :
          ApiShow(v, d, dis)
    BY <1>6
  <2>2. UNCHANGED <<nativeLoaded, listeners, work>> BY <2>1 DEF ApiShow, pageVars
  <2>3. \A c \in Rendered : place'[c] = place[c] BY <2>1, ShowPlace DEF ApiShow
  <2>. QED BY <1>1, <1>2, <2>2, <2>3, KeepCovered
<1>7. CASE FireRemove
  <2>1. Due # {} BY <1>7 DEF FireRemove, FireGuard
  <2>2. First \in 1..Len(timers) BY <1>3, <2>1, FirstDue
  <2>3. PICK x \in Cards : x = timers[First].card
    <3>1. timers[First] \in TimerRec BY <1>3, <2>2, ElementOfSeq
    <3>. QED BY <3>1 DEF TimerRec
  <2>4. inits[x] > 0 BY <1>2, <2>2, <2>3 DEF Owned
  <2>5. place' = [place EXCEPT ![x] = IF @ = "in" THEN "removed" ELSE @]
    BY <1>7, <2>3 DEF FireRemove
  <2>6. \A c \in Rendered : inits[c] = 0 => place'[c] = place[c]
    BY <1>3, <2>4, <2>5
  <2>7. UNCHANGED <<nativeLoaded, listeners, work>> BY <1>7 DEF FireRemove, pageVars
  <2>. QED BY <1>1, <1>2, <2>6, <2>7, KeepCovered
<1>8. CASE LoadNative
  <2>1. UNCHANGED <<place, inits>> BY <1>8 DEF LoadNative
  <2>2. SUFFICES ASSUME NEW c \in Rendered, Pending(c) PROVE Goal(c) BY <1>4
  <2>3. place[c] = "in" /\ c \in InDoc BY <1>2, <1>3, <2>1, <2>2 DEF Covered, InDoc
  <2>4. CASE readyState = "loading"
    <3>1. listeners' = Append(listeners, "native") BY <1>8, <2>4 DEF LoadNative
    <3>. QED BY <1>3, <2>1, <2>3, <3>1, AppendQueued
  <2>5. CASE readyState # "loading"
    <3>1. work' = Loop("init", InDoc) BY <1>8, <2>5 DEF LoadNative
    <3>. QED BY <2>1, <2>3, <3>1, LoopInDoc
  <2>. QED BY <2>4, <2>5
<1>9. CASE LoadDrupal
  <2>1. UNCHANGED <<place, inits, nativeLoaded, work>>
        /\ listeners' = Append(listeners, "drupal")
    BY <1>9 DEF LoadDrupal
  <2>2. SUFFICES ASSUME NEW c \in Rendered, Pending(c) PROVE Goal(c) BY <1>4
  <2>3. /\ place[c] = "in"
        /\ \/ ~nativeLoaded \/ NativeQueued(listeners) \/ InLoop(c, work)
    BY <1>2, <2>1, <2>2 DEF Covered
  <2>. QED BY <1>3, <2>1, <2>3, AppendQueued
<1>10. CASE RunListener
  <2>1. UNCHANGED <<place, inits, nativeLoaded>> /\ work = <<>>
        /\ listeners # <<>> /\ listeners' = Tail(listeners)
    BY <1>10 DEF RunListener
  <2>2. SUFFICES ASSUME NEW c \in Rendered, Pending(c) PROVE Goal(c) BY <1>4
  <2>3. /\ place[c] = "in" /\ c \in InDoc
        /\ \/ ~nativeLoaded \/ NativeQueued(listeners)
    BY <1>2, <1>3, <2>1, <2>2 DEF Covered, InLoop, InDoc
  <2>4. CASE Head(listeners) = "native"
    <3>1. work' = Loop("init", InDoc) BY <1>10, <2>4 DEF RunListener
    <3>. QED BY <2>1, <2>3, <3>1, LoopInDoc
  <2>5. CASE Head(listeners) # "native"
    BY <1>3, <2>1, <2>3, <2>5, TailQueued
  <2>. QED BY <2>4, <2>5
<1>11. CASE InitAllStep
  <2>1. PICK e \in Head(work).todo :
          work' = NextInLoop(e, ~initFlag[e]) /\ GuardedInit(e)
    BY <1>11 DEF InitAllStep
  <2>2. work # <<>> /\ e \in Cards BY <1>3, <1>11, HeadTodo DEF InitAllStep
  <2>3. work' = Advance(e) BY <2>1 DEF NextInLoop
  <2>4. UNCHANGED <<nativeLoaded, listeners, place>> BY <1>11 DEF InitAllStep, pageVars
  <2>. QED BY <1>1, <1>2, <2>1, <2>2, <2>3, <2>4, LoopCovered
<1>12. CASE AttachCardStep
  <2>1. PICK e \in Head(work).todo :
          /\ work' = NextInLoop(e, nativeLoaded /\ ~initFlag[e])
          /\ nativeLoaded => GuardedInit(e)
    BY <1>12 DEF AttachCardStep
  <2>2. work # <<>> /\ e \in Cards BY <1>3, <1>12, HeadTodo DEF AttachCardStep
  <2>3. work' = Advance(e) BY <2>1 DEF NextInLoop
  <2>4. UNCHANGED <<nativeLoaded, listeners, place>> BY <1>12 DEF AttachCardStep, pageVars
  <2>. QED BY <1>1, <1>2, <2>1, <2>2, <2>3, <2>4, LoopCovered
<1>13. CASE ConvertStep
  <2>1. PICK m \in Head(work).todo : work' = NextInLoop(m, nativeLoaded)
    BY <1>13 DEF ConvertStep
  <2>2. work # <<>> /\ m \in Messages BY <1>3, <1>13, <2>1, HeadTodo DEF ConvertStep
  <2>3. m \notin Rendered BY <2>2, CardsAssumption DEF Cards
  <2>4. work' = Advance(m) BY <2>1 DEF NextInLoop
  <2>5. UNCHANGED <<nativeLoaded, listeners>> BY <1>13 DEF ConvertStep, pageVars
  <2>6. \A c \in Rendered : place'[c] = place[c]
    <3>1. \/ \E v, d, dis : Show(v, d, dis)
          \/ UNCHANGED place
      BY <1>13 DEF ConvertStep, cardVars
    <3>. QED BY <3>1, ShowPlace
  <2>. QED BY <1>1, <1>2, <2>2, <2>3, <2>4, <2>5, <2>6, LoopCovered
<1>14. CASE \E a \in AjaxCards : AjaxInsert(a)
  <2>1. PICK a \in AjaxCards : AjaxInsert(a) BY <1>14
  <2>2. /\ Idle /\ place[a] = "absent"
        /\ place' = [place EXCEPT ![a] = "in"]
        /\ work' = Loop("attachCard", {a} \ onceCard) \o Loop("convert", {} \ onceMsg)
        /\ UNCHANGED <<inits, nativeLoaded>>
    BY <2>1 DEF AjaxInsert, Attach, pageVars
  <2>3. a \in Rendered /\ a \notin onceCard BY <1>2, <2>2 DEF NotOnce, Rendered
  <2>4. work' = <<[op |-> "attachCard", todo |-> {a}]>>
    <3>1. {a} \ onceCard = {a} /\ {} \ onceMsg = {} BY <2>3
    <3>2. Loop("attachCard", {a} \ onceCard) = <<[op |-> "attachCard", todo |-> {a}]>>
          /\ Loop("convert", {} \ onceMsg) = <<>>
      BY <3>1 DEF Loop
    <3>3. <<[op |-> "attachCard", todo |-> {a}]>> \in Seq(WorkItem)
      BY <1>3, <2>3 DEF WorkItem
    <3>. QED BY <2>2, <3>2, <3>3, ConcatEmptySeq
  <2>5. SUFFICES ASSUME NEW c \in Rendered, Pending(c) PROVE Goal(c) BY <1>4
  <2>6. CASE c = a
    <3>1. place'[c] = "in" BY <1>3, <2>2, <2>3, <2>6
    <3>2. InLoop(c, work') BY <2>4, <2>6 DEF InLoop
    <3>. QED BY <3>1, <3>2
  <2>7. CASE c # a
    <3>1. place'[c] = place[c] BY <1>3, <2>2, <2>7
    <3>2. place[c] = "in" /\ ~nativeLoaded
      BY <1>2, <2>2, <2>5, <3>1, IdleCovered DEF Covered
    <3>. QED BY <2>2, <3>1, <3>2
  <2>. QED BY <2>6, <2>7
<1>15. CASE ApiInitAll
  <2>1. Idle /\ nativeLoaded /\ UNCHANGED <<place, inits>>
    BY <1>15 DEF ApiInitAll
  <2>2. \A c \in Rendered : ~Pending(c) BY <1>2, <2>1, IdleCovered
  <2>. QED BY <1>4, <2>2
<1>. QED BY <1>5, <1>6, <1>7, <1>8, <1>9, <1>10, <1>11, <1>12, <1>13, <1>14,
            <1>15 DEF Next

\* The page starts with no timer, no once() mark and the engine not loaded.
LEMMA MountInit == Init => MountInv
<1>. SUFFICES ASSUME Init PROVE MountInv OBVIOUS
<1>1. Owned(timers, inits, dismissEvents) BY DEF Init, Owned
<1>2. NotOnce BY DEF Init, NotOnce
<1>3. Covered BY DEF Init, Covered, Cards, Rendered
<1>. QED BY <1>1, <1>2, <1>3 DEF MountInv

\* With storage working, every action keeps MountInv.
LEMMA MountInvStep ==
    ASSUME TypeOK, InitCountsFlag, MountInv, ~StorageBroken, [Next]_vars
    PROVE  MountInv'
<1>1. Owned(timers', inits', dismissEvents') BY OwnedStep DEF MountInv
<1>2. NotOnce' BY NotOnceStep DEF MountInv
<1>3. Covered' BY CoveredStep
<1>. QED BY <1>1, <1>2, <1>3 DEF MountInv

\* An idle page has no pending loop or listener, so Covered leaves no
\* rendered card in the document uninitialized once the engine has loaded.
LEMMA MountInvIdle == TypeOK /\ MountInv => MountedWhenIdle
<1>. SUFFICES ASSUME TypeOK, MountInv, Idle, nativeLoaded, NEW c \in Rendered,
                     place[c] # "absent"
              PROVE  inits[c] > 0
  BY DEF MountedWhenIdle
<1>1. inits[c] \in Nat BY DEF TypeOK, Cards
<1>2. inits[c] # 0 BY IdleCovered DEF MountInv
<1>. QED BY <1>1, <1>2

\* With localStorage usable, whenever the page is idle after the engine has
\* loaded, every rendered notification card in the document has been
\* initialized: autoInit's DOMContentLoaded/immediate branch, the Drupal
\* behavior's once('notification-card') and the AJAX attach cover every
\* order of script load, DOMContentLoaded and insertion. (The storage_abort
\* run shows the hypothesis is needed: a throwing logNotification aborts
\* initializeAll's loop.)
THEOREM MountedWhenIdleInvariant ==
    ASSUME ~StorageBroken PROVE Spec => []MountedWhenIdle
<1>1. Init => MountInv BY MountInit
<1>2. TypeOK /\ InitCountsFlag /\ MountInv /\ [Next]_vars => MountInv'
  BY MountInvStep
<1>3. TypeOK /\ MountInv => MountedWhenIdle BY MountInvIdle
<1>. QED BY <1>1, <1>2, <1>3, TypeCorrect, InitCountsFlagInvariant, PTL DEF Spec

=============================================================================
