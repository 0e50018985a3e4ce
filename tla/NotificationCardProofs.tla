----------------------- MODULE NotificationCardProofs -----------------------
(***************************************************************************)
(* Proofs about the notification-card model: its type invariant, and that *)
(* a template-rendered card is initialized at most once.                   *)
(***************************************************************************)
EXTENDS NotificationCard, SequenceTheorems, WellFoundedInduction, TLAPS

TimerRec == [kind : TimerKinds, card : Cards, left : Nat]

-----------------------------------------------------------------------------
(* Lemmas about the helpers the actions are built from.                    *)

\* The first due timer exists and is due whenever some timer is due.
LEMMA FirstDue ==
    ASSUME timers \in Seq(TimerRec), Due # {}
    PROVE  /\ First \in 1..Len(timers)
           /\ timers[First].left = 0
<1>1. \E i \in Due : \A j \in Due : i <= j
  <2>1. Due \subseteq Nat BY DEF Due
  <2>2. \E x \in Due : \A y \in Due : ~(<<y, x>> \in OpToRel(<, Nat))
    BY <2>1, NatLessThanWellFounded, WFMin, Zenon
  <2>3. PICK x \in Due : \A y \in Due : ~(<<y, x>> \in OpToRel(<, Nat))
    BY <2>2
  <2>4. \A y \in Due : ~(y < x)
    BY <2>1, <2>3, Zenon DEF OpToRel
  <2>5. \A y \in Due : x <= y
    BY <2>1, <2>4
  <2>. QED BY <2>5
<1>. QED BY <1>1 DEF First, Due

\* The timers left after the first due one fires.
LEMMA RestType ==
    ASSUME timers \in Seq(TimerRec), Due # {}
    PROVE  Rest \in Seq(TimerRec)
<1>1. First \in 1..Len(timers) BY FirstDue
<1>2. SubSeq(timers, 1, First - 1) \in Seq(TimerRec)
  BY <1>1, SubSeqProperties
<1>3. SubSeq(timers, First + 1, Len(timers)) \in Seq(TimerRec)
  BY <1>1, SubSeqProperties
<1>. QED BY <1>2, <1>3, ConcatProperties DEF Rest

\* Every timer list the engine schedules is a list of timers.
LEMMA ScheduledType ==
    ASSUME NEW c \in Cards, NEW cls, NEW more \in Seq(TimerRec),
           timers \in Seq(TimerRec)
    PROVE  timers \o AutoTimer(c, cls) \o <<Timer("anim", c, AnimDelay)>>
                  \o more \in Seq(TimerRec)
<1>1. AutoTimer(c, cls) \in Seq(TimerRec)
  <2>1. <<Timer("auto", c, AutoDelay)>> \in Seq(TimerRec)
    BY DelayAssumption DEF Timer, TimerRec, TimerKinds
  <2>2. << >> \in Seq(TimerRec) OBVIOUS
  <2>. QED BY <2>1, <2>2 DEF AutoTimer
<1>2. <<Timer("anim", c, AnimDelay)>> \in Seq(TimerRec)
  BY DelayAssumption DEF Timer, TimerRec, TimerKinds
<1>3. timers \o AutoTimer(c, cls) \in Seq(TimerRec)
  BY <1>1, ConcatProperties
<1>4. timers \o AutoTimer(c, cls) \o <<Timer("anim", c, AnimDelay)>>
        \in Seq(TimerRec)
  BY <1>2, <1>3, ConcatProperties
<1>. QED BY <1>4, ConcatProperties

\* logNotification keeps the log a list of at most LogCap cards.
LEMMA LogPushType ==
    ASSUME NEW l \in Seq(Cards), Len(l) <= LogCap, NEW c \in Cards
    PROVE  LogPush(l, c) \in Seq(Cards) /\ Len(LogPush(l, c)) <= LogCap
<1>. DEFINE s == Append(l, c)
<1>1. s \in Seq(Cards) /\ Len(s) = Len(l) + 1 BY AppendProperties
<1>2. CASE Len(s) > LogCap
  <2>1. SubSeq(s, Len(s) - LogCap + 1, Len(s)) \in Seq(Cards)
        /\ Len(SubSeq(s, Len(s) - LogCap + 1, Len(s))) = LogCap
    BY <1>1, <1>2, BoundAssumption, SubSeqProperties
  <2>2. LogPush(l, c) = SubSeq(s, Len(s) - LogCap + 1, Len(s))
    BY <1>2 DEF LogPush, s
  <2>3. LogPush(l, c) \in Seq(Cards) /\ Len(LogPush(l, c)) = LogCap
    BY <2>1, <2>2, Zenon
  <2>. QED BY <2>3, BoundAssumption
<1>3. CASE ~(Len(s) > LogCap)
  <2>1. LogPush(l, c) = s BY <1>3 DEF LogPush, s
  <2>. QED BY <1>1, <1>3, <2>1, BoundAssumption
<1>. QED BY <1>2, <1>3

\* A forEach loop over elements of the page is a work item list.
LEMMA LoopType ==
    ASSUME NEW op, NEW todo,
           \/ op \in {"init", "attachCard"} /\ todo \subseteq Cards
           \/ op = "convert" /\ todo \subseteq Messages
    PROVE  Loop(op, todo) \in Seq(WorkItem)
<1>1. [op |-> op, todo |-> todo] \in WorkItem BY DEF WorkItem
<1>2. <<[op |-> op, todo |-> todo]>> \in Seq(WorkItem) BY <1>1
<1>. QED BY <1>2 DEF Loop

\* The element a card loop handles is a card, and a message loop's a message.
LEMMA HeadTodo ==
    ASSUME work \in Seq(WorkItem), work # <<>>, NEW e \in Head(work).todo
    PROVE  /\ Head(work).op \in {"init", "attachCard"} => e \in Cards
           /\ Head(work).op = "convert" => e \in Messages
<1>1. Head(work) \in WorkItem BY HeadTailProperties
<1>. QED BY <1>1 DEF WorkItem

\* Handling one element of the running loop leaves a work item list.
LEMMA AdvanceType ==
    ASSUME work \in Seq(WorkItem), work # <<>>, NEW e
    PROVE  Advance(e) \in Seq(WorkItem)
<1>1. Head(work) \in WorkItem /\ Tail(work) \in Seq(WorkItem)
  BY HeadTailProperties
<1>2. [Head(work) EXCEPT !.todo = @ \ {e}] \in WorkItem
  BY <1>1 DEF WorkItem
<1>. QED BY <1>1, <1>2, ConcatProperties DEF Advance

\* Going on after an element, or ending the loop on a throw, leaves a work
\* item list.
LEMMA NextInLoopType ==
    ASSUME work \in Seq(WorkItem), work # <<>>, NEW e, NEW ran
    PROVE  NextInLoop(e, ran) \in Seq(WorkItem)
BY AdvanceType, HeadTailProperties DEF NextInLoop

-----------------------------------------------------------------------------
(* What the engine's operations do to the types.                           *)

LEMMA InitializeCardType ==
    ASSUME TypeOK, NEW c \in Cards, NEW cls, NEW more \in Seq(TimerRec),
           InitializeCard(c, cls, more)
    PROVE  /\ inits' \in [Cards -> Nat]
           /\ opacity' \in [Cards -> {0, 1}]
           /\ timers' \in Seq(TimerRec)
           /\ log' \in Seq(Cards) /\ Len(log') <= LogCap
           /\ mounted' \in Seq(Cards)
<1>1. timers \in Seq(TimerRec) BY DEF TypeOK, TimerRec
<1>2. timers' \in Seq(TimerRec)
  <2>1. (IF StorageBroken THEN <<>> ELSE more) \in Seq(TimerRec) OBVIOUS
  <2>. QED BY <1>1, <2>1, ScheduledType DEF InitializeCard
<1>3. log' \in Seq(Cards) /\ Len(log') <= LogCap
  <2>1. CASE StorageBroken
    BY <2>1 DEF TypeOK, InitializeCard, LogNotification
  <2>2. CASE ~StorageBroken
    BY <2>2, LogPushType DEF TypeOK, InitializeCard, LogNotification
  <2>. QED BY <2>1, <2>2
<1>4. mounted' \in Seq(Cards)
  <2>1. CASE StorageBroken
    BY <2>1 DEF TypeOK, InitializeCard, LogNotification
  <2>2. CASE ~StorageBroken
    <3>1. mounted' = Append(mounted, c) BY <2>2 DEF InitializeCard, LogNotification
    <3>. QED BY <3>1, AppendProperties DEF TypeOK
  <2>. QED BY <2>1, <2>2
<1>. QED BY <1>2, <1>3, <1>4, SMTT(30) DEF TypeOK, InitializeCard

LEMMA GuardedInitType ==
    ASSUME TypeOK, NEW c \in Cards, GuardedInit(c)
    PROVE  /\ initFlag' \in [Cards -> BOOLEAN]
           /\ inits' \in [Cards -> Nat]
           /\ opacity' \in [Cards -> {0, 1}]
           /\ timers' \in Seq(TimerRec)
           /\ log' \in Seq(Cards) /\ Len(log') <= LogCap
           /\ mounted' \in Seq(Cards)
<1>1. CASE initFlag[c] BY <1>1 DEF GuardedInit, TypeOK, TimerRec
<1>2. CASE ~initFlag[c]
  <2>1. InitializeCard(c, classes[c], << >>) BY <1>2 DEF GuardedInit
  <2>2. << >> \in Seq(TimerRec) OBVIOUS
  <2>3. initFlag' \in [Cards -> BOOLEAN] BY <1>2 DEF GuardedInit, TypeOK
  <2>. QED BY <2>1, <2>2, <2>3, InitializeCardType
<1>. QED BY <1>1, <1>2

LEMMA DismissTimesType ==
    ASSUME TypeOK, NEW c \in Cards, NEW k \in Nat,
           NEW pending \in Seq(TimerRec), DismissTimes(c, k, pending)
    PROVE  /\ dismissEvents' \in [Cards -> Nat]
           /\ opacity' \in [Cards -> {0, 1}]
           /\ timers' \in Seq(TimerRec)
<1>1. [i \in 1..k |-> Timer("remove", c, RemoveDelay)] \in Seq(TimerRec)
  BY DelayAssumption DEF Timer, TimerRec, TimerKinds
<1>2. timers' \in Seq(TimerRec) BY <1>1, ConcatProperties DEF DismissTimes
<1>. QED BY <1>2 DEF DismissTimes, TypeOK

LEMMA ShowType ==
    ASSUME TypeOK, NEW v \in Variants, NEW d \in Nat, NEW dis \in BOOLEAN,
           Show(v, d, dis)
    PROVE  /\ place' \in [Cards -> {"absent", "in", "removed"}]
           /\ classes' \in [Cards -> SUBSET Modifiers]
           /\ button' \in [Cards -> BOOLEAN]
           /\ container' \in BOOLEAN
           /\ inits' \in [Cards -> Nat]
           /\ opacity' \in [Cards -> {0, 1}]
           /\ timers' \in Seq(TimerRec)
           /\ log' \in Seq(Cards) /\ Len(log') <= LogCap
           /\ mounted' \in Seq(Cards)
<1>. DEFINE c == CHOOSE x \in ShownCards : place[x] = "absent"
            cls == {v} \cap Modifiers
            more == IF d > 0 THEN <<Timer("duration", c, d)>> ELSE << >>
<1>1. c \in ShownCards /\ c \in Cards BY DEF Show, Cards
<1>2. more \in Seq(TimerRec)
  <2>1. Timer("duration", c, d) \in TimerRec BY <1>1 DEF Timer, TimerRec, TimerKinds
  <2>2. CASE d > 0 BY <2>1, <2>2
  <2>3. CASE ~(d > 0) BY <2>3
  <2>. QED BY <2>2, <2>3
<1>3. InitializeCard(c, cls, more) BY DEF Show
<1>4. /\ inits' \in [Cards -> Nat]
      /\ opacity' \in [Cards -> {0, 1}]
      /\ timers' \in Seq(TimerRec)
      /\ log' \in Seq(Cards) /\ Len(log') <= LogCap
      /\ mounted' \in Seq(Cards)
  BY <1>1, <1>2, <1>3, InitializeCardType
<1>. QED BY <1>1, <1>4 DEF Show, TypeOK

-----------------------------------------------------------------------------
(* Type correctness, one lemma per group of actions.                       *)

LEMMA InitType == Init => TypeOK
<1>. SUFFICES ASSUME Init PROVE TypeOK OBVIOUS
<1>1. place \in [Cards -> {"absent", "in", "removed"}] BY DEF Init
<1>2. classes \in [Cards -> SUBSET Modifiers]
  BY ClassesAssumption DEF Init, Cards
<1>3. /\ button \in [Cards -> BOOLEAN]
      /\ initFlag \in [Cards -> BOOLEAN]
      /\ msgHidden \in [Messages -> BOOLEAN]
      /\ inits \in [Cards -> Nat]
      /\ opacity \in [Cards -> {0, 1}]
      /\ dismissEvents \in [Cards -> Nat]
      /\ removedEvents \in [Cards -> Nat]
  BY DEF Init
<1>4. apiCalls \in 0..MaxApiCalls BY BoundAssumption DEF Init
<1>5. log \in Seq(Cards) /\ Len(log) <= LogCap BY BoundAssumption DEF Init
<1>6. /\ listeners \in Seq({"native", "drupal"})
      /\ work \in Seq(WorkItem)
      /\ timers \in Seq([kind : TimerKinds, card : Cards, left : Nat])
      /\ mounted \in Seq(Cards)
  BY DEF Init
<1>7. /\ readyState \in {"loading", "interactive"}
      /\ nativeLoaded \in BOOLEAN /\ drupalLoaded \in BOOLEAN
      /\ onceCard \subseteq Cards /\ onceMsg \subseteq Messages
      /\ container \in BOOLEAN /\ converted \subseteq Messages
  BY DEF Init
<1>. QED BY <1>1, <1>2, <1>3, <1>4, <1>5, <1>6, <1>7 DEF TypeOK

\* The variant convertDrupalMessages builds is one getVariant knows.
LEMMA MsgVariantType ==
    ASSUME NEW m
    PROVE  MsgVariant(m) \in Variants
BY DEF MsgVariant, Variants, Modifiers

\* Time passing and the callbacks of the timers keep the types.
LEMMA TimerStepType ==
    ASSUME TypeOK, Tick \/ FireAnim \/ FireAuto \/ FireDuration \/ FireRemove
    PROVE  TypeOK'
<1>1. timers \in Seq(TimerRec) BY DEF TypeOK, TimerRec
<1>2. CASE Tick
  <2>1. \A i \in 1..Len(timers) : timers[i].left \in Nat \ {0}
    <3>1. Due = {} BY <1>2 DEF Tick
    <3>2. SUFFICES ASSUME NEW i \in 1..Len(timers)
                   PROVE  timers[i].left \in Nat \ {0}
      OBVIOUS
    <3>3. timers[i].left \in Nat
      <4>1. timers[i] \in TimerRec BY <1>1, ElementOfSeq
      <4>. QED BY <4>1 DEF TimerRec
    <3>4. i \notin Due BY <3>1
    <3>. QED BY <3>3, <3>4 DEF Due
  <2>2. timers' \in Seq(TimerRec)
    <3>1. ASSUME NEW i \in 1..Len(timers)
          PROVE  [timers[i] EXCEPT !.left = @ - 1] \in TimerRec
      <4>1. timers[i] \in TimerRec BY <1>1, ElementOfSeq
      <4>2. timers[i] = [kind |-> timers[i].kind, card |-> timers[i].card,
                         left |-> timers[i].left]
        BY <4>1 DEF TimerRec
      <4>3. timers[i].left - 1 \in Nat BY <2>1
      <4>. QED BY <4>1, <4>2, <4>3 DEF TimerRec
    <3>2. Len(timers) \in Nat BY <1>1
    <3>. QED BY <1>2, <3>1, <3>2 DEF Tick
  <2>3. UNCHANGED <<pageVars, work, place, classes, button, initFlag, onceCard,
                    onceMsg, msgHidden, inits, opacity, eventVars, log, container,
                    apiCalls, converted, mounted>>
    BY <1>2 DEF Tick
  <2>. QED BY <2>2, <2>3 DEF TypeOK, TimerRec, pageVars, eventVars
<1>3. ASSUME Due # {}
      PROVE  Rest \in Seq(TimerRec) /\ timers[First].card \in Cards
  <2>1. First \in 1..Len(timers) BY <1>1, <1>3, FirstDue
  <2>2. timers[First] \in TimerRec BY <1>1, <2>1
  <2>. QED BY <1>1, <1>3, <2>2, RestType DEF TimerRec
<1>4. CASE FireAnim
  <2>1. Due # {} BY <1>4 DEF FireAnim, FireGuard
  <2>2. timers' \in Seq(TimerRec) BY <1>3, <1>4, <2>1 DEF FireAnim
  <2>3. opacity' \in [Cards -> {0, 1}] BY <1>4 DEF FireAnim, TypeOK
  <2>4. UNCHANGED <<pageVars, work, place, classes, button, initFlag, onceCard,
                    onceMsg, msgHidden, inits, eventVars, log, container,
                    apiCalls, converted, mounted>>
    BY <1>4 DEF FireAnim
  <2>. QED BY <2>2, <2>3, <2>4 DEF TypeOK, TimerRec, pageVars, eventVars
<1>5. CASE FireAuto \/ FireDuration
  <2>1. PICK k \in {"auto", "duration"} : FireDismiss(k)
    BY <1>5 DEF FireAuto, FireDuration
  <2>2. Due # {} BY <2>1 DEF FireDismiss, FireGuard
  <2>3. DismissTimes(timers[First].card, 1, Rest) BY <2>1 DEF FireDismiss
  <2>4. /\ dismissEvents' \in [Cards -> Nat]
        /\ opacity' \in [Cards -> {0, 1}]
        /\ timers' \in Seq(TimerRec)
    BY <1>3, <2>2, <2>3, DismissTimesType
  <2>5. UNCHANGED <<pageVars, work, place, classes, button, initFlag, onceCard,
                    onceMsg, msgHidden, inits, removedEvents, log, container,
                    apiCalls, converted, mounted>>
    BY <2>1 DEF FireDismiss
  <2>. QED BY <2>4, <2>5 DEF TypeOK, TimerRec, pageVars
<1>6. CASE FireRemove
  <2>1. Due # {} BY <1>6 DEF FireRemove, FireGuard
  <2>2. timers' \in Seq(TimerRec) BY <1>3, <1>6, <2>1 DEF FireRemove
  <2>6. timers[First].card \in Cards BY <1>3, <2>1
  <2>3. place' \in [Cards -> {"absent", "in", "removed"}]
    BY <1>6, <2>6 DEF FireRemove, TypeOK
  <2>5. removedEvents' \in [Cards -> Nat]
    <3>1. removedEvents' = [removedEvents EXCEPT ![timers[First].card] = @ + 1]
      BY <1>6 DEF FireRemove
    <3>2. removedEvents \in [Cards -> Nat] BY DEF TypeOK
    <3>. QED BY <2>6, <3>1, <3>2
  <2>4. UNCHANGED <<pageVars, work, classes, button, initFlag, onceCard, onceMsg,
                    msgHidden, inits, opacity, dismissEvents, log, container,
                    apiCalls, converted, mounted>>
    BY <1>6 DEF FireRemove
  <2>. QED BY <2>2, <2>3, <2>4, <2>5 DEF TypeOK, TimerRec, pageVars
<1>. QED BY <1>2, <1>4, <1>5, <1>6

\* The script loads, DOMContentLoaded and its listeners keep the types.
LEMMA LoadStepType ==
    ASSUME TypeOK, LoadNative \/ LoadDrupal \/ ContentLoaded \/ RunListener
    PROVE  TypeOK'
<1>1. InDoc \subseteq Cards BY DEF InDoc, TypeOK
<1>2. Loop("init", InDoc) \in Seq(WorkItem) BY <1>1, LoopType
<1>3. CASE LoadNative
  <2>1. /\ listeners' \in Seq({"native", "drupal"})
        /\ work' \in Seq(WorkItem)
    <3>1. CASE readyState = "loading"
      <4>1. Append(listeners, "native") \in Seq({"native", "drupal"})
        BY AppendProperties DEF TypeOK
      <4>. QED BY <1>3, <3>1, <4>1 DEF LoadNative, TypeOK
    <3>2. CASE readyState # "loading"
      BY <1>2, <1>3, <3>2 DEF LoadNative, TypeOK
    <3>. QED BY <3>1, <3>2
  <2>2. UNCHANGED <<readyState, drupalLoaded, place, classes, button, initFlag,
                    onceCard, onceMsg, msgHidden, inits, opacity, timers,
                    eventVars, log, container, apiCalls, converted, mounted>>
    BY <1>3 DEF LoadNative
  <2>3. nativeLoaded' = TRUE BY <1>3 DEF LoadNative
  <2>. QED BY <2>1, <2>2, <2>3 DEF TypeOK, eventVars
<1>4. CASE LoadDrupal
  <2>1. listeners' \in Seq({"native", "drupal"})
    BY <1>4, AppendProperties DEF LoadDrupal, TypeOK
  <2>2. UNCHANGED <<readyState, nativeLoaded, work, place, classes, button,
                    initFlag, onceCard, onceMsg, msgHidden, inits, opacity, timers,
                    eventVars, log, container, apiCalls, converted, mounted>>
    BY <1>4 DEF LoadDrupal
  <2>3. drupalLoaded' = TRUE BY <1>4 DEF LoadDrupal
  <2>. QED BY <2>1, <2>2, <2>3 DEF TypeOK, eventVars
<1>5. CASE ContentLoaded
  <2>1. UNCHANGED <<nativeLoaded, drupalLoaded, listeners, work, place, classes,
                    button, initFlag, onceCard, onceMsg, msgHidden, inits, opacity,
                    timers, eventVars, log, container, apiCalls, converted,
                    mounted>>
    BY <1>5 DEF ContentLoaded
  <2>2. readyState' = "interactive" BY <1>5 DEF ContentLoaded
  <2>. QED BY <2>1, <2>2 DEF TypeOK, eventVars
<1>6. CASE RunListener
  <2>1. Tail(listeners) \in Seq({"native", "drupal"})
    BY <1>6, HeadTailProperties DEF RunListener, TypeOK
  <2>2. Loop("attachCard", InDoc \ onceCard) \o Loop("convert", Messages \ onceMsg)
          \in Seq(WorkItem)
    BY <1>1, LoopType, ConcatProperties
  <2>3. /\ listeners' \in Seq({"native", "drupal"})
        /\ work' \in Seq(WorkItem)
        /\ onceCard' \subseteq Cards
        /\ onceMsg' \subseteq Messages
    BY <1>1, <1>2, <1>6, <2>1, <2>2 DEF RunListener, Attach, TypeOK
  <2>4. UNCHANGED <<readyState, nativeLoaded, drupalLoaded, place, classes,
                    button, initFlag, msgHidden, inits, opacity, timers, eventVars,
                    log, container, apiCalls, converted, mounted>>
    BY <1>6 DEF RunListener
  <2>. QED BY <2>3, <2>4, SMTT(30) DEF TypeOK, eventVars
<1>. QED BY <1>3, <1>4, <1>5, <1>6

\* One iteration of a running loop keeps the types.
LEMMA LoopStepType ==
    ASSUME TypeOK, InitAllStep \/ AttachCardStep \/ ConvertStep
    PROVE  TypeOK'
<1>1. work \in Seq(WorkItem) BY DEF TypeOK
<1>2. CASE InitAllStep \/ AttachCardStep
  <2>1. PICK c \in Head(work).todo :
          /\ Head(work).op \in {"init", "attachCard"}
          /\ \/ work' = NextInLoop(c, ~initFlag[c])
             \/ work' = NextInLoop(c, nativeLoaded /\ ~initFlag[c])
          /\ \/ GuardedInit(c)
             \/ UNCHANGED <<initFlag, inits, opacity, timers, log, mounted>>
    BY <1>2 DEF InitAllStep, AttachCardStep
  <2>2. work # <<>> BY <1>2 DEF InitAllStep, AttachCardStep
  <2>3. c \in Cards BY <1>1, <2>1, <2>2, HeadTodo
  <2>4. work' \in Seq(WorkItem) BY <1>1, <2>1, <2>2, NextInLoopType
  <2>5. UNCHANGED <<pageVars, place, classes, button, onceCard, onceMsg,
                    msgHidden, eventVars, container, apiCalls, converted>>
    BY <1>2 DEF InitAllStep, AttachCardStep
  <2>6. CASE GuardedInit(c)
    BY <2>3, <2>4, <2>5, <2>6, GuardedInitType DEF TypeOK, TimerRec, pageVars, eventVars
  <2>7. CASE UNCHANGED <<initFlag, inits, opacity, timers, log, mounted>>
    BY <2>4, <2>5, <2>7, SMTT(30) DEF TypeOK, pageVars, eventVars
  <2>. QED BY <2>1, <2>6, <2>7
<1>3. CASE ConvertStep
  <2>1. PICK m \in Head(work).todo :
          /\ Head(work).op = "convert"
          /\ work' = NextInLoop(m, nativeLoaded)
          /\ msgHidden' = IF nativeLoaded /\ StorageBroken THEN msgHidden
                           ELSE [msgHidden EXCEPT ![m] = TRUE]
          /\ \/ /\ Show(MsgVariant(m),
                       IF MsgVariant(m) = "success" THEN SuccessDuration ELSE 0,
                       TRUE)
                /\ converted' = converted \cup {m}
             \/ UNCHANGED <<cardVars, converted>>
    BY <1>3 DEF ConvertStep
  <2>2. work # <<>> BY <1>3 DEF ConvertStep
  <2>3. m \in Messages BY <1>1, <2>1, <2>2, HeadTodo
  <2>4. work' \in Seq(WorkItem) BY <1>1, <2>1, <2>2, NextInLoopType
  <2>5. UNCHANGED <<pageVars, initFlag, onceCard, onceMsg, eventVars, apiCalls>>
    BY <1>3 DEF ConvertStep
  <2>6. /\ MsgVariant(m) \in Variants
        /\ (IF MsgVariant(m) = "success" THEN SuccessDuration ELSE 0) \in Nat
    BY MsgVariantType, DelayAssumption
  <2>7. msgHidden' \in [Messages -> BOOLEAN] BY <2>1, <2>3, SMTT(30) DEF TypeOK
  <2>8. CASE Show(MsgVariant(m),
                  IF MsgVariant(m) = "success" THEN SuccessDuration ELSE 0,
                  TRUE)
             /\ converted' = converted \cup {m}
    BY <2>3, <2>4, <2>5, <2>6, <2>7, <2>8, ShowType
       DEF TypeOK, TimerRec, pageVars, eventVars
  <2>9. CASE UNCHANGED <<cardVars, converted>>
    BY <2>4, <2>5, <2>7, <2>9 DEF TypeOK, pageVars, eventVars, cardVars
  <2>. QED BY <2>1, <2>8, <2>9
<1>. QED BY <1>2, <1>3

\* The events after load keep the types.
LEMMA EventStepType ==
    ASSUME TypeOK,
           \/ \E c \in AjaxCards : AjaxInsert(c)
           \/ \E v \in ShowVariants, d \in ShowDurations, dis \in BOOLEAN :
                  ApiShow(v, d, dis)
           \/ ApiInitAll
           \/ \E c \in Cards : ApiInitOne(c)
           \/ \E c \in Cards : ClickDismiss(c)
    PROVE  TypeOK'
<1>1. /\ work \in Seq(WorkItem) /\ onceCard \subseteq Cards
      /\ onceMsg \subseteq Messages /\ apiCalls \in 0..MaxApiCalls
      /\ place \in [Cards -> {"absent", "in", "removed"}]
      /\ inits \in [Cards -> Nat] /\ timers \in Seq(TimerRec)
  BY DEF TypeOK, TimerRec
<1>2. CASE \E c \in AjaxCards : AjaxInsert(c)
  <2>1. PICK c \in AjaxCards : AjaxInsert(c) BY <1>2
  <2>2. c \in Cards BY SMTT(30) DEF Cards, Rendered
  <2>3. Loop("attachCard", {c} \ onceCard) \o Loop("convert", {} \ onceMsg)
          \in Seq(WorkItem)
    BY <2>2, LoopType, ConcatProperties
  <2>4. /\ work' \in Seq(WorkItem)
        /\ onceCard' \subseteq Cards
        /\ onceMsg' \subseteq Messages
    BY <1>1, <2>1, <2>2, <2>3 DEF AjaxInsert, Attach
  <2>5. place' \in [Cards -> {"absent", "in", "removed"}]
    BY <1>1, <2>1, <2>2 DEF AjaxInsert
  <2>6. UNCHANGED <<pageVars, classes, button, initFlag, msgHidden, inits, opacity,
                    timers, eventVars, log, container, apiCalls, converted,
                    mounted>>
    BY <2>1 DEF AjaxInsert
  <2>. QED BY <2>4, <2>5, <2>6 DEF TypeOK, pageVars, eventVars
<1>3. CASE \E v \in ShowVariants, d \in ShowDurations, dis \in BOOLEAN :
               ApiShow(v, d, dis)
  <2>1. PICK v \in ShowVariants, d \in ShowDurations, dis \in BOOLEAN :
          ApiShow(v, d, dis)
    BY <1>3
  <2>2. v \in Variants /\ d \in Nat BY DelayAssumption
  <2>3. Show(v, d, dis) BY <2>1 DEF ApiShow
  <2>4. apiCalls' \in 0..MaxApiCalls BY <1>1, <2>1, BoundAssumption DEF ApiShow
  <2>5. UNCHANGED <<pageVars, work, initFlag, onceCard, onceMsg, msgHidden,
                    eventVars, converted>>
    BY <2>1 DEF ApiShow
  <2>. QED BY <2>2, <2>3, <2>4, <2>5, ShowType, ZenonT(30)
          DEF TypeOK, TimerRec, pageVars, eventVars
<1>4. CASE ApiInitAll
  <2>1. Loop("init", InDoc) \in Seq(WorkItem) BY LoopType DEF InDoc
  <2>2. apiCalls' \in 0..MaxApiCalls BY <1>1, <1>4, BoundAssumption DEF ApiInitAll
  <2>3. UNCHANGED <<pageVars, place, classes, button, initFlag, onceCard, onceMsg,
                    msgHidden, inits, opacity, timers, eventVars, log, container,
                    converted, mounted>>
    BY <1>4 DEF ApiInitAll
  <2>4. work' \in Seq(WorkItem) BY <1>4, <2>1, SMTT(30) DEF ApiInitAll
  <2>. QED BY <2>2, <2>3, <2>4, SMTT(30) DEF TypeOK, pageVars, eventVars
<1>5. CASE \E c \in Cards : ApiInitOne(c)
  <2>1. PICK c \in Cards : ApiInitOne(c) BY <1>5
  <2>2. GuardedInit(c) BY <2>1 DEF ApiInitOne
  <2>3. apiCalls' \in 0..MaxApiCalls BY <1>1, <2>1, BoundAssumption DEF ApiInitOne
  <2>4. UNCHANGED <<pageVars, work, place, classes, button, onceCard, onceMsg,
                    msgHidden, eventVars, container, converted>>
    BY <2>1 DEF ApiInitOne
  <2>. QED BY <2>2, <2>3, <2>4, GuardedInitType
          DEF TypeOK, TimerRec, pageVars, eventVars
<1>6. CASE \E c \in Cards : ClickDismiss(c)
  <2>1. PICK c \in Cards : ClickDismiss(c) BY <1>6
  <2>2. DismissTimes(c, inits[c], timers) BY <2>1 DEF ClickDismiss
  <2>3. inits[c] \in Nat BY <1>1
  <2>4. /\ dismissEvents' \in [Cards -> Nat]
        /\ opacity' \in [Cards -> {0, 1}]
        /\ timers' \in Seq(TimerRec)
    BY <1>1, <2>2, <2>3, DismissTimesType, SMTT(30)
  <2>5. UNCHANGED <<pageVars, work, place, classes, button, initFlag, onceCard,
                    onceMsg, msgHidden, inits, removedEvents, log, container,
                    apiCalls, converted, mounted>>
    BY <2>1 DEF ClickDismiss
  <2>. QED BY <2>4, <2>5 DEF TypeOK, TimerRec, pageVars
<1>. QED BY <1>2, <1>3, <1>4, <1>5, <1>6

-----------------------------------------------------------------------------
(* Every reachable state of the page is well typed: the script loads, the  *)
(* DOMContentLoaded listeners, the behaviors' and initializeAll's loops,   *)
(* the API calls, the dismiss clicks and the timer callbacks only ever     *)
(* store values of the types TypeOK names.                                 *)
THEOREM TypeCorrect == Spec => []TypeOK
<1>1. Init => TypeOK BY InitType
<1>2. TypeOK /\ [Next]_vars => TypeOK'
  <2>. SUFFICES ASSUME TypeOK, [Next]_vars PROVE TypeOK' OBVIOUS
  <2>1. CASE Tick \/ FireAnim \/ FireAuto \/ FireDuration \/ FireRemove
    BY <2>1, TimerStepType
  <2>2. CASE LoadNative \/ LoadDrupal \/ ContentLoaded \/ RunListener
    BY <2>2, LoadStepType
  <2>3. CASE InitAllStep \/ AttachCardStep \/ ConvertStep
    BY <2>3, LoopStepType
  <2>4. CASE \/ \E c \in AjaxCards : AjaxInsert(c)
             \/ \E v \in ShowVariants, d \in ShowDurations, dis \in BOOLEAN :
                    ApiShow(v, d, dis)
             \/ ApiInitAll
             \/ \E c \in Cards : ApiInitOne(c)
             \/ \E c \in Cards : ClickDismiss(c)
    BY <2>4, EventStepType
  <2>5. CASE UNCHANGED vars
    BY <2>5 DEF TypeOK, vars
  <2>. QED BY <2>1, <2>2, <2>3, <2>4, <2>5 DEF Next
<1>. QED BY <1>1, <1>2, PTL DEF Spec

-----------------------------------------------------------------------------
(* A rendered card is initialized at most once.                            *)

\* init(element) keeps a rendered card's count in step with its flag.
LEMMA GuardedInitCounts ==
    ASSUME TypeOK, InitCountsFlag, NEW c \in Cards, GuardedInit(c)
    PROVE  InitCountsFlag'
<1>1. inits \in [Cards -> Nat] /\ initFlag \in [Cards -> BOOLEAN]
  BY SMTT(30) DEF TypeOK
<1>2. Rendered \subseteq Cards BY DEF Cards
<1>3. CASE initFlag[c]
  BY <1>3 DEF GuardedInit, InitCountsFlag
<1>4. CASE ~initFlag[c]
  <2>1. initFlag' = [initFlag EXCEPT ![c] = TRUE] BY <1>4 DEF GuardedInit
  <2>2. inits' = [inits EXCEPT ![c] = @ + 1]
    BY <1>4 DEF GuardedInit, InitializeCard
  <2>3. c \in Rendered => inits[c] = 0 BY <1>4 DEF InitCountsFlag
  <2>. QED BY <1>1, <1>2, <2>1, <2>2, <2>3, SMTT(30) DEF InitCountsFlag
<1>. QED BY <1>3, <1>4

\* show() initializes a card of its own, never a rendered one.
LEMMA ShowCounts ==
    ASSUME TypeOK, InitCountsFlag, NEW v, NEW d, NEW dis, Show(v, d, dis),
           UNCHANGED initFlag
    PROVE  InitCountsFlag'
<1>. DEFINE c == CHOOSE x \in ShownCards : place[x] = "absent"
<1>1. c \in ShownCards BY DEF Show
<1>2. c \notin Rendered BY <1>1, CardsAssumption
<1>3. inits' = [inits EXCEPT ![c] = @ + 1] BY DEF Show, InitializeCard
<1>4. inits \in [Cards -> Nat] BY DEF TypeOK
<1>. QED BY <1>2, <1>3, <1>4 DEF InitCountsFlag, Cards

\* Every action keeps InitCountsFlag.
LEMMA InitCountsStep ==
    ASSUME TypeOK, InitCountsFlag, [Next]_vars
    PROVE  InitCountsFlag'
<1>. DEFINE Same == UNCHANGED <<inits, initFlag>>
<1>1. Same => InitCountsFlag' BY DEF InitCountsFlag
<1>2. work \in Seq(WorkItem) BY DEF TypeOK
<1>3. CASE InitAllStep \/ AttachCardStep
  <2>1. PICK c \in Head(work).todo :
          /\ Head(work).op \in {"init", "attachCard"}
          /\ \/ GuardedInit(c)
             \/ UNCHANGED <<initFlag, inits, opacity, timers, log, mounted>>
    <3>1. CASE InitAllStep BY <3>1, Zenon DEF InitAllStep
    <3>2. CASE AttachCardStep BY <3>2, Zenon DEF AttachCardStep
    <3>. QED BY <1>3, <3>1, <3>2
  <2>2. c \in Cards BY <1>2, <1>3, <2>1, HeadTodo DEF InitAllStep, AttachCardStep
  <2>. QED BY <1>1, <2>1, <2>2, GuardedInitCounts, SMTT(30)
<1>4. CASE ConvertStep
  <2>1. UNCHANGED initFlag BY <1>4, SMTT(30) DEF ConvertStep
  <2>2. \/ \E v, d, dis : Show(v, d, dis)
        \/ UNCHANGED inits
    BY <1>4 DEF ConvertStep, cardVars
  <2>. QED BY <1>1, <2>1, <2>2, ShowCounts, SMTT(30)
<1>5. CASE \E v \in ShowVariants, d \in ShowDurations, dis \in BOOLEAN :
               ApiShow(v, d, dis)
  <2>1. PICK v \in ShowVariants, d \in ShowDurations, dis \in BOOLEAN :
          ApiShow(v, d, dis)
    BY <1>5
  <2>. QED BY <2>1, ShowCounts DEF ApiShow
<1>6. CASE \E c \in Cards : ApiInitOne(c)
  BY <1>6, GuardedInitCounts DEF ApiInitOne
<1>7. CASE \/ LoadNative \/ LoadDrupal \/ ContentLoaded \/ RunListener
           \/ \E c \in AjaxCards : AjaxInsert(c)
           \/ ApiInitAll
           \/ \E c \in Cards : ClickDismiss(c)
           \/ Tick \/ FireAnim \/ FireAuto \/ FireDuration \/ FireRemove
           \/ UNCHANGED vars
  <2>1. Same
    BY <1>7 DEF LoadNative, LoadDrupal, ContentLoaded, RunListener, AjaxInsert,
                ApiInitAll, ClickDismiss, Tick, FireAnim, FireAuto, FireDuration,
                FireDismiss, FireRemove, vars
  <2>. QED BY <1>1, <2>1
<1>. QED BY <1>3, <1>4, <1>5, <1>6, <1>7 DEF Next

\* The count of initializations of a rendered card follows its
\* notificationInitialized flag in every reachable state, so initializeAll,
\* init(card) and the Drupal behavior initialize it at most once.
THEOREM InitCountsFlagInvariant == Spec => []InitCountsFlag
<1>1. Init => InitCountsFlag BY DEF Init, InitCountsFlag, Cards
<1>2. TypeOK /\ InitCountsFlag /\ [Next]_vars => InitCountsFlag'
  BY InitCountsStep
<1>. QED BY <1>1, <1>2, TypeCorrect, PTL DEF Spec

=============================================================================
