------------------------ MODULE NativeOnlyCardProofs ------------------------
(***************************************************************************)
(* Proofs about the native-only engine: its type invariant, and that every *)
(* card, rendered or created by show(), is initialized at most once.       *)
(***************************************************************************)
EXTENDS NativeOnlyCard, SequenceTheorems, WellFoundedInduction, TLAPS

TimerRec == [kind : TimerKinds, card : Cards, left : Nat]

-----------------------------------------------------------------------------
(* The timer queue.                                                        *)

\* Some timer is due: the first one exists and its card is a card.
LEMMA NativeFirstDue ==
    ASSUME timers \in Seq(TimerRec), Due # {}
    PROVE  /\ First \in 1..Len(timers)
           /\ timers[First] \in TimerRec
<1>1. \E i \in Due : \A j \in Due : i <= j
  <2>1. Due \subseteq Nat BY DEF Due
  <2>2. PICK x \in Due : \A y \in Due : ~(<<y, x>> \in OpToRel(<, Nat))
    BY <2>1, NatLessThanWellFounded, WFMin, Zenon
  <2>3. \A y \in Due : ~(y < x)
    BY <2>1, <2>2, Zenon DEF OpToRel
  <2>. QED BY <2>1, <2>3
<1>2. First \in 1..Len(timers) BY <1>1 DEF First, Due
<1>. QED BY <1>2, ElementOfSeq

\* Removing the timer that fires leaves a timer queue.
LEMMA NativeRestType ==
    ASSUME timers \in Seq(TimerRec), Due # {}
    PROVE  Rest \in Seq(TimerRec)
<1>1. First \in 1..Len(timers) BY NativeFirstDue
<1>2. /\ SubSeq(timers, 1, First - 1) \in Seq(TimerRec)
      /\ SubSeq(timers, First + 1, Len(timers)) \in Seq(TimerRec)
  BY <1>1, SubSeqProperties
<1>. QED BY <1>2, ConcatProperties DEF Rest

-----------------------------------------------------------------------------
(* What the engine's functions do to the types.                           *)

LEMMA InitializeCardType ==
    ASSUME TypeOK, NEW c \in Cards, NEW cls, InitializeCard(c, cls)
    PROVE  /\ initFlag' \in [Cards -> BOOLEAN]
           /\ inits' \in [Cards -> Nat]
           /\ opacity' \in [Cards -> {0, 1}]
           /\ timers' \in Seq(TimerRec)
<1>1. timers \in Seq(TimerRec) BY DEF TypeOK, TimerRec
<1>2. /\ initFlag \in [Cards -> BOOLEAN] /\ inits \in [Cards -> Nat]
      /\ opacity \in [Cards -> {0, 1}]
  BY DEF TypeOK
<1>3. CASE initFlag[c] BY <1>1, <1>2, <1>3 DEF InitializeCard
<1>4. CASE ~initFlag[c]
  <2>1. SuccessTimer(c, cls) \in Seq(TimerRec)
    <3>1. <<Timer("auto", c, AutoDelay)>> \in Seq(TimerRec)
      BY NativeDelayAssumption DEF Timer, TimerRec, TimerKinds
    <3>. QED BY <3>1 DEF SuccessTimer
  <2>2. <<Timer("anim", c, AnimDelay)>> \in Seq(TimerRec)
    BY NativeDelayAssumption DEF Timer, TimerRec, TimerKinds
  <2>3. timers \o SuccessTimer(c, cls) \o <<Timer("anim", c, AnimDelay)>>
          \in Seq(TimerRec)
    BY <1>1, <2>1, <2>2, ConcatProperties
  <2>4. initFlag' \in [Cards -> BOOLEAN] BY <1>2, <1>4 DEF InitializeCard
  <2>5. inits' \in [Cards -> Nat] BY <1>2, <1>4 DEF InitializeCard
  <2>6. opacity' \in [Cards -> {0, 1}] BY <1>2, <1>4 DEF InitializeCard
  <2>7. timers' \in Seq(TimerRec) BY <1>4, <2>3 DEF InitializeCard
  <2>. QED BY <2>4, <2>5, <2>6, <2>7
<1>. QED BY <1>3, <1>4

LEMMA DismissCardType ==
    ASSUME TypeOK, NEW c \in Cards, NEW k \in Nat,
           NEW rest \in Seq(TimerRec), DismissCard(c, k, rest)
    PROVE  /\ dismissed' \in [Cards -> BOOLEAN]
           /\ opacity' \in [Cards -> {0, 1}]
           /\ timers' \in Seq(TimerRec)
<1>1. [i \in 1..k |-> Timer("remove", c, RemoveDelay)] \in Seq(TimerRec)
  BY NativeDelayAssumption DEF Timer, TimerRec, TimerKinds
<1>2. timers' \in Seq(TimerRec) BY <1>1, ConcatProperties DEF DismissCard
<1>3. dismissed \in [Cards -> BOOLEAN] /\ opacity \in [Cards -> {0, 1}]
  BY DEF TypeOK
<1>. QED BY <1>2, <1>3 DEF DismissCard

-----------------------------------------------------------------------------
(* Type correctness.                                                       *)

LEMMA NativeInitType == Init => TypeOK
<1>. SUFFICES ASSUME Init PROVE TypeOK OBVIOUS
<1>1. classes \in [Cards -> SUBSET Modifiers]
  BY NativeCardsAssumption DEF Init
<1>2. loads \in 0..Loads /\ pending \in 0..loads /\ apiCalls \in 0..MaxApiCalls
  BY NativeDelayAssumption DEF Init
<1>3. timers \in Seq([kind : TimerKinds, card : Cards, left : Nat]) BY DEF Init
<1>4. /\ place \in [Cards -> {"absent", "in", "removed"}]
      /\ button \in [Cards -> BOOLEAN] /\ initFlag \in [Cards -> BOOLEAN]
      /\ inits \in [Cards -> Nat] /\ opacity \in [Cards -> {0, 1}]
      /\ dismissed \in [Cards -> BOOLEAN] /\ clicks \in [Cards -> Nat]
  BY DEF Init
<1>5. /\ readyState \in {"loading", "interactive"} /\ work \subseteq Cards
      /\ container \in BOOLEAN
  BY DEF Init
<1>. QED BY <1>1, <1>2, <1>3, <1>4, <1>5 DEF TypeOK

\* The page-load steps keep the types.
LEMMA NativeLoadStepType ==
    ASSUME TypeOK, Load \/ ContentLoaded \/ RunListener \/ InitStep
    PROVE  TypeOK'
<1>1. /\ loads \in 0..Loads /\ pending \in 0..loads /\ work \subseteq Cards
      /\ readyState \in {"loading", "interactive"}
  BY DEF TypeOK
<1>2. Loads \in Nat BY NativeDelayAssumption
<1>3. InDoc \subseteq Cards BY DEF InDoc
<1>4. CASE Load
  <2>1. /\ loads' \in 0..Loads /\ pending' \in 0..loads' /\ work' \subseteq Cards
    BY <1>1, <1>2, <1>3, <1>4 DEF Load
  <2>2. UNCHANGED <<readyState, place, classes, button, initFlag, inits,
                    opacity, timers, dismissed, clicks, apiCalls, container>>
    BY <1>4 DEF Load
  <2>. QED BY <2>1, <2>2 DEF TypeOK
<1>5. CASE ContentLoaded
  <2>1. UNCHANGED <<loads, pending, work, place, classes, button, initFlag,
                    inits, opacity, timers, dismissed, clicks, apiCalls,
                    container>>
    BY <1>5 DEF ContentLoaded
  <2>2. readyState' = "interactive" BY <1>5 DEF ContentLoaded
  <2>. QED BY <2>1, <2>2 DEF TypeOK
<1>6. CASE RunListener
  <2>1. pending' \in 0..loads' /\ work' \subseteq Cards
    BY <1>1, <1>3, <1>6 DEF RunListener
  <2>3. loads' = loads BY <1>6 DEF RunListener
  <2>2. UNCHANGED <<readyState, loads, place, classes, button, initFlag, inits,
                    opacity, timers, dismissed, clicks, apiCalls, container>>
    BY <1>6 DEF RunListener
  <2>. QED BY <2>1, <2>2, <2>3 DEF TypeOK
<1>7. CASE InitStep
  <2>1. PICK c \in work : work' = work \ {c} /\ InitializeCard(c, classes[c])
    BY <1>7 DEF InitStep
  <2>2. c \in Cards BY <1>1
  <2>3. /\ initFlag' \in [Cards -> BOOLEAN]
        /\ inits' \in [Cards -> Nat]
        /\ opacity' \in [Cards -> {0, 1}]
        /\ timers' \in Seq(TimerRec)
    BY <2>1, <2>2, InitializeCardType
  <2>4. work' \subseteq Cards BY <1>1, <2>1
  <2>5. UNCHANGED <<readyState, loads, pending, place, classes, button,
                    dismissed, clicks, apiCalls, container>>
    BY <1>7 DEF InitStep
  <2>. QED BY <2>3, <2>4, <2>5, SMTT(30) DEF TypeOK, TimerRec
<1>. QED BY <1>4, <1>5, <1>6, <1>7

\* show() calls and dismiss clicks keep the types.
LEMMA NativeEventStepType ==
    ASSUME TypeOK,
           \/ \E v \in ShowVariants, dis \in BOOLEAN : ApiShow(v, dis)
           \/ \E c \in Cards : ClickDismiss(c)
    PROVE  TypeOK'
<1>1. /\ apiCalls \in 0..MaxApiCalls /\ MaxApiCalls \in Nat
      /\ place \in [Cards -> {"absent", "in", "removed"}]
      /\ classes \in [Cards -> SUBSET Modifiers]
      /\ button \in [Cards -> BOOLEAN]
      /\ inits \in [Cards -> Nat] /\ clicks \in [Cards -> Nat]
      /\ timers \in Seq(TimerRec)
  BY NativeDelayAssumption DEF TypeOK, TimerRec
<1>2. CASE \E v \in ShowVariants, dis \in BOOLEAN : ApiShow(v, dis)
  <2>1. PICK v \in ShowVariants, dis \in BOOLEAN : ApiShow(v, dis) BY <1>2
  <2>. DEFINE c == CHOOSE x \in ShownCards : place[x] = "absent"
  <2>2. c \in Cards BY <2>1, SMTT(30) DEF ApiShow, Cards
  <2>3. InitializeCard(c, {v} \cap Modifiers) BY <2>1 DEF ApiShow
  <2>4. /\ initFlag' \in [Cards -> BOOLEAN]
        /\ inits' \in [Cards -> Nat]
        /\ opacity' \in [Cards -> {0, 1}]
        /\ timers' \in Seq(TimerRec)
    BY <2>2, <2>3, InitializeCardType
  <2>5. place' \in [Cards -> {"absent", "in", "removed"}]
    <3>1. place' = [place EXCEPT ![c] = "in"] BY <2>1 DEF ApiShow
    <3>. QED BY <1>1, <3>1
  <2>6. classes' \in [Cards -> SUBSET Modifiers]
    <3>1. classes' = [classes EXCEPT ![c] = {v} \cap Modifiers]
      BY <2>1 DEF ApiShow
    <3>. QED BY <1>1, <3>1
  <2>7. button' \in [Cards -> BOOLEAN]
    <3>1. button' = [button EXCEPT ![c] = dis] BY <2>1 DEF ApiShow
    <3>. QED BY <1>1, <3>1, ZenonT(30)
  <2>8. apiCalls' \in 0..MaxApiCalls /\ container' \in BOOLEAN
    <3>1. apiCalls < MaxApiCalls /\ apiCalls' = apiCalls + 1 /\ container' = TRUE
      BY <2>1 DEF ApiShow
    <3>. QED BY <1>1, <3>1
  <2>9. UNCHANGED <<readyState, loads, pending, work, dismissed, clicks>>
    BY <2>1 DEF ApiShow
  <2>. QED BY <2>4, <2>5, <2>6, <2>7, <2>8, <2>9 DEF TypeOK, TimerRec
<1>3. CASE \E c \in Cards : ClickDismiss(c)
  <2>1. PICK c \in Cards : ClickDismiss(c) BY <1>3
  <2>2. DismissCard(c, inits[c], timers) BY <2>1 DEF ClickDismiss
  <2>3. /\ dismissed' \in [Cards -> BOOLEAN]
        /\ opacity' \in [Cards -> {0, 1}]
        /\ timers' \in Seq(TimerRec)
    BY <1>1, <2>2, DismissCardType
  <2>4. clicks' \in [Cards -> Nat] BY <1>1, <2>1 DEF ClickDismiss
  <2>5. UNCHANGED <<readyState, loads, pending, work, place, classes, button,
                    initFlag, inits, apiCalls, container>>
    BY <2>1 DEF ClickDismiss
  <2>. QED BY <2>3, <2>4, <2>5, SMTT(30) DEF TypeOK, TimerRec
<1>. QED BY <1>2, <1>3

\* Time passing and the timer callbacks keep the types.
LEMMA NativeTimerStepType ==
    ASSUME TypeOK, Tick \/ FireAnim \/ FireAuto \/ FireRemove
    PROVE  TypeOK'
<1>1. timers \in Seq(TimerRec) BY DEF TypeOK, TimerRec
<1>2. CASE Tick
  <2>1. Due = {} BY <1>2 DEF Tick
  <2>2. ASSUME NEW i \in 1..Len(timers)
        PROVE  [timers[i] EXCEPT !.left = @ - 1] \in TimerRec
    <3>1. timers[i] \in TimerRec BY <1>1, ElementOfSeq
    <3>2. timers[i].left \in Nat \ {0} BY <2>1, <3>1 DEF Due, TimerRec
    <3>3. timers[i] = [kind |-> timers[i].kind, card |-> timers[i].card,
                       left |-> timers[i].left]
      BY <3>1 DEF TimerRec
    <3>. QED BY <3>1, <3>2, <3>3 DEF TimerRec
  <2>3. timers' \in Seq(TimerRec) BY <1>1, <1>2, <2>2 DEF Tick
  <2>4. UNCHANGED <<readyState, loads, pending, work, place, classes, button,
                    initFlag, inits, opacity, dismissed, clicks, apiCalls,
                    container>>
    BY <1>2 DEF Tick
  <2>. QED BY <2>3, <2>4 DEF TypeOK, TimerRec
<1>3. ASSUME Due # {}
      PROVE  Rest \in Seq(TimerRec) /\ timers[First].card \in Cards
  BY <1>1, <1>3, NativeFirstDue, NativeRestType DEF TimerRec
<1>4. CASE FireAnim
  <2>1. Due # {} BY <1>4 DEF FireAnim, FireGuard
  <2>2. timers' \in Seq(TimerRec) BY <1>3, <1>4, <2>1 DEF FireAnim
  <2>3. opacity' \in [Cards -> {0, 1}]
    <3>1. opacity \in [Cards -> {0, 1}] BY DEF TypeOK
    <3>. QED BY <1>4, <3>1 DEF FireAnim
  <2>4. UNCHANGED <<readyState, loads, pending, work, place, classes, button,
                    initFlag, inits, dismissed, clicks, apiCalls, container>>
    BY <1>4 DEF FireAnim
  <2>. QED BY <2>2, <2>3, <2>4 DEF TypeOK, TimerRec
<1>5. CASE FireAuto
  <2>1. Due # {} BY <1>5 DEF FireAuto, FireGuard
  <2>2. DismissCard(timers[First].card, 1, Rest) BY <1>5 DEF FireAuto
  <2>3. /\ dismissed' \in [Cards -> BOOLEAN]
        /\ opacity' \in [Cards -> {0, 1}]
        /\ timers' \in Seq(TimerRec)
    BY <1>3, <2>1, <2>2, DismissCardType
  <2>4. UNCHANGED <<readyState, loads, pending, work, place, classes, button,
                    initFlag, inits, clicks, apiCalls, container>>
    BY <1>5 DEF FireAuto
  <2>. QED BY <2>3, <2>4 DEF TypeOK, TimerRec
<1>6. CASE FireRemove
  <2>1. Due # {} BY <1>6 DEF FireRemove, FireGuard
  <2>2. timers' \in Seq(TimerRec) BY <1>3, <1>6, <2>1 DEF FireRemove
  <2>3. place' \in [Cards -> {"absent", "in", "removed"}]
    <3>1. place \in [Cards -> {"absent", "in", "removed"}] BY DEF TypeOK
    <3>. QED BY <1>6, <3>1 DEF FireRemove
  <2>4. UNCHANGED <<readyState, loads, pending, work, classes, button, initFlag,
                    inits, opacity, dismissed, clicks, apiCalls, container>>
    BY <1>6 DEF FireRemove
  <2>. QED BY <2>2, <2>3, <2>4 DEF TypeOK, TimerRec
<1>. QED BY <1>2, <1>4, <1>5, <1>6

\* Every reachable state of the native-only page is well typed, however
\* often the script runs and whenever show(), the clicks and the timers
\* come.
THEOREM NativeTypeCorrect == Spec => []TypeOK
<1>1. Init => TypeOK BY NativeInitType
<1>2. TypeOK /\ [Next]_vars => TypeOK'
  <2>. SUFFICES ASSUME TypeOK, [Next]_vars PROVE TypeOK' OBVIOUS
  <2>1. CASE Load \/ ContentLoaded \/ RunListener \/ InitStep
    BY <2>1, NativeLoadStepType
  <2>2. CASE \/ \E v \in ShowVariants, dis \in BOOLEAN : ApiShow(v, dis)
             \/ \E c \in Cards : ClickDismiss(c)
    BY <2>2, NativeEventStepType
  <2>3. CASE Tick \/ FireAnim \/ FireAuto \/ FireRemove
    BY <2>3, NativeTimerStepType
  <2>4. CASE UNCHANGED vars BY <2>4 DEF TypeOK, vars
  <2>. QED BY <2>1, <2>2, <2>3, <2>4 DEF Next
<1>. QED BY <1>1, <1>2, PTL DEF Spec
-----------------------------------------------------------------------------
(* A card is initialized at most once.                                     *)

\* The actions that leave the flag, the count, the place and the running
\* loop of every card alone keep NativeCountsFlag.
LEMMA CountsUnchanged ==
    ASSUME NativeCountsFlag, UNCHANGED <<initFlag, inits, place, work>>
    PROVE  NativeCountsFlag'
BY DEF NativeCountsFlag

\* init()'s next card: the flag and the count move together, and a card
\* in the loop is in the document.
LEMMA InitStepCounts ==
    ASSUME TypeOK, NativeCountsFlag, InitStep
    PROVE  NativeCountsFlag'
<1>1. PICK c \in work : /\ work' = work \ {c}
                        /\ InitializeCard(c, classes[c])
  BY DEF InitStep
<1>2. /\ c \in Cards /\ place[c] # "absent"
      /\ initFlag \in [Cards -> BOOLEAN] /\ inits \in [Cards -> Nat]
  BY <1>1 DEF TypeOK, NativeCountsFlag
<1>3. UNCHANGED place BY DEF InitStep
<1>4. CASE initFlag[c]
  <2>1. UNCHANGED <<initFlag, inits>> BY <1>1, <1>4 DEF InitializeCard
  <2>. QED BY <1>1, <1>3, <2>1 DEF NativeCountsFlag
<1>5. CASE ~initFlag[c]
  <2>1. /\ initFlag' = [initFlag EXCEPT ![c] = TRUE]
        /\ inits' = [inits EXCEPT ![c] = @ + 1]
    BY <1>1, <1>5 DEF InitializeCard
  <2>2. inits[c] = 0 BY <1>2, <1>5 DEF NativeCountsFlag
  <2>. QED BY <1>1, <1>2, <1>3, <2>1, <2>2 DEF NativeCountsFlag
<1>. QED BY <1>4, <1>5

\* show(): the card it creates was absent, so unmarked and never counted;
\* it leaves the call in the document with a count of one.
LEMMA ApiShowCounts ==
    ASSUME TypeOK, NativeCountsFlag,
           NEW v \in ShowVariants, NEW dis \in BOOLEAN, ApiShow(v, dis)
    PROVE  NativeCountsFlag'
<1>. DEFINE c == CHOOSE x \in ShownCards : place[x] = "absent"
<1>1. c \in Cards /\ place[c] = "absent" BY DEF ApiShow, Cards
<1>2. /\ place \in [Cards -> {"absent", "in", "removed"}]
      /\ initFlag \in [Cards -> BOOLEAN] /\ inits \in [Cards -> Nat]
  BY DEF TypeOK
<1>3. ~initFlag[c] /\ inits[c] = 0 BY <1>1, <1>2 DEF NativeCountsFlag
<1>4. /\ initFlag' = [initFlag EXCEPT ![c] = TRUE]
      /\ inits' = [inits EXCEPT ![c] = @ + 1]
  BY <1>3 DEF ApiShow, InitializeCard
<1>5. place' = [place EXCEPT ![c] = "in"] /\ UNCHANGED work BY DEF ApiShow
<1>. QED BY <1>1, <1>2, <1>3, <1>4, <1>5 DEF NativeCountsFlag

\* card.remove() only turns a card in the document into a removed one; it
\* never makes a card absent again.
LEMMA FireRemoveCounts ==
    ASSUME TypeOK, NativeCountsFlag, FireRemove
    PROVE  NativeCountsFlag'
<1>1. Due # {} BY DEF FireRemove, FireGuard
<1>2. timers \in Seq(TimerRec) BY DEF TypeOK, TimerRec
<1>3. timers[First].card \in Cards BY <1>1, <1>2, NativeFirstDue DEF TimerRec
<1>4. place \in [Cards -> {"absent", "in", "removed"}] BY DEF TypeOK
<1>5. ASSUME NEW d \in Cards, place'[d] = "absent" PROVE place[d] = "absent"
  BY <1>3, <1>4, <1>5 DEF FireRemove
<1>6. UNCHANGED <<initFlag, inits, work>> BY DEF FireRemove
<1>. QED BY <1>5, <1>6 DEF NativeCountsFlag

\* Each step of the page keeps NativeCountsFlag.
LEMMA NativeCountsStep ==
    ASSUME TypeOK, NativeCountsFlag, [Next]_vars
    PROVE  NativeCountsFlag'
<1>1. CASE Load \/ RunListener
  <2>1. work' \subseteq InDoc /\ UNCHANGED <<initFlag, inits, place>>
    BY <1>1 DEF Load, RunListener
  <2>. QED BY <2>1 DEF NativeCountsFlag, InDoc
<1>2. CASE ContentLoaded \/ Tick \/ FireAnim \/ FireAuto
  BY <1>2, CountsUnchanged DEF ContentLoaded, Tick, FireAnim, FireAuto
<1>3. CASE InitStep BY <1>3, InitStepCounts
<1>4. CASE \E v \in ShowVariants, dis \in BOOLEAN : ApiShow(v, dis)
  BY <1>4, ApiShowCounts
<1>5. CASE \E c \in Cards : ClickDismiss(c)
  BY <1>5, CountsUnchanged DEF ClickDismiss
<1>6. CASE FireRemove BY <1>6, FireRemoveCounts
<1>7. CASE UNCHANGED vars BY <1>7, CountsUnchanged DEF vars
<1>. QED BY <1>1, <1>2, <1>3, <1>4, <1>5, <1>6, <1>7 DEF Next

\* Whatever the order of the script's runs (it may be included twice),
\* DOMContentLoaded, show() and the timers, the data-initialized mark of a
\* card tells exactly whether initializeCard got past its guard on it, so
\* no card is initialized twice.
THEOREM NativeCountsFlagInvariant == Spec => []NativeCountsFlag
<1>1. Init => NativeCountsFlag BY DEF Init, NativeCountsFlag
<1>2. TypeOK /\ NativeCountsFlag /\ [Next]_vars => NativeCountsFlag'
  BY NativeCountsStep
<1>. QED BY <1>1, <1>2, NativeTypeCorrect, PTL DEF Spec

========================================================================
