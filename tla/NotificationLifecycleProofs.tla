--------------------- MODULE NotificationLifecycleProofs ---------------------
(***************************************************************************)
(* Proof that the engine with the Drupal adapter implements the safety     *)
(* part of the lifecycle spec.md promises (CardLifecycle) under Phase,     *)
(* for every value of the constants and whether or not localStorage works. *)
(***************************************************************************)
EXTENDS NotificationCardSafetyProofs

\* The strengthening that makes Phase a refinement mapping: a card gets
\* notificationDismiss only once initialized and is detached only after
\* it, and every pending setTimeout callback belongs to such a card.
LifeInv ==
    /\ \A c \in Cards : dismissEvents[c] > 0 => inits[c] > 0
    /\ \A c \in Cards : place[c] = "removed" => dismissEvents[c] > 0
    /\ Owned(timers, inits, dismissEvents)

PhaseBar == [c \in Cards |-> Phase(c)]

-----------------------------------------------------------------------------
(* The four shapes a step of the page has, seen from the lifecycle.        *)

\* No card is detached or attached back.
SameRemoved == \A d \in Cards : (place'[d] = "removed") <=> (place[d] = "removed")

\* No count moves.
QuietShape == UNCHANGED <<inits, dismissEvents>> /\ SameRemoved

\* initializeCard ran on c (from init(), initializeAll or show()).
InitShape(c) ==
    /\ inits' = [inits EXCEPT ![c] = @ + 1]
    /\ UNCHANGED dismissEvents
    /\ SameRemoved

\* dismissCard ran k times on the initialized card c.
DismissShape(c, k) ==
    /\ k \in Nat \ {0}
    /\ inits[c] > 0
    /\ dismissEvents' = [dismissEvents EXCEPT ![c] = @ + k]
    /\ UNCHANGED inits
    /\ SameRemoved

\* dismissCard's callback detached c, which has had notificationDismiss.
RemoveShape(c) ==
    /\ dismissEvents[c] > 0
    /\ place' = [place EXCEPT ![c] = IF @ = "in" THEN "removed" ELSE @]
    /\ UNCHANGED <<inits, dismissEvents>>

\* init(element): the flag test either skips or initializes c.
LEMMA GuardedShape ==
    ASSUME TypeOK, NEW c \in Cards, GuardedInit(c), UNCHANGED <<place, dismissEvents>>
    PROVE  QuietShape \/ InitShape(c)
<1>1. CASE initFlag[c] BY <1>1 DEF GuardedInit, QuietShape, SameRemoved
<1>2. CASE ~initFlag[c]
  BY <1>2 DEF GuardedInit, InitializeCard, InitShape, SameRemoved
<1>. QED BY <1>1, <1>2

\* show() attaches an absent card and initializes it.
LEMMA ShowShape ==
    ASSUME TypeOK, NEW v, NEW d, NEW dis, Show(v, d, dis), UNCHANGED dismissEvents
    PROVE  \E c \in Cards : InitShape(c)
<1>1. PICK x \in ShownCards : x = CHOOSE y \in ShownCards : place[y] = "absent"
  BY DEF Show
<1>2. place[x] = "absent" BY <1>1 DEF Show
<1>3. x \in Cards BY DEF Cards
<1>4. place' = [place EXCEPT ![x] = "in"] BY <1>1 DEF Show
<1>5. SameRemoved BY <1>2, <1>3, <1>4 DEF TypeOK, SameRemoved
<1>6. inits' = [inits EXCEPT ![x] = @ + 1] BY <1>1 DEF Show, InitializeCard
<1>. QED BY <1>3, <1>5, <1>6 DEF InitShape

\* Every step of the page has one of the four shapes.
LEMMA StepShape ==
    ASSUME TypeOK, Owned(timers, inits, dismissEvents), [Next]_vars
    PROVE  \/ QuietShape
           \/ \E c \in Cards : \/ InitShape(c) \/ RemoveShape(c)
                               \/ \E k \in Nat : DismissShape(c, k)
<1>1. /\ timers \in Seq(TimerRec) /\ inits \in [Cards -> Nat]
      /\ place \in [Cards -> {"absent", "in", "removed"}]
  BY DEF TypeOK, TimerRec
<1>2. CASE \/ LoadNative \/ LoadDrupal \/ ContentLoaded \/ RunListener
           \/ ApiInitAll \/ Tick \/ FireAnim \/ UNCHANGED vars
  <2>1. UNCHANGED <<inits, dismissEvents, place>>
    BY <1>2 DEF LoadNative, LoadDrupal, ContentLoaded, RunListener, ApiInitAll,
                Tick, FireAnim, eventVars, vars
  <2>. QED BY <2>1 DEF QuietShape, SameRemoved
<1>3. CASE \E a \in AjaxCards : AjaxInsert(a)
  <2>1. PICK a \in AjaxCards : AjaxInsert(a) BY <1>3
  <2>2. /\ UNCHANGED <<inits, dismissEvents>> /\ place[a] = "absent"
        /\ place' = [place EXCEPT ![a] = "in"]
    BY <2>1 DEF AjaxInsert, eventVars
  <2>. QED BY <1>1, <2>2 DEF QuietShape, SameRemoved
<1>4. CASE InitAllStep \/ AttachCardStep
  <2>1. work # <<>> /\ UNCHANGED <<place, dismissEvents>>
    BY <1>4 DEF InitAllStep, AttachCardStep, eventVars
  <2>2. PICK c \in Head(work).todo :
          \/ GuardedInit(c)
          \/ UNCHANGED <<initFlag, inits, opacity, timers, log, mounted>>
    BY <1>4 DEF InitAllStep, AttachCardStep
  <2>3. c \in Cards
    <3>1. Head(work).op \in {"init", "attachCard"}
      BY <1>4 DEF InitAllStep, AttachCardStep
    <3>. QED BY <2>1, <3>1, HeadTodo DEF TypeOK
  <2>. QED BY <2>1, <2>2, <2>3, GuardedShape DEF QuietShape, SameRemoved
<1>5. CASE \E c \in Cards : ApiInitOne(c)
  <2>1. PICK c \in Cards : ApiInitOne(c) BY <1>5
  <2>2. GuardedInit(c) /\ UNCHANGED <<place, dismissEvents>>
    BY <2>1 DEF ApiInitOne, eventVars
  <2>. QED BY <2>2, GuardedShape
<1>6. CASE ConvertStep
  <2>1. UNCHANGED dismissEvents BY <1>6 DEF ConvertStep, eventVars
  <2>2. \/ \E v, d, dis : Show(v, d, dis)
        \/ UNCHANGED <<place, inits>>
    BY <1>6 DEF ConvertStep, cardVars
  <2>. QED BY <2>1, <2>2, ShowShape DEF QuietShape, SameRemoved
<1>7. CASE \E v \in ShowVariants, d \in ShowDurations, dis \in BOOLEAN :
             ApiShow(v, d, dis)
  <2>1. PICK v \in ShowVariants, d \in ShowDurations, dis \in BOOLEAN :
          ApiShow(v, d, dis)
    BY <1>7
  <2>. QED BY <2>1, ShowShape DEF ApiShow, eventVars
<1>8. CASE \E c \in Cards : ClickDismiss(c)
  <2>1. PICK c \in Cards : ClickDismiss(c) BY <1>8
  <2>2. DismissShape(c, inits[c])
    BY <1>1, <2>1 DEF ClickDismiss, DismissTimes, DismissShape, SameRemoved
  <2>. QED BY <1>1, <2>2
<1>9. CASE FireAuto \/ FireDuration
  <2>1. Due # {} BY <1>9 DEF FireAuto, FireDuration, FireDismiss, FireGuard
  <2>2. First \in 1..Len(timers) BY <1>1, <2>1, FirstDue
  <2>3. PICK x \in Cards : x = timers[First].card
    <3>1. timers[First] \in TimerRec BY <1>1, <2>2, ElementOfSeq
    <3>. QED BY <3>1 DEF TimerRec
  <2>4. inits[x] > 0 BY <2>2, <2>3 DEF Owned
  <2>5. DismissShape(x, 1)
    BY <2>3, <2>4, <1>9 DEF FireAuto, FireDuration, FireDismiss, DismissTimes,
                            DismissShape, SameRemoved
  <2>. QED BY <2>3, <2>5
<1>10. CASE FireRemove
  <2>1. Due # {} BY <1>10 DEF FireRemove, FireGuard
  <2>2. First \in 1..Len(timers) BY <1>1, <2>1, FirstDue
  <2>3. PICK x \in Cards : x = timers[First].card
    <3>1. timers[First] \in TimerRec BY <1>1, <2>2, ElementOfSeq
    <3>. QED BY <3>1 DEF TimerRec
  <2>4. timers[First].kind = "remove" BY <1>10 DEF FireRemove, FireGuard
  <2>5. dismissEvents[x] > 0 BY <2>2, <2>3, <2>4 DEF Owned
  <2>6. RemoveShape(x) BY <1>10, <2>3, <2>5 DEF FireRemove, RemoveShape
  <2>. QED BY <2>3, <2>6
<1>. QED BY <1>2, <1>3, <1>4, <1>5, <1>6, <1>7, <1>8, <1>9, <1>10 DEF Next

-----------------------------------------------------------------------------
(* LifeInv is inductive.                                                   *)

\* The page starts with no card initialized, dismissed or detached.
LEMMA LifeInit == Init => LifeInv
BY DEF Init, LifeInv, Owned

\* Every step keeps LifeInv: notificationDismiss is only dispatched for
\* initialized cards, and only a removal callback detaches a card.
LEMMA LifeInvStep ==
    ASSUME TypeOK, LifeInv, [Next]_vars
    PROVE  LifeInv'
<1>1. inits \in [Cards -> Nat] /\ dismissEvents \in [Cards -> Nat]
      /\ place \in [Cards -> {"absent", "in", "removed"}]
  BY DEF TypeOK
<1>2. Owned(timers', inits', dismissEvents') /\ Grow BY OwnedStep DEF LifeInv
<1>. DEFINE L1 == \A c \in Cards : dismissEvents[c] > 0 => inits[c] > 0
            L2 == \A c \in Cards : place[c] = "removed" => dismissEvents[c] > 0
<1>3. L1 /\ L2 BY DEF LifeInv
<1>4. SUFFICES L1' /\ L2' BY <1>2 DEF LifeInv
<1>5. CASE QuietShape BY <1>3, <1>5 DEF QuietShape, SameRemoved
<1>6. CASE \E c \in Cards : InitShape(c)
  <2>1. PICK c \in Cards : InitShape(c) BY <1>6
  <2>2. L1' BY <1>1, <1>2, <1>3, <2>1 DEF InitShape, Grow
  <2>3. L2' BY <1>3, <2>1 DEF InitShape, SameRemoved
  <2>. QED BY <2>2, <2>3
<1>7. CASE \E c \in Cards, k \in Nat : DismissShape(c, k)
  <2>1. PICK c \in Cards, k \in Nat : DismissShape(c, k) BY <1>7
  <2>2. L1' BY <1>1, <1>3, <2>1 DEF DismissShape
  <2>3. L2' BY <1>1, <1>2, <1>3, <2>1 DEF DismissShape, SameRemoved, Grow
  <2>. QED BY <2>2, <2>3
<1>8. CASE \E c \in Cards : RemoveShape(c)
  <2>1. PICK c \in Cards : RemoveShape(c) BY <1>8
  <2>2. L1' BY <1>3, <2>1 DEF RemoveShape
  <2>3. L2' BY <1>1, <1>3, <2>1 DEF RemoveShape
  <2>. QED BY <2>2, <2>3
<1>. QED BY <1>5, <1>6, <1>7, <1>8, StepShape DEF LifeInv

-----------------------------------------------------------------------------
(* Every step maps to a lifecycle step or a stutter.                       *)

\* A card whose removal, dismissal and initialization tests all keep their
\* truth value keeps its phase.
LEMMA PhaseSame ==
    ASSUME NEW c,
           (place'[c] = "removed") <=> (place[c] = "removed"),
           (dismissEvents'[c] > 0) <=> (dismissEvents[c] > 0),
           (inits'[c] > 0) <=> (inits[c] > 0)
    PROVE  Phase(c)' = Phase(c)
BY DEF Phase

\* A step that changes the phase of card c only.
LEMMA PhaseOne ==
    ASSUME NEW c \in Cards, NEW q,
           Phase(c)' = q,
           \A d \in Cards \ {c} : Phase(d)' = Phase(d)
    PROVE  PhaseBar' = [PhaseBar EXCEPT ![c] = q]
BY DEF PhaseBar

\* Each step of the page moves one card one phase forward or leaves every
\* phase alone.
LEMMA PhaseStep ==
    ASSUME TypeOK, LifeInv, [Next]_vars
    PROVE  [Lifecycle!Next]_PhaseBar
<1>1. inits \in [Cards -> Nat] /\ dismissEvents \in [Cards -> Nat]
      /\ place \in [Cards -> {"absent", "in", "removed"}]
  BY DEF TypeOK
<1>2. /\ \A c \in Cards : dismissEvents[c] > 0 => inits[c] > 0
      /\ \A c \in Cards : place[c] = "removed" => dismissEvents[c] > 0
  BY DEF LifeInv
<1>3. CASE QuietShape
  <2>1. \A c \in Cards : Phase(c)' = Phase(c)
    BY <1>3, PhaseSame DEF QuietShape, SameRemoved
  <2>. QED BY <2>1 DEF PhaseBar
<1>4. CASE \E c \in Cards : InitShape(c)
  <2>1. PICK c \in Cards : InitShape(c) BY <1>4
  <2>2. \A d \in Cards \ {c} : Phase(d)' = Phase(d)
    BY <1>1, <2>1, PhaseSame DEF InitShape, SameRemoved
  <2>3. CASE inits[c] > 0
    <3>1. Phase(c)' = Phase(c) BY <1>1, <2>1, <2>3, PhaseSame DEF InitShape, SameRemoved
    <3>. QED BY <2>2, <3>1 DEF PhaseBar
  <2>4. CASE inits[c] = 0
    <3>1. dismissEvents[c] = 0 /\ place[c] # "removed" BY <1>1, <1>2, <2>4
    <3>2. Phase(c) = "uninitialized" BY <2>4, <3>1 DEF Phase
    <3>3. Phase(c)' = "mounted"
      <4>1. place'[c] # "removed" /\ dismissEvents'[c] = 0 /\ inits'[c] = 1
        BY <1>1, <2>1, <2>4, <3>1 DEF InitShape, SameRemoved
      <4>. QED BY <4>1 DEF Phase
    <3>4. PhaseBar' = [PhaseBar EXCEPT ![c] = "mounted"]
      BY <2>2, <3>3, PhaseOne
    <3>5. Lifecycle!Mount(c) BY <3>2, <3>4 DEF Lifecycle!Mount, PhaseBar
    <3>. QED BY <3>5 DEF Lifecycle!Next
  <2>. QED BY <1>1, <2>3, <2>4
<1>5. CASE \E c \in Cards, k \in Nat : DismissShape(c, k)
  <2>1. PICK c \in Cards, k \in Nat : DismissShape(c, k) BY <1>5
  <2>2. \A d \in Cards \ {c} : Phase(d)' = Phase(d)
    BY <1>1, <2>1, PhaseSame DEF DismissShape, SameRemoved
  <2>3. CASE dismissEvents[c] > 0
    <3>1. Phase(c)' = Phase(c) BY <1>1, <2>1, <2>3, PhaseSame DEF DismissShape, SameRemoved
    <3>. QED BY <2>2, <3>1 DEF PhaseBar
  <2>4. CASE dismissEvents[c] = 0
    <3>1. place[c] # "removed" /\ inits[c] > 0 BY <1>2, <2>1, <2>4 DEF DismissShape
    <3>2. Phase(c) = "mounted" BY <2>4, <3>1 DEF Phase
    <3>3. Phase(c)' = "dismissing"
      <4>1. place'[c] # "removed" /\ dismissEvents'[c] > 0
        BY <1>1, <2>1, <2>4, <3>1 DEF DismissShape, SameRemoved
      <4>. QED BY <4>1 DEF Phase
    <3>4. PhaseBar' = [PhaseBar EXCEPT ![c] = "dismissing"]
      BY <2>2, <3>3, PhaseOne
    <3>5. Lifecycle!Dismiss(c) BY <3>2, <3>4 DEF Lifecycle!Dismiss, PhaseBar
    <3>. QED BY <3>5 DEF Lifecycle!Next
  <2>. QED BY <1>1, <2>3, <2>4
<1>6. CASE \E c \in Cards : RemoveShape(c)
  <2>1. PICK c \in Cards : RemoveShape(c) BY <1>6
  <2>2. \A d \in Cards \ {c} : Phase(d)' = Phase(d)
    BY <1>1, <2>1, PhaseSame DEF RemoveShape
  <2>3. CASE place[c] # "in"
    <3>1. Phase(c)' = Phase(c) BY <1>1, <2>1, <2>3, PhaseSame DEF RemoveShape
    <3>. QED BY <2>2, <3>1 DEF PhaseBar
  <2>4. CASE place[c] = "in"
    <3>1. Phase(c) = "dismissing" BY <2>1, <2>4 DEF RemoveShape, Phase
    <3>2. Phase(c)' = "removed" BY <1>1, <2>1, <2>4 DEF RemoveShape, Phase
    <3>3. PhaseBar' = [PhaseBar EXCEPT ![c] = "removed"]
      BY <2>2, <3>2, PhaseOne
    <3>4. Lifecycle!Remove(c) BY <3>1, <3>3 DEF Lifecycle!Remove, PhaseBar
    <3>. QED BY <3>4 DEF Lifecycle!Next
  <2>. QED BY <2>3, <2>4
<1>. QED BY <1>3, <1>4, <1>5, <1>6, StepShape DEF LifeInv

\* The engine with the Drupal adapter implements the safety part of the
\* lifecycle spec.md promises, also under page code's show(), init() and
\* init(card) calls and with localStorage broken: under Phase, every
\* initializeCard on a fresh card mounts it, the first dismissCard call
\* starts its exit, the removal callback detaches it, and every other step
\* (a second init, a second dismissCard, a callback on a detached card)
\* leaves every phase alone.
THEOREM RefinesLifecycle == Spec => LifecycleSafety
<1>1. Init => Lifecycle!Init
  BY DEF Init, Lifecycle!Init, Phase, Cards
<1>2. Spec => [](TypeOK /\ LifeInv)
  <2>1. Init => LifeInv BY LifeInit
  <2>2. TypeOK /\ LifeInv /\ [Next]_vars => LifeInv' BY LifeInvStep
  <2>. QED BY <2>1, <2>2, TypeCorrect, PTL DEF Spec
<1>3. TypeOK /\ LifeInv /\ [Next]_vars => [Lifecycle!Next]_PhaseBar
  BY PhaseStep
<1>. QED BY <1>1, <1>2, <1>3, PTL
       DEF Spec, LifecycleSafety, Lifecycle!SafetySpec, PhaseBar

=============================================================================
