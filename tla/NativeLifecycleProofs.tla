------------------------ MODULE NativeLifecycleProofs ------------------------
(***************************************************************************)
(* Proof that the native-only engine implements the safety part of the    *)
(* lifecycle spec.md promises (CardLifecycle) under the mapping Phase.    *)
(***************************************************************************)
EXTENDS NativeOnlyCardProofs

\* Every timer in ts belongs to a card marked in fl, and a removal timer to
\* a card dismissed in ds.
Owned(ts, fl, ds) ==
    \A i \in 1..Len(ts) :
        /\ fl[ts[i].card]
        /\ ts[i].kind = "remove" => ds[ts[i].card]

\* The strengthening that makes the mapping a refinement: a card is
\* dismissed only once marked and removed only once dismissed, and the
\* callbacks pending in setTimeout belong to such cards.
LifeInv ==
    /\ \A c \in Cards : dismissed[c] => initFlag[c]
    /\ \A c \in Cards : place[c] = "removed" => dismissed[c]
    /\ Owned(timers, initFlag, dismissed)

PhaseBar == [c \in Cards |-> Phase(c)]

-----------------------------------------------------------------------------
(* Timers owned by marked cards.                                           *)

\* Two owned queues concatenated are owned.
LEMMA ConcatOwned ==
    ASSUME NEW s \in Seq(TimerRec), NEW t \in Seq(TimerRec), NEW fl, NEW ds,
           Owned(s, fl, ds), Owned(t, fl, ds)
    PROVE  Owned(s \o t, fl, ds)
<1>1. SUFFICES ASSUME NEW i \in 1..Len(s \o t)
               PROVE  /\ fl[(s \o t)[i].card]
                      /\ (s \o t)[i].kind = "remove" => ds[(s \o t)[i].card]
  BY DEF Owned
<1>2. CASE i <= Len(s)
  <2>1. (s \o t)[i] = s[i] /\ i \in 1..Len(s) BY <1>2, ConcatProperties
  <2>. QED BY <2>1 DEF Owned
<1>3. CASE i > Len(s)
  <2>1. (s \o t)[i] = t[i - Len(s)] /\ i - Len(s) \in 1..Len(t)
    BY <1>3, ConcatProperties
  <2>. QED BY <2>1 DEF Owned
<1>. QED BY <1>2, <1>3

\* Marking or dismissing more cards keeps a queue owned.
LEMMA OwnedMonotone ==
    ASSUME NEW ts \in Seq(TimerRec), NEW fl, NEW ds, NEW fl2, NEW ds2,
           Owned(ts, fl, ds),
           \A c \in Cards : fl[c] => fl2[c],
           \A c \in Cards : ds[c] => ds2[c]
    PROVE  Owned(ts, fl2, ds2)
<1>1. ASSUME NEW i \in 1..Len(ts) PROVE ts[i].card \in Cards
  <2>1. ts[i] \in TimerRec BY ElementOfSeq
  <2>. QED BY <2>1 DEF TimerRec
<1>. QED BY <1>1 DEF Owned

\* The queue without the timer that fires is owned.
LEMMA RestOwned ==
    ASSUME timers \in Seq(TimerRec), Due # {}, NEW fl, NEW ds,
           Owned(timers, fl, ds)
    PROVE  Owned(Rest, fl, ds)
<1>1. First \in 1..Len(timers) BY NativeFirstDue
<1>. DEFINE s == SubSeq(timers, 1, First - 1)
            t == SubSeq(timers, First + 1, Len(timers))
<1>2. s \in Seq(TimerRec) /\ t \in Seq(TimerRec) BY <1>1, SubSeqProperties
<1>3. Owned(s, fl, ds)
  <2>1. Len(s) = First - 1 /\ \A i \in 1..Len(s) : s[i] = timers[i]
    BY <1>1, SubSeqProperties
  <2>. QED BY <1>1, <2>1 DEF Owned
<1>4. Owned(t, fl, ds)
  <2>1. /\ Len(t) = Len(timers) - First
        /\ \A i \in 1..Len(t) : t[i] = timers[First + i]
    BY <1>1, SubSeqProperties
  <2>. QED BY <1>1, <2>1 DEF Owned
<1>. QED BY <1>2, <1>3, <1>4, ConcatOwned DEF Rest

-----------------------------------------------------------------------------
(* LifeInv is an invariant.                                                *)

LEMMA LifeInit == Init => LifeInv
BY DEF Init, LifeInv, Owned

\* initializeCard marks its card and queues timers of that card only.
LEMMA InitializeCardLife ==
    ASSUME TypeOK, NEW c \in Cards, NEW cls, InitializeCard(c, cls),
           Owned(timers, initFlag, dismissed)
    PROVE  /\ Owned(timers', initFlag', dismissed)
           /\ \A d \in Cards : initFlag[d] => initFlag'[d]
           /\ \A d \in Cards : initFlag'[d] => initFlag[d] \/ d = c
<1>1. timers \in Seq(TimerRec) /\ initFlag \in [Cards -> BOOLEAN]
  BY DEF TypeOK, TimerRec
<1>2. CASE initFlag[c] BY <1>2 DEF InitializeCard
<1>3. CASE ~initFlag[c]
  <2>1. initFlag' = [initFlag EXCEPT ![c] = TRUE] BY <1>3 DEF InitializeCard
  <2>2. \A d \in Cards : initFlag[d] => initFlag'[d] BY <1>1, <2>1
  <2>3. Owned(timers, initFlag', dismissed)
    BY <1>1, <2>2, OwnedMonotone
  <2>4. /\ SuccessTimer(c, cls) \in Seq(TimerRec)
        /\ Owned(SuccessTimer(c, cls), initFlag', dismissed)
    <3>1. initFlag'[c] BY <1>1, <2>1
    <3>2. CASE "success" \in cls
      <4>1. SuccessTimer(c, cls) = <<Timer("auto", c, AutoDelay)>>
        BY <3>2 DEF SuccessTimer
      <4>. QED BY <3>1, <4>1, NativeDelayAssumption
               DEF Timer, TimerRec, TimerKinds, Owned
    <3>3. CASE "success" \notin cls
      <4>1. SuccessTimer(c, cls) = <<>> BY <3>3 DEF SuccessTimer
      <4>. QED BY <4>1 DEF Owned
    <3>. QED BY <3>2, <3>3
  <2>5. /\ <<Timer("anim", c, AnimDelay)>> \in Seq(TimerRec)
        /\ Owned(<<Timer("anim", c, AnimDelay)>>, initFlag', dismissed)
    BY <1>1, <2>1, NativeDelayAssumption DEF Timer, TimerRec, TimerKinds, Owned
  <2>6. Owned(timers \o SuccessTimer(c, cls), initFlag', dismissed)
    BY <1>1, <2>3, <2>4, ConcatOwned
  <2>7. Owned(timers \o SuccessTimer(c, cls) \o <<Timer("anim", c, AnimDelay)>>,
              initFlag', dismissed)
    BY <1>1, <2>4, <2>5, <2>6, ConcatProperties, ConcatOwned
  <2>8. timers' = timers \o SuccessTimer(c, cls) \o <<Timer("anim", c, AnimDelay)>>
    BY <1>3 DEF InitializeCard
  <2>. QED BY <1>1, <2>1, <2>2, <2>7, <2>8
<1>. QED BY <1>2, <1>3

\* dismissCard on a marked card queues removal timers of a dismissed card.
LEMMA DismissCardLife ==
    ASSUME TypeOK, NEW c \in Cards, NEW k \in Nat, NEW rest \in Seq(TimerRec),
           initFlag[c], Owned(rest, initFlag, dismissed), DismissCard(c, k, rest)
    PROVE  /\ Owned(timers', initFlag, dismissed')
           /\ dismissed' = [dismissed EXCEPT ![c] = TRUE]
<1>1. dismissed \in [Cards -> BOOLEAN] BY DEF TypeOK
<1>2. dismissed' = [dismissed EXCEPT ![c] = TRUE] BY DEF DismissCard
<1>3. Owned(rest, initFlag, dismissed') BY <1>1, <1>2, OwnedMonotone
<1>. DEFINE rm == [i \in 1..k |-> Timer("remove", c, RemoveDelay)]
<1>4. rm \in Seq(TimerRec) /\ Owned(rm, initFlag, dismissed')
  BY <1>1, <1>2, NativeDelayAssumption DEF Timer, TimerRec, TimerKinds, Owned
<1>. QED BY <1>2, <1>3, <1>4, ConcatOwned DEF DismissCard

\* Each step of the page keeps LifeInv.
LEMMA LifeInvStep ==
    ASSUME TypeOK, NativeCountsFlag, LifeInv, [Next]_vars
    PROVE  LifeInv'
<1>1. /\ timers \in Seq(TimerRec)
      /\ initFlag \in [Cards -> BOOLEAN] /\ dismissed \in [Cards -> BOOLEAN]
      /\ place \in [Cards -> {"absent", "in", "removed"}]
      /\ inits \in [Cards -> Nat]
  BY DEF TypeOK, TimerRec
<1>2. Owned(timers, initFlag, dismissed) BY DEF LifeInv
<1>3. CASE Load \/ ContentLoaded \/ RunListener \/ UNCHANGED vars
  <2>1. UNCHANGED <<timers, initFlag, dismissed, place>>
    BY <1>3 DEF Load, ContentLoaded, RunListener, vars
  <2>. QED BY <2>1 DEF LifeInv, Owned
<1>4. CASE InitStep
  <2>1. PICK c \in work : InitializeCard(c, classes[c]) BY <1>4 DEF InitStep
  <2>2. c \in Cards BY DEF TypeOK
  <2>3. UNCHANGED <<dismissed, place>> BY <1>4 DEF InitStep
  <2>4. /\ Owned(timers', initFlag', dismissed)
        /\ \A d \in Cards : initFlag[d] => initFlag'[d]
    BY <1>2, <2>1, <2>2, InitializeCardLife
  <2>. QED BY <2>3, <2>4 DEF LifeInv
<1>5. CASE \E v \in ShowVariants, dis \in BOOLEAN : ApiShow(v, dis)
  <2>1. PICK v \in ShowVariants, dis \in BOOLEAN : ApiShow(v, dis) BY <1>5
  <2>. DEFINE c == CHOOSE x \in ShownCards : place[x] = "absent"
  <2>2. c \in Cards BY <2>1 DEF ApiShow, Cards
  <2>3. /\ Owned(timers', initFlag', dismissed)
        /\ \A d \in Cards : initFlag[d] => initFlag'[d]
    BY <1>2, <2>1, <2>2, InitializeCardLife DEF ApiShow
  <2>4. UNCHANGED dismissed /\ place' = [place EXCEPT ![c] = "in"]
    BY <2>1 DEF ApiShow
  <2>. QED BY <1>1, <2>3, <2>4 DEF LifeInv
<1>6. CASE \E c \in Cards : ClickDismiss(c)
  <2>1. PICK c \in Cards : ClickDismiss(c) BY <1>6
  <2>2. initFlag[c]
    <3>1. inits[c] > 0 BY <2>1 DEF ClickDismiss
    <3>. QED BY <1>1, <3>1 DEF NativeCountsFlag
  <2>3. /\ Owned(timers', initFlag, dismissed')
        /\ dismissed' = [dismissed EXCEPT ![c] = TRUE]
    BY <1>1, <1>2, <2>1, <2>2, DismissCardLife DEF ClickDismiss
  <2>4. UNCHANGED <<initFlag, place>> BY <2>1 DEF ClickDismiss
  <2>. QED BY <1>1, <2>2, <2>3, <2>4 DEF LifeInv
<1>7. CASE Tick
  <2>1. UNCHANGED <<initFlag, dismissed, place>> BY <1>7 DEF Tick
  <2>2. ASSUME NEW i \in 1..Len(timers)
        PROVE  /\ timers'[i].card = timers[i].card
               /\ timers'[i].kind = timers[i].kind
    <3>1. timers[i] \in TimerRec BY <1>1, ElementOfSeq
    <3>. QED BY <1>7, <3>1 DEF Tick, TimerRec
  <2>3. Len(timers') = Len(timers) BY <1>7 DEF Tick
  <2>. QED BY <1>2, <2>1, <2>2, <2>3 DEF LifeInv, Owned
<1>8. CASE FireAnim
  <2>1. Due # {} BY <1>8 DEF FireAnim, FireGuard
  <2>2. Owned(Rest, initFlag, dismissed) BY <1>1, <1>2, <2>1, RestOwned
  <2>3. UNCHANGED <<initFlag, dismissed, place>> /\ timers' = Rest
    BY <1>8 DEF FireAnim
  <2>. QED BY <2>2, <2>3 DEF LifeInv
<1>9. CASE FireAuto
  <2>1. Due # {} BY <1>9 DEF FireAuto, FireGuard
  <2>. DEFINE d == timers[First].card
  <2>2. d \in Cards /\ initFlag[d]
    <3>1. First \in 1..Len(timers) /\ timers[First] \in TimerRec
      BY <1>1, <2>1, NativeFirstDue
    <3>. QED BY <1>2, <3>1 DEF TimerRec, Owned
  <2>3. Rest \in Seq(TimerRec) /\ Owned(Rest, initFlag, dismissed)
    BY <1>1, <1>2, <2>1, RestOwned, NativeRestType
  <2>4. /\ Owned(timers', initFlag, dismissed')
        /\ dismissed' = [dismissed EXCEPT ![d] = TRUE]
    <3>1. DismissCard(d, 1, Rest) BY <1>9 DEF FireAuto
    <3>. QED BY <2>2, <2>3, <3>1, DismissCardLife
  <2>5. UNCHANGED <<initFlag, place>> BY <1>9 DEF FireAuto
  <2>. QED BY <1>1, <2>2, <2>4, <2>5 DEF LifeInv
<1>10. CASE FireRemove
  <2>1. Due # {} BY <1>10 DEF FireRemove, FireGuard
  <2>. DEFINE d == timers[First].card
  <2>2. d \in Cards /\ dismissed[d]
    <3>1. First \in 1..Len(timers) /\ timers[First] \in TimerRec
      BY <1>1, <2>1, NativeFirstDue
    <3>2. timers[First].kind = "remove" BY <1>10 DEF FireRemove, FireGuard
    <3>. QED BY <1>2, <3>1, <3>2 DEF TimerRec, Owned
  <2>3. Owned(Rest, initFlag, dismissed) BY <1>1, <1>2, <2>1, RestOwned
  <2>4. /\ UNCHANGED <<initFlag, dismissed>> /\ timers' = Rest
        /\ place' = [place EXCEPT ![d] = IF @ = "in" THEN "removed" ELSE @]
    BY <1>10 DEF FireRemove
  <2>. QED BY <1>1, <2>2, <2>3, <2>4 DEF LifeInv
<1>. QED BY <1>3, <1>4, <1>5, <1>6, <1>7, <1>8, <1>9, <1>10 DEF Next

-----------------------------------------------------------------------------
(* Every step maps to a lifecycle step or a stutter.                       *)

\* A step that leaves the place, the dismissal and the mark of every card
\* alone leaves every phase alone.
LEMMA PhaseUnchanged ==
    ASSUME UNCHANGED <<place, dismissed, initFlag>>
    PROVE  PhaseBar' = PhaseBar
BY DEF PhaseBar, Phase

\* A step that changes the phase of card c only.
LEMMA PhaseChange ==
    ASSUME NEW c \in Cards, NEW q,
           Phase(c)' = q,
           \A d \in Cards \ {c} : Phase(d)' = Phase(d)
    PROVE  PhaseBar' = [PhaseBar EXCEPT ![c] = q]
BY DEF PhaseBar

\* initializeCard on an unmarked card, which LifeInv makes neither
\* dismissed nor removed, mounts it.
LEMMA MountStep ==
    ASSUME TypeOK, LifeInv, NEW c \in Cards, ~initFlag[c],
           initFlag' = [initFlag EXCEPT ![c] = TRUE],
           UNCHANGED dismissed,
           place'[c] # "removed",
           \A d \in Cards \ {c} : place'[d] = place[d]
    PROVE  Lifecycle!Mount(c)
<1>1. initFlag \in [Cards -> BOOLEAN] /\ dismissed \in [Cards -> BOOLEAN]
  BY DEF TypeOK
<1>2. ~dismissed[c] /\ place[c] # "removed" BY DEF LifeInv
<1>3. Phase(c) = "uninitialized" BY <1>2 DEF Phase
<1>4. Phase(c)' = "mounted" BY <1>1, <1>2 DEF Phase
<1>5. \A d \in Cards \ {c} : Phase(d)' = Phase(d) BY <1>1 DEF Phase
<1>6. PhaseBar' = [PhaseBar EXCEPT ![c] = "mounted"]
  BY <1>4, <1>5, PhaseChange
<1>. QED BY <1>3, <1>6 DEF Lifecycle!Mount, PhaseBar

\* dismissCard on a marked card that is neither dismissed nor removed
\* starts its exit.
LEMMA DismissStep ==
    ASSUME TypeOK, NEW c \in Cards, initFlag[c], ~dismissed[c],
           place[c] # "removed",
           dismissed' = [dismissed EXCEPT ![c] = TRUE],
           UNCHANGED <<initFlag, place>>
    PROVE  Lifecycle!Dismiss(c)
<1>1. dismissed \in [Cards -> BOOLEAN] BY DEF TypeOK
<1>2. Phase(c) = "mounted" BY DEF Phase
<1>3. Phase(c)' = "dismissing"
  <2>1. dismissed'[c] /\ place'[c] # "removed" BY <1>1
  <2>. QED BY <2>1 DEF Phase
<1>4. \A d \in Cards \ {c} : Phase(d)' = Phase(d) BY <1>1 DEF Phase
<1>5. PhaseBar' = [PhaseBar EXCEPT ![c] = "dismissing"]
  BY <1>3, <1>4, PhaseChange
<1>. QED BY <1>2, <1>5 DEF Lifecycle!Dismiss, PhaseBar

\* dismissCard on a card already dismissed changes no phase.
LEMMA DismissAgain ==
    ASSUME TypeOK, NEW c \in Cards, dismissed[c],
           dismissed' = [dismissed EXCEPT ![c] = TRUE],
           UNCHANGED <<initFlag, place>>
    PROVE  PhaseBar' = PhaseBar
<1>1. dismissed \in [Cards -> BOOLEAN] BY DEF TypeOK
<1>2. UNCHANGED dismissed BY <1>1
<1>. QED BY <1>2, PhaseUnchanged

\* Each step of the page is a lifecycle step of one card or leaves every
\* phase alone.
LEMMA PhaseStep ==
    ASSUME TypeOK, NativeCountsFlag, LifeInv, [Next]_vars
    PROVE  [Lifecycle!Next]_PhaseBar
<1>1. /\ timers \in Seq(TimerRec)
      /\ initFlag \in [Cards -> BOOLEAN] /\ dismissed \in [Cards -> BOOLEAN]
      /\ place \in [Cards -> {"absent", "in", "removed"}]
      /\ inits \in [Cards -> Nat]
  BY DEF TypeOK, TimerRec
<1>2. Owned(timers, initFlag, dismissed) BY DEF LifeInv
<1>3. CASE Load \/ ContentLoaded \/ RunListener \/ Tick \/ FireAnim
           \/ UNCHANGED vars
  <2>1. UNCHANGED <<place, dismissed, initFlag>>
    BY <1>3 DEF Load, ContentLoaded, RunListener, Tick, FireAnim, vars
  <2>. QED BY <2>1, PhaseUnchanged
<1>4. CASE InitStep
  <2>1. PICK c \in work : InitializeCard(c, classes[c]) BY <1>4 DEF InitStep
  <2>2. c \in Cards BY DEF TypeOK
  <2>3. UNCHANGED <<dismissed, place>> BY <1>4 DEF InitStep
  <2>4. CASE initFlag[c]
    <3>1. UNCHANGED initFlag BY <2>1, <2>4 DEF InitializeCard
    <3>. QED BY <2>3, <3>1, PhaseUnchanged
  <2>5. CASE ~initFlag[c]
    <3>1. initFlag' = [initFlag EXCEPT ![c] = TRUE]
      BY <2>1, <2>5 DEF InitializeCard
    <3>2. place'[c] # "removed" /\ \A d \in Cards \ {c} : place'[d] = place[d]
      BY <2>2, <2>3, <2>5 DEF LifeInv
    <3>3. Lifecycle!Mount(c) BY <2>2, <2>3, <2>5, <3>1, <3>2, MountStep
    <3>. QED BY <2>2, <3>3 DEF Lifecycle!Next
  <2>. QED BY <2>4, <2>5
<1>5. CASE \E v \in ShowVariants, dis \in BOOLEAN : ApiShow(v, dis)
  <2>1. PICK v \in ShowVariants, dis \in BOOLEAN : ApiShow(v, dis) BY <1>5
  <2>0. PICK c \in Cards : c = CHOOSE x \in ShownCards : place[x] = "absent"
    BY <2>1 DEF ApiShow, Cards
  <2>2. place[c] = "absent" BY <2>0, <2>1 DEF ApiShow
  <2>3. ~initFlag[c] BY <2>2 DEF NativeCountsFlag
  <2>4. initFlag' = [initFlag EXCEPT ![c] = TRUE]
    BY <2>0, <2>1, <2>3 DEF ApiShow, InitializeCard
  <2>5. UNCHANGED dismissed /\ place' = [place EXCEPT ![c] = "in"]
    BY <2>0, <2>1 DEF ApiShow
  <2>6. place'[c] # "removed" /\ \A d \in Cards \ {c} : place'[d] = place[d]
    BY <1>1, <2>2, <2>5
  <2>7. Lifecycle!Mount(c) BY <2>2, <2>3, <2>4, <2>5, <2>6, MountStep
  <2>. QED BY <2>2, <2>7 DEF Lifecycle!Next
<1>6. CASE \E c \in Cards : ClickDismiss(c)
  <2>1. PICK c \in Cards : ClickDismiss(c) BY <1>6
  <2>2. initFlag[c] /\ place[c] = "in"
    <3>1. inits[c] > 0 /\ place[c] = "in" BY <2>1 DEF ClickDismiss
    <3>. QED BY <1>1, <3>1 DEF NativeCountsFlag
  <2>3. /\ dismissed' = [dismissed EXCEPT ![c] = TRUE]
        /\ UNCHANGED <<initFlag, place>>
    BY <2>1 DEF ClickDismiss, DismissCard
  <2>4. CASE dismissed[c] BY <2>3, <2>4, DismissAgain
  <2>5. CASE ~dismissed[c]
    <3>1. Lifecycle!Dismiss(c) BY <2>2, <2>3, <2>5, DismissStep
    <3>. QED BY <3>1 DEF Lifecycle!Next
  <2>. QED BY <2>4, <2>5
<1>7. CASE FireAuto
  <2>1. Due # {} BY <1>7 DEF FireAuto, FireGuard
  <2>0. PICK d \in Cards : d = timers[First].card
    <3>1. First \in 1..Len(timers) /\ timers[First] \in TimerRec
      BY <1>1, <2>1, NativeFirstDue
    <3>. QED BY <3>1 DEF TimerRec
  <2>2. d \in Cards /\ initFlag[d]
    <3>1. First \in 1..Len(timers) /\ timers[First] \in TimerRec
      BY <1>1, <2>1, NativeFirstDue
    <3>. QED BY <1>2, <2>0, <3>1 DEF TimerRec, Owned
  <2>3. /\ dismissed' = [dismissed EXCEPT ![d] = TRUE]
        /\ UNCHANGED <<initFlag, place>>
    BY <1>7, <2>0 DEF FireAuto, DismissCard
  <2>4. CASE dismissed[d] BY <2>2, <2>3, <2>4, DismissAgain
  <2>5. CASE ~dismissed[d]
    <3>1. place[d] # "removed" BY <2>2, <2>5 DEF LifeInv
    <3>2. Lifecycle!Dismiss(d) BY <2>2, <2>3, <2>5, <3>1, DismissStep
    <3>. QED BY <2>2, <3>2 DEF Lifecycle!Next
  <2>. QED BY <2>4, <2>5
<1>8. CASE FireRemove
  <2>1. Due # {} BY <1>8 DEF FireRemove, FireGuard
  <2>0. PICK d \in Cards : d = timers[First].card
    <3>1. First \in 1..Len(timers) /\ timers[First] \in TimerRec
      BY <1>1, <2>1, NativeFirstDue
    <3>. QED BY <3>1 DEF TimerRec
  <2>2. d \in Cards /\ dismissed[d]
    <3>1. First \in 1..Len(timers) /\ timers[First] \in TimerRec
      BY <1>1, <2>1, NativeFirstDue
    <3>2. timers[First].kind = "remove" BY <1>8 DEF FireRemove, FireGuard
    <3>. QED BY <1>2, <2>0, <3>1, <3>2 DEF TimerRec, Owned
  <2>3. /\ UNCHANGED <<initFlag, dismissed>>
        /\ place' = [place EXCEPT ![d] = IF @ = "in" THEN "removed" ELSE @]
    BY <1>8, <2>0 DEF FireRemove
  <2>4. CASE place[d] = "in"
    <3>1. Phase(d) = "dismissing" BY <2>2, <2>4 DEF Phase
    <3>2. Phase(d)' = "removed" BY <1>1, <2>2, <2>3, <2>4 DEF Phase
    <3>3. \A x \in Cards \ {d} : Phase(x)' = Phase(x) BY <1>1, <2>3 DEF Phase
    <3>4. PhaseBar' = [PhaseBar EXCEPT ![d] = "removed"]
      BY <2>2, <3>2, <3>3, PhaseChange
    <3>5. Lifecycle!Remove(d) BY <2>2, <3>1, <3>4 DEF Lifecycle!Remove, PhaseBar
    <3>. QED BY <2>2, <3>5 DEF Lifecycle!Next
  <2>5. CASE place[d] # "in"
    <3>1. UNCHANGED place BY <1>1, <2>2, <2>3, <2>5
    <3>. QED BY <2>3, <3>1, PhaseUnchanged
  <2>. QED BY <2>4, <2>5
<1>. QED BY <1>3, <1>4, <1>5, <1>6, <1>7, <1>8 DEF Next

\* The native-only engine implements the safety part of the lifecycle
\* spec.md promises: under Phase, every initializeCard, dismissCard and
\* removal callback moves one card one phase forward, every other step
\* leaves the phases alone.
THEOREM NativeRefinesLifecycle == Spec => Lifecycle!SafetySpec
<1>1. Init => Lifecycle!Init
  BY DEF Init, Lifecycle!Init, Phase
<1>2. Spec => [](TypeOK /\ NativeCountsFlag /\ LifeInv)
  <2>1. Init => LifeInv BY LifeInit
  <2>2. TypeOK /\ NativeCountsFlag /\ LifeInv /\ [Next]_vars => LifeInv'
    BY LifeInvStep
  <2>. QED BY <2>1, <2>2, NativeTypeCorrect, NativeCountsFlagInvariant,
              PTL DEF Spec
<1>3. TypeOK /\ NativeCountsFlag /\ LifeInv /\ [Next]_vars
        => [Lifecycle!Next]_PhaseBar
  BY PhaseStep
<1>. QED BY <1>1, <1>2, <1>3, PTL DEF Spec, Lifecycle!SafetySpec, PhaseBar

=============================================================================
