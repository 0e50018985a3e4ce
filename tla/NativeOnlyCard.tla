--------------------------- MODULE NativeOnlyCard ---------------------------
(***************************************************************************)
(* The native-only notification card (src/unnamed/part_002): the engine   *)
(* without Drupal support.  Its initializeCard carries its own            *)
(* data-initialized guard, it dispatches no events and keeps no log, and  *)
(* show() takes no duration.                                               *)
(*                                                                         *)
(* As in NotificationCard, JavaScript runs to completion, the forEach loop *)
(* of init() runs one card per step with no other event taken meanwhile,  *)
(* and timers count down in ticks and fire in scheduling order.           *)
(***************************************************************************)
EXTENDS Naturals, Sequences, FiniteSets

CONSTANTS
    MarkupCards,    \* .notification-card elements rendered in the page
    ShownCards,     \* identities of the elements NotificationCard.show creates
    CardClasses,    \* [MarkupCards -> SUBSET Modifiers]
    HasButton,      \* rendered cards that contain a .notification-dismiss
    AnimDelay,      \* the entrance animation's 50 ms, in ticks
    RemoveDelay,    \* dismissCard's 300 ms, in ticks
    AutoDelay,      \* the success auto-dismiss's 5000 ms, in ticks
    ShowVariants,   \* variants page code passes to show()
    Loads,          \* times the page includes and runs the script
    MaxApiCalls,    \* bound on show() calls made by page code
    MaxClicks       \* bound on dismiss-button clicks, per card

Cards == MarkupCards \cup ShownCards
Modifiers == {"success", "warning", "danger"}
Variants == {"info"} \cup Modifiers

ASSUME NativeCardsAssumption ==
    /\ IsFiniteSet(Cards)
    /\ MarkupCards \cap ShownCards = {}
    /\ Cardinality(ShownCards) >= MaxApiCalls
    /\ CardClasses \in [MarkupCards -> SUBSET Modifiers]
    /\ HasButton \subseteq MarkupCards
ASSUME NativeDelayAssumption ==
    /\ {AnimDelay, RemoveDelay, AutoDelay} \subseteq Nat \ {0}
    /\ ShowVariants \subseteq Variants
    /\ Loads \in Nat /\ MaxApiCalls \in Nat /\ MaxClicks \in Nat

VARIABLES
    readyState,     \* document.readyState: "loading" or "interactive"
    loads,          \* runs of the script so far: window.NotificationCard is
                    \* defined once it has run
    pending,        \* its DOMContentLoaded listeners waiting for the event
    work,           \* cards init()'s forEach has still to visit
    place,          \* each card: "absent", "in" the document or "removed"
    classes,        \* notification-card--{variant} modifiers of each card
    button,         \* the card contains a .notification-dismiss
    initFlag,       \* card.dataset.initialized === 'true'
    inits,          \* times initializeCard got past its guard: listener sets
    opacity,        \* the card's inline style.opacity
    timers,         \* pending setTimeout callbacks, in scheduling order
    dismissed,      \* dismissCard has run on the card
    clicks,         \* dismiss-button clicks on the card
    apiCalls,       \* show() calls made by page code so far
    container       \* the .notification-container exists

vars == <<readyState, loads, pending, work, place, classes, button, initFlag,
          inits, opacity, timers, dismissed, clicks, apiCalls, container>>

TimerKinds == {"anim", "auto", "remove"}
Timer(k, c, d) == [kind |-> k, card |-> c, left |-> d]

InDoc == {c \in Cards : place[c] = "in"}

\* No task is running: the event loop may deliver the next event.
Idle == readyState = "interactive" /\ pending = 0 /\ work = {}

-----------------------------------------------------------------------------
(* The engine's functions.                                                 *)

\* The success auto-dismiss timer initializeCard schedules, if any.
SuccessTimer(c, cls) ==
    IF "success" \in cls THEN <<Timer("auto", c, AutoDelay)>> ELSE <<>>

\* Mutant: initializeCard without its data-initialized test.
InitializeCardNoGuard(c, cls) ==
    /\ initFlag' = [initFlag EXCEPT ![c] = TRUE]
    /\ inits' = [inits EXCEPT ![c] = @ + 1]
    /\ opacity' = [opacity EXCEPT ![c] = 0]
    /\ timers' = timers \o SuccessTimer(c, cls) \o <<Timer("anim", c, AnimDelay)>>

\* initializeCard(card): skip a marked card, else mark it, wire the dismiss
\* button, schedule the success auto-dismiss (cls are its classes), hide it
\* and schedule the entrance animation.
InitializeCard(c, cls) ==
    IF initFlag[c]
    THEN UNCHANGED <<initFlag, inits, opacity, timers>>
    ELSE /\ initFlag' = [initFlag EXCEPT ![c] = TRUE]
         /\ inits' = [inits EXCEPT ![c] = @ + 1]
         /\ opacity' = [opacity EXCEPT ![c] = 0]
         /\ timers' = timers \o SuccessTimer(c, cls)
                             \o <<Timer("anim", c, AnimDelay)>>

\* Mutant: dismissCard fades the card but never schedules its removal.
DismissCardNoRemove(c, k, rest) ==
    /\ dismissed' = [dismissed EXCEPT ![c] = TRUE]
    /\ opacity' = [opacity EXCEPT ![c] = 0]
    /\ timers' = rest

\* dismissCard(card), called k times in one task; `rest` are the timers
\* left when it starts.
DismissCard(c, k, rest) ==
    /\ dismissed' = [dismissed EXCEPT ![c] = TRUE]
    /\ opacity' = [opacity EXCEPT ![c] = 0]
    /\ timers' = rest \o [i \in 1..k |-> Timer("remove", c, RemoveDelay)]

-----------------------------------------------------------------------------
(* Page load.                                                              *)

Init ==
    /\ readyState = "loading"
    /\ loads = 0
    /\ pending = 0
    /\ work = {}
    /\ place = [c \in Cards |-> IF c \in MarkupCards THEN "in" ELSE "absent"]
    /\ classes = [c \in Cards |-> IF c \in MarkupCards THEN CardClasses[c] ELSE {}]
    /\ button = [c \in Cards |-> c \in HasButton]
    /\ initFlag = [c \in Cards |-> FALSE]
    /\ inits = [c \in Cards |-> 0]
    /\ opacity = [c \in Cards |-> 1]
    /\ timers = <<>>
    /\ dismissed = [c \in Cards |-> FALSE]
    /\ clicks = [c \in Cards |-> 0]
    /\ apiCalls = 0
    /\ container = FALSE

\* Mutant: the script only ever waits for DOMContentLoaded, even when it
\* runs after the event.
LoadNoElse ==
    /\ loads < Loads
    /\ work = {}
    /\ loads' = loads + 1
    /\ IF readyState = "loading" THEN pending' = pending + 1 ELSE UNCHANGED pending
    /\ UNCHANGED <<readyState, work, place, classes, button, initFlag, inits,
                   opacity, timers, dismissed, clicks, apiCalls, container>>

\* The script runs: init() now, or on DOMContentLoaded while the document
\* is still loading.
Load ==
    /\ loads < Loads
    /\ work = {}
    /\ loads' = loads + 1
    /\ IF readyState = "loading"
       THEN pending' = pending + 1 /\ UNCHANGED work
       ELSE work' = InDoc /\ UNCHANGED pending
    /\ UNCHANGED <<readyState, place, classes, button, initFlag, inits,
                   opacity, timers, dismissed, clicks, apiCalls, container>>

\* The parser finishes the document.
ContentLoaded ==
    /\ readyState = "loading"
    /\ work = {}
    /\ readyState' = "interactive"
    /\ UNCHANGED <<loads, pending, work, place, classes, button, initFlag,
                   inits, opacity, timers, dismissed, clicks, apiCalls,
                   container>>

\* DOMContentLoaded reaches the next listener: init() starts its loop.
RunListener ==
    /\ readyState = "interactive"
    /\ pending > 0
    /\ work = {}
    /\ pending' = pending - 1
    /\ work' = InDoc
    /\ UNCHANGED <<readyState, loads, place, classes, button, initFlag, inits,
                   opacity, timers, dismissed, clicks, apiCalls, container>>

\* One iteration of init()'s cards.forEach(initializeCard).
InitStep ==
    /\ \E c \in work :
        /\ work' = work \ {c}
        /\ InitializeCard(c, classes[c])
    /\ UNCHANGED <<readyState, loads, pending, place, classes, button,
                   dismissed, clicks, apiCalls, container>>

-----------------------------------------------------------------------------
(* Events after load.                                                      *)

\* Page code calls NotificationCard.show(options): a new card in the
\* container, initialized.
ApiShow(v, dis) ==
    LET c == CHOOSE x \in ShownCards : place[x] = "absent" IN
    /\ Idle
    /\ loads > 0
    /\ apiCalls < MaxApiCalls
    /\ \E x \in ShownCards : place[x] = "absent"
    /\ apiCalls' = apiCalls + 1
    /\ container' = TRUE
    /\ place' = [place EXCEPT ![c] = "in"]
    /\ classes' = [classes EXCEPT ![c] = {v} \cap Modifiers]
    /\ button' = [button EXCEPT ![c] = dis]
    /\ InitializeCard(c, {v} \cap Modifiers)
    /\ UNCHANGED <<readyState, loads, pending, work, dismissed, clicks>>

\* A click on the dismiss button runs each of its click listeners.
ClickDismiss(c) ==
    /\ Idle
    /\ place[c] = "in"
    /\ button[c]
    /\ inits[c] > 0
    /\ clicks[c] < MaxClicks
    /\ clicks' = [clicks EXCEPT ![c] = @ + 1]
    /\ DismissCard(c, inits[c], timers)
    /\ UNCHANGED <<readyState, loads, pending, work, place, classes, button,
                   initFlag, inits, apiCalls, container>>

-----------------------------------------------------------------------------
(* Timers.                                                                 *)

Due == {i \in 1..Len(timers) : timers[i].left = 0}

\* The first due timer: among equal deadlines setTimeout keeps FIFO order.
First == CHOOSE i \in Due : \A j \in Due : i <= j

\* The timers without the one that fires.
Rest == SubSeq(timers, 1, First - 1) \o SubSeq(timers, First + 1, Len(timers))

\* No timer is due: time passes by one tick.
Tick ==
    /\ Idle
    /\ timers # <<>>
    /\ Due = {}
    /\ timers' = [i \in 1..Len(timers) |-> [timers[i] EXCEPT !.left = @ - 1]]
    /\ UNCHANGED <<readyState, loads, pending, work, place, classes, button,
                   initFlag, inits, opacity, dismissed, clicks, apiCalls,
                   container>>

FireGuard(k) == Idle /\ Due # {} /\ timers[First].kind = k

\* The entrance animation's callback: the card becomes opaque.
FireAnim ==
    /\ FireGuard("anim")
    /\ timers' = Rest
    /\ opacity' = [opacity EXCEPT ![timers[First].card] = 1]
    /\ UNCHANGED <<readyState, loads, pending, work, place, classes, button,
                   initFlag, inits, dismissed, clicks, apiCalls, container>>

\* The success auto-dismiss callback.
FireAuto ==
    /\ FireGuard("auto")
    /\ DismissCard(timers[First].card, 1, Rest)
    /\ UNCHANGED <<readyState, loads, pending, work, place, classes, button,
                   initFlag, inits, clicks, apiCalls, container>>

\* dismissCard's callback: card.remove(), a no-op on a detached card.
FireRemove ==
    /\ FireGuard("remove")
    /\ place' = [place EXCEPT ![timers[First].card] =
                     IF @ = "in" THEN "removed" ELSE @]
    /\ timers' = Rest
    /\ UNCHANGED <<readyState, loads, pending, work, classes, button, initFlag,
                   inits, opacity, dismissed, clicks, apiCalls, container>>

-----------------------------------------------------------------------------

Next ==
    \/ Load \/ ContentLoaded \/ RunListener \/ InitStep
    \/ \E v \in ShowVariants, dis \in BOOLEAN : ApiShow(v, dis)
    \/ \E c \in Cards : ClickDismiss(c)
    \/ Tick \/ FireAnim \/ FireAuto \/ FireRemove

\* The browser runs the script, the listener, the loop, due timers, and
\* time passes; the user and page code act when they like.
Fairness ==
    /\ WF_vars(Load) /\ WF_vars(ContentLoaded) /\ WF_vars(RunListener)
    /\ WF_vars(InitStep) /\ WF_vars(Tick) /\ WF_vars(FireAnim)
    /\ WF_vars(FireAuto) /\ WF_vars(FireRemove)

Spec == Init /\ [][Next]_vars /\ Fairness

-----------------------------------------------------------------------------
(* Properties.                                                             *)

TypeOK ==
    /\ readyState \in {"loading", "interactive"}
    /\ loads \in 0..Loads /\ pending \in 0..loads
    /\ work \subseteq Cards
    /\ place \in [Cards -> {"absent", "in", "removed"}]
    /\ classes \in [Cards -> SUBSET Modifiers]
    /\ button \in [Cards -> BOOLEAN]
    /\ initFlag \in [Cards -> BOOLEAN]
    /\ inits \in [Cards -> Nat]
    /\ opacity \in [Cards -> {0, 1}]
    /\ timers \in Seq([kind : TimerKinds, card : Cards, left : Nat])
    /\ dismissed \in [Cards -> BOOLEAN]
    /\ clicks \in [Cards -> Nat]
    /\ apiCalls \in 0..MaxApiCalls
    /\ container \in BOOLEAN

\* A card's data-initialized mark tells exactly whether initializeCard got
\* past its guard on it, and a card show() may still create carries no
\* mark and is in no running init() loop. So every card, show()'s included,
\* gets one set of listeners even when the script runs twice.
NativeCountsFlag ==
    \A c \in Cards :
        /\ inits[c] = IF initFlag[c] THEN 1 ELSE 0
        /\ place[c] = "absent" => ~initFlag[c] /\ c \notin work

\* Every card in the page is initialized, whether the script runs before
\* or after DOMContentLoaded.
NativeEveryCardInitialized ==
    \A c \in MarkupCards : place[c] = "in" ~> inits[c] > 0

\* The phase of a card in the lifecycle spec.md describes: detached,
\* dismissCard has run on it, data-initialized is set, or none of these.
Phase(c) ==
    IF place[c] = "removed" THEN "removed"
    ELSE IF dismissed[c] THEN "dismissing"
    ELSE IF initFlag[c] THEN "mounted"
    ELSE "uninitialized"

Lifecycle == INSTANCE CardLifecycle
                 WITH Elements <- Cards, phase <- [c \in Cards |-> Phase(c)]

\* The native-only engine implements the lifecycle: every card goes from
\* uninitialized to mounted (initializeCard), to dismissing (dismissCard by
\* a click or the success timer) and to removed (the 300 ms callback), never
\* backwards, and every dismissal ends in the removal.
NativeImplementsLifecycle == Lifecycle!Spec

\* The exit transition of dismissCard is not undone: a dismissed card
\* stays transparent until it is detached.
NativeExitStaysFaded ==
    \A c \in Cards : (dismissed[c] /\ place[c] = "in") => opacity[c] = 0

=============================================================================
