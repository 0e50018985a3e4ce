-------------------------- MODULE NotificationCard --------------------------
(***************************************************************************)
(* The notification-card widget of the sdc_shoelace theme: the framework- *)
(* agnostic engine (window.NotificationCard, src/unnamed/part_001) and the *)
(* Drupal adapter that drives it (Drupal.behaviors.notificationCard and    *)
(* convertDrupalMessages in js/shoelace-init.js), on one page.             *)
(*                                                                         *)
(* The browser runs JavaScript to completion: a script, an event listener  *)
(* or a timer callback runs without interruption.  A forEach loop over a   *)
(* querySelectorAll/once() result is kept in `work` and executed one       *)
(* element per step; no other event is taken while `work` is not empty.   *)
(* Time is discrete: a timer holds the ticks left until it is due, due     *)
(* timers fire in the order they were scheduled, as setTimeout does.      *)
(***************************************************************************)
EXTENDS Naturals, Sequences, FiniteSets

CONSTANTS
    MarkupCards,    \* .notification-card elements rendered in the page
    AjaxCards,      \* .notification-card elements delivered later by AJAX
    ShownCards,     \* identities of the elements NotificationCard.show creates
    Messages,       \* Drupal .messages blocks rendered in the page
    CardClasses,    \* [MarkupCards \cup AjaxCards -> SUBSET Modifiers]
    HasButton,      \* rendered cards that contain a .notification-dismiss
    OptOut,         \* rendered cards with data-auto-dismiss="false"
    MsgTypes,       \* [Messages -> SUBSET {"status", "warning", "error"}]
    AnimDelay,      \* animateIn's 50 ms, in ticks
    RemoveDelay,    \* dismissCard's 300 ms, in ticks
    AutoDelay,      \* initializeCard's 5000 ms success auto-dismiss, in ticks
    SuccessDuration,\* the duration convertDrupalMessages gives success, in ticks
    ShowVariants,   \* variants page code passes to show()
    ShowDurations,  \* durations page code passes to show(), in ticks
    LogCap,         \* entries kept in localStorage.notificationLogs (50)
    MaxApiCalls,    \* bound on show()/init() calls made by page code
    MaxDismiss,     \* bound on dismissCard calls caused by the user, per card
    StorageBroken   \* localStorage is unusable for the page (corrupted entry,
                    \* quota, storage disabled): logNotification throws

Rendered == MarkupCards \cup AjaxCards
Cards == Rendered \cup ShownCards
Modifiers == {"success", "warning", "danger"}
Variants == {"info"} \cup Modifiers

ASSUME CardsAssumption ==
    /\ IsFiniteSet(Cards)
    /\ MarkupCards \cap AjaxCards = {}
    /\ Rendered \cap ShownCards = {}
    /\ Cards \cap Messages = {}
    /\ Cardinality(ShownCards) >= Cardinality(Messages) + MaxApiCalls
ASSUME ClassesAssumption ==
    /\ CardClasses \in [Rendered -> SUBSET Modifiers]
    /\ HasButton \subseteq Rendered
    /\ OptOut \subseteq Rendered
    /\ MsgTypes \in [Messages -> SUBSET {"status", "warning", "error"}]
ASSUME DelayAssumption ==
    /\ {AnimDelay, RemoveDelay, AutoDelay, SuccessDuration} \subseteq Nat \ {0}
    /\ ShowDurations \subseteq Nat
    /\ ShowVariants \subseteq Variants
ASSUME BoundAssumption ==
    /\ LogCap \in Nat \ {0}
    /\ MaxApiCalls \in Nat
    /\ MaxDismiss \in Nat
ASSUME StorageAssumption == StorageBroken \in BOOLEAN

VARIABLES
    readyState,     \* document.readyState: "loading" or "interactive"
    nativeLoaded,   \* part_001 has run: window.NotificationCard is defined
    drupalLoaded,   \* Drupal core has registered its attachBehaviors(document)
    listeners,      \* DOMContentLoaded listeners, in registration order
    work,           \* the forEach loops of the running task, innermost first
    place,          \* each card: "absent", "in" the document or "removed"
    classes,        \* notification-card--{variant} modifiers of each card
    button,         \* the card contains a .notification-dismiss
    initFlag,       \* card.dataset.notificationInitialized === 'true'
    onceCard,       \* cards once('notification-card', ...) has marked
    onceMsg,        \* messages once('convert-messages', ...) has marked
    msgHidden,      \* messageEl.style.display === 'none'
    inits,          \* initializeCard calls on the card: its listener sets
    opacity,        \* the card's inline style.opacity
    timers,         \* pending setTimeout callbacks, in scheduling order
    dismissEvents,  \* notificationDismiss events dispatched for the card
    removedEvents,  \* notificationRemoved events dispatched for the card
    log,            \* localStorage.notificationLogs, one card per entry
    container,      \* the .notification-container exists
    apiCalls,       \* show()/init() calls made by page code so far
    converted,      \* history: messages handed to show()
    mounted         \* history: every initializeCard call, in order

vars == <<readyState, nativeLoaded, drupalLoaded, listeners, work, place,
          classes, button, initFlag, onceCard, onceMsg, msgHidden, inits,
          opacity, timers, dismissEvents, removedEvents, log, container,
          apiCalls, converted, mounted>>

pageVars == <<readyState, nativeLoaded, drupalLoaded, listeners>>
cardVars == <<place, classes, button, inits, opacity, timers, log, container,
              mounted>>
eventVars == <<dismissEvents, removedEvents>>

TimerKinds == {"anim", "auto", "duration", "remove"}
Timer(k, c, d) == [kind |-> k, card |-> c, left |-> d]
WorkItem == [op : {"init", "attachCard"}, todo : SUBSET Cards]
            \cup [op : {"convert"}, todo : SUBSET Messages]

\* getVariant: the first modifier class in the order success, warning, danger.
GetVariant(cls) ==
    IF "success" \in cls THEN "success"
    ELSE IF "warning" \in cls THEN "warning"
    ELSE IF "danger" \in cls THEN "danger"
    ELSE "info"

\* convertDrupalMessages: later tests overwrite earlier ones.
MsgVariant(m) ==
    IF "error" \in MsgTypes[m] THEN "danger"
    ELSE IF "warning" \in MsgTypes[m] THEN "warning"
    ELSE IF "status" \in MsgTypes[m] THEN "success"
    ELSE "info"


\* Mutant: the log keeps its oldest entries, slice(0, LogCap).
LogPushOldest(l, c) ==
    LET s == Append(l, c)
    IN  IF Len(s) > LogCap THEN SubSeq(s, 1, LogCap) ELSE s

\* Mutant: the log is sliced before the push, so it holds LogCap + 1.
LogPushSliceFirst(l, c) ==
    Append(IF Len(l) > LogCap THEN SubSeq(l, Len(l) - LogCap + 1, Len(l)) ELSE l,
           c)

\* logs.push(data); logs.slice(-LogCap)
LogPush(l, c) ==
    LET s == Append(l, c)
    IN  IF Len(s) > LogCap THEN SubSeq(s, Len(s) - LogCap + 1, Len(s)) ELSE s

\* Mutant: the opt-out test reads autoDismiss === 'false'.
AutoTimerInverted(c, cls) ==
    IF GetVariant(cls) = "success" /\ c \in OptOut
    THEN <<Timer("auto", c, AutoDelay)>> ELSE <<>>

\* The success auto-dismiss timer initializeCard schedules, if any.
AutoTimer(c, cls) ==
    IF GetVariant(cls) = "success" /\ c \notin OptOut
    THEN <<Timer("auto", c, AutoDelay)>> ELSE <<>>

InDoc == {c \in Cards : place[c] = "in"}

\* A forEach loop over `todo`; an empty loop does nothing.
Loop(op, todo) == IF todo = {} THEN <<>> ELSE <<[op |-> op, todo |-> todo]>>

\* The running loop has handled element e.
Advance(e) ==
    LET h == [Head(work) EXCEPT !.todo = @ \ {e}]
    IN  IF h.todo = {} THEN Tail(work) ELSE <<h>> \o Tail(work)

\* The running loop goes on after element e, unless initializeCard ran on
\* it (ran) and threw: the exception leaves the forEach and ends the loop
\* (attachBehaviors catches it per behavior, so the next loop still runs).
NextInLoop(e, ran) == IF ran /\ StorageBroken THEN Tail(work) ELSE Advance(e)

\* No task is running: the event loop may deliver the next event.
Idle == readyState = "interactive" /\ listeners = <<>> /\ work = <<>>

-----------------------------------------------------------------------------
(* The engine's operations.                                                *)

\* logNotification(card): JSON.parse of the stored log or setItem throws
\* when localStorage is unusable, and nothing is stored.
LogNotification(c) ==
    IF StorageBroken
    THEN UNCHANGED <<log, mounted>>
    ELSE /\ log' = LogPush(log, c)
         /\ mounted' = Append(mounted, c)

\* initializeCard(card) with animateIn and logNotification, its last call;
\* `more` are the timers its caller schedules right after it, which a throw
\* of logNotification skips.
InitializeCard(c, cls, more) ==
    /\ inits' = [inits EXCEPT ![c] = @ + 1]
    /\ opacity' = [opacity EXCEPT ![c] = 0]
    /\ timers' = timers \o AutoTimer(c, cls) \o <<Timer("anim", c, AnimDelay)>>
                        \o (IF StorageBroken THEN <<>> ELSE more)
    /\ LogNotification(c)

\* Mutant: the flag is set after initializeCard returns, so a throw leaves
\* the card unflagged.
GuardedInitFlagLast(c) ==
    IF initFlag[c]
    THEN UNCHANGED <<initFlag, inits, opacity, timers, log, mounted>>
    ELSE /\ initFlag' = [initFlag EXCEPT ![c] = ~StorageBroken]
         /\ InitializeCard(c, classes[c], <<>>)

\* Mutant: init(element) without the notificationInitialized test.
GuardedInitNoFlag(c) ==
    /\ initFlag' = [initFlag EXCEPT ![c] = TRUE]
    /\ InitializeCard(c, classes[c], <<>>)

\* init(element): initializeCard behind the notificationInitialized flag.
GuardedInit(c) ==
    IF initFlag[c]
    THEN UNCHANGED <<initFlag, inits, opacity, timers, log, mounted>>
    ELSE /\ initFlag' = [initFlag EXCEPT ![c] = TRUE]
         /\ InitializeCard(c, classes[c], <<>>)

\* Mutant: dismissCard fades the card but never schedules its removal.
DismissTimesNoRemove(c, k, pending) ==
    /\ dismissEvents' = [dismissEvents EXCEPT ![c] = @ + k]
    /\ opacity' = [opacity EXCEPT ![c] = 0]
    /\ timers' = pending

\* Mutant: dismissCard without its notificationDismiss dispatch.
DismissTimesNoEvent(c, k, pending) ==
    /\ UNCHANGED dismissEvents
    /\ opacity' = [opacity EXCEPT ![c] = 0]
    /\ timers' = pending \o [i \in 1..k |-> Timer("remove", c, RemoveDelay)]

\* dismissCard(card), called k times in one task; `pending` are the timers
\* left when it starts.
DismissTimes(c, k, pending) ==
    /\ dismissEvents' = [dismissEvents EXCEPT ![c] = @ + k]
    /\ opacity' = [opacity EXCEPT ![c] = 0]
    /\ timers' = pending \o [i \in 1..k |-> Timer("remove", c, RemoveDelay)]

\* show(options): a new card in the container, initialized, and its
\* duration timer.
Show(v, d, dis) ==
    LET c   == CHOOSE x \in ShownCards : place[x] = "absent"
        cls == {v} \cap Modifiers
    IN  /\ \E x \in ShownCards : place[x] = "absent"
        /\ container' = TRUE
        /\ place' = [place EXCEPT ![c] = "in"]
        /\ classes' = [classes EXCEPT ![c] = cls]
        /\ button' = [button EXCEPT ![c] = dis]
        /\ InitializeCard(c, cls,
                          IF d > 0 THEN <<Timer("duration", c, d)>> ELSE <<>>)

-----------------------------------------------------------------------------
(* Page load.                                                              *)

Init ==
    /\ readyState = "loading"
    /\ nativeLoaded = FALSE
    /\ drupalLoaded = FALSE
    /\ listeners = <<>>
    /\ work = <<>>
    /\ place = [c \in Cards |-> IF c \in MarkupCards THEN "in" ELSE "absent"]
    /\ classes = [c \in Cards |-> IF c \in Rendered THEN CardClasses[c] ELSE {}]
    /\ button = [c \in Cards |-> c \in HasButton]
    /\ initFlag = [c \in Cards |-> FALSE]
    /\ onceCard = {}
    /\ onceMsg = {}
    /\ msgHidden = [m \in Messages |-> FALSE]
    /\ inits = [c \in Cards |-> 0]
    /\ opacity = [c \in Cards |-> 1]
    /\ timers = <<>>
    /\ dismissEvents = [c \in Cards |-> 0]
    /\ removedEvents = [c \in Cards |-> 0]
    /\ log = <<>>
    /\ container = FALSE
    /\ apiCalls = 0
    /\ converted = {}
    /\ mounted = <<>>

\* Mutant: autoInit without its else branch; a late script waits for a
\* DOMContentLoaded that has already fired.
LoadNativeNoElse ==
    /\ ~nativeLoaded
    /\ work = <<>>
    /\ readyState = "loading" \/ listeners = <<>>
    /\ nativeLoaded' = TRUE
    /\ IF readyState = "loading"
       THEN listeners' = Append(listeners, "native")
       ELSE UNCHANGED listeners
    /\ UNCHANGED <<readyState, drupalLoaded, work, place, classes, button,
                   initFlag, onceCard, onceMsg, msgHidden, inits, opacity,
                   timers, eventVars, log, container, apiCalls, converted,
                   mounted>>

\* The engine's script runs (autoInit): initializeAll now, or on
\* DOMContentLoaded while the document is still loading.
LoadNative ==
    /\ ~nativeLoaded
    /\ work = <<>>
    /\ readyState = "loading" \/ listeners = <<>>
    /\ nativeLoaded' = TRUE
    /\ IF readyState = "loading"
       THEN /\ listeners' = Append(listeners, "native")
            /\ UNCHANGED work
       ELSE /\ work' = Loop("init", InDoc)
            /\ UNCHANGED listeners
    /\ UNCHANGED <<readyState, drupalLoaded, place, classes, button, initFlag,
                   onceCard, onceMsg, msgHidden, inits, opacity, timers,
                   eventVars, log, container, apiCalls, converted, mounted>>

\* Drupal core registers attachBehaviors(document) for DOMContentLoaded.
LoadDrupal ==
    /\ readyState = "loading"
    /\ ~drupalLoaded
    /\ drupalLoaded' = TRUE
    /\ listeners' = Append(listeners, "drupal")
    /\ UNCHANGED <<readyState, nativeLoaded, work, place, classes, button,
                   initFlag, onceCard, onceMsg, msgHidden, inits, opacity, timers,
                   eventVars, log, container, apiCalls, converted, mounted>>

\* The parser finishes; the blocking core scripts have run by then.
ContentLoaded ==
    /\ readyState = "loading"
    /\ drupalLoaded
    /\ readyState' = "interactive"
    /\ UNCHANGED <<nativeLoaded, drupalLoaded, listeners, work, place, classes,
                   button, initFlag, onceCard, onceMsg, msgHidden, inits, opacity,
                   timers, eventVars, log, container, apiCalls, converted,
                   mounted>>

\* Drupal.attachBehaviors(context): each behavior's once() marks the
\* unprocessed elements of the context, then its forEach loop runs.
Attach(ctxCards, ctxMsgs) ==
    /\ work' = Loop("attachCard", ctxCards \ onceCard)
               \o Loop("convert", ctxMsgs \ onceMsg)
    /\ onceCard' = onceCard \cup ctxCards
    /\ onceMsg' = onceMsg \cup ctxMsgs

\* The next DOMContentLoaded listener runs.
RunListener ==
    /\ readyState = "interactive"
    /\ listeners # <<>>
    /\ work = <<>>
    /\ listeners' = Tail(listeners)
    /\ IF Head(listeners) = "native"
       THEN /\ work' = Loop("init", InDoc)
            /\ UNCHANGED <<onceCard, onceMsg>>
       ELSE Attach(InDoc, Messages)
    /\ UNCHANGED <<readyState, nativeLoaded, drupalLoaded, place, classes,
                   button, initFlag, msgHidden, inits, opacity, timers, eventVars,
                   log, container, apiCalls, converted, mounted>>

-----------------------------------------------------------------------------
(* One iteration of a running forEach loop.                                *)

\* initializeAll: skip a card already flagged, else flag and initialize it.
InitAllStep ==
    /\ work # <<>>
    /\ Head(work).op = "init"
    /\ \E c \in Head(work).todo :
        /\ work' = NextInLoop(c, ~initFlag[c])
        /\ GuardedInit(c)
    /\ UNCHANGED <<pageVars, place, classes, button, onceCard, onceMsg,
                   msgHidden, eventVars, container, apiCalls, converted>>

\* Drupal.behaviors.notificationCard: NotificationCard.init(card) when the
\* engine is loaded.
AttachCardStep ==
    /\ work # <<>>
    /\ Head(work).op = "attachCard"
    /\ \E c \in Head(work).todo :
        /\ work' = NextInLoop(c, nativeLoaded /\ ~initFlag[c])
        /\ IF nativeLoaded
           THEN GuardedInit(c)
           ELSE UNCHANGED <<initFlag, inits, opacity, timers, log, mounted>>
    /\ UNCHANGED <<pageVars, place, classes, button, onceCard, onceMsg,
                   msgHidden, eventVars, container, apiCalls, converted>>

\* Drupal.behaviors.convertDrupalMessages: show() a notification built from
\* the message when the engine is loaded, then hide the message; a throw
\* of show() skips the hiding.
ConvertStep ==
    /\ work # <<>>
    /\ Head(work).op = "convert"
    /\ \E m \in Head(work).todo :
        LET v == MsgVariant(m) IN
        /\ work' = NextInLoop(m, nativeLoaded)
        /\ msgHidden' = IF nativeLoaded /\ StorageBroken THEN msgHidden
                         ELSE [msgHidden EXCEPT ![m] = TRUE]
        /\ IF nativeLoaded
           THEN /\ Show(v, IF v = "success" THEN SuccessDuration ELSE 0, TRUE)
                /\ converted' = converted \cup {m}
           ELSE UNCHANGED <<cardVars, converted>>
    /\ UNCHANGED <<pageVars, initFlag, onceCard, onceMsg, eventVars, apiCalls>>

-----------------------------------------------------------------------------
(* Events after load.                                                      *)

\* AJAX inserts a subtree holding card c and attaches behaviors to it.
AjaxInsert(c) ==
    /\ Idle
    /\ place[c] = "absent"
    /\ place' = [place EXCEPT ![c] = "in"]
    /\ Attach({c}, {})
    /\ UNCHANGED <<pageVars, classes, button, initFlag, msgHidden, inits, opacity,
                   timers, eventVars, log, container, apiCalls, converted,
                   mounted>>

\* Page code calls NotificationCard.show(options).
ApiShow(v, d, dis) ==
    /\ Idle
    /\ nativeLoaded
    /\ apiCalls < MaxApiCalls
    /\ apiCalls' = apiCalls + 1
    /\ Show(v, d, dis)
    /\ UNCHANGED <<pageVars, work, initFlag, onceCard, onceMsg, msgHidden,
                   eventVars, converted>>

\* Page code calls NotificationCard.init() without an element.
ApiInitAll ==
    /\ Idle
    /\ nativeLoaded
    /\ apiCalls < MaxApiCalls
    /\ apiCalls' = apiCalls + 1
    /\ work' = Loop("init", InDoc)
    /\ UNCHANGED <<pageVars, place, classes, button, initFlag, onceCard, onceMsg,
                   msgHidden, inits, opacity, timers, eventVars, log, container,
                   converted, mounted>>

\* Page code calls NotificationCard.init(card) on a card it holds.
ApiInitOne(c) ==
    /\ Idle
    /\ nativeLoaded
    /\ apiCalls < MaxApiCalls
    /\ place[c] # "absent"
    /\ apiCalls' = apiCalls + 1
    /\ GuardedInit(c)
    /\ UNCHANGED <<pageVars, work, place, classes, button, onceCard, onceMsg,
                   msgHidden, eventVars, container, converted>>

\* A click on the dismiss button runs every click listener on it; Escape on
\* the focused card runs every keydown listener, which do the same when the
\* card has a dismiss button.
ClickDismiss(c) ==
    /\ Idle
    /\ place[c] = "in"
    /\ button[c]
    /\ inits[c] > 0
    /\ dismissEvents[c] < MaxDismiss
    /\ DismissTimes(c, inits[c], timers)
    /\ UNCHANGED <<pageVars, work, place, classes, button, initFlag, onceCard,
                   onceMsg, msgHidden, inits, removedEvents, log, container,
                   apiCalls, converted, mounted>>

-----------------------------------------------------------------------------
(* Timers.                                                                 *)

Due == {i \in 1..Len(timers) : timers[i].left = 0}

\* The first due timer: among equal deadlines setTimeout keeps FIFO order.
First == CHOOSE i \in Due : \A j \in Due : i <= j

\* The timers without the one that fires.
Rest == SubSeq(timers, 1, First - 1) \o SubSeq(timers, First + 1, Len(timers))

\* No timer is due: time passes by one tick.
Tick ==
    /\ Idle
    /\ timers # <<>>
    /\ Due = {}
    /\ timers' = [i \in 1..Len(timers) |-> [timers[i] EXCEPT !.left = @ - 1]]
    /\ UNCHANGED <<pageVars, work, place, classes, button, initFlag, onceCard,
                   onceMsg, msgHidden, inits, opacity, eventVars, log, container,
                   apiCalls, converted, mounted>>

FireGuard(k) == Idle /\ Due # {} /\ timers[First].kind = k

\* animateIn's callback: the card becomes opaque (and slides in).
FireAnim ==
    /\ FireGuard("anim")
    /\ timers' = Rest
    /\ opacity' = [opacity EXCEPT ![timers[First].card] = 1]
    /\ UNCHANGED <<pageVars, work, place, classes, button, initFlag, onceCard,
                   onceMsg, msgHidden, inits, eventVars, log, container,
                   apiCalls, converted, mounted>>

\* A dismissCard(card) callback: the success auto-dismiss or show()'s
\* duration.
FireDismiss(k) ==
    /\ FireGuard(k)
    /\ DismissTimes(timers[First].card, 1, Rest)
    /\ UNCHANGED <<pageVars, work, place, classes, button, initFlag, onceCard,
                   onceMsg, msgHidden, inits, removedEvents, log, container,
                   apiCalls, converted, mounted>>

FireAuto == FireDismiss("auto")
FireDuration == FireDismiss("duration")

\* dismissCard's callback: card.remove(), then notificationRemoved.
FireRemove ==
    /\ FireGuard("remove")
    /\ LET c == timers[First].card IN
       /\ place' = [place EXCEPT ![c] = IF @ = "in" THEN "removed" ELSE @]
       /\ removedEvents' = [removedEvents EXCEPT ![c] = @ + 1]
    /\ timers' = Rest
    /\ UNCHANGED <<pageVars, work, classes, button, initFlag, onceCard, onceMsg,
                   msgHidden, inits, opacity, dismissEvents, log, container,
                   apiCalls, converted, mounted>>

-----------------------------------------------------------------------------

Next ==
    \/ LoadNative \/ LoadDrupal \/ ContentLoaded \/ RunListener
    \/ InitAllStep \/ AttachCardStep \/ ConvertStep
    \/ \E c \in AjaxCards : AjaxInsert(c)
    \/ \E v \in ShowVariants, d \in ShowDurations, dis \in BOOLEAN :
           ApiShow(v, d, dis)
    \/ ApiInitAll
    \/ \E c \in Cards : ApiInitOne(c)
    \/ \E c \in Cards : ClickDismiss(c)
    \/ Tick \/ FireAnim \/ FireAuto \/ FireDuration \/ FireRemove

\* The browser runs scripts, listeners, loops and due timers, and time
\* passes; the user and page code act when they like.
Fairness ==
    /\ WF_vars(LoadNative) /\ WF_vars(LoadDrupal) /\ WF_vars(ContentLoaded)
    /\ WF_vars(RunListener)
    /\ WF_vars(InitAllStep) /\ WF_vars(AttachCardStep) /\ WF_vars(ConvertStep)
    /\ WF_vars(Tick) /\ WF_vars(FireAnim) /\ WF_vars(FireAuto)
    /\ WF_vars(FireDuration) /\ WF_vars(FireRemove)

Spec == Init /\ [][Next]_vars /\ Fairness

-----------------------------------------------------------------------------
(* Properties.                                                             *)

TypeOK ==
    /\ readyState \in {"loading", "interactive"}
    /\ nativeLoaded \in BOOLEAN
    /\ drupalLoaded \in BOOLEAN
    /\ listeners \in Seq({"native", "drupal"})
    /\ work \in Seq(WorkItem)
    /\ place \in [Cards -> {"absent", "in", "removed"}]
    /\ classes \in [Cards -> SUBSET Modifiers]
    /\ button \in [Cards -> BOOLEAN]
    /\ initFlag \in [Cards -> BOOLEAN]
    /\ onceCard \subseteq Cards
    /\ onceMsg \subseteq Messages
    /\ msgHidden \in [Messages -> BOOLEAN]
    /\ inits \in [Cards -> Nat]
    /\ opacity \in [Cards -> {0, 1}]
    /\ timers \in Seq([kind : TimerKinds, card : Cards, left : Nat])
    /\ dismissEvents \in [Cards -> Nat]
    /\ removedEvents \in [Cards -> Nat]
    /\ log \in Seq(Cards) /\ Len(log) <= LogCap
    /\ container \in BOOLEAN
    /\ apiCalls \in 0..MaxApiCalls
    /\ converted \subseteq Messages
    /\ mounted \in Seq(Cards)

\* The notificationInitialized flag of a rendered card tells exactly whether
\* initializeCard has run on it: once (flag set) or never (flag clear). So a
\* card of the page or of an AJAX response gets one set of listeners however
\* initializeAll, init(card) and the Drupal behavior's once() interleave.
InitCountsFlag ==
    \A c \in Rendered : inits[c] = IF initFlag[c] THEN 1 ELSE 0

\* localStorage.notificationLogs holds exactly the last LogCap cards that
\* logNotification recorded, oldest first (push, then slice(-50)).
LogHoldsLatest ==
    log = IF Len(mounted) > LogCap
          THEN SubSeq(mounted, Len(mounted) - LogCap + 1, Len(mounted))
          ELSE mounted

\* Whenever no task is running and the engine has loaded, every rendered
\* card that has entered the document has been initialized: each loop of
\* initializeAll and of the Drupal behavior ran to its end, whatever the
\* order of the two scripts, DOMContentLoaded and AJAX.
MountedWhenIdle ==
    Idle /\ nativeLoaded =>
        \A c \in Rendered : place[c] # "absent" => inits[c] > 0

\* Every card rendered into the document is eventually initialized, whether
\* the engine's script runs before or after DOMContentLoaded and before or
\* after the AJAX insertion.
EveryCardMounted == \A c \in Rendered : place[c] = "in" ~> inits[c] > 0

\* The phase of a card in the lifecycle spec.md describes: detached,
\* notificationDismiss dispatched for it, initialized, or none of these.
Phase(c) ==
    IF place[c] = "removed" THEN "removed"
    ELSE IF dismissEvents[c] > 0 THEN "dismissing"
    ELSE IF inits[c] > 0 THEN "mounted"
    ELSE "uninitialized"

Lifecycle == INSTANCE CardLifecycle
                 WITH Elements <- Cards, phase <- [c \in Cards |-> Phase(c)]

\* The engine with the Drupal adapter implements the lifecycle: a card is
\* initialized, a click, Escape or a timer starts its exit, the 300 ms
\* callback detaches it; no step goes backwards, and every dismissal ends
\* in the removal.
ImplementsLifecycle == Lifecycle!Spec

\* The safety part of the lifecycle, also under page code's show(), init()
\* and init(card) calls: no card skips a phase or goes back to one.
LifecycleSafety == Lifecycle!SafetySpec

\* A success card without data-auto-dismiss="false" leaves the document by
\* itself once it has been initialized.
SuccessAutoDismissed ==
    \A c \in Cards :
        (inits[c] > 0 /\ GetVariant(classes[c]) = "success" /\ c \notin OptOut)
            ~> place[c] = "removed"

\* The spec: a card is initialized at most once, however often mount is
\* attempted (the per-element idempotency marker).
InitOnce == \A c \in Cards : inits[c] <= 1

\* The spec: at most one notificationRemoved event per card, however many
\* dismiss triggers fire.
SingleRemovedEvent == \A c \in Cards : removedEvents[c] <= 1

\* The spec: a Drupal status message that convertDrupalMessages hides has
\* been shown as a notification.
HiddenMessageShown == \A m \in Messages : msgHidden[m] => m \in converted

\* The exit transition of dismissCard is not undone: a card whose
\* dismissal has begun stays transparent until it is detached.
ExitStaysFaded ==
    \A c \in Cards :
        (dismissEvents[c] > 0 /\ place[c] = "in") => opacity[c] = 0

=============================================================================
