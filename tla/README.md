# Formal model of the SDC notification card

This directory holds TLA+ modules, TLC configurations and TLAPS proofs for the
notification-card widget of the `sdc_shoelace` theme. It covers the native
engine (`src/unnamed/part_001`, shipped as `notification_card.js`), the Drupal
adapter (`src/themes/custom/sdc_shoelace/js/shoelace-init.js`, lines 18-96)
and the native-only variant of the engine (`src/unnamed/part_002`).

## The system

**Notification engine** (`part_001`). On load, `autoInit` (16-24) runs
`initializeAll` at once, or on `DOMContentLoaded` if the document is still
loading. `initializeAll` (29-38) sets `data-notification-initialized` on every
`.notification-card` that lacks it, then calls `initializeCard`.

`initializeCard` (43-84) does the following:
- wires the dismiss button's click (47-52) and the Escape key (75-80) to
  `dismissCard`;
- schedules a 5000 ms auto-dismiss for success cards without
  `data-auto-dismiss="false"` (54-60);
- plays `animateIn`, which sets opacity 0 and restores it after 50 ms (119-130);
- appends an entry to the `notificationLogs` log in localStorage, cut to the
  last 50 (146-164).

`dismissCard` (89-114) dispatches `notificationDismiss` and fades the card. It
then schedules, after 300 ms, `card.remove()` and `notificationRemoved`.

The public API has two calls:
- `init(element)` (173-182) is guarded by the same flag, and without an element
  it calls `initializeAll`;
- `show(options)` (193-256) creates the container and a card, calls
  `initializeCard` (without setting the flag) and schedules a dismiss after
  `duration`.

**Drupal adapter** (`shoelace-init.js` 18-96). `Drupal.behaviors.notificationCard`
uses `once()` and calls `NotificationCard.init(card)` when the engine is
loaded (25-36). `Drupal.behaviors.convertDrupalMessages` (66-94) turns each
`.messages` block into a `show()` call. The variant is success, warning or
danger, with the later class tests winning. The duration is 5000 ms for
success. The block is then hidden. `Drupal.notificationCard.show`/`init`
(42-60) forward to the engine when it exists. Drupal core runs every
behavior's `attach` on `DOMContentLoaded` and on each AJAX/BigPipe insertion.

**Native-only engine** (`part_002`). This is a smaller variant without Drupal
support. `init` runs at once or on `DOMContentLoaded` (24-28) and calls
`initializeCard` on every card (30-34). Unlike `part_001`, the guard is inside
`initializeCard` (41-44). It wires the button, schedules the success
auto-dismiss and the 50 ms entrance animation (46-70). `dismissCard` fades the
card and removes it after 300 ms (85-93). `show()` creates a card in the
container and initializes it (102-151). It has no events, no log and no
Escape key.

## Modules

| Module | Role |
|---|---|
| `NotificationCard.tla` | The page: engine plus adapter, one action per handler. |
| `MC_NotificationCard.tla` | Instance for TLC: one template success card with a button, one AJAX info card, one Drupal status message, two cards for `show()`. |
| `NotificationCardProofs.tla` | TLAPS proofs: type correctness, and that a rendered card is initialized at most once. |
| `NativeOnlyCard.tla` | The native-only engine (`part_002`), one action per handler, in the same style. |
| `MC_NativeOnlyCard.tla` | Instance: a success card with a button, a plain card, one card for `show()`. |
| `NativeOnlyCardProofs.tla` | TLAPS proofs: type correctness, and that every card is initialized at most once. |
| `CardLifecycle.tla` | The abstract spec of one element's lifecycle, from spec.md's state machine: uninitialized, mounted, dismissing, removed. Both engines are shown to implement it. |
| `NativeLifecycleProofs.tla` | TLAPS proof that the native-only engine implements the safety part of `CardLifecycle`. |
| `NotificationCardSafetyProofs.tla` | TLAPS proofs of `LogHoldsLatest` and, with storage working, of `MountedWhenIdle`. |
| `NotificationLifecycleProofs.tla` | TLAPS proof that the core module implements the safety part of `CardLifecycle` (`LifecycleSafety`). |

### State and how it maps to the code

| Variable | In the code |
|---|---|
| `readyState`, `nativeLoaded`, `drupalLoaded` | `document.readyState`; whether each script has run. |
| `listeners` | The `DOMContentLoaded` listeners, in registration order. |
| `work` | The `forEach` loops of the task that is running (initializeAll, the two behaviors). Each element's callback is a step of its own, because `show()` inside one changes what the next loop sees. |
| `place`, `classes`, `button` | The card is absent, in the document, or removed; its modifier classes; whether it has `.notification-dismiss`. |
| `initFlag`, `onceCard`, `onceMsg` | `data-notification-initialized`; the marks `once()` sets. |
| `inits` | How many times `initializeCard` ran on the card. This equals the number of click/keydown listeners. |
| `opacity`, `timers` | `card.style.opacity`; the pending `setTimeout` callbacks with ticks left. |
| `dismissEvents`, `removedEvents` | The `notificationDismiss` and `notificationRemoved` events dispatched. |
| `log`, `container`, `apiCalls` | `localStorage.notificationLogs`; whether `.notification-container` exists; the calls page code has made. |
| `msgHidden`, `converted`, `mounted` | Hidden Drupal messages; messages that became cards; every `logNotification` call, as history. |

### Model choices

- **Run-to-completion.** JavaScript runs one task to completion. Timers, clicks,
  API calls and AJAX (`Idle`) may only happen when no listener or loop is
  running.
- **Whole handlers.** Each action models the whole handler. For example,
  `InitializeCard` does everything `initializeCard` does: the auto timer, the
  `animateIn` timer, the log push and the flag.
- **Timers.** A timer counts down in ticks:
  - `AnimDelay` < `RemoveDelay` < `AutoDelay` keep the order of 50 < 300 < 5000 ms;
  - `Tick` happens only when no timer is due;
  - due timers fire in FIFO order, as the browser does for equal deadlines.
- **Escape key.** Escape and the click call `dismissCard` under the same
  condition, so one action, `ClickDismiss`, stands for both. Each of the card's
  `inits[c]` listener sets calls `dismissCard` once.
- **Abstractions.**
  - The hover transform is left out, because no property reads it.
  - Titles, icons, HTML and timestamps are left out.
  - A log entry is the card it was made for.
  - `show()`'s card is any absent card of `ShownCards`.
- **Failing storage.** The constant `StorageBroken` says whether localStorage
  is unusable for the page: a corrupted `notificationLogs` entry makes
  `JSON.parse` throw, or a full quota or disabled storage makes `setItem`
  throw (`part_001` 159-161). Then `LogNotification` throws at the end of
  `initializeCard`, after the listeners, the auto timer and the `animateIn`
  timer are set. The exception is modelled by where it goes:
  - it ends the running `forEach` (`NextInLoop` drops the loop, where
    `Advance` would go on to the next card);
  - Drupal core's `attachBehaviors` catches it per behavior, so the next
    behavior's loop still runs;
  - in `show()` it skips the `duration` timer, and in `convertDrupalMessages`
    it skips hiding the message.
  The runs with storage working set `StorageBroken = FALSE`.
- **Conditions as IF chains.** `getVariant`, the message-type mapping and the
  phase mapping are `IF ... ELSE IF` chains, as in the code: their conditions
  overlap, and a TLA+ `CASE` with overlapping guards picks any true arm rather
  than the first.

### The native-only module

`NativeOnlyCard` has the same state as the core module, without the events,
the log and the Drupal parts. Two differences:
- `loads` counts how often the script has run. A page may include the
  script twice (`Loads = 2`), and only then does the guard at line 41 matter.
- `pending` counts the `init` listeners still waiting for `DOMContentLoaded`.

### The abstract lifecycle and the refinements

`CardLifecycle` is what spec.md promises of each element: it is mounted, a
dismiss trigger starts its exit, and the exit ends in its removal. Phases only
move forward, one at a time, and (in `Spec`) a dismissing element is removed
in the end.

Both engines are mapped to it through `Phase(c)`, with
`Lifecycle == INSTANCE CardLifecycle WITH phase <- [c \in Cards |-> Phase(c)]`:
- "removed" once the removal callback detached the card;
- otherwise "dismissing" once `dismissCard` ran (a `notificationDismiss` event
  in the core module, the `dismissed` record in the native-only one);
- otherwise "mounted" once `initializeCard` ran;
- otherwise "uninitialized".

A second `dismissCard` is a stutter. That it can run at all is finding 2, but
it does not move the phase back.

## Runs

| Run | cfg | Expect | What it shows |
|---|---|---|---|
| safety | `MC_NotificationCard.cfg` | pass | `TypeOK`, `InitCountsFlag`, `LogHoldsLatest`, `MountedWhenIdle` and `LifecycleSafety` hold under every order of script loads, listeners, loop steps, AJAX, one API call, a click and the timers (1,340,688 states). `InitCountsFlag`: a rendered card's count equals its flag (1 or 0), so it is initialized at most once. `MountedWhenIdle`: once the engine is loaded and no task runs, every rendered card is mounted. `LifecycleSafety`: the page implements `CardLifecycle!SafetySpec`. |
| liveness | `MC_NotificationCard_live.cfg` | pass | `EveryCardMounted`, `ImplementsLifecycle` (the page implements `CardLifecycle!Spec`, so every dismissal ends in a removal) and `SuccessAutoDismissed`, under weak fairness (no API calls, to keep it small). |
| init_once | `..._InitOnce.cfg` | violation | A `show()` card is initialized twice (finding 1). The cfg sets `MaxApiCalls = 0`, so the only way to it is the listener order of finding 1, and that is the trace TLC reports. |
| single_removed_event | `..._SingleRemovedEvent.cfg` | violation | Two `notificationRemoved` events for one card (finding 2). |
| hidden_message_shown | `..._HiddenMessageShown.cfg` | violation | A Drupal message is hidden but never shown (finding 3). |
| exit_stays_faded | `..._ExitStaysFaded.cfg` | violation | A dismissed card becomes opaque again (finding 4). |
| storage_safety | `MC_NotificationCard_storage.cfg` | pass | With `StorageBroken = TRUE`, `InitCountsFlag` still holds (451,752 states). The flag is set before `initializeCard` is called (`part_001` 35-36 and 176-177), so a throw after it cannot cause a second initialization. |
| storage_abort | `..._StorageAbort.cfg` | violation | With `StorageBroken = TRUE`, a card stays unmounted on an idle page with the engine loaded (finding 6). |
| native_safety | `MC_NativeOnlyCard.cfg` | pass | `NativeCountsFlag`: with the script included twice, every card's count, `show()`'s too, is 1 if it is marked and 0 otherwise, so no card is initialized twice. |
| native_liveness | `MC_NativeOnlyCard_live.cfg` | pass | `NativeEveryCardInitialized` (whether the script runs before or after `DOMContentLoaded`) and `NativeImplementsLifecycle` (the engine implements `CardLifecycle!Spec`). |
| native_exit_stays_faded | `MC_NativeOnlyCard_ExitStaysFaded.cfg` | violation | The same fade defect in the native-only engine (finding 5). |

`CHECK_DEADLOCK FALSE` is there because a page with no pending timers, and
with its bounded API calls and clicks used up, really stops.

### Findings

1. **`show()` does not set the flag** (`part_001:246`).
   - Drupal's script registers its `DOMContentLoaded` listener before the
     engine's. `convertDrupalMessages` creates a card with `show()` during
     Drupal's listener. The engine's own listener then runs `initializeAll`,
     which initializes the card again. This is the trace of `init_once`.
   - Page code's `init()` without an element reaches a `show()` card the same
     way. The run excludes that path (`MaxApiCalls = 0`) so that its trace is
     the listener order.
   - The card gets two click listeners, two auto-dismiss timers and two log
     entries.
   - spec.md says an element is initialized at most once.
2. **`dismissCard` has no dismissing state** (`part_001:89`).
   - Any two triggers each schedule a removal and emit `notificationRemoved`.
     Examples: the auto-dismiss plus `show()`'s 5000 ms duration, or a click on
     a twice-initialized card.
   - spec.md says this happens at most once.
3. **The message is hidden unconditionally** (`shoelace-init.js:91`). When the
   engine has not loaded, the Drupal status message disappears without a
   notification.
4. **`animateIn`'s callback can undo the exit fade** (`part_001:125`). A card
   dismissed within 50 ms of initialization becomes opaque again until it is
   removed.

5. **The same defect in the native-only engine** (`part_002:66`). Its 50 ms
   callback also sets opacity 1 unconditionally.

6. **A failing log aborts the initialization of the other cards**
   (`part_001:159`).
   - spec.md (line 75) calls the diagnostic sink best-effort and purely
     observational.
   - The code lets the exception of `JSON.parse` or `setItem` escape
     `logNotification`, which ends `initializeAll`'s `forEach` after the
     first card.
   - Trace: Drupal's script loads first; its listener finds the engine
     missing, but `once()` has already marked the template card. An AJAX card
     is attached the same way. When the engine loads, `initializeAll`
     initializes the first card, throws, and never reaches the second. Its
     mark keeps every later behavior from retrying, so it never gets its
     dismiss listener, its auto-dismiss or its entrance.

The native-only file's header (line 14) says it has "no protection against
double-initialization". Yet `initializeCard` tests `data-initialized` (line
41), and `native_safety` and `NativeCountsFlagInvariant` show that the guard does
protect it.

### Bounds

- **Cards and messages.** One template card, one AJAX card, one message and two
  `show()` cards are enough for every interaction the code has:
  - a card rendered at load;
  - a card arriving later;
  - a card made from a message;
  - a card made by page code.
- **Variants.** The success variant and the info variant cover both branches of
  the auto-dismiss test.
- **Other bounds:**
  - `MaxApiCalls = 1` lets page code call `show`, `init()` or `init(card)` once;
  - `MaxDismiss = 1` allows one click per card;
  - `LogCap = 2` is reached by the three initializations a run can make, so the
    cut of the log happens.
- **Native-only.** `Loads = 2` includes the script twice. This is the case the
  guard is for. Two markup cards (one success with a button, one plain) and
  one `show()` card cover both variants and both ways a card appears.

### Fairness

The browser always runs a script that is loaded, a queued listener, the next
iteration of a running loop, a due timer, and the passing of time. These get
weak fairness.

The user and page code are not obliged to act, so `AjaxInsert`, `Api*` and
`ClickDismiss` have no fairness.

## Proofs (`NotificationCardProofs.tla`, checked by `tlapm`)

- **`TypeCorrect`: `Spec => []TypeOK`** for all values of the constants that
  satisfy the module's `ASSUME`s.
  - The helper lemmas say what `Loop`, `Advance`, `LogPush`, `InitializeCard`,
    `GuardedInit`, `DismissTimes` and `Show` do to the types. `LogPushType`
    shows the log never exceeds `LogCap`.
  - `FirstDue` proves that the first due timer exists and is in range. It uses
    the well-foundedness of `<` on `Nat`.
  - There is one lemma per group of actions.
- **`InitCountsFlagInvariant`: `Spec => []InitCountsFlag`.** For a rendered card,
  `inits = 1` if its flag is set and `0` otherwise.
  - It gives "initialized at most once" (`inits <= 1`) for every rendered
    card. That weaker statement alone is not inductive, since a card with
    `inits = 1` and no flag could be initialized again.
  - It is inductive given `TypeOK`.
    - `GuardedInit` moves both together.
    - `Show` only touches a card of `ShownCards`, which `CardsAssumption` makes
      disjoint from the rendered cards.
    - All other actions leave both unchanged.

## Proofs (`NativeOnlyCardProofs.tla`)

- **`NativeTypeCorrect`: `Spec => []TypeOK`**. There is one lemma per
  helper (`InitializeCard`, `DismissCard`, `Rest`, the first due timer) and
  per group of actions.
- **`NativeCountsFlagInvariant`: `Spec => []NativeCountsFlag`**.
  `NativeCountsFlag` says two things:
  - a card's count is 1 if it is marked and 0 otherwise;
  - an absent card is unmarked and in no running `init` loop.
  The second part is what makes the first one inductive. `show()` takes an
  absent card, so its guard passes and the count goes from 0 to 1. An `init`
  loop only holds cards in the document (`Load` and `RunListener` set it to
  `InDoc`), and `card.remove()` never makes a card absent again.

## Proofs (`NativeLifecycleProofs.tla`)

**`NativeRefinesLifecycle`: `Spec => Lifecycle!SafetySpec`**, for all values
of the constants. The argument:
- `Init` maps to `Lifecycle!Init`: no card is marked, dismissed or removed.
- The inductive invariant `LifeInv` (checked by TLC on the native_safety
  instance before it was proved) says:
  - a dismissed card is marked;
  - a removed card is dismissed;
  - every pending timer belongs to a marked card, and a removal timer to a
    dismissed one (`Owned`).
  The last part is what the mapping needs. The auto-dismiss timer may only
  move a mounted card to dismissing, and a removal timer only a dismissing
  card to removed.
- `LifeInvStep` proves `LifeInv` inductive given `TypeOK` and
  `NativeCountsFlag`. The lemmas `ConcatOwned`, `RestOwned` and
  `OwnedMonotone` cover the timer queue.
- `PhaseStep` has one case per action. It shows that each step is
  `Lifecycle!Mount`, `Dismiss` or `Remove` of one card, or leaves `PhaseBar`
  unchanged:
  - `InitStep` on an unmarked card, and `ApiShow`, mount it. `ApiShow` takes
    an absent card, which `NativeCountsFlag` makes unmarked.
  - A click or the auto timer on a card not yet dismissed dismisses it.
    Otherwise the step is a stutter (`DismissAgain`).
  - The removal timer removes a card that is in the document. Otherwise the
    step is a stutter.

## Proofs (`NotificationCardSafetyProofs.tla`)

- **`LogHoldsLatestInvariant`: `Spec => []LogHoldsLatest`.**
  - `Latest(s)` is what `logs.slice(-LogCap)` keeps of `s`: its last `LogCap`
    elements.
  - `LatestPush` is the lemma on the operator: pushing onto the latest
    `LogCap` elements and then slicing gives the latest `LogCap` elements of
    the longer history. It is proved from `SubSeqProperties`, split on
    whether the pushed sequence overflows.
  - `LogHoldsLatest` is inductive as stated, given `TypeOK`.
    `InitializeCardLog` covers `logNotification` with storage working. With
    `StorageBroken`, neither `log` nor `mounted` moves.
- **`MountedWhenIdleInvariant`: `~StorageBroken => (Spec => []MountedWhenIdle)`.**
  - The hypothesis is necessary. The `storage_abort` run shows the property
    fails when `logNotification` throws, because the throw ends
    `initializeAll`'s loop.
  - `MountedWhenIdle` is not inductive. The strengthening `MountInv` (checked
    by TLC on the safety instance, 1,340,688 states, before it was proved)
    has three parts:
    - `Owned(timers, inits, dismissEvents)`: every pending timer belongs to
      an initialized card, and a removal timer to a dismissed one. A removal
      callback therefore never detaches a card that is still waiting to be
      initialized.
    - `NotOnce`: an absent rendered card has no `once()` mark, so the AJAX
      attach puts it in an `attachCard` loop.
    - `Covered`: a rendered card in the page that is not yet initialized is
      "in" the document. Also, at least one of these holds:
      - the engine has not loaded;
      - a `native` `DOMContentLoaded` listener is queued (`NativeQueued`);
      - the card is in the todo set of a running `init` or `attachCard` loop
        (`InLoop`).
  - On an idle page the last two are false, which gives the property
    (`MountInvIdle`).
  - `CoveredStep` has one case per action:
    - `AdvanceInLoop`: a loop step on another element keeps the card in the
      loop.
    - `TailQueued` and `AppendQueued`: listener queue steps keep `native`
      queued.
    - `LoopInDoc`: `initializeAll` takes every card in the document.
    - `LoopCovered`: a loop step on the card itself initializes it.
      `InitCountsFlag` shows the flag test passes.
    - `KeepCovered`: the steps that touch none of these.
    - `AjaxInsert`: the inserted card enters an `attachCard` loop (by
      `NotOnce`); every other pending card waits for the engine (by
      `IdleCovered`).
  - `OwnedStep` proves `Owned` inductive for every value of `StorageBroken`,
    together with `Grow` (counts never decrease).

## Proofs (`NotificationLifecycleProofs.tla`)

**`RefinesLifecycle`: `Spec => LifecycleSafety`**, for all values of the
constants, `StorageBroken` included. The proof:
- `StepShape` sorts every step of `Next` into one of four shapes:
  - quiet: no count moves and no card is detached;
  - `InitShape(c)`: `initializeCard` on `c`, from `init()`, `initializeAll`,
    the Drupal behavior or `show()`;
  - `DismissShape(c, k)`: `dismissCard` `k` times on an initialized card;
  - `RemoveShape(c)`: the removal callback on a dismissed card.
  The last two use `Owned` for the timer cases.
- The inductive invariant `LifeInv` (TLC-checked with storage working,
  1,340,688 states, and broken, 451,752 states) says:
  - a card with a `notificationDismiss` is initialized;
  - a detached card has had one;
  - `Owned` holds.
  `LifeInvStep` proves it once per shape.
- `PhaseStep` maps each shape to the lifecycle:
  - `initializeCard` on a card with count 0 is `Mount`. `LifeInv` makes it
    neither dismissing nor removed. On any other card it is a stutter, as
    for a second `init()` of a `show()` card.
  - The first `dismissCard` is `Dismiss`; later calls are stutters.
  - The removal callback on a card in the document is `Remove`; otherwise
    it is a stutter.
- The core module needs no flag invariant for this: the phase reads the
  counts themselves.

## What only TLC checks

- The temporal halves of `ImplementsLifecycle` and
  `NativeImplementsLifecycle` (every dismissal ends in a removal), and the
  liveness properties `EveryCardMounted`, `SuccessAutoDismissed` and
  `NativeEveryCardInitialized`. TLAPS does not reason about fairness or
  `ENABLED`.
- The violation runs, which are counterexamples rather than theorems.

## Not modelled

- **The hover transform** in both engines (`part_001` 66-72, `part_002`
  72-79). It only changes `style.transform`, which no property reads.
- **The Shoelace CDN loader** (`shoelace-init.js` 1-8), which is pure I/O.
- **The Markdown documentation and slides.**
- **Drupal core's `attachBehaviors`, `once()` and AJAX delivery.** They are
  modelled only as far as the adapter relies on them (`LoadDrupal`, `Attach`,
  `AjaxInsert`).
